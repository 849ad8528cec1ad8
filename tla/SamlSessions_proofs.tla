-------------------------- MODULE SamlSessions_proofs --------------------------
(***************************************************************************)
(* The two maps of the SAML provider agree as long as requests do not      *)
(* overlap, logouts end what they are about, and even overlapping logouts  *)
(* end nobody else's sessions, for any number of requests, sessions and    *)
(* NameIDs.                                                                *)
(***************************************************************************)
EXTENDS SamlSessions, TLAPS

Tables ==
  /\ live \subseteq Ids
  /\ nameOf \in [Ids -> NameIDs \cup {None}]
  /\ index \in [NameIDs -> SUBSET Ids]
  /\ overlapped \in BOOLEAN
  /\ \A u \in NameIDs : \A s \in index[u] : nameOf[s] = u
  /\ \A s \in live : nameOf[s] # None

\* What a request holds: lists have only sessions of their NameID, as stored
\* ones do, and so has what a logout is going to delete.
Sound(r) ==
  /\ r \in Request
  /\ r.phase \in {"chosen", "unlinking", "dropping", "stored", "linking"}
       => r.id # None /\ nameOf[r.id] # None
  /\ r.kind = "name" => r.name \in NameIDs /\ \A s \in Deleting(r) : nameOf[s] = r.name
  /\ r.phase = "finding" => r.kind = "name" /\ \A s \in r.view : nameOf[s] = r.name
  /\ r.phase \in {"stored", "linking"} => r.kind = "login" /\ r.name \in NameIDs /\ nameOf[r.id] = r.name
  /\ r.phase = "linking" => \A s \in r.view : nameOf[s] = r.name
  /\ r.phase = "unlinking" => \A s \in r.view : nameOf[s] = nameOf[r.id]

\* Who has not been overlapped is the only one.
Solitude ==
  \A p \in Procs : Busy(p) =>
     /\ ~overlapped => req[p].alone
     /\ req[p].alone => \A q \in Procs \ {p} : ~Busy(q)

\* How the maps agree while one request works on them.
Pending(r) == IF r.phase \in {"stored", "linking", "dropping"} THEN {r.id} ELSE {}

InStep(r) ==
  /\ IF r.phase = "closing" THEN live = {}
     ELSE \A u \in NameIDs : index[u] = SessionsOf(u) \ Pending(r)
  /\ r.phase = "linking" => r.view = index[r.name]
  /\ r.phase = "unlinking" => r.view = index[nameOf[r.id]] /\ r.at = r.id
  /\ r.phase \in {"stored", "linking", "chosen", "unlinking", "dropping"} => r.id \in live

Agreement == ~overlapped => IndexAgrees /\ \A p \in Procs : Busy(p) => InStep(req[p])

\* What a logout has not yet seen to is still ahead of it.
Ahead(r) == Deleting(r) \cup (IF r.phase = "finding" THEN r.view ELSE {})

Covers(r) ==
  /\ r.kind = "all" => live \subseteq Ahead(r)
  /\ r.kind = "name" /\ ~overlapped => SessionsOf(r.name) \subseteq Ahead(r)

Coverage == \A p \in Procs : Busy(p) /\ req[p].alone => Covers(req[p])

MapsInv == Tables /\ (\A p \in Procs : Sound(req[p])) /\ req \in [Procs -> Request]
             /\ Solitude /\ Agreement /\ Coverage

-----------------------------------------------------------------------------
\* What SLOManager keeps has nothing to do with the sessions.
SloTypes == /\ states \in [Requests -> NameIDs \cup {None}]
            /\ byName \in [NameIDs -> [Requests -> 0..MaxSent]]
            /\ reply \in [Procs -> Requests \cup {None}]

LEMMA StartSLOInv ==
  ASSUME SloTypes, TrackedByName, NEW r \in Requests, NEW u \in NameIDs,
         byName[u][r] < MaxSent, StartSLO(r, u)
  PROVE  SloTypes' /\ TrackedByName'
<1>. USE MaxSentIsNumber, NoneIsNone
<1>0. /\ byName[u] \in [Requests -> 0..MaxSent]
      /\ byName' = [byName EXCEPT ![u] = [byName[u] EXCEPT ![r] = byName[u][r] + 1]]
  BY DEF SloTypes, StartSLO
<1>1. byName' \in [NameIDs -> [Requests -> 0..MaxSent]]
  <2>1. byName[u][r] + 1 \in 0..MaxSent
    BY <1>0
  <2>2. [byName[u] EXCEPT ![r] = byName[u][r] + 1] \in [Requests -> 0..MaxSent]
    BY <1>0, <2>1
  <2>. QED BY <1>0, <2>2 DEF SloTypes
<1>2. \A v \in NameIDs, q \in Requests : byName'[v][q] = byName[v][q] \/ (v = u /\ q = r)
  BY <1>0 DEF SloTypes
<1>3. byName'[u][r] > 0
  BY <1>0 DEF SloTypes
<1>4. \A q \in Requests : states'[q] = IF q = r THEN u ELSE states[q]
  BY DEF SloTypes, StartSLO
<1>5. SloTypes'
  BY <1>1 DEF SloTypes, StartSLO
<1>6. ASSUME NEW q \in Requests, states'[q] # None PROVE byName'[states'[q]][q] > 0
  <2>1. CASE q = r
    BY <2>1, <1>3, <1>4
  <2>2. CASE q # r
    <3>1. states[q] \in NameIDs /\ byName[states[q]][q] > 0
      BY <1>4, <1>6, <2>2 DEF SloTypes, TrackedByName
    <3>2. byName'[states[q]][q] = byName[states[q]][q]
      BY <1>2, <2>2, <3>1
    <3>. QED BY <1>4, <2>2, <3>1, <3>2
  <2>. QED BY <2>1, <2>2
<1>. QED BY <1>5, <1>6 DEF TrackedByName

LEMMA ReplyInv ==
  ASSUME SloTypes, TrackedByName, NEW p \in Procs,
         (\E r \in Requests : HandleLogoutResponse(p, r)) \/ CompleteSLO(p)
  PROVE  SloTypes' /\ TrackedByName'
<1>. USE MaxSentIsNumber, NoneIsNone
<1>1. CASE \E r \in Requests : HandleLogoutResponse(p, r)
  BY <1>1 DEF HandleLogoutResponse, SloTypes, TrackedByName
<1>2. CASE CompleteSLO(p) /\ states[reply[p]] = None
  BY <1>2 DEF CompleteSLO, SloTypes, TrackedByName
<1>3. CASE CompleteSLO(p) /\ states[reply[p]] # None
  <2>. DEFINE r == reply[p]  u == states[r]
  <2>1. r \in Requests /\ u \in NameIDs
    BY <1>3 DEF CompleteSLO, SloTypes
  <2>2. /\ states' = [states EXCEPT ![r] = None]
        /\ byName' = [byName EXCEPT ![u] = [byName[u] EXCEPT ![r] = IF byName[u][r] > 0 THEN byName[u][r] - 1 ELSE 0]]
        /\ reply' = [reply EXCEPT ![p] = None]
    BY <1>3 DEF CompleteSLO
  <2>3. byName[u] \in [Requests -> 0..MaxSent]
    BY <2>1 DEF SloTypes
  <2>4. [byName[u] EXCEPT ![r] = IF byName[u][r] > 0 THEN byName[u][r] - 1 ELSE 0] \in [Requests -> 0..MaxSent]
    BY <2>1, <2>3
  <2>5. SloTypes'
    BY <2>1, <2>2, <2>4 DEF SloTypes
  <2>6. \A v \in NameIDs, q \in Requests \ {r} : byName'[v][q] = byName[v][q]
    BY <2>1, <2>2, <2>3 DEF SloTypes
  <2>7. \A q \in Requests : states'[q] = IF q = r THEN None ELSE states[q]
    BY <2>1, <2>2 DEF SloTypes
  <2>8. \A q \in Requests : states[q] # None => states[q] \in NameIDs
    BY DEF SloTypes
  <2>9. TrackedByName'
    BY <2>6, <2>7, <2>8 DEF TrackedByName
  <2>. QED BY <2>5, <2>9
<1>. QED BY <1>1, <1>2, <1>3

IInv == MapsInv /\ SloTypes /\ TrackedByName /\ closed \in BOOLEAN

-----------------------------------------------------------------------------
\* A step of a request that leaves the maps as they are.
LEMMA QuietInv ==
  ASSUME MapsInv, NEW p \in Procs, NEW r, Busy(p),
         req' = [req EXCEPT ![p] = r], UNCHANGED <<maps, overlapped>>,
         r.phase # "idle", r.alone = req[p].alone, Sound(r),
         ~overlapped => InStep(r), r.alone => Covers(r)
  PROVE  MapsInv'
<1>. USE DEF MapsInv, maps
<1>1. req' \in [Procs -> Request] /\ \A q \in Procs : req'[q] = IF q = p THEN r ELSE req[q]
  BY DEF Sound
<1>2. Tables'
  BY DEF Tables
<1>3. \A q \in Procs : Sound(req[q])'
  BY <1>1 DEF Sound, Deleting
<1>4. \A q \in Procs : Busy(q)' <=> Busy(q)
  BY <1>1 DEF Busy
<1>5. Solitude'
  BY <1>1, <1>4 DEF Solitude
<1>6. Agreement'
  <2>1. \A q \in Procs : ~overlapped /\ Busy(q) => InStep(req[q])'
    BY <1>1 DEF Agreement, InStep, SessionsOf, Pending
  <2>2. IndexAgrees'
    BY <1>4 DEF IndexAgrees
  <2>. QED BY <1>4, <2>1, <2>2 DEF Agreement
<1>7. Coverage'
  <2>1. \A q \in Procs : Busy(q) /\ req'[q].alone => Covers(req[q])'
    BY <1>1 DEF Coverage, Covers, Ahead, Deleting, SessionsOf
  <2>. QED BY <1>4, <2>1 DEF Coverage
<1>. QED BY <1>1, <1>2, <1>3, <1>5, <1>6, <1>7

\* What Begin does to the requests: only to be alone is different.
Like(n, r) == /\ n \in Request /\ n.phase = r.phase /\ n.kind = r.kind /\ n.name = r.name
              /\ n.id = r.id /\ n.view = r.view /\ n.todo = r.todo

LEMMA BeginStep ==
  ASSUME req \in [Procs -> Request], overlapped \in BOOLEAN,
         NEW p \in Procs, NEW r \in Request, r.phase # "idle", Begin(p, r)
  PROVE  /\ req' \in [Procs -> Request]
         /\ \A q \in Procs \ {p} : Like(req'[q], req[q]) /\ (Busy(q)' <=> Busy(q))
         /\ Like(req'[p], r) /\ ~Busy(p) /\ Busy(p)'
         /\ \/ /\ \A q \in Procs : ~Busy(q)
               /\ req'[p].alone /\ overlapped' = overlapped
            \/ /\ \A q \in Procs : Busy(q)' => ~req'[q].alone
               /\ overlapped' = TRUE
<1>. DEFINE others == {q \in Procs \ {p} : Busy(q)}
            r0 == [r EXCEPT !.alone = others = {}]
<1>1. /\ ~Busy(p)
      /\ req' = [q \in Procs |-> IF q = p THEN r0
                                 ELSE IF q \in others THEN [req[q] EXCEPT !.alone = FALSE]
                                 ELSE req[q]]
      /\ overlapped' = (overlapped \/ others # {})
  BY Zenon DEF Begin
<1>. HIDE DEF others
<1>2. Like(r0, r) /\ r0.alone = (others = {})
  BY DEF Like, Request
<1>3. \A q \in Procs \ {p} :
        Like([req[q] EXCEPT !.alone = FALSE], req[q]) /\ ~[req[q] EXCEPT !.alone = FALSE].alone
  BY DEF Like, Request
<1>. HIDE DEF r0
<1>4. \A q \in Procs \ {p} : Like(req'[q], req[q]) /\ (q \in others => ~req'[q].alone)
  <2>1. \A q \in Procs \ {p} : Like(req[q], req[q])
    BY DEF Like
  <2>. QED BY <1>1, <1>3, <2>1
<1>5. req'[p] = r0
  BY <1>1
<1>6. req' \in [Procs -> Request]
  BY <1>1, <1>2, <1>3 DEF Like
<1>7. \A q \in Procs \ {p} : (Busy(q)' <=> Busy(q)) /\ (Busy(q) <=> q \in others)
  BY <1>4 DEF Busy, Like, others
<1>8. Busy(p)'
  BY <1>2, <1>5 DEF Busy, Like
<1>9. CASE others = {}
  BY <1>1, <1>2, <1>4, <1>5, <1>6, <1>7, <1>8, <1>9
<1>10. CASE others # {}
  <2>1. \A q \in Procs : Busy(q)' => ~req'[q].alone
    BY <1>2, <1>4, <1>5, <1>7, <1>10
  <2>. QED BY <1>1, <1>2, <1>4, <1>5, <1>6, <1>7, <1>8, <1>10, <2>1
<1>. QED BY <1>9, <1>10

\* A logout comes. With nobody else there, it finds the maps in agreement.
LEMMA BeginInv ==
  ASSUME MapsInv, NEW p \in Procs, NEW r, Begin(p, r), UNCHANGED maps,
         r.phase \in {"finding", "sweeping"}, Sound(r), r.alone,
         (\A q \in Procs : ~Busy(q)) => Covers(r)
  PROVE  MapsInv'
<1>. USE DEF MapsInv, maps
<1>0. r \in Request /\ r.phase # "idle" /\ overlapped \in BOOLEAN
  BY DEF Sound, Tables
<1>1. /\ req' \in [Procs -> Request]
      /\ \A q \in Procs \ {p} : Like(req'[q], req[q]) /\ (Busy(q)' <=> Busy(q))
      /\ Like(req'[p], r) /\ ~Busy(p) /\ Busy(p)'
  BY <1>0, BeginStep, Zenon
<1>2. Tables'
  <2>1. overlapped' \in BOOLEAN
    BY <1>0, BeginStep
  <2>. QED BY <2>1 DEF Tables
<1>3. \A q \in Procs : Sound(req[q])'
  <2>1. Sound(req[p])'
    BY <1>1 DEF Sound, Deleting, Like
  <2>2. \A q \in Procs \ {p} : Sound(req[q])'
    BY <1>1 DEF Sound, Deleting, Like
  <2>. QED BY <2>1, <2>2
<1>4. CASE /\ \A q \in Procs : ~Busy(q)
           /\ req'[p].alone /\ overlapped' = overlapped
  <2>1. \A q \in Procs \ {p} : ~Busy(q)'
    BY <1>1, <1>4
  <2>2. Solitude'
    BY <1>4, <2>1 DEF Solitude
  <2>3. ~overlapped => InStep(req[p])'
    BY <1>1, <1>4 DEF Agreement, IndexAgrees, InStep, Pending, SessionsOf, Like
  <2>4. Agreement'
    BY <1>1, <1>4, <2>1, <2>3 DEF Agreement, IndexAgrees
  <2>5. Covers(req[p])'
    BY <1>1, <1>4 DEF Covers, Ahead, Deleting, SessionsOf, Like
  <2>6. Coverage'
    BY <2>1, <2>5 DEF Coverage
  <2>. QED BY <1>1, <1>2, <1>3, <2>2, <2>4, <2>6
<1>5. CASE /\ \A q \in Procs : Busy(q)' => ~req'[q].alone
           /\ overlapped' = TRUE
  <2>1. Solitude' /\ Agreement' /\ Coverage'
    BY <1>5 DEF Solitude, Agreement, Coverage
  <2>. QED BY <1>1, <1>2, <1>3, <2>1
<1>. QED BY <1>0, <1>4, <1>5, BeginStep

\* CreateSession stores a session that no list and no request knows.
LEMMA CreateSessionInv ==
  ASSUME MapsInv, NEW p \in Procs, NEW s \in Ids, NEW u \in NameIDs, CreateSession(p, s, u)
  PROVE  MapsInv'
<1>. DEFINE r == [Idle EXCEPT !.phase = "stored", !.kind = "login", !.name = u, !.id = s]
<1>. USE NoneIsNone DEF MapsInv
<1>a. /\ r \in Request /\ r.phase = "stored" /\ r.kind = "login" /\ r.name = u /\ r.id = s
      /\ r.alone /\ r.view = {} /\ r.todo = {}
  BY DEF Idle, Request, Phases
<1>b. /\ Begin(p, r) /\ nameOf[s] = None /\ live' = live \cup {s}
      /\ nameOf' = [nameOf EXCEPT ![s] = u] /\ index' = index
  BY DEF CreateSession
<1>. HIDE DEF r
<1>0. r \in Request /\ r.phase # "idle" /\ overlapped \in BOOLEAN
  BY <1>a DEF Tables
<1>1. /\ req' \in [Procs -> Request]
      /\ \A q \in Procs \ {p} : Like(req'[q], req[q]) /\ (Busy(q)' <=> Busy(q))
      /\ Like(req'[p], r) /\ ~Busy(p) /\ Busy(p)'
  BY <1>0, <1>b, BeginStep, Zenon
<1>n. /\ \A t \in Ids : nameOf'[t] = IF t = s THEN u ELSE nameOf[t]
      /\ u # None /\ s # None /\ s \notin live
      /\ \A v \in NameIDs : v # None /\ s \notin index[v]
  BY <1>b DEF Tables
<1>2. Tables'
  <2>1. overlapped' \in BOOLEAN
    BY <1>0, <1>b, BeginStep
  <2>2. /\ live' \subseteq Ids /\ nameOf' \in [Ids -> NameIDs \cup {None}]
        /\ index' \in [NameIDs -> SUBSET Ids]
    BY <1>b DEF Tables
  <2>3. \A t \in live' : nameOf'[t] # None
    BY <1>b, <1>n DEF Tables
  <2>4. \A v \in NameIDs : \A t \in index'[v] : nameOf'[t] = v
    BY <1>b, <1>n DEF Tables
  <2>. QED BY <2>1, <2>2, <2>3, <2>4 DEF Tables
<1>3. \A q \in Procs : Sound(req[q])'
  <2>1. Sound(req[p])'
    BY <1>a, <1>1, <1>n DEF Sound, Deleting, Like
  <2>2. ASSUME NEW q \in Procs \ {p} PROVE Sound(req[q])'
    <3>1. Sound(req[q]) /\ Like(req'[q], req[q]) /\ req[q] \in Request
      BY <1>1
    <3>2. req[q].view \subseteq Ids /\ req[q].todo \subseteq Ids /\ req[q].id \in Ids \cup {None}
          /\ req[q].name \in NameIDs \cup {None}
      BY <3>1 DEF Request
    <3>3. \A t \in Ids : nameOf[t] # None => nameOf'[t] = nameOf[t]
      BY <1>b, <1>n
    <3>4. Deleting(req[q])' = Deleting(req[q])
      BY <3>1 DEF Deleting, Like
    <3>5. req[q].kind = "name" => \A t \in Deleting(req[q]) : t \in Ids
      BY <3>1, <3>2 DEF Deleting, Sound
    <3>6. req[q].kind = "name" => \A t \in Deleting(req[q]) : nameOf'[t] = req[q].name
      BY <1>n, <3>1, <3>3, <3>5 DEF Sound
    <3>7. req[q].phase \in {"finding", "linking"} => \A t \in req[q].view : nameOf'[t] = req[q].name
      BY <1>n, <3>1, <3>2, <3>3 DEF Sound
    <3>8. req[q].phase = "unlinking" => \A t \in req[q].view : nameOf'[t] = nameOf'[req[q].id]
      BY <1>n, <3>1, <3>2, <3>3 DEF Sound
    <3>9. req[q].phase \in {"chosen", "unlinking", "dropping", "stored", "linking"}
            => nameOf'[req[q].id] = nameOf[req[q].id]
      BY <3>1, <3>2, <3>3 DEF Sound
    <3>. QED BY <3>1, <3>4, <3>6, <3>7, <3>8, <3>9 DEF Sound, Like
  <2>. QED BY <2>1, <2>2
<1>4. CASE /\ \A q \in Procs : ~Busy(q)
           /\ req'[p].alone /\ overlapped' = overlapped
  <2>1. \A q \in Procs \ {p} : ~Busy(q)'
    BY <1>1, <1>4
  <2>2. Solitude'
    BY <1>4, <2>1 DEF Solitude
  <2>3. ~overlapped => InStep(req[p])'
    <3>. SUFFICES ASSUME ~overlapped PROVE InStep(req[p])'
      OBVIOUS
    <3>1. \A v \in NameIDs : index[v] = SessionsOf(v)
      BY <1>4 DEF Agreement, IndexAgrees
    <3>2. \A v \in NameIDs : SessionsOf(v)' \ {s} = SessionsOf(v)
      BY <1>b, <1>n DEF SessionsOf, Tables
    <3>3. Pending(req[p])' = {s} /\ req'[p].phase = "stored" /\ req'[p].id \in live'
      BY <1>a, <1>b, <1>1 DEF Pending, Like
    <3>. QED BY <1>b, <3>1, <3>2, <3>3 DEF InStep
  <2>4. Agreement'
    BY <1>1, <1>4, <2>1, <2>3 DEF Agreement, IndexAgrees
  <2>5. Coverage'
    BY <1>a, <1>1, <2>1 DEF Coverage, Covers, Like
  <2>. QED BY <1>1, <1>2, <1>3, <2>2, <2>4, <2>5
<1>5. CASE /\ \A q \in Procs : Busy(q)' => ~req'[q].alone
           /\ overlapped' = TRUE
  <2>1. Solitude' /\ Agreement' /\ Coverage'
    BY <1>5 DEF Solitude, Agreement, Coverage
  <2>. QED BY <1>1, <1>2, <1>3, <2>1
<1>. QED BY <1>0, <1>b, <1>4, <1>5, BeginStep

-----------------------------------------------------------------------------
LEMMA LogoutInv ==
  ASSUME MapsInv, NEW p \in Procs, UNCHANGED maps,
         \/ \E u \in NameIDs : Begin(p, Finding(u))
         \/ \E s \in Ids : DemoLogoutOne(p, s)
         \/ DemoLogoutAll(p)
  PROVE  MapsInv'
<1>. USE NoneIsNone DEF Idle
<1>1. ASSUME NEW u \in NameIDs, Begin(p, Finding(u)) PROVE MapsInv'
  <2>. DEFINE r == Finding(u)
  <2>1. /\ r \in Request /\ r.phase = "finding" /\ r.kind = "name" /\ r.name = u
        /\ r.id = None /\ r.view = index[u] /\ r.todo = {} /\ r.alone
    BY DEF Finding, Request, Phases, MapsInv, Tables
  <2>2. Begin(p, r)
    BY <1>1
  <2>. HIDE DEF r
  <2>3. Sound(r)
    BY <2>1 DEF Sound, Deleting, MapsInv, Tables
  <2>4. (\A q \in Procs : ~Busy(q)) => Covers(r)
    BY <2>1 DEF Covers, Ahead, MapsInv, Agreement, IndexAgrees
  <2>. QED BY <2>1, <2>2, <2>3, <2>4, BeginInv
<1>2. ASSUME NEW s \in Ids, DemoLogoutOne(p, s) PROVE MapsInv'
  <2>. DEFINE r == [Idle EXCEPT !.phase = "sweeping", !.kind = "one", !.id = s, !.todo = {s}]
  <2>1. /\ r \in Request /\ r.phase = "sweeping" /\ r.kind = "one" /\ r.alone
    BY DEF Request, Phases
  <2>2. Begin(p, r)
    BY <1>2 DEF DemoLogoutOne
  <2>. HIDE DEF r
  <2>3. Sound(r) /\ Covers(r)
    BY <2>1 DEF Sound, Covers
  <2>. QED BY <2>1, <2>2, <2>3, BeginInv
<1>3. ASSUME DemoLogoutAll(p) PROVE MapsInv'
  <2>. DEFINE r == [Idle EXCEPT !.phase = "sweeping", !.kind = "all", !.todo = live]
  <2>1. /\ r \in Request /\ r.phase = "sweeping" /\ r.kind = "all" /\ r.todo = live /\ r.alone
    BY DEF Request, Phases, MapsInv, Tables
  <2>2. Begin(p, r)
    BY <1>3 DEF DemoLogoutAll
  <2>. HIDE DEF r
  <2>3. Sound(r) /\ Covers(r)
    BY <2>1 DEF Sound, Covers, Ahead, Deleting
  <2>. QED BY <2>1, <2>2, <2>3, BeginInv
<1>. QED BY <1>1, <1>2, <1>3

\* Going through a list: what is taken out of it is dead or to be deleted.
LEMMA FindInv ==
  ASSUME MapsInv, NEW p \in Procs, (\E s \in Ids : FindSession(p, s)) \/ Found(p)
  PROVE  MapsInv'
<1>0. req[p] \in Request /\ Sound(req[p]) /\ (Busy(p) /\ req[p].alone => Covers(req[p]))
      /\ (~overlapped /\ Busy(p) => InStep(req[p]))
  BY DEF MapsInv, Coverage, Agreement
<1>1. ASSUME NEW s \in Ids, FindSession(p, s) PROVE MapsInv'
  <2>. DEFINE r == [req[p] EXCEPT !.view = @ \ {s},
                                  !.todo = IF s \in live THEN @ \cup {s} ELSE @]
  <2>1. /\ req[p].phase = "finding" /\ s \in req[p].view
        /\ req' = [req EXCEPT ![p] = r] /\ UNCHANGED <<maps, overlapped>>
    BY <1>1 DEF FindSession, Continue
  <2>2. /\ r \in Request /\ r.phase = "finding" /\ r.kind = req[p].kind /\ r.name = req[p].name
        /\ r.id = req[p].id /\ r.alone = req[p].alone /\ r.view = req[p].view \ {s}
        /\ r.todo = IF s \in live THEN req[p].todo \cup {s} ELSE req[p].todo
    BY <1>0, <2>1 DEF Request
  <2>. HIDE DEF r
  <2>3. Busy(p) /\ r.phase # "idle"
    BY <2>1, <2>2 DEF Busy
  <2>4. Sound(r)
    BY <1>0, <2>1, <2>2 DEF Sound, Deleting
  <2>5. ~overlapped => InStep(r)
    BY <1>0, <2>1, <2>2, <2>3 DEF InStep, Pending
  <2>6. r.alone => Covers(r)
    BY <1>0, <2>1, <2>2, <2>3 DEF Covers, Ahead, Deleting, SessionsOf
  <2>. QED BY <2>1, <2>2, <2>3, <2>4, <2>5, <2>6, QuietInv
<1>2. ASSUME Found(p) PROVE MapsInv'
  <2>. DEFINE r == [req[p] EXCEPT !.phase = "sweeping"]
  <2>1. /\ req[p].phase = "finding" /\ req[p].view = {}
        /\ req' = [req EXCEPT ![p] = r] /\ UNCHANGED <<maps, overlapped>>
    BY <1>2 DEF Found, Continue
  <2>2. /\ r \in Request /\ r.phase = "sweeping" /\ r.kind = req[p].kind /\ r.name = req[p].name
        /\ r.id = req[p].id /\ r.alone = req[p].alone /\ r.view = req[p].view /\ r.todo = req[p].todo
    BY <1>0, <2>1 DEF Request, Phases
  <2>. HIDE DEF r
  <2>3. Busy(p) /\ r.phase # "idle"
    BY <2>1, <2>2 DEF Busy
  <2>4. Sound(r)
    BY <1>0, <2>1, <2>2 DEF Sound, Deleting
  <2>5. ~overlapped => InStep(r)
    BY <1>0, <2>1, <2>2, <2>3 DEF InStep, Pending
  <2>6. r.alone => Covers(r)
    BY <1>0, <2>1, <2>2, <2>3 DEF Covers, Ahead, Deleting
  <2>. QED BY <2>1, <2>2, <2>3, <2>4, <2>5, <2>6, QuietInv
<1>. QED BY <1>1, <1>2

LEMMA ReadInv ==
  ASSUME MapsInv, NEW p \in Procs, ReadList(p) \/ ReadForDelete(p)
  PROVE  MapsInv'
<1>0. req[p] \in Request /\ Sound(req[p]) /\ (Busy(p) /\ req[p].alone => Covers(req[p]))
      /\ (~overlapped /\ Busy(p) => InStep(req[p])) /\ Tables
  BY DEF MapsInv, Coverage, Agreement
<1>1. ASSUME ReadList(p) PROVE MapsInv'
  <2>. DEFINE r == [req[p] EXCEPT !.phase = "linking", !.view = index[req[p].name]]
  <2>1. /\ req[p].phase = "stored" /\ req[p].name \in NameIDs
        /\ req' = [req EXCEPT ![p] = r] /\ UNCHANGED <<maps, overlapped>>
    BY <1>0, <1>1 DEF ReadList, Continue, Sound
  <2>2. /\ r \in Request /\ r.phase = "linking" /\ r.kind = req[p].kind /\ r.name = req[p].name
        /\ r.id = req[p].id /\ r.alone = req[p].alone /\ r.view = index[req[p].name]
        /\ r.todo = req[p].todo
    BY <1>0, <2>1 DEF Request, Phases, Tables
  <2>. HIDE DEF r
  <2>3. Busy(p) /\ r.phase # "idle"
    BY <2>1, <2>2 DEF Busy
  <2>4. Sound(r)
    BY <1>0, <2>1, <2>2 DEF Sound, Deleting, Tables
  <2>5. ~overlapped => InStep(r)
    BY <1>0, <2>1, <2>2, <2>3 DEF InStep, Pending
  <2>6. r.alone => Covers(r)
    BY <1>0, <2>1, <2>2, <2>3 DEF Covers, Ahead, Deleting
  <2>. QED BY <2>1, <2>2, <2>3, <2>4, <2>5, <2>6, QuietInv
<1>2. ASSUME ReadForDelete(p) PROVE MapsInv'
  <2>. DEFINE list == index[nameOf[req[p].id]]
              r == [req[p] EXCEPT !.phase = IF req[p].id \in list THEN "unlinking" ELSE "dropping",
                                  !.view = list,
                                  !.at = IF req[p].id \in list THEN req[p].id ELSE None]
  <2>1. /\ req[p].phase = "chosen" /\ req[p].id \in Ids /\ nameOf[req[p].id] \in NameIDs
        /\ req' = [req EXCEPT ![p] = r] /\ UNCHANGED <<maps, overlapped>>
    BY <1>0, <1>2 DEF ReadForDelete, Continue, Sound, Request, Tables
  <2>2. list \in SUBSET Ids /\ \A s \in list : nameOf[s] = nameOf[req[p].id]
    BY <1>0, <2>1 DEF Tables
  <2>. HIDE DEF list
  <2>3. /\ r \in Request /\ r.phase = IF req[p].id \in list THEN "unlinking" ELSE "dropping"
        /\ r.kind = req[p].kind /\ r.name = req[p].name
        /\ r.id = req[p].id /\ r.alone = req[p].alone /\ r.view = list /\ r.todo = req[p].todo
        /\ r.at = IF req[p].id \in list THEN req[p].id ELSE None
    BY <1>0, <2>1, <2>2 DEF Request, Phases
  <2>. HIDE DEF r
  <2>4. Busy(p) /\ r.phase # "idle"
    BY <2>1, <2>3 DEF Busy
  <2>5. Sound(r)
    BY <1>0, <2>1, <2>2, <2>3 DEF Sound, Deleting
  <2>6. ~overlapped => req[p].id \in list
    BY <1>0, <2>1, <2>4 DEF InStep, Pending, SessionsOf, list
  <2>7. ~overlapped => InStep(r)
    BY <1>0, <2>1, <2>3, <2>4, <2>6 DEF InStep, Pending, list
  <2>8. r.alone => Covers(r)
    BY <1>0, <2>1, <2>3, <2>4 DEF Covers, Ahead, Deleting
  <2>. QED BY <2>1, <2>3, <2>4, <2>5, <2>7, <2>8, QuietInv
<1>. QED BY <1>1, <1>2

LEMMA DeleteSessionInv ==
  ASSUME MapsInv, NEW p \in Procs, NEW s \in Ids, DeleteSession(p, s)
  PROVE  MapsInv'
<1>0. req[p] \in Request /\ Sound(req[p]) /\ (Busy(p) /\ req[p].alone => Covers(req[p]))
      /\ (~overlapped /\ Busy(p) => InStep(req[p])) /\ Tables
  BY DEF MapsInv, Coverage, Agreement
<1>. DEFINE r == IF s \in live THEN [req[p] EXCEPT !.phase = "chosen", !.id = s, !.todo = @ \ {s}]
                 ELSE [req[p] EXCEPT !.todo = @ \ {s}]
<1>1. /\ req[p].phase = "sweeping" /\ (s \in req[p].todo \/ (req[p].kind = "all" /\ s \in live))
      /\ req' = [req EXCEPT ![p] = r] /\ UNCHANGED <<maps, overlapped>>
  BY DEF DeleteSession, Continue
<1>2. /\ r \in Request /\ r.phase = IF s \in live THEN "chosen" ELSE "sweeping"
      /\ r.kind = req[p].kind /\ r.name = req[p].name /\ r.alone = req[p].alone
      /\ r.id = IF s \in live THEN s ELSE req[p].id
      /\ r.todo = req[p].todo \ {s}
  BY <1>0, <1>1 DEF Request, Phases
<1>. HIDE DEF r
<1>3. Busy(p) /\ r.phase # "idle"
  BY <1>1, <1>2 DEF Busy
<1>4. Sound(r)
  <2>1. s \in live => nameOf[s] # None /\ s # None
    BY <1>0, NoneIsNone DEF Tables
  <2>2. r.kind = "name" => r.name \in NameIDs /\ \A t \in Deleting(r) : nameOf[t] = r.name
    BY <1>0, <1>1, <1>2 DEF Sound, Deleting
  <2>. QED BY <1>1, <1>2, <2>1, <2>2 DEF Sound
<1>5. ~overlapped => InStep(r)
  BY <1>0, <1>1, <1>2, <1>3 DEF InStep, Pending
<1>6. r.alone => Covers(r)
  BY <1>0, <1>1, <1>2, <1>3 DEF Covers, Ahead, Deleting, SessionsOf
<1>. QED BY <1>1, <1>2, <1>3, <1>4, <1>5, <1>6, QuietInv

-----------------------------------------------------------------------------
\* Two busy requests have overlapped.
LEMMA Overlap ==
  ASSUME MapsInv, NEW p \in Procs, Busy(p), NEW q \in Procs \ {p}, Busy(q)
  PROVE  overlapped /\ ~req[q].alone
BY DEF MapsInv, Solitude, Tables

LEMMA IdleIsSound == Idle \in Request /\ Sound(Idle)
BY NoneIsNone DEF Idle, Request, Phases, Sound

\* A request leaves the maps: Link writes its list, EndLogout has nothing left.
LEMMA EndInv ==
  ASSUME MapsInv, NEW p \in Procs, Busy(p), req' = [req EXCEPT ![p] = Idle],
         UNCHANGED <<live, nameOf, overlapped>>, Tables',
         ~overlapped => \A u \in NameIDs : index'[u] = SessionsOf(u)
  PROVE  MapsInv'
<1>. USE DEF MapsInv
<1>1. /\ req' \in [Procs -> Request] /\ req'[p] = Idle
      /\ \A q \in Procs \ {p} : req'[q] = req[q]
  BY IdleIsSound
<1>2. ~Busy(p)' /\ \A q \in Procs \ {p} : Busy(q)' <=> Busy(q)
  BY <1>1 DEF Busy, Idle
<1>3. \A q \in Procs : Sound(req[q])'
  BY <1>1, IdleIsSound DEF Sound, Deleting
<1>4. \A q \in Procs : Busy(q)' => overlapped' /\ ~req'[q].alone
  BY <1>1, <1>2, Overlap
<1>5. Solitude' /\ Coverage'
  BY <1>4 DEF Solitude, Coverage
<1>6. Agreement'
  BY <1>4 DEF Agreement, IndexAgrees, SessionsOf
<1>. QED BY <1>1, <1>3, <1>5, <1>6

LEMMA LeaveInv ==
  ASSUME MapsInv, NEW p \in Procs, Link(p) \/ EndLogout(p)
  PROVE  MapsInv'
<1>0. req[p] \in Request /\ Sound(req[p]) /\ (~overlapped /\ Busy(p) => InStep(req[p])) /\ Tables
  BY DEF MapsInv, Agreement
<1>1. CASE Link(p)
  <2>. DEFINE u == req[p].name  s == req[p].id
  <2>1. /\ req[p].phase = "linking" /\ Busy(p) /\ req' = [req EXCEPT ![p] = Idle]
        /\ UNCHANGED <<live, nameOf, overlapped>>
        /\ index' = [index EXCEPT ![u] = req[p].view \cup {s}]
    BY <1>1 DEF Link, Continue, Busy
  <2>2. u \in NameIDs /\ s \in Ids /\ nameOf[s] = u /\ req[p].view \subseteq Ids
        /\ \A t \in req[p].view : nameOf[t] = u
    BY <1>0, <2>1 DEF Sound, Request
  <2>3. Tables'
    BY <1>0, <2>1, <2>2 DEF Tables
  <2>4. ~overlapped => \A v \in NameIDs : index'[v] = SessionsOf(v)
    <3>. SUFFICES ASSUME ~overlapped, NEW v \in NameIDs PROVE index'[v] = SessionsOf(v)
      OBVIOUS
    <3>1. InStep(req[p]) /\ Pending(req[p]) = {s}
      BY <1>0, <2>1 DEF Pending
    <3>2. CASE v = u
      <4>1. index'[u] = (SessionsOf(u) \ {s}) \cup {s}
        BY <1>0, <2>1, <2>2, <3>1 DEF InStep, Tables
      <4>2. s \in SessionsOf(u)
        BY <2>1, <2>2, <3>1 DEF InStep, SessionsOf
      <4>. QED BY <3>2, <4>1, <4>2
    <3>3. CASE v # u
      BY <1>0, <2>1, <2>2, <3>1, <3>3 DEF InStep, Tables, SessionsOf
    <3>. QED BY <3>2, <3>3
  <2>. QED BY <2>1, <2>3, <2>4, EndInv
<1>2. CASE EndLogout(p)
  <2>1. /\ req[p].phase = "sweeping" /\ Busy(p) /\ req' = [req EXCEPT ![p] = Idle]
        /\ UNCHANGED <<live, nameOf, index, overlapped>>
    BY <1>2 DEF EndLogout, Continue, Busy, maps
  <2>2. Tables'
    BY <1>0, <2>1 DEF Tables
  <2>3. ~overlapped => \A u \in NameIDs : index'[u] = SessionsOf(u)
    BY <1>0, <2>1 DEF InStep, Pending
  <2>. QED BY <2>1, <2>2, <2>3, EndInv
<1>. QED BY <1>1, <1>2

\* Of a request whose list has moved, the list and the id it lies at.
LEMMA MovedKeeps ==
  ASSUME NEW p, NEW q, NEW t \in Ids \cup {None}, req[q] \in Request
  PROVE  LET n == Moved(q, p, t)
         IN  /\ n \in Request /\ n.phase = req[q].phase /\ n.kind = req[q].kind /\ n.name = req[q].name
             /\ n.id = req[q].id /\ n.todo = req[q].todo /\ n.alone = req[q].alone
             /\ n.view \subseteq req[q].view
<1>. DEFINE Kept(n) == /\ n \in Request /\ n.phase = req[q].phase /\ n.kind = req[q].kind
                       /\ n.name = req[q].name /\ n.id = req[q].id /\ n.todo = req[q].todo
                       /\ n.alone = req[q].alone /\ n.view \subseteq req[q].view
<1>1. Kept(req[q])
  OBVIOUS
<1>2. \A x : Kept([req[q] EXCEPT !.view = @ \ {x}])
  BY DEF Request
<1>3. \A x : Kept([req[q] EXCEPT !.view = @ \ {x}, !.at = t])
  BY DEF Request
<1>. HIDE DEF Kept
<1>4. Kept(Moved(q, p, t))
  BY <1>1, <1>2, <1>3 DEF Moved
<1>. QED BY <1>4 DEF Kept

\* The list is written back without the session, and moves under others.
LEMMA UnlinkInv ==
  ASSUME MapsInv, NEW p \in Procs, Unlink(p)
  PROVE  MapsInv'
<1>. USE DEF MapsInv
<1>. DEFINE s == req[p].id  u == nameOf[s]
            r == [req[p] EXCEPT !.phase = "dropping", !.view = {}, !.at = None]
<1>0. req[p] \in Request /\ Sound(req[p]) /\ (~overlapped /\ Busy(p) => InStep(req[p])) /\ Tables
  BY DEF Agreement
<1>1. PICK t \in [Procs -> Ids \cup {None}] :
        req' = [q \in Procs |-> IF q = p THEN r ELSE Moved(q, p, t[q])]
  BY DEF Unlink
<1>2. /\ req[p].phase = "unlinking" /\ Busy(p) /\ UNCHANGED <<live, nameOf, overlapped>>
      /\ index' = [index EXCEPT ![u] = req[p].view \ {req[p].at}]
  BY DEF Unlink, Busy
<1>3. /\ r \in Request /\ r.phase = "dropping" /\ r.kind = req[p].kind /\ r.name = req[p].name
      /\ r.id = s /\ r.todo = req[p].todo /\ r.alone = req[p].alone /\ r.view = {}
  BY <1>0 DEF Request, Phases
<1>4. \A q \in Procs \ {p} : t[q] \in Ids \cup {None} /\ req[q] \in Request
  OBVIOUS
<1>. HIDE DEF r
<1>5. \A q \in Procs \ {p} :
        LET n == req'[q]
        IN  /\ n \in Request /\ n.phase = req[q].phase /\ n.kind = req[q].kind /\ n.name = req[q].name
            /\ n.id = req[q].id /\ n.todo = req[q].todo /\ n.alone = req[q].alone
            /\ n.view \subseteq req[q].view
  BY <1>1, <1>4, MovedKeeps
<1>6. req'[p] = r
  BY <1>1
<1>7. req' \in [Procs -> Request]
  BY <1>1, <1>3, <1>5, <1>6
<1>8. s \in Ids /\ u \in NameIDs /\ req[p].view \subseteq Ids /\ \A k \in req[p].view : nameOf[k] = u
  BY <1>0, <1>2 DEF Sound, Request, Tables
<1>9. Tables'
  BY <1>0, <1>2, <1>8 DEF Tables
<1>10. \A q \in Procs : Sound(req[q])'
  <2>1. Sound(req[p])'
    BY <1>0, <1>2, <1>3, <1>6 DEF Sound, Deleting
  <2>2. ASSUME NEW q \in Procs \ {p} PROVE Sound(req[q])'
    BY <1>2, <1>5 DEF Sound, Deleting
  <2>. QED BY <2>1, <2>2
<1>11. Busy(p)' /\ \A q \in Procs \ {p} : Busy(q)' <=> Busy(q)
  BY <1>3, <1>5, <1>6 DEF Busy
<1>12. \A q \in Procs \ {p} : Busy(q)' => overlapped' /\ ~req'[q].alone
  BY <1>2, <1>5, <1>11, Overlap
<1>13. Solitude'
  BY <1>2, <1>3, <1>6, <1>11, <1>12 DEF Solitude
<1>14. ~overlapped => InStep(req[p])'
  <2>. SUFFICES ASSUME ~overlapped PROVE InStep(req[p])'
    OBVIOUS
  <2>1. InStep(req[p]) /\ Pending(req[p]) = {} /\ Pending(req[p])' = {s} /\ req[p].at = s
    BY <1>0, <1>2, <1>3, <1>6 DEF Pending, InStep
  <2>2. \A v \in NameIDs : index'[v] = SessionsOf(v) \ {s}
    <3>. SUFFICES ASSUME NEW v \in NameIDs PROVE index'[v] = SessionsOf(v) \ {s}
      OBVIOUS
    <3>1. CASE v = u
      BY <1>0, <1>2, <1>8, <2>1, <3>1 DEF InStep, Tables
    <3>2. CASE v # u
      BY <1>0, <1>2, <1>8, <2>1, <3>2 DEF InStep, Tables, SessionsOf
    <3>. QED BY <3>1, <3>2
  <2>3. s \in live
    BY <1>2, <2>1 DEF InStep
  <2>. QED BY <1>2, <1>3, <1>6, <2>1, <2>2, <2>3 DEF InStep, SessionsOf
<1>15. Agreement'
  BY <1>2, <1>11, <1>12, <1>14 DEF Agreement, IndexAgrees
<1>16. req[p].alone => Covers(req[p])'
  BY <1>0, <1>2, <1>3, <1>6 DEF Coverage, Covers, Ahead, Deleting, SessionsOf
<1>17. Coverage'
  BY <1>3, <1>6, <1>12, <1>16 DEF Coverage
<1>. QED BY <1>7, <1>9, <1>10, <1>13, <1>15, <1>17

LEMMA DropInv ==
  ASSUME MapsInv, NEW p \in Procs, Drop(p)
  PROVE  MapsInv'
<1>. USE DEF MapsInv
<1>. DEFINE s == req[p].id
            r == [req[p] EXCEPT !.phase = "sweeping", !.id = None, !.view = {}]
<1>0. req[p] \in Request /\ Sound(req[p]) /\ (~overlapped /\ Busy(p) => InStep(req[p])) /\ Tables
  BY DEF Agreement
<1>1. /\ req[p].phase = "dropping" /\ Busy(p) /\ UNCHANGED <<nameOf, index, overlapped>>
      /\ live' = live \ {s} /\ req' = [req EXCEPT ![p] = r]
  BY DEF Drop, Continue, Busy
<1>2. /\ r \in Request /\ r.phase = "sweeping" /\ r.kind = req[p].kind /\ r.name = req[p].name
      /\ r.todo = req[p].todo /\ r.alone = req[p].alone
  BY <1>0 DEF Request, Phases
<1>. HIDE DEF r
<1>3. req' \in [Procs -> Request] /\ req'[p] = r /\ \A q \in Procs \ {p} : req'[q] = req[q]
  BY <1>1, <1>2
<1>4. Tables'
  BY <1>0, <1>1 DEF Tables
<1>5. \A q \in Procs : Sound(req[q])'
  <2>1. Sound(req[p])'
    BY <1>0, <1>1, <1>2, <1>3 DEF Sound, Deleting
  <2>2. \A q \in Procs \ {p} : Sound(req[q])'
    BY <1>1, <1>3 DEF Sound, Deleting
  <2>. QED BY <2>1, <2>2
<1>6. Busy(p)' /\ \A q \in Procs \ {p} : Busy(q)' <=> Busy(q)
  BY <1>2, <1>3 DEF Busy
<1>7. \A q \in Procs \ {p} : Busy(q)' => overlapped' /\ ~req'[q].alone
  BY <1>1, <1>3, <1>6, Overlap
<1>8. Solitude'
  BY <1>1, <1>2, <1>3, <1>6, <1>7 DEF Solitude
<1>9. ~overlapped => InStep(req[p])'
  BY <1>0, <1>1, <1>2, <1>3 DEF InStep, Pending, SessionsOf
<1>10. Agreement'
  BY <1>1, <1>6, <1>7, <1>9 DEF Agreement, IndexAgrees
<1>11. req[p].alone => Covers(req[p])'
  BY <1>0, <1>1, <1>2, <1>3 DEF Coverage, Covers, Ahead, Deleting, SessionsOf
<1>12. Coverage'
  BY <1>2, <1>3, <1>7, <1>11 DEF Coverage
<1>. QED BY <1>3, <1>4, <1>5, <1>8, <1>10, <1>12

\* The first of the new maps: alone, it is empty; others overlap from now on.
LEMMA ShutdownInv == ASSUME MapsInv, NEW p \in Procs, Shutdown(p) PROVE MapsInv'
<1>. DEFINE r == [Idle EXCEPT !.phase = "closing"]
<1>. USE DEF MapsInv
<1>a. r \in Request /\ r.phase = "closing" /\ r.kind = "none"
  BY NoneIsNone DEF Idle, Request, Phases
<1>b. Begin(p, r) /\ live' = {} /\ UNCHANGED <<nameOf, index>>
  BY DEF Shutdown
<1>. HIDE DEF r
<1>0. r \in Request /\ r.phase # "idle" /\ overlapped \in BOOLEAN
  BY <1>a DEF Tables
<1>1. /\ req' \in [Procs -> Request]
      /\ \A q \in Procs \ {p} : Like(req'[q], req[q]) /\ (Busy(q)' <=> Busy(q))
      /\ Like(req'[p], r) /\ ~Busy(p) /\ Busy(p)'
  BY <1>0, <1>b, BeginStep, Zenon
<1>2. Tables'
  <2>1. overlapped' \in BOOLEAN
    BY <1>0, <1>b, BeginStep
  <2>. QED BY <1>b, <2>1 DEF Tables
<1>3. \A q \in Procs : Sound(req[q])'
  <2>1. Sound(req[p])'
    BY <1>a, <1>1 DEF Sound, Like
  <2>2. \A q \in Procs \ {p} : Sound(req[q])'
    BY <1>b, <1>1 DEF Sound, Deleting, Like
  <2>. QED BY <2>1, <2>2
<1>4. CASE /\ \A q \in Procs : ~Busy(q)
           /\ req'[p].alone /\ overlapped' = overlapped
  <2>1. \A q \in Procs \ {p} : ~Busy(q)'
    BY <1>1, <1>4
  <2>2. InStep(req[p])'
    BY <1>a, <1>b, <1>1 DEF InStep, Like
  <2>3. Solitude' /\ Agreement'
    BY <1>1, <1>4, <2>1, <2>2 DEF Solitude, Agreement, IndexAgrees
  <2>4. Coverage'
    BY <1>a, <1>1, <2>1 DEF Coverage, Covers, Like
  <2>. QED BY <1>1, <1>2, <1>3, <2>3, <2>4
<1>5. CASE /\ \A q \in Procs : Busy(q)' => ~req'[q].alone
           /\ overlapped' = TRUE
  <2>1. Solitude' /\ Agreement' /\ Coverage'
    BY <1>5 DEF Solitude, Agreement, Coverage
  <2>. QED BY <1>1, <1>2, <1>3, <2>1
<1>. QED BY <1>0, <1>b, <1>4, <1>5, BeginStep

\* The second: with both empty, they agree.
LEMMA ShutdownIndexInv == ASSUME MapsInv, NEW p \in Procs, ShutdownIndex(p) PROVE MapsInv'
<1>1. /\ req[p].phase = "closing" /\ Busy(p) /\ req' = [req EXCEPT ![p] = Idle]
      /\ UNCHANGED <<live, nameOf, overlapped>> /\ index' = [u \in NameIDs |-> {}]
  BY DEF ShutdownIndex, Continue, Busy
<1>2. Tables'
  BY <1>1 DEF MapsInv, Tables
<1>3. ~overlapped => live = {}
  BY <1>1 DEF MapsInv, Agreement, InStep
<1>4. ~overlapped => \A u \in NameIDs : index'[u] = SessionsOf(u)
  BY <1>1, <1>3 DEF SessionsOf
<1>. QED BY <1>1, <1>2, <1>4, EndInv

\* With empty maps and nobody there the invariant holds.
LEMMA EmptyInv ==
  ASSUME live = {}, nameOf \in [Ids -> NameIDs \cup {None}], index = [u \in NameIDs |-> {}],
         req = [p \in Procs |-> Idle], overlapped = FALSE
  PROVE  MapsInv
<1>1. Tables
  BY DEF Tables
<1>2. req \in [Procs -> Request] /\ \A p \in Procs : Sound(req[p]) /\ ~Busy(p)
  BY IdleIsSound DEF Busy, Idle
<1>3. Solitude /\ Coverage /\ Agreement
  BY <1>2 DEF Solitude, Coverage, Agreement, IndexAgrees, SessionsOf
<1>. QED BY <1>1, <1>2, <1>3 DEF MapsInv

LEMMA RestartInv == ASSUME MapsInv, Restart PROVE MapsInv'
<1>0. /\ live' = {} /\ index' = [u \in NameIDs |-> {}] /\ req' = [p \in Procs |-> Idle]
      /\ overlapped' = FALSE /\ UNCHANGED nameOf
  BY DEF Restart
<1>1. Tables'
  BY <1>0 DEF MapsInv, Tables
<1>2. req' \in [Procs -> Request] /\ \A p \in Procs : Sound(req[p])' /\ ~Busy(p)'
  BY <1>0, IdleIsSound DEF Busy, Idle, Sound, Deleting
<1>3. Solitude' /\ Coverage' /\ Agreement'
  BY <1>0, <1>2 DEF Solitude, Coverage, Agreement, IndexAgrees, SessionsOf
<1>. QED BY <1>1, <1>2, <1>3 DEF MapsInv

-----------------------------------------------------------------------------
LEMMA InitIInv == Init => IInv
<1>. SUFFICES ASSUME Init PROVE IInv
  OBVIOUS
<1>1. MapsInv
  BY EmptyInv DEF Init
<1>2. SloTypes /\ TrackedByName
  BY MaxSentIsNumber DEF Init, SloTypes, TrackedByName
<1>3. closed \in BOOLEAN
  BY Zenon DEF Init
<1>. QED BY <1>1, <1>2, <1>3 DEF IInv

LEMMA NextIInv == IInv /\ [Next]_vars => IInv'
<1>. SUFFICES ASSUME IInv, [Next]_vars PROVE IInv'
  OBVIOUS
<1>. USE DEF IInv
<1>0. UNCHANGED rest => SloTypes' /\ TrackedByName' /\ closed' \in BOOLEAN
  BY DEF SloTypes, TrackedByName, rest
<1>1. ASSUME NEW p \in Procs, ReadList(p) \/ ReadForDelete(p) PROVE IInv'
  BY <1>0, <1>1, ReadInv DEF ReadList, ReadForDelete
<1>2. ASSUME NEW p \in Procs, Link(p) \/ EndLogout(p) PROVE IInv'
  BY <1>0, <1>2, LeaveInv DEF Link, EndLogout
<1>3. ASSUME NEW p \in Procs, Found(p) \/ \E s \in Ids : FindSession(p, s) PROVE IInv'
  BY <1>0, <1>3, FindInv DEF Found, FindSession
<1>4. ASSUME NEW p \in Procs, Unlink(p) PROVE IInv'
  BY <1>0, <1>4, UnlinkInv DEF Unlink
<1>5. ASSUME NEW p \in Procs, Drop(p) PROVE IInv'
  BY <1>0, <1>5, DropInv DEF Drop
<1>6. ASSUME NEW p \in Procs, NEW s \in Ids, DeleteSession(p, s) PROVE IInv'
  BY <1>0, <1>6, DeleteSessionInv DEF DeleteSession
<1>7. ASSUME NEW p \in Procs, NEW s \in Ids, NEW u \in NameIDs, CreateSession(p, s, u) PROVE IInv'
  BY <1>0, <1>7, CreateSessionInv DEF CreateSession
<1>8. ASSUME NEW p \in Procs,
             \/ DemoLogoutAll(p)
             \/ \E s \in Ids : DemoLogoutOne(p, s)
             \/ \E u \in NameIDs : DemoLogoutName(p, u)
      PROVE  IInv'
  <2>1. UNCHANGED <<maps, rest>>
    BY <1>8 DEF DemoLogoutAll, DemoLogoutOne, DemoLogoutName
  <2>2. MapsInv'
    BY <1>8, <2>1, LogoutInv DEF DemoLogoutName
  <2>. QED BY <1>0, <2>1, <2>2
<1>9. ASSUME NEW p \in Procs, NEW r \in Requests, NEW u \in NameIDs, HandleLogoutRequest(p, r, u)
      PROVE  IInv'
  <2>1. byName[u][r] < MaxSent /\ StartSLO(r, u) /\ Begin(p, Finding(u)) /\ UNCHANGED maps
    BY <1>9 DEF HandleLogoutRequest
  <2>2. MapsInv'
    BY <2>1, LogoutInv
  <2>3. closed' \in BOOLEAN
    BY <2>1 DEF StartSLO
  <2>. QED BY <2>1, <2>2, <2>3, StartSLOInv
<1>10. ASSUME NEW p \in Procs, CompleteSLO(p) \/ \E r \in Requests : HandleLogoutResponse(p, r)
       PROVE  IInv'
  <2>1. UNCHANGED <<maps, req, overlapped, closed>>
    BY <1>10 DEF CompleteSLO, HandleLogoutResponse
  <2>2. MapsInv'
    BY <2>1 DEF MapsInv, Tables, Sound, Solitude, Agreement, IndexAgrees, Coverage, Covers, Ahead,
                Deleting, InStep, Pending, SessionsOf, Busy, maps
  <2>3. closed' \in BOOLEAN
    BY <2>1
  <2>. QED BY <1>10, <2>2, <2>3, ReplyInv
<1>11. ASSUME NEW p \in Procs, Shutdown(p) \/ ShutdownIndex(p) PROVE IInv'
  <2>1. CASE Shutdown(p)
    <3>1. SloTypes' /\ TrackedByName'
      BY <2>1 DEF Shutdown, SloTypes, TrackedByName
    <3>2. closed' \in BOOLEAN
      BY <2>1, Zenon DEF Shutdown
    <3>. QED BY <2>1, <3>1, <3>2, ShutdownInv
  <2>2. CASE ShutdownIndex(p)
    BY <1>0, <2>2, ShutdownIndexInv DEF ShutdownIndex
  <2>. QED BY <1>11, <2>1, <2>2
<1>12. CASE Restart
  <2>1. SloTypes' /\ TrackedByName'
    BY <1>12, MaxSentIsNumber DEF Restart, SloTypes, TrackedByName
  <2>2. closed' \in BOOLEAN
    BY <1>12, Zenon DEF Restart
  <2>. QED BY <1>12, <2>1, <2>2, RestartInv
<1>13. CASE UNCHANGED vars
  BY <1>0, <1>13 DEF vars, MapsInv, Tables, Sound, Solitude, Agreement, IndexAgrees, Coverage, Covers,
                     Ahead, Deleting, InStep, Pending, SessionsOf, Busy, maps
<1>. QED BY <1>1, <1>2, <1>3, <1>4, <1>5, <1>6, <1>7, <1>8, <1>9, <1>10, <1>11, <1>12, <1>13 DEF Next

THEOREM IInvHolds == Spec => []IInv
BY InitIInv, NextIInv, PTL DEF Spec

\* The maps, the requests and the tables of SLOManager keep their types; a
\* session in a request's hands has a NameID (plugin.go:480-518).
THEOREM TypeCorrect == Spec => []TypeOK
<1>1. IInv => TypeOK
  BY DEF IInv, MapsInv, Tables, Sound, SloTypes, TypeOK
<1>. QED BY <1>1, IInvHolds, PTL

\* Requests that come one after another leave every session listed under its
\* NameID and nothing else (CreateSession, DeleteSession, plugin.go:480-505).
THEOREM MapsAgree == Spec => []IndexAgrees
<1>1. IInv => IndexAgrees
  BY DEF IInv, MapsInv, Agreement, IndexAgrees
<1>. QED BY <1>1, IInvHolds, PTL

\* However requests overlap, a logout of a NameID has only that NameID's
\* sessions to delete (GetSessionsByNameID, plugin.go:507-518).
THEOREM LogoutsAreTheirs == Spec => []NoForeignLogout
<1>1. IInv => NoForeignLogout
  BY DEF IInv, MapsInv, Sound, NoForeignLogout
<1>. QED BY <1>1, IInvHolds, PTL

\* SLOManager lists what it tracks, with repeated requests and late responses
\* (StartSLO, CompleteSLO, logout.go:188-242).
THEOREM TrackedIsListed == Spec => []TrackedByName
<1>1. IInv => TrackedByName
  BY DEF IInv
<1>. QED BY <1>1, IInvHolds, PTL

\* A logout that nobody came in between of ends every session it is about
\* (handleLogoutRequest and handleDemoLogout, handlers.go:911-917, 1131-1152).
THEOREM LogoutsAreComplete == Spec => LogoutEndsAll
<1>. DEFINE Ends(p) == \A r \in {req[p]} :
               (/\ r.phase = "sweeping" /\ ~Busy(p)'
                /\ r.alone /\ (r.kind = "name" => ~overlapped))
               => Scope(r)' = {}
<1>1. ASSUME IInv, [Next]_vars, NEW p \in Procs PROVE Ends(p)
  <2>. DEFINE r == req[p]
  <2>. SUFFICES ASSUME r.phase = "sweeping", ~Busy(p)', r.alone, r.kind = "name" => ~overlapped
                PROVE  \A t \in {r} : Scope(t)' = {}
    OBVIOUS
  <2>1. Busy(p) /\ req'[p].phase = "idle" /\ MapsInv
    BY <1>1 DEF Busy, IInv
  <2>2. CASE EndLogout(p)
    <3>1. r.todo = {} /\ UNCHANGED <<live, nameOf>>
      BY <2>2 DEF EndLogout, maps
    <3>2. Covers(r) /\ Ahead(r) = {}
      BY <2>1, <3>1 DEF MapsInv, Coverage, Ahead, Deleting
    <3>3. (r.kind = "all" => live = {}) /\ (r.kind = "name" => SessionsOf(r.name) = {})
      BY <3>2 DEF Covers
    <3>. QED BY <3>1, <3>3 DEF Scope, SessionsOf
  <2>3. CASE Restart
    BY <2>3 DEF Restart, Scope, SessionsOf
  <2>4. EndLogout(p) \/ Restart
    <3>. SUFFICES ASSUME ~EndLogout(p), ~Restart PROVE FALSE
      OBVIOUS
    <3>1. req \in [Procs -> Request] /\ r \in Request /\ p \in DOMAIN req
      BY <2>1 DEF MapsInv
    <3>2. ASSUME NEW q \in Procs, NEW n, Begin(q, n) PROVE FALSE
      <4>1. ~Busy(q)
        BY <3>2 DEF Begin
      <4>2. req'[p] \in {r, [r EXCEPT !.alone = FALSE]}
        BY <2>1, <3>2, <4>1, Zenon DEF Begin
      <4>. QED BY <2>1, <3>1, <4>2 DEF Request
    <3>3. ASSUME NEW q \in Procs, NEW n, Continue(q, n), q # p \/ n.phase # "idle" PROVE FALSE
      <4>1. req'[p] = IF q = p THEN n ELSE r
        BY <3>1, <3>3 DEF Continue
      <4>. QED BY <2>1, <3>3, <4>1
    <3>4. ASSUME NEW q \in Procs, Unlink(q) PROVE FALSE
      <4>1. q # p /\ \E s \in Ids \cup {None} : req'[p] = Moved(p, q, s)
        BY <3>4 DEF Unlink
      <4>2. req'[p].phase = r.phase
        BY <3>1, <4>1, MovedKeeps
      <4>. QED BY <2>1, <4>2
    <3>5. ASSUME NEW q \in Procs,
                 ReadList(q) \/ Link(q) \/ Found(q) \/ ReadForDelete(q) \/ Drop(q) \/ ShutdownIndex(q)
          PROVE  FALSE
      <4>1. q # p
        BY <3>5 DEF ReadList, Link, Found, ReadForDelete, Drop, ShutdownIndex
      <4>. QED BY <3>3, <3>5, <4>1 DEF ReadList, Link, Found, ReadForDelete, Drop, ShutdownIndex
    <3>6. ASSUME NEW q \in Procs, NEW s \in Ids, FindSession(q, s) PROVE FALSE
      BY <3>3, <3>6 DEF FindSession
    <3>7. ASSUME NEW q \in Procs, NEW s \in Ids, DeleteSession(q, s) PROVE FALSE
      <4>. DEFINE n == IF s \in live
                       THEN [req[q] EXCEPT !.phase = "chosen", !.id = s, !.todo = @ \ {s}]
                       ELSE [req[q] EXCEPT !.todo = @ \ {s}]
      <4>1. Continue(q, n) /\ req[q].phase = "sweeping"
        BY <3>7 DEF DeleteSession
      <4>2. n.phase # "idle"
        BY <3>1, <4>1 DEF Request
      <4>. QED BY <3>3, <4>1, <4>2
    <3>8. ASSUME NEW q \in Procs, EndLogout(q) PROVE FALSE
      BY <3>3, <3>8 DEF EndLogout
    <3>9. ASSUME NEW q \in Procs, NEW s \in Ids, NEW u \in NameIDs, CreateSession(q, s, u) PROVE FALSE
      BY <3>2, <3>9 DEF CreateSession
    <3>10. ASSUME NEW q \in Procs,
                  \/ DemoLogoutAll(q)
                  \/ \E s \in Ids : DemoLogoutOne(q, s)
                  \/ \E u \in NameIDs : DemoLogoutName(q, u)
                  \/ \E i \in Requests, u \in NameIDs : HandleLogoutRequest(q, i, u)
           PROVE  FALSE
      BY <3>2, <3>10 DEF DemoLogoutAll, DemoLogoutOne, DemoLogoutName, HandleLogoutRequest
    <3>11. UNCHANGED req => FALSE
      BY <2>1
    <3>12. ASSUME NEW q \in Procs, CompleteSLO(q) \/ \E i \in Requests : HandleLogoutResponse(q, i)
           PROVE  FALSE
      BY <3>11, <3>12 DEF CompleteSLO, HandleLogoutResponse
    <3>13. ASSUME NEW q \in Procs, Shutdown(q) PROVE FALSE
      BY <3>2, <3>13 DEF Shutdown
    <3>14. ~UNCHANGED vars
      BY <3>11 DEF vars
    <3>. QED BY <1>1, <3>4, <3>5, <3>6, <3>7, <3>8, <3>9, <3>10, <3>12, <3>13, <3>14 DEF Next
  <2>. QED BY <2>2, <2>3, <2>4
<1>2. IInv /\ [Next]_vars => [\A p \in Procs : Ends(p)]_vars
  BY <1>1
<1>. QED BY <1>2, IInvHolds, PTL DEF Spec, LogoutEndsAll

=============================================================================
