------------------------------ MODULE ScimStore ------------------------------
(* The SCIM provider: Storage keeps users, groups and their memberships in    *)
(* SQLite under one mutex, so each of its methods is one step. A handler may  *)
(* call several of them: PATCH reads a resource, changes the copy and writes  *)
(* it back, and a bulk request runs its operations one after another. Other   *)
(* requests run between any two of those steps.                               *)
(*                                                                            *)
(* A document is reduced to its stamp: the number of the write that made it.  *)
EXTENDS Integers

CONSTANTS Clients, UserIds, GroupIds, Names,
          BulkClients, \* the clients that send bulk requests
          MaxWrites,   \* bound on the successful writes of a behaviour
          MaxBulk,     \* bound on the operations of one bulk request
          NoRow, NoTag, NoRequest

ASSUME BoundsAreNumbers == MaxWrites \in Nat /\ MaxBulk \in Nat

Ids == UserIds \cup GroupIds

ASSUME BulkClientsAreClients == BulkClients \subseteq Clients

ASSUME IdsAreApart == UserIds \cap GroupIds = {}

(* A row: version is the column, stamp the content, born the stamp of the     *)
(* INSERT (history). Groups also keep the members named in their JSON         *)
(* document, `listed`; the table scim_group_members is the variable members.  *)
UserRow == [name : Names, version : Nat \ {0}, stamp : Nat, born : Nat]
GroupRow == [listed : SUBSET UserIds, version : Nat \ {0}, stamp : Nat, born : Nat]

(* What an answer, or a read of the storage, says of a resource: its ETag and *)
(* (history) the write and the row it stands for. *)
Tag == [id : Ids, version : Nat \ {0}, stamp : Nat, born : Nat, members : SUBSET UserIds]

(* An update on its way to the storage, and what it was made from, if it was. *)
(* expect is expectedVersion; 0 is none.                                      *)
Request == {r \in [id : Ids, expect : Nat, tag : Tag \cup {NoTag}] :
              r.tag # NoTag => r.tag.id = r.id}

(* A bulk request: operations left, and errors until it gives up (0: never). *)
Bulk == [left : 0..MaxBulk, patience : 0..MaxBulk]

(* What is left of rows, tags and requests without versions and members. *)
PlainTag == [id : Ids, stamp : Nat, born : Nat]
Plain == [stamp : Nat, born : Nat] \cup PlainTag
           \cup [id : Ids, basis : PlainTag \cup {NoRow}]

ASSUME NoneOfThem == /\ NoRow \notin UserRow \cup GroupRow
                     /\ NoTag \notin Tag
                     /\ NoRequest \notin Request
                     /\ NoRow \notin Plain

VARIABLES
  users, groups, members,   \* the three tables
  clock,                    \* the number of the last write
  view,                     \* view[c]: the last answer client c holds
  req,                      \* req[c]: the update c's request has under way
  bulk                      \* bulk[c]: the bulk request of c

tables == <<users, groups, members>>
vars == <<tables, clock, view, req, bulk>>

NoBulk == [left |-> 0, patience |-> 0]
InBulk(c) == bulk[c].left > 0

Members(g) == {u \in UserIds : <<g, u>> \in members}
UserThere(u) == users[u] # NoRow
GroupThere(g) == groups[g] # NoRow

TagOf(id, row, who) ==
  [id |-> id, version |-> row.version, stamp |-> row.stamp, born |-> row.born, members |-> who]

Init == /\ users = [u \in UserIds |-> NoRow]
        /\ groups = [g \in GroupIds |-> NoRow]
        /\ members = {}
        /\ clock = 0
        /\ view = [c \in Clients |-> NoTag]
        /\ req = [c \in Clients |-> NoRequest]
        /\ bulk = [c \in Clients |-> NoBulk]

-----------------------------------------------------------------------------
\* Seeded fault: the loop counts down without looking for its end.
AfterOperation_NoEnd(b, ok) == [b EXCEPT !.left = @ - 1]

(* The loop of a bulk request: an operation ends, well or not. *)
AfterOperation(b, ok) ==
  LET gaveUp == ~ok /\ b.patience = 1
      spared == IF ok \/ b.patience = 0 THEN b.patience ELSE b.patience - 1
  IN  IF b.left <= 1 \/ gaveUp
      THEN NoBulk
      ELSE [left |-> b.left - 1,
            patience |-> IF spared < b.left - 1 THEN spared ELSE 0]

Finish(c, ok) == /\ req' = [req EXCEPT ![c] = NoRequest]
                 /\ bulk' = [bulk EXCEPT ![c] = AfterOperation(@, ok)]

Succeed(c, tag) == /\ Finish(c, TRUE)
                   /\ view' = [view EXCEPT ![c] = tag]
                   /\ clock' = clock + 1

Fail(c) == /\ Finish(c, FALSE)
           /\ UNCHANGED <<tables, clock, view>>

Free(c) == req[c] = NoRequest

(* handleBulk accepts the request. FailOnErrors of 0 means go on, and so does *)
(* one that as many errors as there are operations do not exceed.             *)
StartBulk(c) ==
  /\ c \in BulkClients /\ Free(c) /\ ~InBulk(c)
  /\ \E n \in 1..MaxBulk : \E f \in 0..(n - 1) :
        bulk' = [bulk EXCEPT ![c] = [left |-> n, patience |-> f]]
  /\ UNCHANGED <<tables, clock, view, req>>

(* An operation of a bulk request that is refused before it reaches the storage. *)
RefuseOperation(c) ==
  /\ Free(c) /\ InBulk(c)
  /\ Fail(c)

(* The server stops, or the connection ends, with the request half done. *)
Abandon(c) ==
  /\ ~Free(c) \/ InBulk(c)
  /\ req' = [req EXCEPT ![c] = NoRequest]
  /\ bulk' = [bulk EXCEPT ![c] = NoBulk]
  /\ UNCHANGED <<tables, clock, view>>

-----------------------------------------------------------------------------
(* Users. The body may bring its own id; a generated one is an unused id. *)
NameTaken(n, u) == \E v \in UserIds \ {u} : UserThere(v) /\ users[v].name = n

CreateUser(c, u, n) ==
  /\ Free(c) /\ clock < MaxWrites
  /\ IF UserThere(u) \/ NameTaken(n, u)
     THEN Fail(c)
     ELSE LET row == [name |-> n, version |-> 1, stamp |-> clock + 1, born |-> clock + 1]
          IN  /\ users' = [users EXCEPT ![u] = row]
              /\ Succeed(c, TagOf(u, row, {}))
              /\ UNCHANGED <<groups, members>>

GetUser(c, u) ==
  /\ Free(c) /\ ~InBulk(c) /\ UserThere(u)
  /\ view' = [view EXCEPT ![c] = TagOf(u, users[u], {})]
  /\ UNCHANGED <<tables, clock, req, bulk>>

\* Seeded fault: the version column is left as it is.
UpdateUser_SameVersion(c, u, n) ==
  /\ ~Free(c) /\ req[c].id = u /\ clock < MaxWrites
  /\ UserThere(u) /\ req[c].expect \in {0, users[u].version} /\ ~NameTaken(n, u)
  /\ users' = [users EXCEPT ![u].name = n, ![u].stamp = clock + 1]
  /\ Succeed(c, TagOf(u, users'[u], {}))
  /\ UNCHANGED <<groups, members>>

\* Seeded fault: a user that is gone is inserted again.
UpdateUser_Upsert(c, u, n) ==
  /\ ~Free(c) /\ req[c].id = u /\ clock < MaxWrites
  /\ ~NameTaken(n, u)
  /\ LET row == [name |-> n, version |-> IF UserThere(u) THEN users[u].version + 1 ELSE 1,
                 stamp |-> clock + 1,
                 born |-> IF UserThere(u) THEN users[u].born ELSE clock + 1]
     IN  /\ users' = [users EXCEPT ![u] = row]
         /\ Succeed(c, TagOf(u, row, {}))
         /\ UNCHANGED <<groups, members>>

(* UPDATE scim_users: the check of expectedVersion, then the userName's index. *)
UpdateUser(c, u, n) ==
  /\ ~Free(c) /\ req[c].id = u /\ clock < MaxWrites
  /\ IF \/ ~UserThere(u)
        \/ req[c].expect > 0 /\ req[c].expect # users[u].version
        \/ NameTaken(n, u)
     THEN Fail(c)
     ELSE LET row == [name |-> n, version |-> users[u].version + 1,
                      stamp |-> clock + 1, born |-> users[u].born]
          IN  /\ users' = [users EXCEPT ![u] = row]
              /\ Succeed(c, TagOf(u, row, {}))
              /\ UNCHANGED <<groups, members>>

\* Seeded fault: foreign keys are off, as they are in SQLite by default.
DeleteUser_NoCascade(c, u) ==
  /\ Free(c) /\ UserThere(u)
  /\ users' = [users EXCEPT ![u] = NoRow]
  /\ Finish(c, TRUE)
  /\ UNCHANGED <<groups, members, clock, view>>

(* ON DELETE CASCADE takes the memberships; groups keep version and document. *)
DeleteUser(c, u) ==
  /\ Free(c)
  /\ IF ~UserThere(u)
     THEN Fail(c)
     ELSE /\ users' = [users EXCEPT ![u] = NoRow]
          /\ members' = {m \in members : m[2] # u}
          /\ Finish(c, TRUE)
          /\ UNCHANGED <<groups, clock, view>>

-----------------------------------------------------------------------------
(* Groups. A member that is no user is in the document and not in the table. *)
CreateGroup(c, g, who) ==
  /\ Free(c) /\ clock < MaxWrites
  /\ IF GroupThere(g)
     THEN Fail(c)
     ELSE LET row == [listed |-> who, version |-> 1, stamp |-> clock + 1, born |-> clock + 1]
          IN  /\ groups' = [groups EXCEPT ![g] = row]
              /\ members' = members \cup {<<g, u>> : u \in {u \in who : UserThere(u)}}
              /\ Succeed(c, TagOf(g, row, who))
              /\ UNCHANGED users

GetGroup(c, g) ==
  /\ Free(c) /\ ~InBulk(c) /\ GroupThere(g)
  /\ view' = [view EXCEPT ![c] = TagOf(g, groups[g], Members(g))]
  /\ UNCHANGED <<tables, clock, req, bulk>>

\* Seeded fault: the version is read and not compared.
UpdateGroup_Unchecked(c, g, who) ==
  /\ ~Free(c) /\ req[c].id = g /\ clock < MaxWrites /\ GroupThere(g)
  /\ LET row == [listed |-> who, version |-> groups[g].version + 1,
                 stamp |-> clock + 1, born |-> groups[g].born]
     IN  /\ groups' = [groups EXCEPT ![g] = row]
         /\ members' = {m \in members : m[1] # g}
                         \cup {<<g, u>> : u \in {u \in who : UserThere(u)}}
         /\ Succeed(c, TagOf(g, row, who))
         /\ UNCHANGED users

UpdateGroup(c, g, who) ==
  /\ ~Free(c) /\ req[c].id = g /\ clock < MaxWrites
  /\ IF \/ ~GroupThere(g)
        \/ req[c].expect > 0 /\ req[c].expect # groups[g].version
     THEN Fail(c)
     ELSE LET row == [listed |-> who, version |-> groups[g].version + 1,
                      stamp |-> clock + 1, born |-> groups[g].born]
          IN  /\ groups' = [groups EXCEPT ![g] = row]
              /\ members' = {m \in members : m[1] # g}
                              \cup {<<g, u>> : u \in {u \in who : UserThere(u)}}
              /\ Succeed(c, TagOf(g, row, who))
              /\ UNCHANGED users

DeleteGroup(c, g) ==
  /\ Free(c)
  /\ IF ~GroupThere(g)
     THEN Fail(c)
     ELSE /\ groups' = [groups EXCEPT ![g] = NoRow]
          /\ members' = {m \in members : m[1] # g}
          /\ Finish(c, TRUE)
          /\ UNCHANGED <<users, clock, view>>

-----------------------------------------------------------------------------
(* Requests that end in an update. *)

(* PUT. Without an If-Match it can parse, and in a bulk request, expect is 0. *)
Replace(c, id) ==
  /\ Free(c)
  /\ req' = [req EXCEPT ![c] = [id |-> id, expect |-> 0, tag |-> NoTag]]
  /\ UNCHANGED <<tables, clock, view, bulk>>

(* PUT with the ETag the client got. *)
ReplaceIfMatch(c) ==
  /\ Free(c) /\ ~InBulk(c) /\ view[c] # NoTag
  /\ req' = [req EXCEPT ![c] = [id |-> view[c].id, expect |-> view[c].version, tag |-> view[c]]]
  /\ UNCHANGED <<tables, clock, view, bulk>>

(* PATCH reads the resource and applies the patch to the copy. The version it *)
(* will save with is that of the copy: the one read, or whatever a patch of   *)
(* meta puts there. 0 stands for all the others, since any other number is    *)
(* either the current one, and acts as 0, or refused. bulkPatch saves with 0. *)
StartPatch(c, tag) ==
  /\ \E e \in IF InBulk(c) THEN {0} ELSE {0, tag.version} :
        req' = [req EXCEPT ![c] = [id |-> tag.id, expect |-> e, tag |-> tag]]
  /\ UNCHANGED <<tables, clock, view, bulk>>

PatchUser(c, u) ==
  /\ Free(c)
  /\ IF UserThere(u) THEN StartPatch(c, TagOf(u, users[u], {})) ELSE Fail(c)

PatchGroup(c, g) ==
  /\ Free(c)
  /\ IF GroupThere(g) THEN StartPatch(c, TagOf(g, groups[g], Members(g))) ELSE Fail(c)

-----------------------------------------------------------------------------
Next ==
  \E c \in Clients :
     \/ StartBulk(c) \/ RefuseOperation(c) \/ Abandon(c)
     \/ ReplaceIfMatch(c)
     \/ \E id \in Ids : Replace(c, id)
     \/ \E u \in UserIds : \/ GetUser(c, u) \/ DeleteUser(c, u) \/ PatchUser(c, u)
                           \/ \E n \in Names : CreateUser(c, u, n) \/ UpdateUser(c, u, n)
     \/ \E g \in GroupIds : \/ GetGroup(c, g) \/ DeleteGroup(c, g) \/ PatchGroup(c, g)
                            \/ \E who \in SUBSET UserIds : CreateGroup(c, g, who) \/ UpdateGroup(c, g, who)

Spec == Init /\ [][Next]_vars

-----------------------------------------------------------------------------
TypeOK ==
  /\ users \in [UserIds -> UserRow \cup {NoRow}]
  /\ groups \in [GroupIds -> GroupRow \cup {NoRow}]
  /\ members \subseteq GroupIds \X UserIds
  /\ clock \in 0..MaxWrites
  /\ view \in [Clients -> Tag \cup {NoTag}]
  /\ req \in [Clients -> Request \cup {NoRequest}]
  /\ bulk \in [Clients -> Bulk]

Row(id) == IF id \in UserIds THEN users[id] ELSE groups[id]

(* Every tag in somebody's hands. *)
Held == ({view[c] : c \in Clients}
          \cup {req[c].tag : c \in {c \in Clients : ~Free(c)}}) \ {NoTag}

(* An ETag names a content. While the row it was read from lives, the row's   *)
(* version never falls behind a tag, and with the tag's version it has the    *)
(* tag's document. A group's members may have got fewer (their users were     *)
(* deleted), but there are none the holder was not told of. This is what      *)
(* UpdateUser, UpdateGroup and the cascade of DeleteUser make of versions.    *)
TagFits(t) ==
  (Row(t.id) # NoRow /\ Row(t.id).born = t.born) =>
     /\ Row(t.id).version >= t.version
     /\ Row(t.id).version = t.version =>
           /\ Row(t.id).stamp = t.stamp
           /\ t.id \in GroupIds => Members(t.id) \subseteq t.members

TagNamesContent == \A t \in Held : TagFits(t)

(* Nobody is a member of a group that does not name him, of a group that does *)
(* not exist, or without being a user: however groups are rewritten and users *)
(* deleted, the table that GET /Groups/{id} joins stays inside the documents. *)
MembershipSound ==
  \A m \in members : GroupThere(m[1]) /\ UserThere(m[2]) /\ m[2] \in groups[m[1]].listed

(* Optimistic locking: a PATCH that leaves meta alone, or a PUT with If-Match,*)
(* that changes a row overwrites exactly the content it was made from, as     *)
(* long as that row was not deleted and created again in between.             *)
Guarded(r) == r.tag # NoTag /\ r.expect = r.tag.version

GuardedWrite ==
  [][\A c \in Clients, id \in Ids :
        (/\ ~Free(c) /\ req'[c] = NoRequest
         /\ req[c].id = id /\ Guarded(req[c])
         /\ Row(id) # NoRow /\ Row(id).born = req[c].tag.born
         /\ Row(id)' # Row(id))
           => Row(id).stamp = req[c].tag.stamp]_vars

(* An update that meets a deleted resource does not bring it back: a row      *)
(* appears only in a step in which no request ends its update.                *)
NoResurrection ==
  [][\A c \in Clients : (~Free(c) /\ req'[c] = NoRequest)
        => \A id \in Ids : Row(id) = NoRow => Row(id)' = NoRow]_vars

(* The storage compares version numbers, for the requests that bring one; the *)
(* promise is about contents: see ScimResources.  Any two requests, and the   *)
(* operations of a bulk request, may run between the steps of a handler.      *)
Content(id) == IF Row(id) = NoRow THEN NoRow
               ELSE [stamp |-> Row(id).stamp, born |-> Row(id).born]

Basis(t) == IF t = NoTag THEN NoRow ELSE [id |-> t.id, stamp |-> t.stamp, born |-> t.born]

Asked(c) == IF Free(c) THEN NoRow
            ELSE [id |-> req[c].id,
                  basis |-> IF Guarded(req[c]) THEN Basis(req[c].tag) ELSE NoRow]

Resources == INSTANCE ScimResources WITH
  Nothing <- NoRow, writes <- clock,
  content <- [id \in Ids |-> Content(id)],
  seen    <- [c \in Clients |-> Basis(view[c])],
  asked   <- [c \in Clients |-> Asked(c)]

KeepsResources == Resources!Spec

(* What GET /Groups and POST /Groups show as the members of a group, the      *)
(* document's list, is who the members are.                                   *)
ListShowsMembers == \A g \in GroupIds : GroupThere(g) => groups[g].listed = Members(g)

=============================================================================
