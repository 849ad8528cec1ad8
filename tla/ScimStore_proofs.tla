--------------------------- MODULE ScimStore_proofs ---------------------------
(***************************************************************************)
(* Optimistic locking and membership of the SCIM provider, for any number  *)
(* of clients, users, groups and writes.                                   *)
(***************************************************************************)
EXTENDS ScimStore, TLAPS

-----------------------------------------------------------------------------
(* The inductive invariant. A tag fits its row only because a row made later *)
(* than the tag was born later, so the tags must be known to be in the past. *)

TagsArePast == \A t \in Held : t.born <= clock

RowsArePast == /\ \A u \in UserIds : UserThere(u) => users[u].born <= clock
               /\ \A g \in GroupIds : GroupThere(g) => groups[g].born <= clock

IInv == TypeOK /\ RowsArePast /\ TagsArePast /\ TagNamesContent /\ MembershipSound

LEMMA InitIInv == Init => IInv
<1>. SUFFICES ASSUME Init PROVE IInv
  OBVIOUS
<1>. USE DEF Init
<1>1. TypeOK
  BY BoundsAreNumbers DEF TypeOK, NoBulk, Bulk
<1>2. Held = {}
  BY DEF Held, Free
<1>3. MembershipSound
  BY DEF MembershipSound
<1>4. RowsArePast
  BY DEF RowsArePast, UserThere, GroupThere
<1>. QED BY <1>1, <1>2, <1>3, <1>4 DEF IInv, TagsArePast, TagNamesContent

-----------------------------------------------------------------------------
(* Types. *)

LEMMA AfterOperationType ==
  ASSUME NEW b \in Bulk, NEW ok \in BOOLEAN
  PROVE  AfterOperation(b, ok) \in Bulk
BY BoundsAreNumbers DEF AfterOperation, NoBulk, Bulk

\* What every ended operation leaves of the requests and the bulk requests.
LEMMA FinishTypes ==
  ASSUME TypeOK, NEW c \in Clients, NEW ok \in BOOLEAN, Finish(c, ok)
  PROVE  /\ req' \in [Clients -> Request \cup {NoRequest}]
         /\ bulk' \in [Clients -> Bulk]
<1>1. AfterOperation(bulk[c], ok) \in Bulk
  BY AfterOperationType DEF TypeOK
<1>. QED BY <1>1 DEF TypeOK, Finish

LEMMA FailTypes ==
  ASSUME TypeOK, NEW c \in Clients, Fail(c)
  PROVE  TypeOK'
<1>1. /\ req' \in [Clients -> Request \cup {NoRequest}]
      /\ bulk' \in [Clients -> Bulk]
  BY FinishTypes DEF Fail
<1>. QED BY <1>1 DEF TypeOK, Fail, tables

LEMMA SucceedTypes ==
  ASSUME TypeOK, NEW c \in Clients, NEW t \in Tag, Succeed(c, t), clock < MaxWrites
  PROVE  /\ req' \in [Clients -> Request \cup {NoRequest}]
         /\ bulk' \in [Clients -> Bulk]
         /\ view' \in [Clients -> Tag \cup {NoTag}]
         /\ clock' \in 0..MaxWrites
<1>1. /\ req' \in [Clients -> Request \cup {NoRequest}]
      /\ bulk' \in [Clients -> Bulk]
  BY FinishTypes DEF Succeed
<1>2. view' \in [Clients -> Tag \cup {NoTag}]
  BY DEF TypeOK, Succeed
<1>3. clock' \in 0..MaxWrites
  BY BoundsAreNumbers DEF TypeOK, Succeed
<1>. QED BY <1>1, <1>2, <1>3

LEMMA TagTypes ==
  ASSUME TypeOK
  PROVE  /\ \A u \in UserIds : UserThere(u) => /\ users[u] \in UserRow
                                               /\ TagOf(u, users[u], {}) \in Tag
         /\ \A g \in GroupIds : GroupThere(g) => /\ groups[g] \in GroupRow
                                                 /\ TagOf(g, groups[g], Members(g)) \in Tag
BY DEF TypeOK, UserThere, GroupThere, UserRow, GroupRow, TagOf, Tag, Ids, Members

-----------------------------------------------------------------------------
(* What a step does to the tags in somebody's hands. *)

\* An operation that fails, or ends without an answer, hands out no tag.
LEMMA FinishHeld ==
  ASSUME TypeOK, NEW c \in Clients, NEW ok \in BOOLEAN, Finish(c, ok), UNCHANGED view
  PROVE  Held' \subseteq Held
BY DEF TypeOK, Finish, Held, Free

LEMMA SucceedHeld ==
  ASSUME TypeOK, NEW c \in Clients, NEW t, Succeed(c, t)
  PROVE  Held' \subseteq Held \cup {t}
BY DEF TypeOK, Succeed, Finish, Held, Free

\* The shape of every step's proof: the new tags are past and fit, and the
\* old ones still do.
LEMMA StepIInv ==
  ASSUME IInv, TypeOK', RowsArePast', MembershipSound', clock <= clock',
         \A t \in Held' : t \in Held \/ (t.born <= clock' /\ TagFits(t)'),
         \A t \in Held : TagFits(t) => TagFits(t)'
  PROVE  IInv'
<1>1. Held \subseteq Tag
  BY DEF IInv, TypeOK, Held, Free, Request
<1>2. TagsArePast'
  <2>. SUFFICES ASSUME NEW t \in Held' PROVE t.born <= clock'
    BY DEF TagsArePast
  <2>1. CASE t \in Held
    <3>1. t.born \in Nat /\ t.born <= clock
      BY <1>1, <2>1 DEF IInv, TagsArePast, Tag
    <3>. QED BY <3>1 DEF IInv, TypeOK
  <2>. QED BY <2>1
<1>3. TagNamesContent'
  BY DEF IInv, TagNamesContent
<1>. QED BY <1>2, <1>3 DEF IInv

\* Steps that leave the tables alone and hand out only tags that fit.
LEMMA QuietIInv ==
  ASSUME IInv, TypeOK', UNCHANGED <<tables, clock>>,
         \A t \in Held' : t \in Held \/ (t.born <= clock /\ TagFits(t))
  PROVE  IInv'
<1>. USE DEF tables
<1>1. \A x : TagFits(x)' <=> TagFits(x)
  BY DEF TagFits, Row, Members
<1>2. MembershipSound'
  BY DEF IInv, MembershipSound, GroupThere, UserThere
<1>3. clock <= clock'
  BY DEF IInv, TypeOK
<1>4. RowsArePast'
  BY DEF IInv, RowsArePast, GroupThere, UserThere
<1>. QED BY <1>1, <1>2, <1>3, <1>4, StepIInv

LEMMA FailIInv ==
  ASSUME IInv, NEW c \in Clients, Fail(c)
  PROVE  IInv'
<1>1. TypeOK'
  BY FailTypes DEF IInv
<1>2. Held' \subseteq Held
  BY FinishHeld DEF IInv, Fail
<1>3. UNCHANGED <<tables, clock>>
  BY DEF Fail
<1>. QED BY <1>1, <1>2, <1>3, QuietIInv

-----------------------------------------------------------------------------
(* The tables. Each lemma has the same three facts: types, memberships, and   *)
(* old tags that fit still do.                                                *)

\* A step that changes no row but users[u], to one whose birth is new or whose
\* version went up, or to none.
LEMMA UserRowChanges ==
  ASSUME IInv, NEW u \in UserIds, NEW row \in UserRow \cup {NoRow},
         users' = [users EXCEPT ![u] = row], UNCHANGED groups, members' \subseteq members,
         \/ row = NoRow
         \/ row \in UserRow /\ row.born > clock
         \/ /\ row \in UserRow /\ UserThere(u)
            /\ row.born = users[u].born /\ row.version > users[u].version
  PROVE  \A t \in Held : TagFits(t) => TagFits(t)'
<1>. SUFFICES ASSUME NEW t \in Held, TagFits(t) PROVE TagFits(t)'
  OBVIOUS
<1>0. t \in Tag /\ t.id \in Ids /\ t.version \in Nat /\ t.born \in Nat /\ t.born <= clock
  BY DEF IInv, TypeOK, TagsArePast, Held, Free, Request, Tag
<1>1. CASE t.id \in GroupIds
  <2>1. Row(t.id)' = Row(t.id)
    BY <1>1, IdsAreApart DEF Row
  <2>2. Members(t.id)' \subseteq Members(t.id)
    BY DEF Members
  <2>. QED BY <2>1, <2>2 DEF TagFits
<1>2. CASE t.id \in UserIds \ {u}
  <2>1. Row(t.id)' = Row(t.id) /\ t.id \notin GroupIds
    BY <1>2, IdsAreApart DEF Row, IInv, TypeOK
  <2>. QED BY <2>1 DEF TagFits
<1>3. CASE t.id = u
  <2>1. /\ Row(t.id) = users[u] /\ Row(t.id)' = row /\ t.id \notin GroupIds
        /\ users[u] \in UserRow \cup {NoRow} /\ clock \in Nat
    BY <1>3, IdsAreApart DEF Row, IInv, TypeOK
  <2>2. CASE row = NoRow
    BY <2>1, <2>2 DEF TagFits
  <2>3. CASE row \in UserRow /\ row.born > clock
    <3>1. row.born # t.born
      BY <2>1, <2>3, <1>0 DEF UserRow
    <3>. QED BY <3>1, <2>1 DEF TagFits
  <2>4. CASE /\ row \in UserRow /\ UserThere(u)
             /\ row.born = users[u].born /\ row.version > users[u].version
    <3>1. users[u] \in UserRow /\ users[u] # NoRow
      BY <2>1, <2>4 DEF UserThere
    <3>2. row.born = t.born => row.version > t.version
      BY <3>1, <2>1, <2>4, <1>0 DEF TagFits, UserRow
    <3>. QED BY <3>2, <2>1, <2>4, <1>0 DEF TagFits, UserRow
  <2>. QED BY <2>2, <2>3, <2>4
<1>. QED BY <1>0, <1>1, <1>2, <1>3 DEF Ids

\* The same for groups, whose members may then be any.
LEMMA GroupRowChanges ==
  ASSUME IInv, NEW g \in GroupIds, NEW row \in GroupRow \cup {NoRow},
         groups' = [groups EXCEPT ![g] = row], UNCHANGED users,
         \A h \in GroupIds \ {g} : Members(h)' = Members(h),
         \/ row = NoRow
         \/ row \in GroupRow /\ row.born > clock
         \/ /\ row \in GroupRow /\ GroupThere(g)
            /\ row.born = groups[g].born /\ row.version > groups[g].version
  PROVE  \A t \in Held : TagFits(t) => TagFits(t)'
<1>. SUFFICES ASSUME NEW t \in Held, TagFits(t) PROVE TagFits(t)'
  OBVIOUS
<1>0. t \in Tag /\ t.id \in Ids /\ t.version \in Nat /\ t.born \in Nat /\ t.born <= clock
  BY DEF IInv, TypeOK, TagsArePast, Held, Free, Request, Tag
<1>1. CASE t.id \in UserIds
  <2>1. Row(t.id)' = Row(t.id) /\ t.id \notin GroupIds
    BY <1>1, IdsAreApart DEF Row
  <2>. QED BY <2>1 DEF TagFits
<1>2. CASE t.id \in GroupIds \ {g}
  <2>1. Row(t.id)' = Row(t.id)
    BY <1>2, IdsAreApart DEF Row, IInv, TypeOK
  <2>2. Members(t.id)' = Members(t.id)
    BY <1>2
  <2>. QED BY <2>1, <2>2 DEF TagFits
<1>3. CASE t.id = g
  <2>1. /\ Row(t.id) = groups[g] /\ Row(t.id)' = row
        /\ groups[g] \in GroupRow \cup {NoRow} /\ clock \in Nat
    BY <1>3, IdsAreApart DEF Row, IInv, TypeOK
  <2>2. CASE row = NoRow
    BY <2>1, <2>2 DEF TagFits
  <2>3. CASE row \in GroupRow /\ row.born > clock
    <3>1. row.born # t.born
      BY <2>1, <2>3, <1>0 DEF GroupRow
    <3>. QED BY <3>1, <2>1 DEF TagFits
  <2>4. CASE /\ row \in GroupRow /\ GroupThere(g)
             /\ row.born = groups[g].born /\ row.version > groups[g].version
    <3>1. groups[g] \in GroupRow /\ groups[g] # NoRow
      BY <2>1, <2>4 DEF GroupThere
    <3>2. row.born = t.born => row.version > t.version
      BY <3>1, <2>1, <2>4, <1>0 DEF TagFits, GroupRow
    <3>. QED BY <3>2, <2>1, <2>4, <1>0 DEF TagFits, GroupRow
  <2>. QED BY <2>2, <2>3, <2>4
<1>. QED BY <1>0, <1>1, <1>2, <1>3 DEF Ids

\* A new row's tag, in a step that succeeds.
LEMMA NewUserTag ==
  ASSUME IInv, NEW c \in Clients, NEW u \in UserIds, NEW row \in UserRow,
         users' = [users EXCEPT ![u] = row], row.born <= clock',
         Succeed(c, TagOf(u, row, {}))
  PROVE  \A t \in Held' : t \in Held \/ (t.born <= clock' /\ TagFits(t)')
<1>1. Held' \subseteq Held \cup {TagOf(u, row, {})}
  BY SucceedHeld DEF IInv
<1>2. Row(u)' = row /\ u \notin GroupIds
  BY IdsAreApart DEF Row, IInv, TypeOK
<1>3. /\ TagOf(u, row, {}).born <= clock'
      /\ TagFits(TagOf(u, row, {}))'
  BY <1>2 DEF TagFits, TagOf, UserRow
<1>. QED BY <1>1, <1>3

LEMMA NewGroupTag ==
  ASSUME IInv, NEW c \in Clients, NEW g \in GroupIds, NEW row \in GroupRow,
         NEW who \in SUBSET UserIds, Members(g)' \subseteq who,
         groups' = [groups EXCEPT ![g] = row], row.born <= clock',
         Succeed(c, TagOf(g, row, who))
  PROVE  \A t \in Held' : t \in Held \/ (t.born <= clock' /\ TagFits(t)')
<1>1. Held' \subseteq Held \cup {TagOf(g, row, who)}
  BY SucceedHeld DEF IInv
<1>2. Row(g)' = row
  BY IdsAreApart DEF Row, IInv, TypeOK
<1>3. /\ TagOf(g, row, who).born <= clock'
      /\ TagFits(TagOf(g, row, who))'
  BY <1>2 DEF TagFits, TagOf, GroupRow
<1>. QED BY <1>1, <1>3

LEMMA CreateUserIInv ==
  ASSUME IInv, NEW c \in Clients, NEW u \in UserIds, NEW n \in Names, CreateUser(c, u, n)
  PROVE  IInv'
<1>1. CASE UserThere(u) \/ NameTaken(n, u)
  BY <1>1, FailIInv DEF CreateUser
<1>2. CASE ~(UserThere(u) \/ NameTaken(n, u))
  <2>. DEFINE row == [name |-> n, version |-> 1, stamp |-> clock + 1, born |-> clock + 1]
  <2>1. /\ users' = [users EXCEPT ![u] = row] /\ Succeed(c, TagOf(u, row, {}))
        /\ UNCHANGED <<groups, members>> /\ clock' = clock + 1 /\ clock < MaxWrites
    BY <1>2 DEF CreateUser, Succeed
  <2>2. clock \in Nat /\ row \in UserRow /\ row.born > clock /\ row.born <= clock'
    BY <2>1 DEF IInv, TypeOK, UserRow
  <2>3. TagOf(u, row, {}) \in Tag
    BY <2>2 DEF TagOf, Tag, Ids, UserRow
  <2>. HIDE DEF row
  <2>4. TypeOK'
    BY <2>1, <2>2, <2>3, SucceedTypes DEF IInv, TypeOK
  <2>5. MembershipSound'
    BY <2>1, <2>2, NoneOfThem DEF IInv, TypeOK, MembershipSound, GroupThere, UserThere
  <2>6. \A t \in Held : TagFits(t) => TagFits(t)'
    BY <2>1, <2>2, UserRowChanges
  <2>7. \A t \in Held' : t \in Held \/ (t.born <= clock' /\ TagFits(t)')
    BY <2>1, <2>2, NewUserTag
  <2>8. RowsArePast'
    BY <2>1, <2>2 DEF IInv, TypeOK, RowsArePast, UserThere, GroupThere, UserRow, GroupRow
  <2>. QED BY <2>1, <2>2, <2>4, <2>5, <2>6, <2>7, <2>8, StepIInv
<1>. QED BY <1>1, <1>2

LEMMA UpdateUserIInv ==
  ASSUME IInv, NEW c \in Clients, NEW u \in UserIds, NEW n \in Names, UpdateUser(c, u, n)
  PROVE  IInv'
<1>. DEFINE refused == \/ ~UserThere(u)
                       \/ req[c].expect > 0 /\ req[c].expect # users[u].version
                       \/ NameTaken(n, u)
<1>1. CASE refused
  BY <1>1, FailIInv DEF UpdateUser
<1>2. CASE ~refused
  <2>. DEFINE row == [name |-> n, version |-> users[u].version + 1,
                      stamp |-> clock + 1, born |-> users[u].born]
  <2>1. /\ users' = [users EXCEPT ![u] = row] /\ Succeed(c, TagOf(u, row, {}))
        /\ UNCHANGED <<groups, members>> /\ clock' = clock + 1 /\ clock < MaxWrites
        /\ UserThere(u)
    BY <1>2 DEF UpdateUser, Succeed
  <2>2. /\ clock \in Nat /\ users[u] \in UserRow /\ row \in UserRow
        /\ row.born = users[u].born /\ row.version > users[u].version
    BY <2>1, TagTypes DEF IInv, TypeOK, UserRow
  <2>3. TagOf(u, row, {}) \in Tag
    BY <2>2 DEF TagOf, Tag, Ids, UserRow
  <2>4. row.born <= clock'
    BY <2>1, <2>2 DEF IInv, RowsArePast, UserRow
  <2>. HIDE DEF row
  <2>5. TypeOK'
    BY <2>1, <2>2, <2>3, SucceedTypes DEF IInv, TypeOK
  <2>6. MembershipSound'
    BY <2>1, <2>2, NoneOfThem DEF IInv, TypeOK, MembershipSound, GroupThere, UserThere
  <2>7. \A t \in Held : TagFits(t) => TagFits(t)'
    BY <2>1, <2>2, UserRowChanges
  <2>8. \A t \in Held' : t \in Held \/ (t.born <= clock' /\ TagFits(t)')
    BY <2>1, <2>2, <2>4, NewUserTag
  <2>9. RowsArePast'
    BY <2>1, <2>2, <2>4 DEF IInv, TypeOK, RowsArePast, UserThere, GroupThere, UserRow, GroupRow
  <2>. QED BY <2>1, <2>2, <2>5, <2>6, <2>7, <2>8, <2>9, StepIInv
<1>. QED BY <1>1, <1>2

LEMMA DeleteUserIInv ==
  ASSUME IInv, NEW c \in Clients, NEW u \in UserIds, DeleteUser(c, u)
  PROVE  IInv'
<1>1. CASE ~UserThere(u)
  BY <1>1, FailIInv DEF DeleteUser
<1>2. CASE UserThere(u)
  <2>1. /\ users' = [users EXCEPT ![u] = NoRow]
        /\ members' = {m \in members : m[2] # u}
        /\ Finish(c, TRUE) /\ UNCHANGED <<groups, clock, view>>
    BY <1>2 DEF DeleteUser
  <2>2. /\ req' \in [Clients -> Request \cup {NoRequest}]
        /\ bulk' \in [Clients -> Bulk]
    BY <2>1, FinishTypes DEF IInv
  <2>3. TypeOK'
    BY <2>1, <2>2 DEF IInv, TypeOK
  <2>4. MembershipSound'
    <3>. SUFFICES ASSUME NEW m \in members'
                  PROVE  GroupThere(m[1])' /\ UserThere(m[2])' /\ (m[2] \in groups[m[1]].listed)'
      BY DEF MembershipSound
    <3>1. m \in members /\ m[2] # u /\ m[2] \in UserIds
      BY <2>1 DEF IInv, TypeOK
    <3>. QED BY <2>1, <3>1 DEF IInv, TypeOK, MembershipSound, GroupThere, UserThere
  <2>5. Held' \subseteq Held
    BY <2>1, FinishHeld DEF IInv
  <2>6. \A t \in Held : TagFits(t) => TagFits(t)'
    BY <2>1, UserRowChanges
  <2>7. RowsArePast'
    BY <2>1 DEF IInv, TypeOK, RowsArePast, UserThere, GroupThere
  <2>8. clock <= clock'
    BY <2>1 DEF IInv, TypeOK
  <2>. QED BY <2>3, <2>4, <2>5, <2>6, <2>7, <2>8, StepIInv
<1>. QED BY <1>1, <1>2

\* Groups: the document and the table are written together, and only users
\* get into the table.
LEMMA WriteGroupIInv ==
  ASSUME IInv, NEW c \in Clients, NEW g \in GroupIds, NEW who \in SUBSET UserIds,
         NEW row \in GroupRow, row.listed = who, row.born <= clock + 1,
         \/ row.born = clock + 1
         \/ GroupThere(g) /\ row.born = groups[g].born /\ row.version > groups[g].version,
         groups' = [groups EXCEPT ![g] = row],
         members' = {m \in members : m[1] # g}
                      \cup {<<g, u>> : u \in {u \in who : UserThere(u)}},
         UNCHANGED users, clock < MaxWrites,
         Succeed(c, TagOf(g, row, who))
  PROVE  IInv'
<1>1. clock \in Nat /\ clock' = clock + 1
  BY DEF IInv, TypeOK, Succeed
<1>2. TagOf(g, row, who) \in Tag
  BY DEF TagOf, Tag, Ids, GroupRow
<1>3. members' \subseteq GroupIds \X UserIds
  BY DEF IInv, TypeOK
<1>4. TypeOK'
  BY <1>2, <1>3, SucceedTypes DEF IInv, TypeOK
<1>5. MembershipSound'
  <2>. SUFFICES ASSUME NEW m \in members'
                PROVE  GroupThere(m[1])' /\ UserThere(m[2])' /\ (m[2] \in groups[m[1]].listed)'
    BY DEF MembershipSound
  <2>1. CASE m \in members /\ m[1] # g
    <3>1. m[1] \in GroupIds /\ groups'[m[1]] = groups[m[1]]
      BY <2>1 DEF IInv, TypeOK
    <3>. QED BY <2>1, <3>1 DEF IInv, MembershipSound, GroupThere, UserThere
  <2>2. CASE m \in {<<g, u>> : u \in {u \in who : UserThere(u)}}
    <3>1. m[1] = g /\ m[2] \in who /\ UserThere(m[2])
      BY <2>2
    <3>2. groups'[g] = row /\ row # NoRow
      BY NoneOfThem DEF IInv, TypeOK
    <3>. QED BY <3>1, <3>2 DEF GroupThere, UserThere
  <2>. QED BY <2>1, <2>2
<1>6. \A h \in GroupIds \ {g} : Members(h)' = Members(h)
  BY DEF Members
<1>7. Members(g)' \subseteq who
  BY DEF Members
<1>8. row.born > clock \/ (GroupThere(g) /\ row.born = groups[g].born /\ row.version > groups[g].version)
  BY <1>1
<1>9. \A t \in Held : TagFits(t) => TagFits(t)'
  BY <1>6, <1>8, GroupRowChanges
<1>10. \A t \in Held' : t \in Held \/ (t.born <= clock' /\ TagFits(t)')
  BY <1>1, <1>7, NewGroupTag
<1>11. RowsArePast'
  BY <1>1 DEF IInv, TypeOK, RowsArePast, UserThere, GroupThere, UserRow, GroupRow
<1>. QED BY <1>1, <1>4, <1>5, <1>9, <1>10, <1>11, StepIInv

LEMMA CreateGroupIInv ==
  ASSUME IInv, NEW c \in Clients, NEW g \in GroupIds, NEW who \in SUBSET UserIds,
         CreateGroup(c, g, who)
  PROVE  IInv'
<1>1. CASE GroupThere(g)
  BY <1>1, FailIInv DEF CreateGroup
<1>2. CASE ~GroupThere(g)
  <2>. DEFINE row == [listed |-> who, version |-> 1, stamp |-> clock + 1, born |-> clock + 1]
  <2>1. /\ groups' = [groups EXCEPT ![g] = row] /\ Succeed(c, TagOf(g, row, who))
        /\ UNCHANGED users /\ clock < MaxWrites
        /\ members' = members \cup {<<g, u>> : u \in {u \in who : UserThere(u)}}
    BY <1>2 DEF CreateGroup
  <2>2. clock \in Nat /\ row \in GroupRow
    BY DEF IInv, TypeOK, GroupRow
  <2>3. members = {m \in members : m[1] # g}
    BY <1>2 DEF IInv, MembershipSound
  <2>4. row.listed = who /\ row.born <= clock + 1 /\ row.born = clock + 1
    BY <2>2
  <2>. HIDE DEF row
  <2>. QED BY <2>1, <2>2, <2>3, <2>4, WriteGroupIInv
<1>. QED BY <1>1, <1>2

LEMMA UpdateGroupIInv ==
  ASSUME IInv, NEW c \in Clients, NEW g \in GroupIds, NEW who \in SUBSET UserIds,
         UpdateGroup(c, g, who)
  PROVE  IInv'
<1>. DEFINE refused == \/ ~GroupThere(g)
                       \/ req[c].expect > 0 /\ req[c].expect # groups[g].version
<1>1. CASE refused
  BY <1>1, FailIInv DEF UpdateGroup
<1>2. CASE ~refused
  <2>. DEFINE row == [listed |-> who, version |-> groups[g].version + 1,
                      stamp |-> clock + 1, born |-> groups[g].born]
  <2>1. /\ groups' = [groups EXCEPT ![g] = row] /\ Succeed(c, TagOf(g, row, who))
        /\ UNCHANGED users /\ clock < MaxWrites /\ GroupThere(g)
        /\ members' = {m \in members : m[1] # g}
                        \cup {<<g, u>> : u \in {u \in who : UserThere(u)}}
    BY <1>2 DEF UpdateGroup
  <2>2. /\ clock \in Nat /\ groups[g] \in GroupRow /\ row \in GroupRow /\ row.listed = who
        /\ row.born = groups[g].born /\ row.version > groups[g].version
    BY <2>1, TagTypes DEF IInv, TypeOK, GroupRow
  <2>3. row.born <= clock + 1
    BY <2>1, <2>2 DEF IInv, RowsArePast, GroupRow
  <2>. HIDE DEF row
  <2>. QED BY <2>1, <2>2, <2>3, WriteGroupIInv
<1>. QED BY <1>1, <1>2

LEMMA DeleteGroupIInv ==
  ASSUME IInv, NEW c \in Clients, NEW g \in GroupIds, DeleteGroup(c, g)
  PROVE  IInv'
<1>1. CASE ~GroupThere(g)
  BY <1>1, FailIInv DEF DeleteGroup
<1>2. CASE GroupThere(g)
  <2>1. /\ groups' = [groups EXCEPT ![g] = NoRow]
        /\ members' = {m \in members : m[1] # g}
        /\ Finish(c, TRUE) /\ UNCHANGED <<users, clock, view>>
    BY <1>2 DEF DeleteGroup
  <2>2. /\ req' \in [Clients -> Request \cup {NoRequest}]
        /\ bulk' \in [Clients -> Bulk]
    BY <2>1, FinishTypes DEF IInv
  <2>3. TypeOK'
    BY <2>1, <2>2 DEF IInv, TypeOK
  <2>4. MembershipSound'
    <3>. SUFFICES ASSUME NEW m \in members'
                  PROVE  GroupThere(m[1])' /\ UserThere(m[2])' /\ (m[2] \in groups[m[1]].listed)'
      BY DEF MembershipSound
    <3>1. m \in members /\ m[1] # g /\ m[1] \in GroupIds
      BY <2>1 DEF IInv, TypeOK
    <3>. QED BY <2>1, <3>1 DEF IInv, TypeOK, MembershipSound, GroupThere, UserThere
  <2>5. Held' \subseteq Held
    BY <2>1, FinishHeld DEF IInv
  <2>6. \A h \in GroupIds \ {g} : Members(h)' = Members(h)
    BY <2>1 DEF Members
  <2>7. \A t \in Held : TagFits(t) => TagFits(t)'
    BY <2>1, <2>6, GroupRowChanges
  <2>8. RowsArePast'
    BY <2>1 DEF IInv, TypeOK, RowsArePast, UserThere, GroupThere
  <2>9. clock <= clock'
    BY <2>1 DEF IInv, TypeOK
  <2>. QED BY <2>3, <2>4, <2>5, <2>7, <2>8, <2>9, StepIInv
<1>. QED BY <1>1, <1>2

-----------------------------------------------------------------------------
(* Steps that leave the tables alone. *)

\* A tag read from a table is past and fits.
LEMMA ReadTagFits ==
  ASSUME IInv
  PROVE  /\ \A u \in UserIds : UserThere(u) =>
               LET t == TagOf(u, users[u], {})
               IN  t \in Tag /\ t.born <= clock /\ TagFits(t)
         /\ \A g \in GroupIds : GroupThere(g) =>
               LET t == TagOf(g, groups[g], Members(g))
               IN  t \in Tag /\ t.born <= clock /\ TagFits(t)
<1>1. ASSUME NEW u \in UserIds, UserThere(u)
      PROVE  LET t == TagOf(u, users[u], {}) IN t \in Tag /\ t.born <= clock /\ TagFits(t)
  <2>1. users[u] \in UserRow /\ TagOf(u, users[u], {}) \in Tag
    BY <1>1, TagTypes DEF IInv
  <2>2. users[u].born <= clock
    BY <1>1 DEF IInv, RowsArePast
  <2>3. Row(u) = users[u] /\ u \notin GroupIds
    BY IdsAreApart DEF Row
  <2>. QED BY <2>1, <2>2, <2>3 DEF TagOf, TagFits, UserRow
<1>2. ASSUME NEW g \in GroupIds, GroupThere(g)
      PROVE  LET t == TagOf(g, groups[g], Members(g)) IN t \in Tag /\ t.born <= clock /\ TagFits(t)
  <2>1. groups[g] \in GroupRow /\ TagOf(g, groups[g], Members(g)) \in Tag
    BY <1>2, TagTypes DEF IInv
  <2>2. groups[g].born <= clock
    BY <1>2 DEF IInv, RowsArePast
  <2>3. Row(g) = groups[g]
    BY IdsAreApart DEF Row
  <2>. QED BY <2>1, <2>2, <2>3 DEF TagOf, TagFits, GroupRow
<1>. QED BY <1>1, <1>2

LEMMA BulkIInv ==
  ASSUME IInv, NEW c \in Clients, StartBulk(c) \/ RefuseOperation(c) \/ Abandon(c)
  PROVE  IInv'
<1>1. CASE StartBulk(c)
  <2>1. TypeOK'
    BY <1>1, BoundsAreNumbers DEF IInv, TypeOK, StartBulk, Bulk, tables
  <2>2. Held' = Held
    BY <1>1 DEF StartBulk, Held, Free
  <2>. QED BY <1>1, <2>1, <2>2, QuietIInv DEF StartBulk
<1>2. CASE RefuseOperation(c)
  BY <1>2, FailIInv DEF RefuseOperation
<1>3. CASE Abandon(c)
  <2>1. TypeOK'
    BY <1>3, BoundsAreNumbers DEF IInv, TypeOK, Abandon, Bulk, NoBulk, tables
  <2>2. Held' \subseteq Held
    BY <1>3 DEF IInv, TypeOK, Abandon, Held, Free
  <2>. QED BY <1>3, <2>1, <2>2, QuietIInv DEF Abandon
<1>. QED BY <1>1, <1>2, <1>3

LEMMA ReadIInv ==
  ASSUME IInv, NEW c \in Clients, NEW t \in Tag, t.born <= clock, TagFits(t),
         view' = [view EXCEPT ![c] = t], UNCHANGED <<tables, clock, req, bulk>>
  PROVE  IInv'
<1>1. TypeOK'
  BY DEF IInv, TypeOK, tables
<1>2. Held' \subseteq Held \cup {t}
  BY DEF IInv, TypeOK, Held, Free
<1>. QED BY <1>1, <1>2, QuietIInv

LEMMA GetIInv ==
  ASSUME IInv, NEW c \in Clients,
         \/ \E u \in UserIds : GetUser(c, u)
         \/ \E g \in GroupIds : GetGroup(c, g)
  PROVE  IInv'
<1>1. ASSUME NEW u \in UserIds, GetUser(c, u) PROVE IInv'
  BY <1>1, ReadTagFits, ReadIInv DEF GetUser
<1>2. ASSUME NEW g \in GroupIds, GetGroup(c, g) PROVE IInv'
  BY <1>2, ReadTagFits, ReadIInv DEF GetGroup
<1>. QED BY <1>1, <1>2

\* A request starts, with a tag that is held or was read just now.
LEMMA RequestIInv ==
  ASSUME IInv, NEW c \in Clients, NEW r \in Request,
         r.tag = NoTag \/ r.tag \in Held \/ (r.tag.born <= clock /\ TagFits(r.tag)),
         req' = [req EXCEPT ![c] = r], UNCHANGED <<tables, clock, view, bulk>>
  PROVE  IInv'
<1>1. TypeOK'
  BY DEF IInv, TypeOK, tables
<1>2. Held' \subseteq Held \cup {r.tag} /\ NoTag \notin Held'
  BY DEF IInv, TypeOK, Held, Free
<1>. QED BY <1>1, <1>2, QuietIInv

LEMMA ReplaceIInv ==
  ASSUME IInv, NEW c \in Clients, ReplaceIfMatch(c) \/ \E id \in Ids : Replace(c, id)
  PROVE  IInv'
<1>1. ASSUME NEW id \in Ids, Replace(c, id) PROVE IInv'
  <2>. DEFINE r == [id |-> id, expect |-> 0, tag |-> NoTag]
  <2>1. r \in Request /\ r.tag = NoTag
    BY DEF Request
  <2>. QED BY <1>1, <2>1, RequestIInv DEF Replace
<1>2. CASE ReplaceIfMatch(c)
  <2>. DEFINE r == [id |-> view[c].id, expect |-> view[c].version, tag |-> view[c]]
  <2>1. view[c] \in Tag /\ view[c] \in Held
    BY <1>2 DEF IInv, TypeOK, ReplaceIfMatch, Held
  <2>2. r \in Request /\ r.tag \in Held
    BY <2>1 DEF Request, Tag
  <2>. QED BY <1>2, <2>2, RequestIInv DEF ReplaceIfMatch
<1>. QED BY <1>1, <1>2

LEMMA StartPatchIInv ==
  ASSUME IInv, NEW c \in Clients, NEW t \in Tag, t.born <= clock, TagFits(t),
         StartPatch(c, t)
  PROVE  IInv'
<1>1. PICK e \in {0, t.version} : req' = [req EXCEPT ![c] = [id |-> t.id, expect |-> e, tag |-> t]]
  BY DEF StartPatch
<1>. DEFINE r == [id |-> t.id, expect |-> e, tag |-> t]
<1>2. r \in Request /\ r.tag = t
  BY DEF Request, Tag
<1>. QED BY <1>1, <1>2, RequestIInv DEF StartPatch

LEMMA PatchIInv ==
  ASSUME IInv, NEW c \in Clients,
         \/ \E u \in UserIds : PatchUser(c, u)
         \/ \E g \in GroupIds : PatchGroup(c, g)
  PROVE  IInv'
<1>1. ASSUME NEW u \in UserIds, PatchUser(c, u) PROVE IInv'
  <2>1. CASE UserThere(u)
    BY <1>1, <2>1, ReadTagFits, StartPatchIInv DEF PatchUser
  <2>. QED BY <1>1, <2>1, FailIInv DEF PatchUser
<1>2. ASSUME NEW g \in GroupIds, PatchGroup(c, g) PROVE IInv'
  <2>1. CASE GroupThere(g)
    BY <1>2, <2>1, ReadTagFits, StartPatchIInv DEF PatchGroup
  <2>. QED BY <1>2, <2>1, FailIInv DEF PatchGroup
<1>. QED BY <1>1, <1>2

-----------------------------------------------------------------------------
\* One step per action.
LEMMA NextIInv == IInv /\ [Next]_vars => IInv'
<1>. SUFFICES ASSUME IInv, [Next]_vars PROVE IInv'
  OBVIOUS
<1>1. CASE UNCHANGED vars
  BY <1>1 DEF vars, tables, IInv, TypeOK, RowsArePast, TagsArePast, TagNamesContent, TagFits,
              MembershipSound, Held, Free, Row, Members, UserThere, GroupThere
<1>2. CASE Next
  <2>1. PICK c \in Clients :
          \/ StartBulk(c) \/ RefuseOperation(c) \/ Abandon(c)
          \/ ReplaceIfMatch(c)
          \/ \E id \in Ids : Replace(c, id)
          \/ \E u \in UserIds : \/ GetUser(c, u) \/ DeleteUser(c, u) \/ PatchUser(c, u)
                                \/ \E n \in Names : CreateUser(c, u, n) \/ UpdateUser(c, u, n)
          \/ \E g \in GroupIds :
                \/ GetGroup(c, g) \/ DeleteGroup(c, g) \/ PatchGroup(c, g)
                \/ \E who \in SUBSET UserIds : CreateGroup(c, g, who) \/ UpdateGroup(c, g, who)
    BY <1>2 DEF Next
  <2>2. CASE StartBulk(c) \/ RefuseOperation(c) \/ Abandon(c)
    BY <2>2, BulkIInv
  <2>3. CASE ReplaceIfMatch(c) \/ \E id \in Ids : Replace(c, id)
    BY <2>3, ReplaceIInv
  <2>4. ASSUME NEW u \in UserIds,
               \/ GetUser(c, u) \/ DeleteUser(c, u) \/ PatchUser(c, u)
               \/ \E n \in Names : CreateUser(c, u, n) \/ UpdateUser(c, u, n)
        PROVE  IInv'
    BY <2>4, GetIInv, DeleteUserIInv, PatchIInv, CreateUserIInv, UpdateUserIInv
  <2>5. ASSUME NEW g \in GroupIds,
               \/ GetGroup(c, g) \/ DeleteGroup(c, g) \/ PatchGroup(c, g)
               \/ \E who \in SUBSET UserIds : CreateGroup(c, g, who) \/ UpdateGroup(c, g, who)
        PROVE  IInv'
    BY <2>5, GetIInv, DeleteGroupIInv, PatchIInv, CreateGroupIInv, UpdateGroupIInv
  <2>. QED BY <2>1, <2>2, <2>3, <2>4, <2>5
<1>. QED BY <1>1, <1>2

LEMMA Invariant == Spec => []IInv
<1>1. Init => IInv
  BY InitIInv
<1>2. IInv /\ [Next]_vars => IInv'
  BY NextIInv
<1>. QED BY <1>1, <1>2, PTL DEF Spec

\* The tables, requests and bulk requests keep their types.
THEOREM TypeCorrect == Spec => []TypeOK
BY Invariant, PTL DEF IInv

\* While a row lives, an ETag with its version stands for its document, and a
\* group has no member that the holder of its ETag was not told of.
THEOREM ETagNamesContent == Spec => []TagNamesContent
BY Invariant, PTL DEF IInv

\* Members are existing users of existing groups that name them.
THEOREM MembersAreSound == Spec => []MembershipSound
BY Invariant, PTL DEF IInv

-----------------------------------------------------------------------------
(* Only a storage update ends a request and changes a row. *)
LEMMA EndingStep ==
  ASSUME IInv, Next, NEW c \in Clients, ~Free(c), req'[c] = NoRequest
  PROVE  \/ UNCHANGED tables
         \/ \E u \in UserIds, n \in Names : UpdateUser(c, u, n)
         \/ \E g \in GroupIds, who \in SUBSET UserIds : UpdateGroup(c, g, who)
<1>1. PICK d \in Clients :
        \/ StartBulk(d) \/ RefuseOperation(d) \/ Abandon(d)
        \/ ReplaceIfMatch(d)
        \/ \E id \in Ids : Replace(d, id)
        \/ \E u \in UserIds : \/ GetUser(d, u) \/ DeleteUser(d, u) \/ PatchUser(d, u)
                              \/ \E n \in Names : CreateUser(d, u, n) \/ UpdateUser(d, u, n)
        \/ \E g \in GroupIds :
              \/ GetGroup(d, g) \/ DeleteGroup(d, g) \/ PatchGroup(d, g)
              \/ \E who \in SUBSET UserIds : CreateGroup(d, g, who) \/ UpdateGroup(d, g, who)
  BY DEF Next
<1>2. CASE d # c
  <2>1. \A ok \in BOOLEAN : ~Finish(d, ok)
    BY <1>2 DEF IInv, TypeOK, Finish, Free
  <2>2. /\ ~Fail(d)
        /\ \A t : ~Succeed(d, t)
    BY <2>1 DEF Fail, Succeed
  <2>. QED BY <1>1, <1>2, <2>1, <2>2
         DEF StartBulk, RefuseOperation, Abandon, ReplaceIfMatch, Replace, GetUser, DeleteUser,
             PatchUser, StartPatch, CreateUser, UpdateUser, GetGroup, DeleteGroup, PatchGroup,
             CreateGroup, UpdateGroup
<1>3. CASE d = c
  BY <1>1, <1>3 DEF StartBulk, RefuseOperation, Abandon, ReplaceIfMatch, Replace, GetUser,
             DeleteUser, PatchUser, CreateUser, GetGroup, DeleteGroup, PatchGroup, CreateGroup
<1>. QED BY <1>2, <1>3

\* A guarded update that changes a row finds the version of its tag there, and
\* so, while the row is the one it read, the content of its tag.
LEMMA GuardedStep ==
  ASSUME IInv, [Next]_vars, NEW c \in Clients, NEW id \in Ids,
         ~Free(c), req'[c] = NoRequest, req[c].id = id, Guarded(req[c]),
         Row(id) # NoRow, Row(id).born = req[c].tag.born, Row(id)' # Row(id)
  PROVE  Row(id).stamp = req[c].tag.stamp
<1>. DEFINE t == req[c].tag
<1>1. /\ req[c] \in Request /\ t \in Tag /\ t \in Held
      /\ req[c].expect = t.version /\ t.version \in Nat \ {0} /\ t.id = id
  BY DEF IInv, TypeOK, Free, Guarded, Held, Request, Tag
<1>2. Next /\ ~UNCHANGED tables
  BY DEF Row, vars, tables, Free
<1>3. CASE \E u \in UserIds, n \in Names : UpdateUser(c, u, n)
  <2>1. PICK u \in UserIds, n \in Names : UpdateUser(c, u, n)
    BY <1>3
  <2>2. u = id /\ Row(id) = users[id]
    BY <2>1 DEF UpdateUser, Row
  <2>3. ~(req[c].expect > 0 /\ req[c].expect # users[u].version)
    BY <1>2, <2>1 DEF UpdateUser, Fail
  <2>4. Row(id).version = t.version
    BY <1>1, <2>2, <2>3
  <2>. QED BY <1>1, <2>4 DEF IInv, TagNamesContent, TagFits
<1>4. CASE \E g \in GroupIds, who \in SUBSET UserIds : UpdateGroup(c, g, who)
  <2>1. PICK g \in GroupIds, who \in SUBSET UserIds : UpdateGroup(c, g, who)
    BY <1>4
  <2>2. g = id /\ Row(id) = groups[id]
    BY <2>1, IdsAreApart DEF UpdateGroup, Row
  <2>3. ~(req[c].expect > 0 /\ req[c].expect # groups[g].version)
    BY <1>2, <2>1 DEF UpdateGroup, Fail
  <2>4. Row(id).version = t.version
    BY <1>1, <2>2, <2>3
  <2>. QED BY <1>1, <2>4 DEF IInv, TagNamesContent, TagFits
<1>. QED BY <1>2, <1>3, <1>4, EndingStep

\* A PATCH that leaves meta alone, or a PUT with If-Match, overwrites exactly
\* the content it was made from, while the row lives.
THEOREM GuardedWritesAreSafe == Spec => GuardedWrite
<1>1. IInv /\ [Next]_vars =>
        [\A c \in Clients, id \in Ids :
           (/\ ~Free(c) /\ req'[c] = NoRequest
            /\ req[c].id = id /\ Guarded(req[c])
            /\ Row(id) # NoRow /\ Row(id).born = req[c].tag.born
            /\ Row(id)' # Row(id))
              => Row(id).stamp = req[c].tag.stamp]_vars
  BY GuardedStep
<1>. QED BY <1>1, Invariant, PTL DEF Spec, GuardedWrite

\* An update that meets a deleted resource does not bring it back.
THEOREM UpdatesDoNotRevive == Spec => NoResurrection
<1>1. ASSUME IInv, [Next]_vars, NEW c \in Clients, ~Free(c), req'[c] = NoRequest,
             NEW id \in Ids, Row(id) = NoRow
      PROVE  Row(id)' = NoRow
  <2>1. CASE UNCHANGED tables
    BY <1>1, <2>1 DEF Row, tables
  <2>2. ASSUME NEW u \in UserIds, NEW n \in Names, UpdateUser(c, u, n), ~UNCHANGED tables
        PROVE  Row(id)' = NoRow
    <3>1. UserThere(u) /\ groups' = groups
      BY <2>2 DEF UpdateUser, Fail
    <3>2. \A v \in UserIds \ {u} : users'[v] = users[v]
      BY <1>1, <2>2 DEF UpdateUser, Fail, IInv, TypeOK
    <3>. QED BY <1>1, <3>1, <3>2 DEF Row, UserThere
  <2>3. ASSUME NEW g \in GroupIds, NEW who \in SUBSET UserIds, UpdateGroup(c, g, who), ~UNCHANGED tables
        PROVE  Row(id)' = NoRow
    <3>1. GroupThere(g) /\ users' = users
      BY <2>3 DEF UpdateGroup, Fail
    <3>2. \A h \in GroupIds \ {g} : groups'[h] = groups[h]
      BY <1>1, <2>3 DEF UpdateGroup, Fail, IInv, TypeOK
    <3>. QED BY <1>1, <3>1, <3>2, IdsAreApart DEF Row, GroupThere, Ids
  <2>4. Next \/ UNCHANGED vars
    BY <1>1
  <2>. QED BY <1>1, <2>1, <2>2, <2>3, <2>4, EndingStep DEF vars
<1>2. IInv /\ [Next]_vars =>
        [\A c \in Clients : (~Free(c) /\ req'[c] = NoRequest)
            => \A id \in Ids : Row(id) = NoRow => Row(id)' = NoRow]_vars
  BY <1>1
<1>. QED BY <1>2, Invariant, PTL DEF Spec, NoResurrection

-----------------------------------------------------------------------------
(* The promise: every step of the storage and its handlers is a step of        *)
(* ScimResources or changes nothing there.                                     *)

Simulated == Resources!Next \/ UNCHANGED Resources!vars

\* The two levels agree on what is there, and on who has an update under way.
LEMMA MappedNothing ==
  ASSUME IInv
  PROVE  /\ \A i \in Ids : Content(i) = NoRow <=> Row(i) = NoRow
         /\ \A c \in Clients : Asked(c) = NoRow <=> Free(c)
         /\ \A t \in Tag : Basis(t) \in PlainTag /\ Basis(t) # NoRow
<1>1. \A i \in Ids : Row(i) # NoRow => Row(i) \in UserRow \cup GroupRow
  BY DEF IInv, TypeOK, Row, Ids
<1>2. \A i \in Ids : Row(i) # NoRow => [stamp |-> Row(i).stamp, born |-> Row(i).born] \in Plain
  BY <1>1 DEF UserRow, GroupRow, Plain
<1>3. \A t \in Tag : Basis(t) \in PlainTag
  BY NoneOfThem DEF Basis, Tag, PlainTag
<1>4. \A c \in Clients : ~Free(c) => req[c].id \in Ids /\ req[c].tag \in Tag \cup {NoTag}
  BY DEF IInv, TypeOK, Free, Request
<1>5. Basis(NoTag) = NoRow
  BY DEF Basis
<1>6. \A c \in Clients : ~Free(c) => Asked(c) \in Plain
  BY <1>3, <1>4, <1>5 DEF Asked, Plain
<1>. QED BY <1>2, <1>3, <1>6, NoneOfThem DEF Content, Asked, Plain

\* A step that touches neither tables nor answers nor updates under way.
LEMMA NothingMapped ==
  ASSUME UNCHANGED <<tables, clock, view, req>>
  PROVE  Simulated
BY DEF tables, Simulated, Resources!vars, Content, Row, Basis, Asked, Free

\* A request that ends takes its update with it; the others keep theirs.
LEMMA FinishMapped ==
  ASSUME IInv, NEW c \in Clients, NEW ok \in BOOLEAN, Finish(c, ok)
  PROVE  Asked(c)' = NoRow /\ \A d \in Clients \ {c} : Asked(d)' = Asked(d)
BY DEF IInv, TypeOK, Finish, Asked, Free

\* An update is dropped by whatever ends its request with nothing done.
LEMMA DropMapped ==
  ASSUME IInv, NEW c \in Clients, ~Free(c), UNCHANGED <<tables, clock, view>>,
         Asked(c)' = NoRow, \A d \in Clients \ {c} : Asked(d)' = Asked(d)
  PROVE  Simulated
<1>1. Asked(c) # NoRow
  BY MappedNothing
<1>2. UNCHANGED <<clock, members, [i \in Ids |-> Content(i)], [d \in Clients |-> Basis(view[d])]>>
  BY DEF tables, Content, Row
<1>3. [d \in Clients |-> Asked(d)]' = [[d \in Clients |-> Asked(d)] EXCEPT ![c] = NoRow]
  OBVIOUS
<1>4. Resources!Drop(c)
  BY <1>1, <1>2, <1>3 DEF Resources!Drop
<1>. QED BY <1>1, <1>4 DEF Simulated, Resources!Next

LEMMA FailMapped ==
  ASSUME IInv, NEW c \in Clients, Fail(c)
  PROVE  Simulated
<1>1. CASE Free(c)
  <2>1. UNCHANGED req
    BY <1>1 DEF IInv, TypeOK, Fail, Finish, Free
  <2>. QED BY <2>1, NothingMapped DEF Fail
<1>2. CASE ~Free(c)
  BY <1>2, FinishMapped, DropMapped DEF Fail
<1>. QED BY <1>1, <1>2

LEMMA BulkMapped ==
  ASSUME IInv, NEW c \in Clients, StartBulk(c) \/ RefuseOperation(c) \/ Abandon(c)
  PROVE  Simulated
<1>1. CASE StartBulk(c)
  BY <1>1, NothingMapped DEF StartBulk
<1>2. CASE RefuseOperation(c)
  BY <1>2, FailMapped DEF RefuseOperation
<1>3. CASE Abandon(c) /\ Free(c)
  <2>1. UNCHANGED req
    BY <1>3 DEF IInv, TypeOK, Abandon, Free
  <2>. QED BY <1>3, <2>1, NothingMapped DEF Abandon
<1>4. CASE Abandon(c) /\ ~Free(c)
  <2>1. Asked(c)' = NoRow /\ \A d \in Clients \ {c} : Asked(d)' = Asked(d)
    BY <1>4 DEF IInv, TypeOK, Abandon, Asked, Free
  <2>. QED BY <1>4, <2>1, DropMapped DEF Abandon
<1>. QED BY <1>1, <1>2, <1>3, <1>4

-----------------------------------------------------------------------------
(* Reads, and the updates that begin. *)

\* A GET answers with what is there.
LEMMA ReadMapped ==
  ASSUME IInv, NEW c \in Clients, NEW i \in Ids, NEW who \in SUBSET UserIds,
         Free(c), Row(i) # NoRow, view' = [view EXCEPT ![c] = TagOf(i, Row(i), who)],
         UNCHANGED <<tables, clock, req>>
  PROVE  Simulated
<1>. DEFINE t == TagOf(i, Row(i), who)
<1>1. t \in Tag
  BY DEF IInv, TypeOK, Row, Ids, UserRow, GroupRow, Tag, TagOf
<1>2. Basis(t) = [id |-> i, stamp |-> Content(i).stamp, born |-> Content(i).born]
  BY <1>1, NoneOfThem DEF Basis, TagOf, Content
<1>3. view'[c] = t /\ \A d \in Clients \ {c} : view'[d] = view[d]
  BY DEF IInv, TypeOK
<1>4. [d \in Clients |-> Basis(view[d])]' = [[d \in Clients |-> Basis(view[d])] EXCEPT ![c] = Basis(t)]
  <2>1. Basis(view[c])' = Basis(t) /\ \A d \in Clients \ {c} : Basis(view[d])' = Basis(view[d])
    BY <1>3 DEF Basis
  <2>. HIDE DEF t
  <2>. QED BY <2>1
<1>5. UNCHANGED <<clock, members, [j \in Ids |-> Content(j)], [d \in Clients |-> Asked(d)]>>
  BY DEF tables, Content, Row, Asked, Free
<1>6. Asked(c) = NoRow /\ Content(i) # NoRow
  BY MappedNothing
<1>7. Resources!Read(c, i)
  BY <1>2, <1>4, <1>5, <1>6 DEF Resources!Read, Resources!There, Resources!Of
<1>. QED BY <1>6, <1>7 DEF Simulated, Resources!Next

LEMMA GetMapped ==
  ASSUME IInv, NEW c \in Clients,
         \/ \E u \in UserIds : GetUser(c, u)
         \/ \E g \in GroupIds : GetGroup(c, g)
  PROVE  Simulated
<1>1. ASSUME NEW u \in UserIds, GetUser(c, u) PROVE Simulated
  <2>1. Row(u) = users[u] /\ u \in Ids /\ {} \in SUBSET UserIds
    BY DEF Row, Ids
  <2>2. /\ Free(c) /\ Row(u) # NoRow /\ view' = [view EXCEPT ![c] = TagOf(u, Row(u), {})]
        /\ UNCHANGED <<tables, clock, req>>
    BY <1>1, <2>1 DEF GetUser, UserThere
  <2>. QED BY <2>1, <2>2, ReadMapped
<1>2. ASSUME NEW g \in GroupIds, GetGroup(c, g) PROVE Simulated
  <2>1. Row(g) = groups[g] /\ g \in Ids /\ Members(g) \subseteq UserIds
    BY IdsAreApart DEF Row, Ids, Members
  <2>2. /\ Free(c) /\ Row(g) # NoRow /\ view' = [view EXCEPT ![c] = TagOf(g, Row(g), Members(g))]
        /\ UNCHANGED <<tables, clock, req>>
    BY <1>2, <2>1 DEF GetGroup, GroupThere
  <2>. QED BY <2>1, <2>2, ReadMapped
<1>. QED BY <1>1, <1>2

\* What the basis of a new update may be.
LEMMA AskMapped ==
  ASSUME IInv, NEW c \in Clients, NEW r \in Request, Free(c),
         req' = [req EXCEPT ![c] = r], UNCHANGED <<tables, clock, view>>,
         Guarded(r) => \/ r.tag = view[c]
                       \/ Row(r.id) # NoRow /\ Basis(r.tag) = Resources!Of(r.id)
  PROVE  Simulated
<1>. DEFINE i == r.id
            basis == IF Guarded(r) THEN Basis(r.tag) ELSE NoRow
<1>1. i \in Ids /\ r # NoRequest /\ (Guarded(r) => r.tag \in Tag /\ r.tag.id = i)
  BY NoneOfThem DEF Request, Guarded
<1>2. req'[c] = r /\ \A d \in Clients \ {c} : req'[d] = req[d]
  BY DEF IInv, TypeOK
<1>3. Asked(c)' = [id |-> i, basis |-> basis]
  BY <1>1, <1>2 DEF Asked, Free
<1>4. \A d \in Clients \ {c} : Asked(d)' = Asked(d)
  BY <1>2 DEF Asked, Free
<1>5. [d \in Clients |-> Asked(d)]'
        = [[d \in Clients |-> Asked(d)] EXCEPT ![c] = [id |-> i, basis |-> basis]]
  BY <1>3, <1>4
<1>6. UNCHANGED <<clock, members, [j \in Ids |-> Content(j)], [d \in Clients |-> Basis(view[d])]>>
  BY DEF tables, Content, Row
<1>7. basis # NoRow => basis.id = i
  BY <1>1, NoneOfThem DEF Basis
<1>8. \/ basis = NoRow \/ basis = Basis(view[c])
      \/ Content(i) # NoRow /\ basis = Resources!Of(i)
  BY <1>1, MappedNothing
<1>9. Asked(c) = NoRow
  BY MappedNothing
<1>. HIDE DEF basis
<1>10. Resources!Insist(c, i, basis)
  BY <1>5 DEF Resources!Insist
<1>11. Resources!Ask(c, i)
  BY <1>1, <1>6, <1>7, <1>8, <1>10 DEF Resources!Ask, Resources!Insist, Resources!There
<1>. QED BY <1>1, <1>9, <1>11 DEF Simulated, Resources!Next

LEMMA ReplaceMapped ==
  ASSUME IInv, NEW c \in Clients, ReplaceIfMatch(c) \/ \E id \in Ids : Replace(c, id)
  PROVE  Simulated
<1>1. ASSUME NEW id \in Ids, Replace(c, id) PROVE Simulated
  <2>. DEFINE r == [id |-> id, expect |-> 0, tag |-> NoTag]
  <2>1. r \in Request /\ ~Guarded(r)
    BY DEF Request, Guarded
  <2>. QED BY <1>1, <2>1, AskMapped DEF Replace
<1>2. CASE ReplaceIfMatch(c)
  <2>. DEFINE r == [id |-> view[c].id, expect |-> view[c].version, tag |-> view[c]]
  <2>1. view[c] \in Tag
    BY <1>2 DEF IInv, TypeOK, ReplaceIfMatch
  <2>2. r \in Request /\ r.tag = view[c]
    BY <2>1 DEF Request, Tag
  <2>. QED BY <1>2, <2>2, AskMapped DEF ReplaceIfMatch
<1>. QED BY <1>1, <1>2

\* A PATCH insists on the row it read, or on nothing.
LEMMA StartPatchMapped ==
  ASSUME IInv, NEW c \in Clients, NEW i \in Ids, NEW who \in SUBSET UserIds,
         Free(c), Row(i) # NoRow, StartPatch(c, TagOf(i, Row(i), who))
  PROVE  Simulated
<1>. DEFINE t == TagOf(i, Row(i), who)
<1>1. t \in Tag /\ t.id = i
  BY DEF IInv, TypeOK, Row, Ids, UserRow, GroupRow, Tag, TagOf
<1>2. Basis(t) = Resources!Of(i)
  BY <1>1, NoneOfThem DEF Basis, TagOf, Content, Resources!Of
<1>. HIDE DEF t
<1>3. PICK e \in {0, t.version} : req' = [req EXCEPT ![c] = [id |-> t.id, expect |-> e, tag |-> t]]
  BY DEF StartPatch, t
<1>. DEFINE r == [id |-> t.id, expect |-> e, tag |-> t]
<1>4. r \in Request /\ r.tag = t /\ r.id = i
  BY <1>1, <1>3 DEF Request, Tag
<1>5. UNCHANGED <<tables, clock, view>>
  BY DEF StartPatch
<1>. QED BY <1>2, <1>3, <1>4, <1>5, AskMapped

LEMMA PatchMapped ==
  ASSUME IInv, NEW c \in Clients,
         \/ \E u \in UserIds : PatchUser(c, u)
         \/ \E g \in GroupIds : PatchGroup(c, g)
  PROVE  Simulated
<1>1. ASSUME NEW u \in UserIds, PatchUser(c, u) PROVE Simulated
  <2>1. Row(u) = users[u] /\ u \in Ids
    BY DEF Row, Ids
  <2>2. CASE UserThere(u)
    BY <1>1, <2>1, <2>2, StartPatchMapped DEF PatchUser, UserThere
  <2>. QED BY <1>1, <2>2, FailMapped DEF PatchUser
<1>2. ASSUME NEW g \in GroupIds, PatchGroup(c, g) PROVE Simulated
  <2>1. Row(g) = groups[g] /\ g \in Ids /\ Members(g) \subseteq UserIds
    BY IdsAreApart DEF Row, Ids, Members
  <2>2. CASE GroupThere(g)
    BY <1>2, <2>1, <2>2, StartPatchMapped DEF PatchGroup, GroupThere
  <2>. QED BY <1>2, <2>2, FailMapped DEF PatchGroup
<1>. QED BY <1>1, <1>2

-----------------------------------------------------------------------------
(* Writes. *)

LEMMA UserRows ==
  ASSUME IInv, NEW u \in UserIds, NEW row, users' = [users EXCEPT ![u] = row], UNCHANGED groups
  PROVE  /\ u \in Ids /\ Row(u) = users[u] /\ Row(u)' = row
         /\ \A j \in Ids \ {u} : Row(j)' = Row(j)
BY DEF IInv, TypeOK, Row, Ids

LEMMA GroupRows ==
  ASSUME IInv, NEW g \in GroupIds, NEW row, groups' = [groups EXCEPT ![g] = row], UNCHANGED users
  PROVE  /\ g \in Ids /\ Row(g) = groups[g] /\ Row(g)' = row
         /\ \A j \in Ids \ {g} : Row(j)' = Row(j)
BY IdsAreApart DEF IInv, TypeOK, Row, Ids

\* A write of a row, in the life that began with write b, is a write of its content.
LEMMA WriteMapped ==
  ASSUME IInv, NEW c \in Clients, NEW i \in Ids, NEW row \in UserRow \cup GroupRow,
         NEW who \in SUBSET UserIds, NEW all \in SUBSET UserIds, NEW b \in Nat,
         Row(i)' = row, \A j \in Ids \ {i} : Row(j)' = Row(j),
         row.stamp = clock + 1, row.born = b, Succeed(c, TagOf(i, row, all)),
         members' = {m \in members : m[1] # i} \cup {<<i, w>> : w \in who}
  PROVE  Resources!Write(c, i, b, who)
<1>1. clock' = clock + 1 /\ clock \in Nat
  BY DEF IInv, TypeOK, Succeed
<1>2. row # NoRow /\ TagOf(i, row, all) \in Tag
  BY NoneOfThem DEF TagOf, Tag, UserRow, GroupRow
<1>3. Content(i)' = [stamp |-> clock + 1, born |-> b]
  BY <1>2 DEF Content
<1>4. \A j \in Ids \ {i} : Content(j)' = Content(j)
  BY DEF Content
<1>5. [j \in Ids |-> Content(j)]'
        = [[j \in Ids |-> Content(j)] EXCEPT ![i] = [stamp |-> clock + 1, born |-> b]]
  BY <1>3, <1>4
<1>6. view'[c] = TagOf(i, row, all) /\ \A d \in Clients \ {c} : view'[d] = view[d]
  BY DEF IInv, TypeOK, Succeed
<1>7. Basis(view[c])' = [id |-> i, stamp |-> clock + 1, born |-> b]
  BY <1>2, <1>6, NoneOfThem DEF Basis, TagOf
<1>8. [d \in Clients |-> Basis(view[d])]'
        = [[d \in Clients |-> Basis(view[d])] EXCEPT
             ![c] = [id |-> i, stamp |-> clock + 1, born |-> b]]
  BY <1>6, <1>7
<1>. QED BY <1>1, <1>5, <1>8 DEF Resources!Write

\* A row appears where there is none.
LEMMA CreateMapped ==
  ASSUME IInv, NEW c \in Clients, NEW i \in Ids, NEW row \in UserRow \cup GroupRow,
         NEW who \in SUBSET UserIds, NEW all \in SUBSET UserIds, Free(c), Row(i) = NoRow,
         Row(i)' = row, \A j \in Ids \ {i} : Row(j)' = Row(j),
         row.stamp = clock + 1, row.born = clock + 1, Succeed(c, TagOf(i, row, all)),
         members' = {m \in members : m[1] # i} \cup {<<i, w>> : w \in who},
         \A w \in who : UserThere(w)
  PROVE  Simulated
<1>1. PICK b \in Nat : b = clock + 1
  BY DEF IInv, TypeOK
<1>2. Resources!Write(c, i, b, who)
  BY <1>1, WriteMapped
<1>3. Asked(c) = NoRow /\ Content(i) = NoRow
  BY MappedNothing
<1>4. who \in SUBSET Resources!Present
  BY MappedNothing DEF UserThere, Row, Ids, Resources!Present, Resources!There
<1>5. UNCHANGED req /\ clock' = clock + 1
  BY DEF IInv, TypeOK, Succeed, Finish, Free
<1>6. UNCHANGED [d \in Clients |-> Asked(d)]
  BY <1>5 DEF Asked, Free
<1>7. Resources!Create(c, i)
  BY <1>1, <1>2, <1>3, <1>4, <1>5, <1>6 DEF Resources!Create, Resources!There, Resources!Write
<1>. QED BY <1>3, <1>7 DEF Simulated, Resources!Next

\* The row an update finds has the content the update insists on, if its version is
\* the one the update insists on.
LEMMA VersionsAreContents ==
  ASSUME IInv, NEW c \in Clients, ~Free(c), Row(req[c].id) # NoRow,
         ~(req[c].expect > 0 /\ req[c].expect # Row(req[c].id).version)
  PROVE  Resources!Allows(req[c].id, Asked(c).basis)
<1>. DEFINE i == req[c].id
            t == req[c].tag
<1>1. Asked(c) = [id |-> i, basis |-> IF Guarded(req[c]) THEN Basis(t) ELSE NoRow]
  BY DEF Asked
<1>2. i \in Ids /\ Content(i) = [stamp |-> Row(i).stamp, born |-> Row(i).born]
  BY DEF IInv, TypeOK, Free, Request, Content
<1>3. CASE Guarded(req[c]) /\ Row(i).born = t.born
  <2>1. /\ t \in Tag /\ t \in Held /\ t.id = i /\ t.version \in Nat \ {0}
        /\ req[c].expect = t.version
    BY <1>3 DEF IInv, TypeOK, Free, Guarded, Held, Request, Tag
  <2>2. Row(i).stamp = t.stamp
    BY <1>3, <2>1 DEF IInv, TagNamesContent, TagFits
  <2>. QED BY <1>1, <1>2, <1>3, <2>1, <2>2 DEF Basis, Resources!Allows
<1>4. CASE Guarded(req[c]) /\ Row(i).born # t.born
  BY <1>1, <1>2, <1>4 DEF Basis, Guarded, Resources!Allows
<1>5. CASE ~Guarded(req[c])
  BY <1>1, <1>5 DEF Resources!Allows
<1>. QED BY <1>3, <1>4, <1>5

\* A row changes, in the life it has.
LEMMA UpdateMapped ==
  ASSUME IInv, NEW c \in Clients, NEW i \in Ids, NEW row \in UserRow \cup GroupRow,
         NEW who \in SUBSET UserIds, NEW all \in SUBSET UserIds, ~Free(c), req[c].id = i,
         Row(i) # NoRow, ~(req[c].expect > 0 /\ req[c].expect # Row(i).version),
         Row(i)' = row, \A j \in Ids \ {i} : Row(j)' = Row(j),
         row.stamp = clock + 1, row.born = Row(i).born, Succeed(c, TagOf(i, row, all)),
         members' = {m \in members : m[1] # i} \cup {<<i, w>> : w \in who},
         \A w \in who : UserThere(w)
  PROVE  Simulated
<1>1. PICK b \in Nat : b = row.born
  BY DEF UserRow, GroupRow
<1>2. Resources!Write(c, i, b, who)
  BY <1>1, WriteMapped
<1>3. Asked(c) # NoRow /\ Asked(c).id = i /\ Content(i) # NoRow /\ b = Content(i).born
  BY <1>1, MappedNothing DEF Asked, Content
<1>4. Resources!Allows(i, Asked(c).basis)
  BY VersionsAreContents
<1>5. who \in SUBSET Resources!Present
  BY MappedNothing DEF UserThere, Row, Ids, Resources!Present, Resources!There
<1>6. /\ Asked(c)' = NoRow /\ \A d \in Clients \ {c} : Asked(d)' = Asked(d)
      /\ clock' = clock + 1
  BY FinishMapped DEF Succeed
<1>7. [d \in Clients |-> Asked(d)]' = [[d \in Clients |-> Asked(d)] EXCEPT ![c] = NoRow]
  BY <1>6
<1>8. Resources!Update(c, i)
  BY <1>2, <1>3, <1>4, <1>5, <1>6, <1>7
     DEF Resources!Update, Resources!There, Resources!Write, Resources!Allows
<1>. QED BY <1>3, <1>8 DEF Simulated, Resources!Next

\* A row goes, and with it whatever it is a member or the group of.
LEMMA DeleteMapped ==
  ASSUME IInv, NEW c \in Clients, NEW i \in Ids, Free(c), Row(i) # NoRow, Row(i)' = NoRow,
         \A j \in Ids \ {i} : Row(j)' = Row(j), Finish(c, TRUE), UNCHANGED <<clock, view>>,
         members' = {m \in members : m[1] # i /\ m[2] # i}
  PROVE  Simulated
<1>1. Asked(c) = NoRow /\ Content(i) # NoRow
  BY MappedNothing
<1>2. UNCHANGED req
  BY DEF IInv, TypeOK, Finish, Free
<1>3. UNCHANGED <<clock, [d \in Clients |-> Basis(view[d])], [d \in Clients |-> Asked(d)]>>
  BY <1>2 DEF Asked, Free
<1>4. [j \in Ids |-> Content(j)]' = [[j \in Ids |-> Content(j)] EXCEPT ![i] = NoRow]
  <2>1. Content(i)' = NoRow /\ \A j \in Ids \ {i} : Content(j)' = Content(j)
    BY DEF Content
  <2>. QED BY <2>1
<1>5. Resources!Delete(c, i)
  BY <1>1, <1>3, <1>4 DEF Resources!Delete, Resources!There
<1>. QED BY <1>1, <1>5 DEF Simulated, Resources!Next

LEMMA UserMapped ==
  ASSUME IInv, NEW c \in Clients, NEW u \in UserIds,
         \/ DeleteUser(c, u)
         \/ \E n \in Names : CreateUser(c, u, n) \/ UpdateUser(c, u, n)
  PROVE  Simulated
<1>0. \A m \in members : m[1] # u /\ m[1] \in GroupIds /\ m[2] \in UserIds
  BY IdsAreApart DEF IInv, TypeOK
<1>1. members = {m \in members : m[1] # u} \cup {<<u, w>> : w \in {}}
  BY <1>0
<1>2. ASSUME NEW n \in Names, CreateUser(c, u, n) PROVE Simulated
  <2>1. CASE UserThere(u) \/ NameTaken(n, u)
    BY <1>2, <2>1, FailMapped DEF CreateUser
  <2>2. CASE ~(UserThere(u) \/ NameTaken(n, u))
    <3>. DEFINE row == [name |-> n, version |-> 1, stamp |-> clock + 1, born |-> clock + 1]
    <3>1. /\ users' = [users EXCEPT ![u] = row] /\ Succeed(c, TagOf(u, row, {}))
          /\ UNCHANGED <<groups, members>> /\ Free(c) /\ users[u] = NoRow
      BY <1>2, <2>2 DEF CreateUser, UserThere
    <3>2. row \in UserRow /\ row.stamp = clock + 1 /\ row.born = clock + 1
      BY DEF IInv, TypeOK, UserRow
    <3>. HIDE DEF row
    <3>3. /\ u \in Ids /\ Row(u) = users[u] /\ Row(u)' = row
          /\ \A j \in Ids \ {u} : Row(j)' = Row(j)
      BY <3>1, UserRows
    <3>4. members' = {m \in members : m[1] # u} \cup {<<u, w>> : w \in {}}
      BY <1>1, <3>1
    <3>. QED BY <3>1, <3>2, <3>3, <3>4, CreateMapped
  <2>. QED BY <2>1, <2>2
<1>3. ASSUME NEW n \in Names, UpdateUser(c, u, n) PROVE Simulated
  <2>. DEFINE refused == \/ ~UserThere(u)
                         \/ req[c].expect > 0 /\ req[c].expect # users[u].version
                         \/ NameTaken(n, u)
  <2>1. CASE refused
    BY <1>3, <2>1, FailMapped DEF UpdateUser
  <2>2. CASE ~refused
    <3>. DEFINE row == [name |-> n, version |-> users[u].version + 1,
                        stamp |-> clock + 1, born |-> users[u].born]
    <3>1. /\ users' = [users EXCEPT ![u] = row] /\ Succeed(c, TagOf(u, row, {}))
          /\ UNCHANGED <<groups, members>> /\ ~Free(c) /\ req[c].id = u /\ users[u] # NoRow
          /\ ~(req[c].expect > 0 /\ req[c].expect # users[u].version)
      BY <1>3, <2>2 DEF UpdateUser, UserThere
    <3>2. row \in UserRow /\ row.stamp = clock + 1 /\ row.born = users[u].born
      BY <3>1 DEF IInv, TypeOK, UserRow
    <3>. HIDE DEF row
    <3>3. /\ u \in Ids /\ Row(u) = users[u] /\ Row(u)' = row
          /\ \A j \in Ids \ {u} : Row(j)' = Row(j)
      BY <3>1, UserRows
    <3>4. members' = {m \in members : m[1] # u} \cup {<<u, w>> : w \in {}}
      BY <1>1, <3>1
    <3>. QED BY <3>1, <3>2, <3>3, <3>4, UpdateMapped
  <2>. QED BY <2>1, <2>2
<1>4. CASE DeleteUser(c, u)
  <2>1. CASE ~UserThere(u)
    BY <1>4, <2>1, FailMapped DEF DeleteUser
  <2>2. CASE UserThere(u)
    <3>1. /\ users' = [users EXCEPT ![u] = NoRow] /\ members' = {m \in members : m[2] # u}
          /\ Finish(c, TRUE) /\ UNCHANGED <<groups, clock, view>> /\ Free(c) /\ users[u] # NoRow
      BY <1>4, <2>2 DEF DeleteUser, UserThere
    <3>2. members' = {m \in members : m[1] # u /\ m[2] # u}
      BY <1>0, <3>1
    <3>3. /\ u \in Ids /\ Row(u) = users[u] /\ Row(u)' = NoRow
          /\ \A j \in Ids \ {u} : Row(j)' = Row(j)
      BY <3>1, UserRows
    <3>. QED BY <3>1, <3>2, <3>3, DeleteMapped
  <2>. QED BY <2>1, <2>2
<1>. QED BY <1>2, <1>3, <1>4

LEMMA GroupMapped ==
  ASSUME IInv, NEW c \in Clients, NEW g \in GroupIds,
         \/ DeleteGroup(c, g)
         \/ \E who \in SUBSET UserIds : CreateGroup(c, g, who) \/ UpdateGroup(c, g, who)
  PROVE  Simulated
<1>0. \A m \in members : m[2] # g
  BY IdsAreApart DEF IInv, TypeOK
<1>1. ASSUME NEW who \in SUBSET UserIds, CreateGroup(c, g, who) PROVE Simulated
  <2>1. CASE GroupThere(g)
    BY <1>1, <2>1, FailMapped DEF CreateGroup
  <2>2. CASE ~GroupThere(g)
    <3>. DEFINE row == [listed |-> who, version |-> 1, stamp |-> clock + 1, born |-> clock + 1]
                joined == {u \in who : UserThere(u)}
    <3>1. /\ groups' = [groups EXCEPT ![g] = row] /\ Succeed(c, TagOf(g, row, who))
          /\ members' = members \cup {<<g, u>> : u \in joined}
          /\ UNCHANGED users /\ Free(c) /\ groups[g] = NoRow
      BY <1>1, <2>2 DEF CreateGroup, GroupThere
    <3>2. row \in GroupRow /\ row.stamp = clock + 1 /\ row.born = clock + 1
      BY DEF IInv, TypeOK, GroupRow
    <3>3. joined \in SUBSET UserIds /\ \A w \in joined : UserThere(w)
      OBVIOUS
    <3>. HIDE DEF row, joined
    <3>4. /\ g \in Ids /\ Row(g) = groups[g] /\ Row(g)' = row
          /\ \A j \in Ids \ {g} : Row(j)' = Row(j)
      BY <3>1, GroupRows
    <3>5. \A m \in members : m[1] # g
      BY <2>2 DEF IInv, MembershipSound
    <3>6. members' = {m \in members : m[1] # g} \cup {<<g, u>> : u \in joined}
      BY <3>1, <3>5
    <3>. QED BY <3>1, <3>2, <3>3, <3>4, <3>6, CreateMapped
  <2>. QED BY <2>1, <2>2
<1>2. ASSUME NEW who \in SUBSET UserIds, UpdateGroup(c, g, who) PROVE Simulated
  <2>. DEFINE refused == \/ ~GroupThere(g)
                         \/ req[c].expect > 0 /\ req[c].expect # groups[g].version
  <2>1. CASE refused
    BY <1>2, <2>1, FailMapped DEF UpdateGroup
  <2>2. CASE ~refused
    <3>. DEFINE row == [listed |-> who, version |-> groups[g].version + 1,
                        stamp |-> clock + 1, born |-> groups[g].born]
                joined == {u \in who : UserThere(u)}
    <3>1. /\ groups' = [groups EXCEPT ![g] = row] /\ Succeed(c, TagOf(g, row, who))
          /\ members' = {m \in members : m[1] # g} \cup {<<g, u>> : u \in joined}
          /\ UNCHANGED users /\ ~Free(c) /\ req[c].id = g /\ groups[g] # NoRow
          /\ ~(req[c].expect > 0 /\ req[c].expect # groups[g].version)
      BY <1>2, <2>2 DEF UpdateGroup, GroupThere
    <3>2. row \in GroupRow /\ row.stamp = clock + 1 /\ row.born = groups[g].born
      BY <3>1 DEF IInv, TypeOK, GroupRow
    <3>3. joined \in SUBSET UserIds /\ \A w \in joined : UserThere(w)
      OBVIOUS
    <3>. HIDE DEF row, joined
    <3>4. /\ g \in Ids /\ Row(g) = groups[g] /\ Row(g)' = row
          /\ \A j \in Ids \ {g} : Row(j)' = Row(j)
      BY <3>1, GroupRows
    <3>. QED BY <3>1, <3>2, <3>3, <3>4, UpdateMapped
  <2>. QED BY <2>1, <2>2
<1>3. CASE DeleteGroup(c, g)
  <2>1. CASE ~GroupThere(g)
    BY <1>3, <2>1, FailMapped DEF DeleteGroup
  <2>2. CASE GroupThere(g)
    <3>1. /\ groups' = [groups EXCEPT ![g] = NoRow] /\ members' = {m \in members : m[1] # g}
          /\ Finish(c, TRUE) /\ UNCHANGED <<users, clock, view>> /\ Free(c) /\ groups[g] # NoRow
      BY <1>3, <2>2 DEF DeleteGroup, GroupThere
    <3>2. members' = {m \in members : m[1] # g /\ m[2] # g}
      BY <1>0, <3>1
    <3>3. /\ g \in Ids /\ Row(g) = groups[g] /\ Row(g)' = NoRow
          /\ \A j \in Ids \ {g} : Row(j)' = Row(j)
      BY <3>1, GroupRows
    <3>. QED BY <3>1, <3>2, <3>3, DeleteMapped
  <2>. QED BY <2>1, <2>2
<1>. QED BY <1>1, <1>2, <1>3

LEMMA NextMapped == IInv /\ [Next]_vars => [Resources!Next]_(Resources!vars)
<1>. SUFFICES ASSUME IInv, [Next]_vars PROVE Simulated
  BY DEF Simulated
<1>1. CASE UNCHANGED vars
  BY <1>1, NothingMapped DEF vars
<1>2. CASE Next
  <2>1. PICK c \in Clients :
          \/ StartBulk(c) \/ RefuseOperation(c) \/ Abandon(c)
          \/ ReplaceIfMatch(c)
          \/ \E id \in Ids : Replace(c, id)
          \/ \E u \in UserIds : \/ GetUser(c, u) \/ DeleteUser(c, u) \/ PatchUser(c, u)
                                \/ \E n \in Names : CreateUser(c, u, n) \/ UpdateUser(c, u, n)
          \/ \E g \in GroupIds :
                \/ GetGroup(c, g) \/ DeleteGroup(c, g) \/ PatchGroup(c, g)
                \/ \E who \in SUBSET UserIds : CreateGroup(c, g, who) \/ UpdateGroup(c, g, who)
    BY <1>2 DEF Next
  <2>2. CASE StartBulk(c) \/ RefuseOperation(c) \/ Abandon(c)
    BY <2>2, BulkMapped
  <2>3. CASE ReplaceIfMatch(c) \/ \E id \in Ids : Replace(c, id)
    BY <2>3, ReplaceMapped
  <2>4. CASE \/ \E u \in UserIds : PatchUser(c, u)
             \/ \E g \in GroupIds : PatchGroup(c, g)
    BY <2>4, PatchMapped
  <2>5. CASE \/ \E u \in UserIds : GetUser(c, u)
             \/ \E g \in GroupIds : GetGroup(c, g)
    BY <2>5, GetMapped
  <2>6. ASSUME NEW u \in UserIds,
               \/ DeleteUser(c, u)
               \/ \E n \in Names : CreateUser(c, u, n) \/ UpdateUser(c, u, n)
        PROVE  Simulated
    BY <2>6, UserMapped
  <2>7. ASSUME NEW g \in GroupIds,
               \/ DeleteGroup(c, g)
               \/ \E who \in SUBSET UserIds : CreateGroup(c, g, who) \/ UpdateGroup(c, g, who)
        PROVE  Simulated
    BY <2>7, GroupMapped
  <2>. QED BY <2>1, <2>2, <2>3, <2>4, <2>5, <2>6, <2>7
<1>. QED BY <1>1, <1>2

\* The storage's version numbers, compared under its mutex, keep the promise of
\* ScimResources: an update that insists on a content changes that content or
\* nothing while its resource lives, none revives a resource, and memberships
\* join resources that are there.
THEOREM ImplementsResources == Spec => KeepsResources
<1>1. Init => Resources!Init
  BY DEF Init, Resources!Init, Content, Row, Basis, Asked, Free, Ids
<1>2. Spec => Resources!Spec
  BY <1>1, NextMapped, Invariant, PTL DEF Spec, Resources!Spec
<1>. QED BY <1>2 DEF KeepsResources

=============================================================================
