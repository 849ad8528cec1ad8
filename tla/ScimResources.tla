----------------------------- MODULE ScimResources -----------------------------
(***************************************************************************)
(* What the SCIM provider promises about its resources.  A resource has a  *)
(* content, which is named by the write that made it, and a life, which is *)
(* named by its first write and ends when it is deleted.  Resources may    *)
(* have others as members.  An update replaces a content in one step.  It  *)
(* may insist on the content it was made from: then it changes that or     *)
(* nothing, while the resource's life lasts.                               *)
(***************************************************************************)
EXTENDS Naturals

CONSTANTS Clients, Ids, Nothing

VARIABLES
  content,  \* content[i]: [stamp, born], or Nothing
  members,  \* pairs of a resource and one of its members
  writes,   \* the number of writes
  seen,     \* seen[c]: the resource that client c was shown last, and its content
  asked     \* asked[c]: the update that c's request has under way

vars == <<content, members, writes, seen, asked>>

There(i) == content[i] # Nothing

Of(i) == [id |-> i, stamp |-> content[i].stamp, born |-> content[i].born]

Init == /\ content = [i \in Ids |-> Nothing]
        /\ members = {}
        /\ writes = 0
        /\ seen = [c \in Clients |-> Nothing]
        /\ asked = [c \in Clients |-> Nothing]

\* The next write makes content of i, in the life that began with write b, with
\* the members `who`; its client is shown it.
Write(c, i, b, who) ==
  /\ members' = {m \in members : m[1] # i} \cup {<<i, w>> : w \in who}
  /\ content' = [content EXCEPT ![i] = [stamp |-> writes + 1, born |-> b]]
  /\ seen' = [seen EXCEPT ![c] = [id |-> i, stamp |-> writes + 1, born |-> b]]

Present == {w \in Ids : There(w)}

Create(c, i) ==
  /\ ~There(i) /\ writes' = writes + 1
  /\ \E who \in SUBSET Present : Write(c, i, writes + 1, who)
  /\ UNCHANGED asked

Read(c, i) ==
  /\ There(i)
  /\ seen' = [seen EXCEPT ![c] = Of(i)]
  /\ UNCHANGED <<writes, members, content, asked>>

Delete(c, i) ==
  /\ There(i)
  /\ content' = [content EXCEPT ![i] = Nothing]
  /\ members' = {m \in members : m[1] # i /\ m[2] # i}
  /\ UNCHANGED <<writes, seen, asked>>

\* An update of i begins: it insists on nothing, on what its client was shown, or
\* on what is there.
Insist(c, i, basis) == asked' = [asked EXCEPT ![c] = [id |-> i, basis |-> basis]]

Ask(c, i) ==
  /\ \/ Insist(c, i, Nothing)
     \/ seen[c] # Nothing /\ seen[c].id = i /\ Insist(c, i, seen[c])
     \/ There(i) /\ Insist(c, i, Of(i))
  /\ UNCHANGED <<writes, members, content, seen>>

Allows(i, basis) == \/ basis = Nothing
                    \/ basis.born # content[i].born
                    \/ basis.stamp = content[i].stamp

Update(c, i) ==
  /\ asked[c].id = i /\ There(i) /\ Allows(i, asked[c].basis)
  /\ writes' = writes + 1
  /\ \E who \in SUBSET Present : Write(c, i, content[i].born, who)
  /\ asked' = [asked EXCEPT ![c] = Nothing]

\* An update is refused, or given up.
Drop(c) ==
  /\ asked' = [asked EXCEPT ![c] = Nothing]
  /\ UNCHANGED <<writes, members, content, seen>>

Next ==
  \E c \in Clients :
     \/ /\ asked[c] = Nothing
        /\ \E i \in Ids : Create(c, i) \/ Read(c, i) \/ Delete(c, i) \/ Ask(c, i)
     \/ /\ asked[c] # Nothing
        /\ Drop(c) \/ \E i \in Ids : Update(c, i)

Spec == Init /\ [][Next]_vars

=============================================================================
