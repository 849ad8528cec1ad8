--------------------------- MODULE GrantLifecycle ---------------------------
(***************************************************************************)
(* What the identity provider promises about one user's authorization of   *)
(* one client, its grant: at any time the grant is in one place.  It       *)
(* starts as a code, is exchanged for a refresh token, which is rotated    *)
(* any number of times, and when it has ended it never comes back.         *)
(***************************************************************************)
CONSTANTS Grants, Clients, NoClient

VARIABLES
  phase,  \* phase[g]: where the grant is
  owner   \* owner[g]: the client it was given to

vars == <<phase, owner>>

Init ==
  /\ phase = [g \in Grants |-> "none"]
  /\ owner = [g \in Grants |-> NoClient]

Give(g, c) ==
  /\ phase[g] = "none"
  /\ phase' = [phase EXCEPT ![g] = "code"]
  /\ owner' = [owner EXCEPT ![g] = c]

Move(g, from, to) ==
  /\ phase[g] \in from
  /\ phase' = [phase EXCEPT ![g] = to]
  /\ UNCHANGED owner

\* A request takes the grant out of the store, by its code or its refresh token.
Take(g) == Move(g, {"code", "token"}, "taken")

\* The request puts it back as a new refresh token.
Rotate(g) == Move(g, {"taken"}, "token")

\* A refused or expired code, an expired or revoked token, a failed issuance.
End(g) == Move(g, {"code", "taken", "token"}, "ended")

Next == \E g \in Grants : \/ \E c \in Clients : Give(g, c)
                          \/ Take(g) \/ Rotate(g) \/ End(g)

Spec == Init /\ [][Next]_vars

=============================================================================
