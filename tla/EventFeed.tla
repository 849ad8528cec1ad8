------------------------------ MODULE EventFeed ------------------------------
(***************************************************************************)
(* What the Looking Glass promises a watcher of a session, without any of  *)
(* its machinery (no locks, channels or pumps): a watcher that joins is    *)
(* owed the whole log of its session and every event published after, and  *)
(* an event it is owed leaves the debt only by being delivered or by being *)
(* declared lost.  Delivery is at-least-once: a delivered event may stay   *)
(* owed, because the same event can travel both as history and live.       *)
(* LookingGlass implements this specification (LookingGlass!Feed).         *)
(***************************************************************************)
EXTENDS Sequences, Functions

CONSTANTS Sessions, Clients, Events, NoSession

VARIABLES
  log,      \* log[s]: the events published to s, oldest first
  follows,  \* follows[c]: the session c watches, or NoSession
  owed,     \* owed[c]: the events c has still to receive
  got,      \* got[c]: the events c has received
  lost      \* lost[c]: the events given up on for c (its buffer was full)

vars == <<log, follows, owed, got, lost>>

Init ==
  /\ log     = [s \in Sessions |-> <<>>]
  /\ follows = [c \in Clients |-> NoSession]
  /\ owed    = [c \in Clients |-> {}]
  /\ got     = [c \in Clients |-> {}]
  /\ lost    = [c \in Clients |-> {}]

Publish(s, e) ==
  /\ \A t \in Sessions : e \notin Range(log[t])
  /\ log'  = [log EXCEPT ![s] = Append(@, e)]
  /\ owed' = [c \in Clients |-> IF follows[c] = s THEN owed[c] \cup {e} ELSE owed[c]]
  /\ UNCHANGED <<follows, got, lost>>

Follow(c, s) ==
  /\ follows[c] = NoSession
  /\ follows' = [follows EXCEPT ![c] = s]
  /\ owed'    = [owed EXCEPT ![c] = Range(log[s])]
  /\ UNCHANGED <<log, got, lost>>

\* One frame carries several events; a duplicate of any of them may remain owed.
Deliver(c, E) ==
  /\ E \subseteq owed[c]
  /\ got' = [got EXCEPT ![c] = @ \cup E]
  /\ \E O \in SUBSET owed[c] : /\ owed[c] \ E \subseteq O
                               /\ owed' = [owed EXCEPT ![c] = O]
  /\ UNCHANGED <<log, follows, lost>>

Lose(c, e) ==
  /\ e \in owed[c]
  /\ lost' = [lost EXCEPT ![c] = @ \cup {e}]
  /\ owed' \in {owed, [owed EXCEPT ![c] = @ \ {e}]}
  /\ UNCHANGED <<log, follows, got>>

Leave(c) ==
  /\ follows[c] # NoSession
  /\ follows' = [follows EXCEPT ![c] = NoSession]
  /\ owed'    = [owed EXCEPT ![c] = {}]
  /\ UNCHANGED <<log, got, lost>>

Next ==
  \/ \E s \in Sessions, e \in Events : Publish(s, e)
  \/ \E c \in Clients :
       \/ \E s \in Sessions : Follow(c, s)
       \/ \E E \in SUBSET owed[c] : Deliver(c, E)
       \/ \E e \in owed[c] : Lose(c, e)
       \/ Leave(c)

Spec == Init /\ [][Next]_vars

=============================================================================
