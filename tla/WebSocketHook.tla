---------------------------- MODULE WebSocketHook ----------------------------
(***************************************************************************)
(* The browser side of a Looking Glass stream: the React hook useWebSocket *)
(* (frontend/src/hooks/useWebSocket.ts), used by useLookingGlassSession.   *)
(*                                                                         *)
(* The hook outlives its sockets, and each socket its place in wsRef: a    *)
(* socket's onclose runs whenever the browser gets to it, with the closure *)
(* (url and connect) of the render that made it.  Each socket closes once, *)
(* so the timer its onclose starts is named after it.  An id is used again *)
(* when nothing refers to its socket any more.                             *)
(***************************************************************************)
EXTENDS Naturals

CONSTANTS
  Urls,         \* "/ws/lookingglass/<session>" for each session shown
  Sockets,      \* WebSocket objects alive at a time
  None,
  MaxAttempts,  \* maxReconnectAttempts
  MaxRenders    \* bound: how often the component mounts or changes its url

ASSUME WHAssumption == None \notin Urls \cup Sockets /\ MaxAttempts \in Nat /\ MaxRenders \in Nat

VARIABLES
  url,        \* the url the hook is mounted with; None: unmounted, or no session
  renders,    \* how often url changed
  wsRef,      \* wsRef.current
  timerRef,   \* reconnectTimeoutRef.current
  attempts,   \* reconnectAttemptsRef.current
  connected,  \* the state shown to the user
  ready,      \* ready[i]: readyState, "free" while no socket has the id
  to,         \* to[i]: the url of the closure that made socket i
  timer,      \* timer[i]: the timer that socket i's onclose started is pending
  serverUp    \* the server accepts connections

vars == <<url, renders, wsRef, timerRef, attempts, connected, ready, to, timer, serverUp>>

TypeOK ==
  /\ url \in Urls \cup {None}
  /\ renders \in 0 .. MaxRenders
  /\ wsRef \in Sockets \cup {None}
  /\ timerRef \in Sockets \cup {None}
  /\ attempts \in Nat
  /\ connected \in BOOLEAN
  /\ ready \in [Sockets -> {"free", "connecting", "open", "closing", "closed"}]
  /\ to \in [Sockets -> Urls \cup {None}]
  /\ timer \in [Sockets -> BOOLEAN] /\ \A i \in Sockets : timer[i] => ready[i] = "closed"
  /\ serverUp \in BOOLEAN

Init ==
  /\ url = None /\ renders = 0
  /\ wsRef = None /\ timerRef = None /\ attempts = 0 /\ connected = FALSE
  /\ ready = [i \in Sockets |-> "free"]
  /\ to    = [i \in Sockets |-> None]
  /\ timer = [i \in Sockets |-> FALSE]
  /\ serverUp = TRUE

-----------------------------------------------------------------------------
(* connect and disconnect, as operators from one value of the sockets and  *)
(* of wsRef to the next, since the effect's cleanup and body run both.     *)

\* Nothing refers to the socket: it is done, its timer too, and no ref has it.
Unused(i) == /\ ready[i] = "free" \/ (ready[i] = "closed" /\ ~timer[i])
             /\ i # wsRef /\ i # timerRef

IsOpen(rs, ref) == ref # None /\ rs[ref] = "open"

\* connect() of the closure for u, from sockets rs with wsRef ref: only an OPEN
\* socket stops it; one that is connecting or closing is replaced in wsRef.
ConnectFrom(rs, ref, u) ==
  IF IsOpen(rs, ref)
    THEN ready' = rs /\ wsRef' = ref /\ UNCHANGED to
    ELSE \E i \in Sockets :
           /\ Unused(i) /\ i = CHOOSE j \in Sockets : Unused(j)
           /\ ready' = [rs EXCEPT ![i] = "connecting"]
           /\ to'    = [to EXCEPT ![i] = u]
           /\ wsRef' = i

\* close(): the handshake goes on, and onclose will still run.
Closing(rs, ref) ==
  IF ref # None /\ rs[ref] \in {"connecting", "open"} THEN [rs EXCEPT ![ref] = "closing"] ELSE rs

\* Seeded fault: the cleanup clears the timer and forgets the state shown.
Disconnect_KeepsState ==
  /\ timer' = IF timerRef # None THEN [timer EXCEPT ![timerRef] = FALSE] ELSE timer
  /\ UNCHANGED <<connected, timerRef>>

\* disconnect(): one timer is cleared, the one in the ref.
Disconnect ==
  /\ timer' = IF timerRef # None THEN [timer EXCEPT ![timerRef] = FALSE] ELSE timer
  /\ connected' = FALSE
  /\ UNCHANGED timerRef

-----------------------------------------------------------------------------
(* The effect: mount, change of session, unmount. *)

\* The cleanup of the old url, if there was one, then the effect for the new one.
Render(u) ==
  /\ u # url /\ renders < MaxRenders
  /\ url' = u /\ renders' = renders + 1
  /\ Disconnect
  /\ IF u = None THEN ready' = Closing(ready, wsRef) /\ wsRef' = None /\ UNCHANGED to
                 ELSE ConnectFrom(Closing(ready, wsRef), None, u)
  /\ UNCHANGED <<attempts, serverUp>>

-----------------------------------------------------------------------------
(* What the browser calls. *)

OnOpen(i) ==
  /\ ready[i] = "connecting" /\ serverUp
  /\ ready'     = [ready EXCEPT ![i] = "open"]
  /\ connected' = TRUE
  /\ attempts'  = 0
  /\ UNCHANGED <<url, renders, wsRef, timerRef, to, timer, serverUp>>

\* Seeded faults: the retry is started by onerror, before the socket is closed;
\* attempts are not held against the limit.
OnClose_FromOnError(i) ==
  /\ ready[i] \in {"connecting", "open", "closing"} /\ ~timer[i]
  /\ timer' = [timer EXCEPT ![i] = TRUE] /\ timerRef' = i
  /\ UNCHANGED <<url, renders, wsRef, attempts, connected, ready, to, serverUp>>

OnClose_AlwaysRetries(i) ==
  /\ ready[i] \in {"connecting", "open", "closing"}
  /\ ready'     = [ready EXCEPT ![i] = "closed"]
  /\ connected' = FALSE
  /\ timer' = [timer EXCEPT ![i] = TRUE] /\ timerRef' = i
  /\ UNCHANGED <<url, renders, wsRef, attempts, to, serverUp>>

\* A refused attempt, a lost connection, or the end of a close(): a timer is
\* started whatever closed the socket and whether or not it is still in wsRef.
OnClose(i) ==
  /\ ready[i] \in {"connecting", "open", "closing"}
  /\ ready'     = [ready EXCEPT ![i] = "closed"]
  /\ connected' = FALSE
  /\ IF attempts < MaxAttempts THEN timer' = [timer EXCEPT ![i] = TRUE] /\ timerRef' = i
                               ELSE UNCHANGED <<timer, timerRef>>
  /\ UNCHANGED <<url, renders, wsRef, attempts, to, serverUp>>

\* Seeded fault: the attempt is not counted.
TimerFires_NotCounted(i) ==
  /\ timer[i]
  /\ timer' = [timer EXCEPT ![i] = FALSE]
  /\ ConnectFrom(ready, wsRef, to[i])
  /\ UNCHANGED <<url, renders, timerRef, attempts, connected, serverUp>>

\* The interval is over: connect of the closure that made socket i.
TimerFires(i) ==
  /\ timer[i]
  /\ timer'    = [timer EXCEPT ![i] = FALSE]
  /\ attempts' = attempts + 1
  /\ ConnectFrom(ready, wsRef, to[i])
  /\ UNCHANGED <<url, renders, timerRef, connected, serverUp>>

Server ==
  /\ serverUp' = ~serverUp
  /\ UNCHANGED <<url, renders, wsRef, timerRef, attempts, connected, ready, to, timer>>

Next ==
  \/ \E u \in Urls \cup {None} : Render(u)
  \/ \E i \in Sockets : OnOpen(i) \/ OnClose(i) \/ TimerFires(i)
  \/ Server

Spec == Init /\ [][Next]_vars

(***************************************************************************)
(* Fairness: as long as there is one, some timer runs, some close()        *)
(* completes, and some attempt to connect to a server that is down fails.  *)
(* The user and the server owe nothing.                                    *)
(***************************************************************************)
SocketFairness ==
  /\ WF_vars(\E i \in Sockets : TimerFires(i))
  /\ WF_vars(\E i \in Sockets : ready[i] = "closing" /\ OnClose(i))
  /\ WF_vars(\E i \in Sockets : ready[i] = "connecting" /\ ~serverUp /\ OnClose(i))

-----------------------------------------------------------------------------
(* Properties. *)

\* The state shown says connected only while some socket is open, whichever of
\* the overlapping sockets opened or closed last (onopen, onclose, disconnect).
ConnectedMeansOpen == connected => \E i \in Sockets : ready[i] = "open"

\* Retries since the last open connection exceed the limit by less than the
\* number of renders, whose sockets may each have a chain of retries of its own:
\* the counter they share counts when a timer fires, not when it is started.
RetriesBounded == attempts # 0 => attempts < MaxAttempts + renders

\* With a server that stays down, every chain of attempts ends: the shared
\* counter stops them although sockets and timers of several urls overlap.
Quiet == \A i \in Sockets : ~timer[i] /\ ready[i] \notin {"connecting", "closing"}
GivesUp == <>[]~serverUp => <>[]Quiet

\* What the comment of the effect says (useWebSocket.ts:107): "Connect on mount,
\* disconnect on unmount".
DisconnectedWhenUnmounted ==
  url = None => \A i \in Sockets : ready[i] \notin {"connecting", "open"}

=============================================================================
