---------------------------- MODULE LookingGlass ----------------------------
(***************************************************************************)
(* The Looking Glass engine: sessions, their event logs, and the WebSocket *)
(* clients that watch them (internal/lookingglass: inspector.go, stream.go)*)
(*                                                                         *)
(* Every goroutine of the Go code is a process here:                       *)
(*   - one call of Engine.AddEvent per event e, at emit[e];                *)
(*   - per client c: the HTTP handler (HandleWebSocket then sendHistory),  *)
(*     at handler[c]; readPump, reader[c]; writePump, writer[c].           *)
(* A critical section of Session.mu is one step, except broadcast, which   *)
(* holds the read lock over its loop and is a step per client.             *)
(***************************************************************************)
EXTENDS Naturals, Sequences, Functions

CONSTANTS
  Sessions,     \* session ids the engine may hand out (uuid.New)
  Clients,      \* one WebSocket connection each
  Events,       \* one call of AddEvent each; the id is drawn by the call
  SessionInfo,  \* the "session.info" message
  NoSession,
  Commands,     \* the states a browser may set: "active", "paused", "complete"
  BufferCap     \* capacity of Client.send (256 in the code)

ASSUME LGAssumption ==
  /\ SessionInfo \notin Events
  /\ NoSession \notin Sessions
  /\ Commands \subseteq {"active", "paused", "complete"}
  /\ BufferCap \in Nat \ {0}

VARIABLES
  sessions,   \* keys of Engine.sessions
  state,      \* state[s]: Session.State, "none" before CreateSession
  log,        \* log[s]: Session.Events
  clients,    \* clients[s]: Session.clients
  emit,       \* emit[e]: where the AddEvent call of event e is
  target,     \* target[e]: the session it was called with
  todo,       \* todo[e]: the clients its broadcast has still to serve
  at,         \* at[c]: Client.session
  handler,    \* handler[c]: where HandleWebSocket is
  pending,    \* pending[c]: what sendHistory has still to send
  send,       \* send[c]: contents of the channel Client.send
  closed,     \* closed[c]: the channel is closed
  conn,       \* conn[c]: the connection: "none", "open", "gone" (peer left), "closed"
  reader,     \* reader[c]: readPump is running
  writer,     \* writer[c]: where writePump is
  frame,      \* frame[c]: the messages writePump has taken and not yet written
  delivered,  \* history: the messages that reached the browser, in order
  skipped     \* history: the events broadcast dropped because the buffer was full

engineVars == <<sessions, state, log>>
clientVars == <<at, handler, pending, send, closed, conn, reader, writer, frame>>
emitVars   == <<emit, target, todo>>
ghostVars  == <<delivered, skipped>>
vars == <<engineVars, clients, emitVars, clientVars, ghostVars>>

Message == Events \cup {SessionInfo}

TypeOK ==
  /\ sessions \subseteq Sessions
  /\ state \in [Sessions -> {"none", "active", "paused", "complete"}]
  /\ log \in [Sessions -> Seq(Events)]
  /\ clients \in [Sessions -> SUBSET Clients]
  /\ emit \in [Events -> {"idle", "found", "appended", "casting", "done", "unknown"}]
  /\ target \in [Events -> Sessions \cup {NoSession}]
  /\ todo \in [Events -> SUBSET Clients]
  /\ at \in [Clients -> Sessions \cup {NoSession}]
  /\ handler \in [Clients -> {"absent", "upgraded", "registered", "sending", "returned", "panicked"}]
  /\ pending \in [Clients -> Seq(Message)]
  /\ send \in [Clients -> Seq(Message)] /\ \A c \in Clients : Len(send[c]) <= BufferCap
  /\ closed \in [Clients -> BOOLEAN]
  /\ conn \in [Clients -> {"none", "open", "gone", "closed"}]
  /\ reader \in [Clients -> BOOLEAN]
  /\ writer \in [Clients -> {"off", "waiting", "received", "writing", "exited"}]
  /\ frame \in [Clients -> Seq(Message)]
  /\ delivered \in [Clients -> Seq(Message)]
  /\ skipped \in [Clients -> SUBSET Events]

Init ==
  /\ sessions  = {}
  /\ state     = [s \in Sessions |-> "none"]
  /\ log       = [s \in Sessions |-> <<>>]
  /\ clients   = [s \in Sessions |-> {}]
  /\ emit      = [e \in Events |-> "idle"]
  /\ target    = [e \in Events |-> NoSession]
  /\ todo      = [e \in Events |-> {}]
  /\ at        = [c \in Clients |-> NoSession]
  /\ handler   = [c \in Clients |-> "absent"]
  /\ pending   = [c \in Clients |-> <<>>]
  /\ send      = [c \in Clients |-> <<>>]
  /\ closed    = [c \in Clients |-> FALSE]
  /\ conn      = [c \in Clients |-> "none"]
  /\ reader    = [c \in Clients |-> FALSE]
  /\ writer    = [c \in Clients |-> "off"]
  /\ frame     = [c \in Clients |-> <<>>]
  /\ delivered = [c \in Clients |-> <<>>]
  /\ skipped   = [c \in Clients |-> {}]

-----------------------------------------------------------------------------
(* Sessions. *)

CreateSession(s) ==
  /\ state[s] = "none"
  /\ sessions' = sessions \cup {s}
  /\ state'    = [state EXCEPT ![s] = "active"]
  /\ UNCHANGED <<log, clients, emitVars, clientVars, ghostVars>>

\* Only the map entry goes: connected clients keep their pointer to the session.
DeleteSession(s) ==
  /\ s \in sessions
  /\ sessions' = sessions \ {s}
  /\ UNCHANGED <<state, log, clients, emitVars, clientVars, ghostVars>>

\* Session.mu can be taken for writing: no broadcast holds it for reading.
LockFree(s) == \A e \in Events : ~(emit[e] = "casting" /\ target[e] = s)

-----------------------------------------------------------------------------
(* AddEvent(s, e): look the session up, append, then broadcast. *)

AddEvent(e, s) ==
  /\ emit[e] = "idle"
  /\ emit'   = [emit EXCEPT ![e] = IF s \in sessions THEN "found" ELSE "unknown"]
  /\ target' = [target EXCEPT ![e] = s]
  /\ UNCHANGED <<engineVars, clients, todo, clientVars, ghostVars>>

AppendEvent(e) ==
  LET s == target[e] IN
  /\ emit[e] = "found" /\ LockFree(s)
  /\ log'  = [log EXCEPT ![s] = Append(@, e)]
  /\ emit' = [emit EXCEPT ![e] = "appended"]
  /\ UNCHANGED <<sessions, state, clients, target, todo, clientVars, ghostVars>>

BeginBroadcast(e) ==
  /\ emit[e] = "appended"
  /\ emit' = [emit EXCEPT ![e] = "casting"]
  /\ todo' = [todo EXCEPT ![e] = clients[target[e]]]
  /\ UNCHANGED <<engineVars, clients, target, clientVars, ghostVars>>

\* Seeded faults: the last slot is never used; one slot too many is.
HasRoom_OneLess(c) == Len(send[c]) + 1 < BufferCap
HasRoom_OneMore(c) == Len(send[c]) <= BufferCap
HasRoom(c) == Len(send[c]) < BufferCap

\* Seeded fault: a plain channel send, which waits for room.
CastTo_Blocking(e, c) ==
  /\ emit[e] = "casting" /\ c \in todo[e] /\ HasRoom(c)
  /\ send' = [send EXCEPT ![c] = Append(@, e)]
  /\ todo' = [todo EXCEPT ![e] = @ \ {c}]
  /\ UNCHANGED <<engineVars, clients, emit, target, at, handler, pending, closed, conn, reader, writer, frame, ghostVars>>

\* Seeded fault: live events are withheld while the history is being sent.
CastTo_NotDuringHistory(e, c) ==
  /\ emit[e] = "casting" /\ c \in todo[e]
  /\ todo' = [todo EXCEPT ![e] = @ \ {c}]
  /\ IF HasRoom(c) /\ handler[c] # "sending"
       THEN send' = [send EXCEPT ![c] = Append(@, e)] /\ UNCHANGED skipped
       ELSE UNCHANGED <<send, skipped>>
  /\ UNCHANGED <<engineVars, clients, emit, target, at, handler, pending, closed, conn, reader, writer, frame, delivered>>

\* One turn of broadcast's loop: select with a default branch, so it never waits.
CastTo(e, c) ==
  /\ emit[e] = "casting" /\ c \in todo[e]
  /\ todo' = [todo EXCEPT ![e] = @ \ {c}]
  /\ \/ /\ HasRoom(c)
        /\ send' = [send EXCEPT ![c] = Append(@, e)]
        /\ UNCHANGED skipped
     \/ /\ ~HasRoom(c)
        /\ skipped' = IF conn[c] = "open" THEN [skipped EXCEPT ![c] = @ \cup {e}] ELSE skipped
        /\ UNCHANGED send
  /\ UNCHANGED <<engineVars, clients, emit, target, at, handler, pending, closed, conn, reader, writer, frame, delivered>>

EndBroadcast(e) ==
  /\ emit[e] = "casting" /\ todo[e] = {}
  /\ emit' = [emit EXCEPT ![e] = "done"]
  /\ UNCHANGED <<engineVars, clients, target, todo, clientVars, ghostVars>>

-----------------------------------------------------------------------------
(* HandleWebSocket: the session is found and the connection upgraded, the  *)
(* client is registered and its pumps started, and only then is the log    *)
(* copied and sent.                                                        *)

Connect(c, s) ==
  /\ handler[c] = "absent" /\ s \in sessions
  /\ at'      = [at EXCEPT ![c] = s]
  /\ conn'    = [conn EXCEPT ![c] = "open"]
  /\ handler' = [handler EXCEPT ![c] = "upgraded"]
  /\ UNCHANGED <<engineVars, clients, emitVars, pending, send, closed, reader, writer, frame, ghostVars>>

RegisterClient(c) ==
  /\ handler[c] = "upgraded" /\ LockFree(at[c])
  /\ clients' = [clients EXCEPT ![at[c]] = @ \cup {c}]
  /\ reader'  = [reader EXCEPT ![c] = TRUE]
  /\ writer'  = [writer EXCEPT ![c] = "waiting"]
  /\ handler' = [handler EXCEPT ![c] = "registered"]
  /\ UNCHANGED <<engineVars, emitVars, at, pending, send, closed, conn, frame, ghostVars>>

\* Seeded fault: the copy stops one event short of the end of the log.
History_OffByOne(s) == IF log[s] = <<>> THEN <<SessionInfo>>
                       ELSE <<SessionInfo>> \o SubSeq(log[s], 1, Len(log[s]) - 1)
History(s) == <<SessionInfo>> \o log[s]

CopyHistory(c) ==
  /\ handler[c] = "registered"
  /\ pending' = [pending EXCEPT ![c] = History(at[c])]
  /\ handler' = [handler EXCEPT ![c] = "sending"]
  /\ UNCHANGED <<engineVars, clients, emitVars, at, send, closed, conn, reader, writer, frame, ghostVars>>

\* Blocks while the buffer is full.
SendHistory(c) ==
  /\ handler[c] = "sending" /\ ~closed[c] /\ HasRoom(c)
  /\ send'    = [send EXCEPT ![c] = Append(@, Head(pending[c]))]
  /\ pending' = [pending EXCEPT ![c] = Tail(@)]
  /\ handler' = IF Len(pending[c]) = 1 THEN [handler EXCEPT ![c] = "returned"] ELSE handler
  /\ UNCHANGED <<engineVars, clients, emitVars, at, closed, conn, reader, writer, frame, ghostVars>>

\* readPump closed the channel under the sender; Recovery swallows the panic.
HistoryPanic(c) ==
  /\ handler[c] = "sending" /\ closed[c]
  /\ handler' = [handler EXCEPT ![c] = "panicked"]
  /\ pending' = [pending EXCEPT ![c] = <<>>]
  /\ UNCHANGED <<engineVars, clients, emitVars, at, send, closed, conn, reader, writer, frame, ghostVars>>

-----------------------------------------------------------------------------
(* readPump. *)

\* A command of the browser; it may be read after the browser has left.
HandleMessage(c, st) ==
  /\ reader[c] /\ conn[c] \in {"open", "gone"} /\ LockFree(at[c])
  /\ state' = [state EXCEPT ![at[c]] = st]
  /\ UNCHANGED <<sessions, log, clients, emitVars, clientVars, ghostVars>>

\* The browser leaves, or the network does.
PeerGone(c) ==
  /\ conn[c] = "open"
  /\ conn' = [conn EXCEPT ![c] = "gone"]
  /\ UNCHANGED <<engineVars, clients, emitVars, at, handler, pending, send, closed, reader, writer, frame, ghostVars>>

\* Seeded fault: the channel is closed without taking Session.mu.
ReaderExit_NoLock(c) ==
  /\ reader[c]
  /\ clients' = [clients EXCEPT ![at[c]] = @ \ {c}]
  /\ closed'  = [closed EXCEPT ![c] = TRUE]
  /\ conn'    = [conn EXCEPT ![c] = "closed"]
  /\ reader'  = [reader EXCEPT ![c] = FALSE]
  /\ UNCHANGED <<engineVars, emitVars, at, handler, pending, send, writer, frame, ghostVars>>

\* ReadMessage failed (peer gone, connection closed by writePump, oversized
\* message, read deadline): unregisterClient closes the channel, then the
\* connection is closed.
ReaderExit(c) ==
  /\ reader[c] /\ LockFree(at[c])
  /\ clients' = [clients EXCEPT ![at[c]] = @ \ {c}]
  /\ closed'  = [closed EXCEPT ![c] = TRUE]
  /\ conn'    = [conn EXCEPT ![c] = "closed"]
  /\ reader'  = [reader EXCEPT ![c] = FALSE]
  /\ UNCHANGED <<engineVars, emitVars, at, handler, pending, send, writer, frame, ghostVars>>

-----------------------------------------------------------------------------
(* writePump. *)

WriterReceive(c) ==
  /\ writer[c] = "waiting" /\ send[c] # <<>>
  /\ frame'  = [frame EXCEPT ![c] = <<Head(send[c])>>]
  /\ send'   = [send EXCEPT ![c] = Tail(@)]
  /\ writer' = [writer EXCEPT ![c] = "received"]
  /\ UNCHANGED <<engineVars, clients, emitVars, at, handler, pending, closed, conn, reader, ghostVars>>

\* The loop over the n messages queued at this instant; it is the only consumer.
WriterDrain(c) ==
  /\ writer[c] = "received"
  /\ frame'  = [frame EXCEPT ![c] = @ \o send[c]]
  /\ send'   = [send EXCEPT ![c] = <<>>]
  /\ writer' = [writer EXCEPT ![c] = "writing"]
  /\ UNCHANGED <<engineVars, clients, emitVars, at, handler, pending, closed, conn, reader, ghostVars>>

\* Seeded fault: only the message that woke the pump is written.
WriterFlush_HeadOnly(c) ==
  /\ writer[c] = "writing" /\ conn[c] # "closed"
  /\ delivered' = IF conn[c] = "open" THEN [delivered EXCEPT ![c] = Append(@, Head(frame[c]))]
                                      ELSE delivered
  /\ frame'  = [frame EXCEPT ![c] = <<>>]
  /\ writer' = [writer EXCEPT ![c] = "waiting"]
  /\ UNCHANGED <<engineVars, clients, emitVars, at, handler, pending, send, closed, conn, reader, skipped>>

\* The frame is written; towards a peer that left it may vanish without an error.
WriterFlush(c) ==
  /\ writer[c] = "writing" /\ conn[c] # "closed"
  /\ delivered' = IF conn[c] = "open" THEN [delivered EXCEPT ![c] = @ \o frame[c]]
                                      ELSE delivered
  /\ frame'  = [frame EXCEPT ![c] = <<>>]
  /\ writer' = [writer EXCEPT ![c] = "waiting"]
  /\ UNCHANGED <<engineVars, clients, emitVars, at, handler, pending, send, closed, conn, reader, skipped>>

\* Seeded fault: the pump ends without closing the connection.
WriterExit_ConnLeftOpen(c) ==
  /\ writer' = [writer EXCEPT ![c] = "exited"]
  /\ frame'  = [frame EXCEPT ![c] = <<>>]
  /\ UNCHANGED <<engineVars, clients, emitVars, at, handler, pending, send, closed, conn, reader, ghostVars>>

WriterExit(c) ==
  /\ writer' = [writer EXCEPT ![c] = "exited"]
  /\ conn'   = [conn EXCEPT ![c] = "closed"]
  /\ frame'  = [frame EXCEPT ![c] = <<>>]
  /\ UNCHANGED <<engineVars, clients, emitVars, at, handler, pending, send, closed, reader, ghostVars>>

\* A ping or a write failed, or a write ran into its 10 second deadline.
WriterFail(c) ==
  /\ writer[c] \in {"waiting", "received", "writing"}
  /\ WriterExit(c)

\* The closed channel is drained first: receive reports !ok only when it is empty.
WriterSawClose(c) ==
  /\ writer[c] = "waiting" /\ closed[c] /\ send[c] = <<>>
  /\ WriterExit(c)

-----------------------------------------------------------------------------
EmitStep(e) ==
  \/ AppendEvent(e) \/ BeginBroadcast(e) \/ EndBroadcast(e)
  \/ \E c \in Clients : CastTo(e, c)

HandlerStep(c) == RegisterClient(c) \/ CopyHistory(c) \/ SendHistory(c) \/ HistoryPanic(c)

WriterStep(c) == WriterReceive(c) \/ WriterDrain(c) \/ WriterFlush(c) \/ WriterSawClose(c)

Next ==
  \/ \E s \in Sessions : CreateSession(s) \/ DeleteSession(s)
  \/ \E e \in Events : (\E s \in Sessions : AddEvent(e, s)) \/ EmitStep(e)
  \/ \E c \in Clients :
       \/ \E s \in Sessions : Connect(c, s)
       \/ \E st \in Commands : HandleMessage(c, st)
       \/ HandlerStep(c) \/ PeerGone(c) \/ ReaderExit(c) \/ WriterStep(c) \/ WriterFail(c)

Spec == Init /\ [][Next]_vars

(***************************************************************************)
(* Fairness.  Emitters and handlers are goroutines that keep running, and  *)
(* a waiting Lock is granted (RWMutex blocks new readers behind a waiting  *)
(* writer).  A write ends, in a flush or a failure; the pumps notice that  *)
(* the connection ended, but no failure is required while it is open.      *)
(***************************************************************************)
EmitFairness   == \A e \in Events : WF_vars(EmitStep(e))
ClientFairness == \A c \in Clients :
  /\ WF_vars(HandlerStep(c))
  /\ WF_vars(WriterStep(c))
  /\ WF_vars(conn[c] = "closed" /\ WriterFail(c))
  /\ WF_vars(conn[c] # "open" /\ ReaderExit(c))

\* Browsers and pumps owe nothing here: only the AddEvent calls are scheduled.
EmitFairSpec == Spec /\ EmitFairness

-----------------------------------------------------------------------------
(* Properties. *)

\* broadcast never sends on a channel that readPump has closed: a client is
\* deleted and its channel closed under the same lock the loop holds for
\* reading (stream.go unregisterClient, broadcast).
NoBroadcastOnClosedChannel ==
  \A e \in Events : emit[e] = "casting" => \A c \in todo[e] : ~closed[c]

Watching(c) == handler[c] \notin {"absent", "upgraded"} /\ conn[c] = "open"
Received(c) == Range(delivered[c]) \ {SessionInfo}
Queued(c)   == (Range(pending[c]) \cup Range(send[c]) \cup Range(frame[c])) \ {SessionInfo}
InFlight(c) == {e \in Events : /\ target[e] = at[c]
                              /\ \/ emit[e] = "appended"
                                 \/ emit[e] = "casting" /\ c \in todo[e]}
Owed(c) ==
  IF ~Watching(c) THEN {}
  ELSE IF handler[c] = "registered" THEN Range(log[at[c]])
  ELSE Queued(c) \cup InFlight(c)

\* No gap between history and live events: whatever interleaving of AddEvent
\* and of the connection, an event of the log of a watched session has been
\* delivered, is on its way, or was dropped because the buffer was full
\* (HandleWebSocket registers before it copies the log).
NoGap ==
  \A c \in Clients : Watching(c) =>
    Range(log[at[c]]) \subseteq Received(c) \cup Owed(c) \cup skipped[c]

\* Nothing is dropped before the buffer must overflow: a session whose log has n
\* events sends a client at most the session info, each event once as history
\* and once live (the 256 slots at stream.go:51, the drop in broadcast).
NoEarlyDrop == \A c \in Clients : skipped[c] # {} => 2 * Len(log[at[c]]) + 1 > BufferCap

\* The promise to a watcher, as a separate specification.
Feed == INSTANCE EventFeed WITH
  follows <- [c \in Clients |-> IF Watching(c) THEN at[c] ELSE NoSession],
  owed    <- [c \in Clients |-> Owed(c)],
  got     <- [c \in Clients |-> Received(c)],
  lost    <- skipped

\* The engine keeps the promise of EventFeed.
KeepsFeed == Feed!Spec

\* A slow or stuck browser never delays AddEvent: every call that found its
\* session ends even if no pump ever runs (the select with default in broadcast).
AddEventEnds == \A e \in Events : emit[e] = "found" ~> emit[e] = "done"

\* With the client's goroutines scheduled too, and while the connection stays
\* open, an event of the session's log reaches the browser or was dropped.
EventReachesWatcher ==
  ClientFairness => \A c \in Clients, e \in Events :
    Watching(c) /\ e \in Range(log[at[c]])
      ~> e \in Received(c) \cup skipped[c] \/ conn[c] # "open"

\* When the connection ends or a pump dies, the client is unregistered and its
\* handler and both pumps end: sendHistory does not hang on the full buffer of a
\* dead client (readPump's and writePump's deferred calls).
Ended(c) == /\ \A s \in Sessions : c \notin clients[s]
            /\ ~reader[c] /\ writer[c] = "exited" /\ handler[c] \in {"returned", "panicked"}
DeadClientIsReleased ==
  ClientFairness =>
    \A c \in Clients : conn[c] \in {"gone", "closed"} \/ writer[c] = "exited" ~> Ended(c)

\* What sendHistory's comment says (stream.go:108, "Send session info first").
SessionInfoFirst ==
  \A c \in Clients : delivered[c] # <<>> => Head(delivered[c]) = SessionInfo

=============================================================================
