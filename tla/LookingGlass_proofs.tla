------------------------- MODULE LookingGlass_proofs -------------------------
(***************************************************************************)
(* Type correctness of LookingGlass, that a broadcast never meets a closed *)
(* channel, that a watcher sees no gap, that the engine keeps the promise  *)
(* of EventFeed, that no event is dropped early, and that no goroutine of  *)
(* a client waits for one that is no more: for every set of sessions,      *)
(* clients and events and every buffer capacity.                           *)
(***************************************************************************)
EXTENDS LookingGlass, FiniteSetTheorems, TLAPS

-----------------------------------------------------------------------------
(* The inductive invariant, in named parts. *)

\* A call that found a session, and a handler past its lookup, have one.
Sited ==
  /\ \A e \in Events : emit[e] # "idle" => target[e] \in Sessions
  /\ \A c \in Clients : handler[c] # "absent" => at[c] \in Sessions

\* What each goroutine of a client may assume of the others.
Lifecycle ==
  \A c \in Clients :
    /\ handler[c] \in {"absent", "upgraded"} => ~closed[c] /\ ~reader[c] /\ writer[c] = "off"
    /\ handler[c] = "sending" => pending[c] # <<>>
    /\ closed[c] => conn[c] = "closed"
    /\ writer[c] \notin {"received", "writing"} => frame[c] = <<>>

\* A registered client has its channel open and its readPump running, and a
\* watching client is registered with its session.
Registration ==
  /\ \A s \in Sessions : \A c \in clients[s] : at[c] = s /\ ~closed[c] /\ reader[c]
  /\ \A c \in Clients : Watching(c) => c \in clients[at[c]]

\* A broadcast in progress only has registered clients left.
Locking ==
  \A e \in Events : emit[e] = "casting" => todo[e] \subseteq clients[target[e]]

IInv == TypeOK /\ Sited /\ Lifecycle /\ Registration /\ Locking

-----------------------------------------------------------------------------
(* What the operations on a channel do to the set of its messages. *)

LEMMA RangeAppend ==
  ASSUME NEW S, NEW q \in Seq(S), NEW x \in S
  PROVE  Range(Append(q, x)) = Range(q) \cup {x}
<1>1. \A i \in 1 .. Len(q) : Append(q, x)[i] = q[i]
  OBVIOUS
<1>2. Append(q, x)[Len(q) + 1] = x /\ DOMAIN Append(q, x) = 1 .. (Len(q) + 1)
  OBVIOUS
<1>3. Range(q) \cup {x} \subseteq Range(Append(q, x))
  BY <1>1, <1>2 DEF Range
<1>4. Range(Append(q, x)) \subseteq Range(q) \cup {x}
  BY <1>1, <1>2 DEF Range
<1>. QED BY <1>3, <1>4

LEMMA RangeConcat ==
  ASSUME NEW S, NEW q \in Seq(S), NEW r \in Seq(S)
  PROVE  Range(q \o r) = Range(q) \cup Range(r)
<1>1. DOMAIN (q \o r) = 1 .. (Len(q) + Len(r))
  OBVIOUS
<1>2. \A i \in 1 .. Len(q) : (q \o r)[i] = q[i]
  OBVIOUS
<1>3. \A i \in 1 .. Len(r) : (q \o r)[Len(q) + i] = r[i]
  OBVIOUS
<1>4. Range(q) \cup Range(r) \subseteq Range(q \o r)
  <2>1. \A i \in 1 .. Len(q) : i \in DOMAIN (q \o r)
    BY <1>1
  <2>2. \A i \in 1 .. Len(r) : Len(q) + i \in DOMAIN (q \o r)
    BY <1>1
  <2>3. Range(q) \subseteq Range(q \o r)
    BY <1>2, <2>1 DEF Range
  <2>4. Range(r) \subseteq Range(q \o r)
    <3>1. ASSUME NEW i \in 1 .. Len(r) PROVE r[i] \in Range(q \o r)
      BY <1>3, <2>2 DEF Range
    <3>. QED BY <3>1 DEF Range
  <2>. QED BY <2>3, <2>4
<1>5. ASSUME NEW k \in 1 .. (Len(q) + Len(r)) PROVE (q \o r)[k] \in Range(q) \cup Range(r)
  <2>1. CASE k <= Len(q)
    BY <2>1, <1>2 DEF Range
  <2>2. CASE k > Len(q)
    <3>1. k - Len(q) \in 1 .. Len(r) /\ (q \o r)[k] = r[k - Len(q)]
      BY <2>2, <1>3
    <3>. QED BY <3>1 DEF Range
  <2>. QED BY <2>1, <2>2
<1>. QED BY <1>1, <1>4, <1>5 DEF Range

LEMMA RangeHeadTail ==
  ASSUME NEW S, NEW q \in Seq(S), q # <<>>
  PROVE  /\ Head(q) \in S /\ Tail(q) \in Seq(S)
         /\ Len(Tail(q)) = Len(q) - 1
         /\ Range(q) = {Head(q)} \cup Range(Tail(q))
<1>1. Len(q) \in Nat \ {0} /\ Head(q) = q[1] /\ Head(q) \in S /\ Tail(q) \in Seq(S)
  OBVIOUS
<1>2. DOMAIN Tail(q) = 1 .. (Len(q) - 1) /\ Len(Tail(q)) = Len(q) - 1
  OBVIOUS
<1>3. \A i \in 1 .. (Len(q) - 1) : Tail(q)[i] = q[i + 1]
  OBVIOUS
<1>4. {Head(q)} \cup Range(Tail(q)) \subseteq Range(q)
  BY <1>1, <1>2, <1>3 DEF Range
<1>5. ASSUME NEW k \in 1 .. Len(q) PROVE q[k] \in {Head(q)} \cup Range(Tail(q))
  <2>1. CASE k = 1
    BY <2>1, <1>1
  <2>2. CASE k > 1
    <3>1. k - 1 \in 1 .. (Len(q) - 1) /\ Tail(q)[k - 1] = q[k]
      BY <2>2, <1>3, <1>1
    <3>. QED BY <3>1, <1>2 DEF Range
  <2>. QED BY <2>1, <2>2
<1>. QED BY <1>1, <1>2, <1>4, <1>5 DEF Range

LEMMA TailEmpty ==
  ASSUME NEW S, NEW q \in Seq(S), q # <<>>, Tail(q) = <<>>
  PROVE  Len(q) = 1
<1>1. Len(Tail(q)) = Len(q) - 1 /\ Len(q) \in Nat
  BY RangeHeadTail
<1>2. q = <<Head(q)>>
  BY <1>1
<1>. QED BY <1>2

-----------------------------------------------------------------------------
(* IInv is inductive: one lemma per action, or per group of like actions. *)

LEMMA InitIInv == Init => IInv
<1>. SUFFICES ASSUME Init PROVE IInv
  OBVIOUS
<1>. USE LGAssumption DEF Init
<1>1. TypeOK
  BY DEF TypeOK, Message
<1>2. Sited /\ Lifecycle /\ Locking
  BY DEF Sited, Lifecycle, Locking
<1>3. Registration
  BY DEF Registration, Watching
<1>. QED BY <1>1, <1>2, <1>3 DEF IInv

LEMMA SessionsIInv ==
  ASSUME IInv, NEW s \in Sessions, CreateSession(s) \/ DeleteSession(s)
  PROVE  IInv'
<1>. USE DEF IInv, CreateSession, DeleteSession, emitVars, clientVars, ghostVars
<1>1. TypeOK'
  BY DEF TypeOK
<1>2. Sited' /\ Lifecycle' /\ Locking'
  BY DEF Sited, Lifecycle, Locking
<1>3. Registration'
  BY DEF Registration, Watching
<1>. QED BY <1>1, <1>2, <1>3

LEMMA AddEventIInv ==
  ASSUME IInv, NEW e \in Events, NEW s \in Sessions, AddEvent(e, s)
  PROVE  IInv'
<1>. USE DEF IInv, AddEvent, engineVars, clientVars, ghostVars
<1>1. TypeOK'
  BY DEF TypeOK
<1>2. Sited' /\ Lifecycle' /\ Locking'
  BY DEF Sited, Lifecycle, Locking, TypeOK
<1>3. Registration'
  BY DEF Registration, Watching
<1>. QED BY <1>1, <1>2, <1>3

LEMMA AppendEventIInv ==
  ASSUME IInv, NEW e \in Events, AppendEvent(e)
  PROVE  IInv'
<1>. USE DEF IInv, AppendEvent, engineVars, clientVars, ghostVars
<1>0. target[e] \in Sessions /\ log[target[e]] \in Seq(Events)
  BY DEF TypeOK, Sited
<1>1. TypeOK'
  <2>1. Append(log[target[e]], e) \in Seq(Events)
    BY <1>0
  <2>2. log' \in [Sessions -> Seq(Events)]
    BY <2>1 DEF TypeOK
  <2>. QED BY <2>2 DEF TypeOK
<1>2. Sited' /\ Lifecycle' /\ Locking'
  BY DEF Sited, Lifecycle, Locking, TypeOK
<1>3. Registration'
  BY DEF Registration, Watching
<1>. QED BY <1>1, <1>2, <1>3

LEMMA BroadcastIInv ==
  ASSUME IInv, NEW e \in Events, BeginBroadcast(e) \/ EndBroadcast(e)
  PROVE  IInv'
<1>. USE DEF IInv, BeginBroadcast, EndBroadcast, engineVars, clientVars, ghostVars
<1>0. target[e] \in Sessions /\ clients[target[e]] \subseteq Clients
  BY DEF TypeOK, Sited
<1>1. TypeOK'
  <2>1. todo' \in [Events -> SUBSET Clients]
    BY <1>0 DEF TypeOK
  <2>2. emit' \in [Events -> {"idle", "found", "appended", "casting", "done", "unknown"}]
    <3>1. emit' = [emit EXCEPT ![e] = "casting"] \/ emit' = [emit EXCEPT ![e] = "done"]
      OBVIOUS
    <3>2. emit \in [Events -> {"idle", "found", "appended", "casting", "done", "unknown"}]
      BY DEF TypeOK
    <3>. QED BY <3>1, <3>2
  <2>3. UNCHANGED <<engineVars, clients, target, clientVars, ghostVars>>
    OBVIOUS
  <2>. QED BY <2>1, <2>2, <2>3 DEF TypeOK
<1>2. Sited' /\ Lifecycle'
  BY <1>0 DEF Sited, Lifecycle, TypeOK
<1>3. Locking'
  <2>1. CASE BeginBroadcast(e)
    BY <2>1, <1>0 DEF Locking, TypeOK
  <2>2. CASE EndBroadcast(e)
    BY <2>2, <1>0 DEF Locking, TypeOK
  <2>. QED BY <2>1, <2>2
<1>4. Registration'
  BY DEF Registration, Watching
<1>. QED BY <1>1, <1>2, <1>3, <1>4

LEMMA CastToIInv ==
  ASSUME IInv, NEW e \in Events, NEW c \in Clients, CastTo(e, c)
  PROVE  IInv'
<1>. USE DEF IInv, CastTo, engineVars
<1>1. TypeOK'
  <2>1. todo' \in [Events -> SUBSET Clients]
    BY DEF TypeOK
  <2>2. /\ send' \in [Clients -> Seq(Message)]
        /\ \A d \in Clients : Len(send'[d]) <= BufferCap
    <3>1. send \in [Clients -> Seq(Message)] /\ \A d \in Clients : Len(send[d]) <= BufferCap
      BY DEF TypeOK
    <3>2. CASE HasRoom(c) /\ send' = [send EXCEPT ![c] = Append(@, e)]
      <4>1. /\ Append(send[c], e) \in Seq(Message)
            /\ Len(Append(send[c], e)) = Len(send[c]) + 1
        BY <3>1 DEF Message
      <4>2. Len(send[c]) \in Nat /\ Len(send[c]) + 1 <= BufferCap
        BY <3>1, <3>2, LGAssumption DEF HasRoom
      <4>3. send'[c] = Append(send[c], e) /\ \A d \in Clients \ {c} : send'[d] = send[d]
        BY <3>1, <3>2
      <4>. QED BY <3>1, <3>2, <4>1, <4>2, <4>3
    <3>. QED BY <3>1, <3>2
  <2>3. skipped' \in [Clients -> SUBSET Events]
    <3>1. skipped \in [Clients -> SUBSET Events]
      BY DEF TypeOK
    <3>2. skipped' = skipped \/ skipped' = [skipped EXCEPT ![c] = skipped[c] \cup {e}]
      OBVIOUS
    <3>. QED BY <3>1, <3>2
  <2>. QED BY <2>1, <2>2, <2>3 DEF TypeOK
<1>2. Sited' /\ Lifecycle' /\ Locking'
  BY DEF Sited, Lifecycle, Locking, TypeOK
<1>3. Registration'
  BY DEF Registration, Watching
<1>. QED BY <1>1, <1>2, <1>3

LEMMA ConnectIInv ==
  ASSUME IInv, NEW c \in Clients, NEW s \in Sessions, Connect(c, s)
  PROVE  IInv'
<1>. USE DEF IInv, Connect, engineVars, emitVars, ghostVars
<1>1. TypeOK'
  BY DEF TypeOK
<1>2. Sited' /\ Lifecycle' /\ Locking'
  BY DEF Sited, Lifecycle, Locking, TypeOK
<1>3. Registration'
  BY DEF Registration, Watching, Lifecycle, TypeOK
<1>. QED BY <1>1, <1>2, <1>3

LEMMA RegisterClientIInv ==
  ASSUME IInv, NEW c \in Clients, RegisterClient(c)
  PROVE  IInv'
<1>. USE DEF IInv, RegisterClient, engineVars, emitVars, ghostVars
<1>0. at[c] \in Sessions
  BY DEF Sited
<1>1. TypeOK'
  BY <1>0 DEF TypeOK
<1>2. Sited' /\ Lifecycle'
  BY DEF Sited, Lifecycle, TypeOK
<1>3. Locking'
  BY <1>0 DEF Locking, TypeOK, Sited
<1>4. Registration'
  BY <1>0 DEF Registration, Watching, Lifecycle, TypeOK, Sited
<1>. QED BY <1>1, <1>2, <1>3, <1>4

LEMMA CopyHistoryIInv ==
  ASSUME IInv, NEW c \in Clients, CopyHistory(c)
  PROVE  IInv'
<1>. USE DEF IInv, CopyHistory, engineVars, emitVars, ghostVars
<1>1. History(at[c]) \in Seq(Message) /\ History(at[c]) # <<>>
  <2>1. log[at[c]] \in Seq(Message) /\ <<SessionInfo>> \in Seq(Message)
    BY DEF Message, TypeOK, Sited
  <2>. QED BY <2>1 DEF History
<1>2. TypeOK'
  BY <1>1 DEF TypeOK
<1>3. Sited' /\ Lifecycle' /\ Locking'
  BY <1>1 DEF Sited, Lifecycle, Locking, TypeOK
<1>4. Registration'
  BY DEF Registration, Watching, TypeOK
<1>. QED BY <1>2, <1>3, <1>4

LEMMA SendHistoryIInv ==
  ASSUME IInv, NEW c \in Clients, SendHistory(c)
  PROVE  IInv'
<1>. USE DEF IInv, SendHistory, engineVars, emitVars, ghostVars
<1>0. /\ pending[c] \in Seq(Message) /\ pending[c] # <<>>
      /\ send \in [Clients -> Seq(Message)] /\ \A d \in Clients : Len(send[d]) <= BufferCap
  BY DEF TypeOK, Lifecycle
<1>1. /\ Head(pending[c]) \in Message /\ Tail(pending[c]) \in Seq(Message)
      /\ Len(Tail(pending[c])) = Len(pending[c]) - 1
  BY <1>0, RangeHeadTail
<1>2. TypeOK'
  <2>1. /\ Append(send[c], Head(pending[c])) \in Seq(Message)
        /\ Len(Append(send[c], Head(pending[c]))) = Len(send[c]) + 1
    BY <1>0, <1>1
  <2>2. Len(send[c]) \in Nat /\ Len(send[c]) + 1 <= BufferCap
    BY <1>0, LGAssumption DEF HasRoom
  <2>3. /\ send'[c] = Append(send[c], Head(pending[c]))
        /\ \A d \in Clients \ {c} : send'[d] = send[d]
    BY <1>0
  <2>4. /\ send' \in [Clients -> Seq(Message)]
        /\ \A d \in Clients : Len(send'[d]) <= BufferCap
    BY <2>1, <2>2, <2>3, <1>0
  <2>. QED BY <2>4, <1>1 DEF TypeOK
<1>3. Sited' /\ Locking'
  BY DEF Sited, Locking, TypeOK
<1>4. Lifecycle'
  <2>1. Len(pending[c]) # 1 => Tail(pending[c]) # <<>>
    BY <1>0, TailEmpty
  <2>. QED BY <2>1 DEF Lifecycle, TypeOK
<1>5. Registration'
  BY DEF Registration, Watching, TypeOK
<1>. QED BY <1>2, <1>3, <1>4, <1>5

LEMMA HistoryPanicIInv ==
  ASSUME IInv, NEW c \in Clients, HistoryPanic(c)
  PROVE  IInv'
<1>. USE DEF IInv, HistoryPanic, engineVars, emitVars, ghostVars
<1>1. TypeOK'
  <2>1. <<>> \in Seq(Message)
    OBVIOUS
  <2>2. /\ pending' \in [Clients -> Seq(Message)]
        /\ handler' \in [Clients -> {"absent", "upgraded", "registered", "sending", "returned", "panicked"}]
    BY <2>1 DEF TypeOK
  <2>3. UNCHANGED <<engineVars, clients, emitVars, at, send, closed, conn, reader, writer, frame, ghostVars>>
    OBVIOUS
  <2>. QED BY <2>2, <2>3 DEF TypeOK
<1>2. Sited' /\ Lifecycle' /\ Locking'
  BY DEF Sited, Lifecycle, Locking, TypeOK
<1>3. Registration'
  BY DEF Registration, Watching, TypeOK
<1>. QED BY <1>1, <1>2, <1>3

LEMMA ConnectionIInv ==
  ASSUME IInv, NEW c \in Clients,
         PeerGone(c) \/ (\E st \in Commands : HandleMessage(c, st))
  PROVE  IInv'
<1>. USE DEF IInv, PeerGone, HandleMessage, engineVars, emitVars, clientVars, ghostVars
<1>1. TypeOK'
  <2>1. CASE PeerGone(c)
    BY <2>1 DEF TypeOK
  <2>2. ASSUME NEW st \in Commands, HandleMessage(c, st) PROVE TypeOK'
    BY <2>2, LGAssumption DEF TypeOK
  <2>. QED BY <2>1, <2>2
<1>2. Sited' /\ Lifecycle' /\ Locking'
  BY DEF Sited, Lifecycle, Locking, TypeOK
<1>3. Registration'
  BY DEF Registration, Watching, TypeOK
<1>. QED BY <1>1, <1>2, <1>3

LEMMA ReaderExitIInv ==
  ASSUME IInv, NEW c \in Clients, ReaderExit(c)
  PROVE  IInv'
<1>. USE DEF IInv, ReaderExit, engineVars, emitVars, ghostVars
<1>0. handler[c] \notin {"absent", "upgraded"} /\ at[c] \in Sessions
  BY DEF Lifecycle, Sited
<1>1. TypeOK'
  BY <1>0 DEF TypeOK
<1>2. Sited' /\ Lifecycle'
  BY <1>0 DEF Sited, Lifecycle, TypeOK
<1>3. Locking'
  <2>1. ASSUME NEW e \in Events, emit[e] = "casting" PROVE target[e] # at[c]
    BY <2>1, <1>0 DEF LockFree
  <2>. QED BY <2>1, <1>0 DEF Locking, TypeOK, Sited
<1>4. Registration'
  BY <1>0 DEF Registration, Watching, TypeOK, Sited
<1>. QED BY <1>1, <1>2, <1>3, <1>4

LEMMA WriterIInv ==
  ASSUME IInv, NEW c \in Clients, WriterStep(c) \/ WriterFail(c)
  PROVE  IInv'
<1>. USE DEF IInv, engineVars, emitVars, ghostVars
<1>0. /\ send \in [Clients -> Seq(Message)] /\ \A d \in Clients : Len(send[d]) <= BufferCap
      /\ frame[c] \in Seq(Message) /\ delivered[c] \in Seq(Message)
  BY DEF TypeOK
<1>1. CASE WriterReceive(c)
  <2>. USE <1>1 DEF WriterReceive
  <2>1. /\ Head(send[c]) \in Message /\ Tail(send[c]) \in Seq(Message)
        /\ Len(Tail(send[c])) = Len(send[c]) - 1
    BY <1>0, RangeHeadTail
  <2>2. /\ send' \in [Clients -> Seq(Message)]
        /\ \A d \in Clients : Len(send'[d]) <= BufferCap
    BY <1>0, <2>1, LGAssumption
  <2>3. frame' \in [Clients -> Seq(Message)]
    BY <2>1 DEF TypeOK
  <2>4. TypeOK'
    BY <2>2, <2>3 DEF TypeOK
  <2>5. Sited' /\ Locking'
    BY DEF Sited, Locking
  <2>6. Lifecycle'
    BY DEF Lifecycle, TypeOK
  <2>7. Registration'
    BY DEF Registration, Watching, TypeOK
  <2>. QED BY <2>4, <2>5, <2>6, <2>7
<1>2. CASE WriterDrain(c)
  <2>. USE <1>2 DEF WriterDrain
  <2>1. frame[c] \o send[c] \in Seq(Message)
    BY <1>0
  <2>2. /\ send' \in [Clients -> Seq(Message)]
        /\ \A d \in Clients : Len(send'[d]) <= BufferCap
    BY <1>0, LGAssumption
  <2>3. TypeOK'
    BY <2>1, <2>2 DEF TypeOK
  <2>4. Sited' /\ Locking'
    BY DEF Sited, Locking
  <2>5. Lifecycle'
    BY DEF Lifecycle, TypeOK
  <2>6. Registration'
    BY DEF Registration, Watching, TypeOK
  <2>. QED BY <2>3, <2>4, <2>5, <2>6
<1>3. CASE WriterFlush(c)
  <2>. USE <1>3 DEF WriterFlush
  <2>1. delivered' \in [Clients -> Seq(Message)]
    <3>1. delivered[c] \o frame[c] \in Seq(Message)
      BY <1>0
    <3>. QED BY <3>1 DEF TypeOK
  <2>2. TypeOK'
    BY <2>1 DEF TypeOK
  <2>3. Sited' /\ Lifecycle' /\ Locking'
    BY DEF Sited, Lifecycle, Locking, TypeOK
  <2>4. Registration'
    BY DEF Registration, Watching, TypeOK
  <2>. QED BY <2>2, <2>3, <2>4
<1>4. CASE WriterSawClose(c) \/ WriterFail(c)
  <2>. USE <1>4 DEF WriterSawClose, WriterFail, WriterExit
  <2>0. <<>> \in Seq(Message)
    OBVIOUS
  <2>1. TypeOK'
    <3>1. /\ frame' = [frame EXCEPT ![c] = <<>>]
          /\ conn' = [conn EXCEPT ![c] = "closed"]
          /\ writer' = [writer EXCEPT ![c] = "exited"]
          /\ UNCHANGED <<engineVars, clients, emitVars, at, handler, pending, send, closed, reader, ghostVars>>
      OBVIOUS
    <3>2. frame' \in [Clients -> Seq(Message)]
      BY <2>0, <3>1 DEF TypeOK
    <3>. QED BY <3>1, <3>2 DEF TypeOK
  <2>2. Sited' /\ Locking'
    BY DEF Sited, Locking
  <2>3. Lifecycle'
    <3>1. handler[c] \notin {"absent", "upgraded"}
      BY DEF Lifecycle
    <3>. QED BY <3>1 DEF Lifecycle, TypeOK
  <2>4. Registration'
    BY DEF Registration, Watching, TypeOK
  <2>. QED BY <2>1, <2>2, <2>3, <2>4
<1>. QED BY <1>1, <1>2, <1>3, <1>4 DEF WriterStep

LEMMA StutterIInv == ASSUME IInv, UNCHANGED vars PROVE IInv'
<1>. USE DEF vars, engineVars, emitVars, clientVars, ghostVars, IInv
<1>1. TypeOK'
  BY DEF TypeOK
<1>2. Sited' /\ Lifecycle' /\ Locking'
  BY DEF Sited, Lifecycle, Locking
<1>3. Registration'
  BY DEF Registration, Watching
<1>. QED BY <1>1, <1>2, <1>3

LEMMA NextIInv == IInv /\ [Next]_vars => IInv'
<1>. SUFFICES ASSUME IInv, [Next]_vars PROVE IInv'
  OBVIOUS
<1>1. CASE \E s \in Sessions : CreateSession(s) \/ DeleteSession(s)
  BY <1>1, SessionsIInv
<1>2. CASE \E e \in Events : (\E s \in Sessions : AddEvent(e, s)) \/ EmitStep(e)
  BY <1>2, AddEventIInv, AppendEventIInv, BroadcastIInv, CastToIInv DEF EmitStep
<1>3. ASSUME NEW c \in Clients,
             \/ \E s \in Sessions : Connect(c, s)
             \/ HandlerStep(c)
      PROVE  IInv'
  BY <1>3, ConnectIInv, RegisterClientIInv, CopyHistoryIInv, SendHistoryIInv, HistoryPanicIInv
     DEF HandlerStep
<1>4. ASSUME NEW c \in Clients,
             \/ \E st \in Commands : HandleMessage(c, st)
             \/ PeerGone(c) \/ ReaderExit(c) \/ WriterStep(c) \/ WriterFail(c)
      PROVE  IInv'
  BY <1>4, ConnectionIInv, ReaderExitIInv, WriterIInv
<1>5. CASE UNCHANGED vars
  BY <1>5, StutterIInv
<1>. QED BY <1>1, <1>2, <1>3, <1>4, <1>5 DEF Next

\* The inductive invariant holds in every reachable state.
LEMMA Inductive == Spec => []IInv
BY InitIInv, NextIInv, PTL DEF Spec

\* Type correctness, which includes that a channel never holds more than its
\* capacity (stream.go:51, 84-88).
THEOREM TypeCorrect == Spec => []TypeOK
<1>1. IInv => TypeOK
  BY DEF IInv
<1>. QED BY <1>1, Inductive, PTL

\* broadcast never sends on a closed channel (stream.go:72-79 against 91-98).
THEOREM BroadcastMeetsOpenChannels == Spec => []NoBroadcastOnClosedChannel
<1>1. IInv => NoBroadcastOnClosedChannel
  BY DEF IInv, Locking, Registration, Sited, NoBroadcastOnClosedChannel
<1>. QED BY <1>1, Inductive, PTL

-----------------------------------------------------------------------------
(* NoGap, event by event.  Until the history is copied the log itself owes *)
(* the event; from then on the proof follows it from AppendEvent (in       *)
(* flight) through the channel and the frame to the browser.               *)

Travelling(c) == Range(pending[c]) \cup Range(send[c]) \cup Range(frame[c])

Accounted(c, e) ==
  \/ e \in Range(delivered[c]) \/ e \in skipped[c]
  \/ handler[c] = "registered"
  \/ e \in Travelling(c)
  \/ target[e] = at[c] /\ (emit[e] = "appended" \/ (emit[e] = "casting" /\ c \in todo[e]))

NoGapInv ==
  \A c \in Clients : Watching(c) => \A e \in Range(log[at[c]]) : Accounted(c, e)

LEMMA NoGapInvImpliesNoGap == IInv /\ NoGapInv => NoGap
<1>. SUFFICES ASSUME IInv, NoGapInv, NEW c \in Clients, Watching(c), NEW e \in Range(log[at[c]])
              PROVE  e \in Received(c) \cup Owed(c) \cup skipped[c]
  BY DEF NoGap
<1>1. e \in Events /\ e # SessionInfo
  <2>1. handler[c] # "absent" /\ log \in [Sessions -> Seq(Events)]
    BY DEF IInv, TypeOK, Watching
  <2>2. log[at[c]] \in Seq(Events)
    BY <2>1 DEF IInv, Sited
  <2>. QED BY <2>2, LGAssumption DEF Range
<1>2. Accounted(c, e)
  BY DEF NoGapInv
<1>3. CASE handler[c] = "registered"
  BY <1>3 DEF Owed
<1>4. CASE handler[c] # "registered"
  <2>1. Owed(c) = Queued(c) \cup InFlight(c)
    BY <1>4 DEF Owed
  <2>. QED BY <2>1, <1>1, <1>2, <1>4 DEF Accounted, Travelling, Received, Queued, InFlight
<1>. QED BY <1>3, <1>4

\* A step that takes no event out of a client's reach keeps it accounted for.
LEMMA StaysAccounted ==
  ASSUME NEW d \in Clients, NEW e, Accounted(d, e),
         handler[d] = "registered" => handler'[d] = "registered",
         Range(delivered[d]) \cup skipped[d] \subseteq Range(delivered'[d]) \cup skipped'[d],
         Travelling(d) \subseteq Travelling(d)' \cup Range(delivered'[d]),
         at'[d] = at[d], target'[e] = target[e],
         emit[e] = "appended" /\ target[e] = at[d] =>
           \/ emit'[e] = "appended"
           \/ emit'[e] = "casting" /\ d \in todo'[e],
         emit[e] = "casting" /\ target[e] = at[d] /\ d \in todo[e] =>
           \/ emit'[e] = "casting" /\ d \in todo'[e]
           \/ e \in Range(send'[d]) \cup skipped'[d]
  PROVE  Accounted(d, e)'
<1>1. CASE e \in Range(delivered[d]) \cup skipped[d]
  BY <1>1 DEF Accounted
<1>2. CASE handler[d] = "registered"
  BY <1>2 DEF Accounted
<1>3. CASE e \in Travelling(d)
  BY <1>3 DEF Accounted
<1>4. CASE target[e] = at[d] /\ emit[e] = "appended"
  BY <1>4 DEF Accounted
<1>5. CASE target[e] = at[d] /\ emit[e] = "casting" /\ d \in todo[e]
  BY <1>5 DEF Accounted, Travelling
<1>. QED BY <1>1, <1>2, <1>3, <1>4, <1>5 DEF Accounted

\* The actions that leave every log alone.
LEMMA NoGapInvKept ==
  ASSUME IInv, NoGapInv, IInv', log' = log,
         \A d \in Clients : Watching(d)' => /\ Watching(d) /\ at'[d] = at[d]
                                            /\ \A e \in Events : Accounted(d, e) => Accounted(d, e)'
  PROVE  NoGapInv'
<1>. SUFFICES ASSUME NEW d \in Clients, Watching(d)', NEW e \in Range(log[at[d]])
              PROVE  Accounted(d, e)'
  BY DEF NoGapInv
<1>1. at[d] \in Sessions /\ log[at[d]] \in Seq(Events)
  BY DEF IInv, TypeOK, Sited, Watching
<1>2. e \in Events
  BY <1>1 DEF Range
<1>. QED BY <1>2 DEF NoGapInv

\* AppendEvent: the new event of the log is in flight.
LEMMA AppendEventNoGap ==
  ASSUME IInv, NoGapInv, NEW e \in Events, AppendEvent(e)
  PROVE  NoGapInv'
<1>. USE DEF AppendEvent, clientVars, ghostVars
<1>0. /\ target[e] \in Sessions /\ log \in [Sessions -> Seq(Events)]
      /\ emit \in [Events -> {"idle", "found", "appended", "casting", "done", "unknown"}]
  BY DEF IInv, TypeOK, Sited
<1>. SUFFICES ASSUME NEW d \in Clients, Watching(d)', NEW f \in Range(log'[at'[d]])
              PROVE  Accounted(d, f)'
  BY DEF NoGapInv
<1>1. Watching(d) /\ at[d] \in Sessions
  BY DEF Watching, IInv, Sited
<1>2. CASE f \in Range(log[at[d]])
  <2>1. Accounted(d, f) /\ f \in Events
    BY <1>0, <1>1, <1>2 DEF NoGapInv, Range
  <2>2. f # e => emit'[f] = emit[f]
    BY <1>0, <2>1
  <2>3. Travelling(d)' = Travelling(d)
    BY DEF Travelling
  <2>. QED BY <2>1, <2>2, <2>3, StaysAccounted
<1>3. CASE f \notin Range(log[at[d]])
  <2>1. target[e] = at[d] /\ log'[at[d]] = Append(log[at[d]], e)
    BY <1>0, <1>1, <1>3
  <2>2. Range(log'[at[d]]) = Range(log[at[d]]) \cup {e}
    BY <2>1, <1>0, <1>1, RangeAppend
  <2>3. f = e
    BY <2>2, <1>3
  <2>4. emit'[e] = "appended"
    BY <1>0
  <2>. QED BY <2>1, <2>3, <2>4 DEF Accounted
<1>. QED BY <1>2, <1>3

\* broadcast: every watching client is among those to serve, and being served
\* puts the event in the channel or declares it dropped.
LEMMA BroadcastNoGap ==
  ASSUME IInv, IInv', NoGapInv, NEW e \in Events,
         BeginBroadcast(e) \/ EndBroadcast(e) \/ (\E c \in Clients : CastTo(e, c))
  PROVE  NoGapInv'
<1>0. /\ target[e] \in Sessions /\ send \in [Clients -> Seq(Message)]
      /\ emit \in [Events -> {"idle", "found", "appended", "casting", "done", "unknown"}]
      /\ todo \in [Events -> SUBSET Clients] /\ skipped \in [Clients -> SUBSET Events]
  BY DEF IInv, TypeOK, Sited, BeginBroadcast, EndBroadcast, CastTo
<1>. SUFFICES ASSUME NEW d \in Clients, Watching(d)'
              PROVE  /\ Watching(d) /\ at'[d] = at[d]
                     /\ \A f \in Events : Accounted(d, f) => Accounted(d, f)'
  <2>1. log' = log
    BY DEF BeginBroadcast, EndBroadcast, CastTo, engineVars
  <2>. QED BY <2>1, NoGapInvKept
<1>1. Watching(d) /\ at'[d] = at[d]
  BY DEF Watching, BeginBroadcast, EndBroadcast, CastTo, clientVars
<1>. SUFFICES ASSUME NEW f \in Events, Accounted(d, f) PROVE Accounted(d, f)'
  BY <1>1
<1>2. CASE BeginBroadcast(e)
  <2>. USE <1>2 DEF BeginBroadcast, clientVars, ghostVars
  <2>1. target[e] = at[d] => d \in todo'[e]
    BY <1>0, <1>1 DEF IInv, Registration
  <2>2. /\ emit'[e] = "casting" /\ (f # e => emit'[f] = emit[f] /\ todo'[f] = todo[f])
        /\ Travelling(d)' = Travelling(d)
    BY <1>0 DEF Travelling
  <2>. QED BY <2>1, <2>2, StaysAccounted
<1>3. CASE EndBroadcast(e)
  <2>. USE <1>3 DEF EndBroadcast, clientVars, ghostVars
  <2>1. /\ (f # e => emit'[f] = emit[f]) /\ todo'[f] = todo[f] /\ todo[e] = {} /\ emit[e] = "casting"
        /\ Travelling(d)' = Travelling(d)
    BY <1>0 DEF Travelling
  <2>. QED BY <2>1, StaysAccounted
<1>4. ASSUME NEW c \in Clients, CastTo(e, c) PROVE Accounted(d, f)'
  <2>0. send[c] \in Seq(Message) /\ e \in Message
    BY <1>0 DEF Message
  <2>1. Range(Append(send[c], e)) = Range(send[c]) \cup {e}
    BY <2>0, RangeAppend
  <2>2. Range(send[d]) \subseteq Range(send'[d])
    BY <2>1, <1>0, <1>4 DEF CastTo
  <2>3. skipped[d] \subseteq skipped'[d]
    <3>1. skipped' = skipped \/ skipped' = [skipped EXCEPT ![c] = @ \cup {e}]
      BY <1>4 DEF CastTo
    <3>. QED BY <1>0, <3>1
  <2>4. ASSUME d = c PROVE e \in Range(send'[d]) \cup skipped'[d]
    <3>1. conn[c] = "open"
      BY <1>1, <2>4 DEF Watching
    <3>2. CASE HasRoom(c)
      <4>1. send'[c] = Append(send[c], e)
        BY <3>2, <1>0, <1>4 DEF CastTo
      <4>. QED BY <4>1, <2>1, <2>4
    <3>3. CASE ~HasRoom(c)
      <4>1. skipped' = [skipped EXCEPT ![c] = @ \cup {e}]
        BY <3>1, <3>3, <1>4 DEF CastTo
      <4>. QED BY <4>1, <1>0, <2>4
    <3>. QED BY <3>2, <3>3
  <2>5. /\ emit' = emit /\ target' = target /\ at' = at /\ handler' = handler
        /\ pending' = pending /\ frame' = frame /\ delivered' = delivered
    BY <1>4 DEF CastTo
  <2>6. d \in todo[f] => d \in todo'[f] \/ (f = e /\ d = c)
    BY <1>0, <1>4 DEF CastTo
  <2>7. Travelling(d) \subseteq Travelling(d)'
    BY <2>2, <2>5 DEF Travelling
  <2>. QED BY <2>2, <2>3, <2>4, <2>5, <2>6, <2>7, <1>1, StaysAccounted
<1>. QED BY <1>2, <1>3, <1>4

\* The steps of one client: no AddEvent call moves, and what leaves a channel
\* or a frame goes to the browser.
LEMMA ClientStepNoGap ==
  ASSUME IInv, IInv', NoGapInv, log' = log, UNCHANGED emitVars,
         \A d \in Clients : Watching(d)' =>
           /\ Watching(d) /\ at'[d] = at[d]
           /\ handler[d] = "registered" => handler'[d] = "registered"
           /\ Range(delivered[d]) \cup skipped[d] \subseteq Range(delivered'[d]) \cup skipped'[d]
           /\ Travelling(d) \subseteq Travelling(d)' \cup Range(delivered'[d])
  PROVE  NoGapInv'
<1>1. ASSUME NEW d \in Clients, Watching(d)', NEW e \in Events, Accounted(d, e)
      PROVE  Accounted(d, e)'
  BY <1>1, StaysAccounted DEF emitVars
<1>. QED BY <1>1, NoGapInvKept

\* Sessions, the lookup of AddEvent, and the steps that move no message.
LEMMA QuietNoGap ==
  ASSUME IInv, IInv', NoGapInv,
         \/ UNCHANGED vars
         \/ \E s \in Sessions : CreateSession(s) \/ DeleteSession(s)
         \/ \E c \in Clients, s \in Sessions : Connect(c, s)
         \/ \E c \in Clients, st \in Commands : HandleMessage(c, st)
         \/ \E c \in Clients : PeerGone(c) \/ ReaderExit(c)
  PROVE  NoGapInv'
<1>0. conn \in [Clients -> {"none", "open", "gone", "closed"}]
      /\ handler \in [Clients -> {"absent", "upgraded", "registered", "sending", "returned", "panicked"}]
      /\ at \in [Clients -> Sessions \cup {NoSession}]
  BY DEF IInv, TypeOK
<1>1. log' = log /\ UNCHANGED <<emitVars, pending, send, frame, ghostVars>>
  BY DEF vars, engineVars, clientVars, emitVars, ghostVars, CreateSession, DeleteSession, Connect,
         HandleMessage, PeerGone, ReaderExit
<1>2. ASSUME NEW d \in Clients, Watching(d)'
      PROVE  Watching(d) /\ at'[d] = at[d] /\ handler'[d] = handler[d]
  <2>1. CASE \E c \in Clients, s \in Sessions : Connect(c, s)
    <3>. PICK c \in Clients, s \in Sessions : Connect(c, s)
      BY <2>1
    <3>1. d # c
      BY <1>0, <1>2 DEF Connect, Watching
    <3>. QED BY <3>1, <1>0, <1>2 DEF Connect, Watching
  <2>2. CASE UNCHANGED vars \/ (\E s \in Sessions : CreateSession(s) \/ DeleteSession(s))
             \/ (\E c \in Clients, st \in Commands : HandleMessage(c, st))
    BY <2>2, <1>2 DEF vars, clientVars, CreateSession, DeleteSession, HandleMessage, Watching
  <2>3. CASE \E c \in Clients : PeerGone(c) \/ ReaderExit(c)
    BY <2>3, <1>0, <1>2 DEF PeerGone, ReaderExit, Watching
  <2>. QED BY <2>1, <2>2, <2>3
<1>3. ASSUME NEW d \in Clients, Watching(d)' PROVE Travelling(d)' = Travelling(d)
  BY <1>1 DEF Travelling
<1>. QED BY <1>1, <1>2, <1>3, ClientStepNoGap DEF ghostVars

LEMMA AddEventNoGap ==
  ASSUME IInv, IInv', NoGapInv, NEW e \in Events, NEW s \in Sessions, AddEvent(e, s)
  PROVE  NoGapInv'
<1>0. emit \in [Events -> {"idle", "found", "appended", "casting", "done", "unknown"}]
      /\ target \in [Events -> Sessions \cup {NoSession}]
  BY DEF IInv, TypeOK
<1>1. UNCHANGED <<log, todo, clientVars, ghostVars>>
  BY DEF AddEvent, engineVars
<1>2. ASSUME NEW d \in Clients, Watching(d)', NEW f \in Events, Accounted(d, f)
      PROVE  Accounted(d, f)'
  <2>1. f # e => emit'[f] = emit[f] /\ target'[f] = target[f]
    BY <1>0 DEF AddEvent
  <2>2. emit[e] = "idle"
    BY DEF AddEvent
  <2>3. Travelling(d)' = Travelling(d)
    BY <1>1 DEF Travelling, clientVars
  <2>. QED BY <1>1, <1>2, <2>1, <2>2, <2>3 DEF Accounted, clientVars, ghostVars
<1>3. ASSUME NEW d \in Clients, Watching(d)' PROVE Watching(d) /\ at'[d] = at[d]
  BY <1>1, <1>3 DEF Watching, clientVars
<1>. QED BY <1>1, <1>2, <1>3, NoGapInvKept

\* The handler: registering makes the log owe everything, and copying the log
\* moves the whole of it to pending.
LEMMA RegisterNoGap ==
  ASSUME IInv, IInv', NoGapInv, NEW c \in Clients, RegisterClient(c)
  PROVE  NoGapInv'
<1>0. handler \in [Clients -> {"absent", "upgraded", "registered", "sending", "returned", "panicked"}]
  BY DEF IInv, TypeOK
<1>1. UNCHANGED <<log, emitVars, at, pending, send, conn, frame, ghostVars>>
      /\ handler' = [handler EXCEPT ![c] = "registered"]
  BY DEF RegisterClient, engineVars
<1>. SUFFICES ASSUME NEW d \in Clients, Watching(d)', NEW f \in Range(log[at[d]])
              PROVE  Accounted(d, f)'
  BY <1>1 DEF NoGapInv
<1>2. CASE d = c
  BY <1>0, <1>1, <1>2 DEF Accounted
<1>3. CASE d # c
  <2>1. Watching(d) /\ handler'[d] = handler[d] /\ Travelling(d)' = Travelling(d)
    BY <1>0, <1>1, <1>3 DEF Watching, Travelling
  <2>. QED BY <1>1, <2>1 DEF NoGapInv, Accounted, emitVars, ghostVars
<1>. QED BY <1>2, <1>3

LEMMA CopyHistoryNoGap ==
  ASSUME IInv, IInv', NoGapInv, NEW c \in Clients, CopyHistory(c)
  PROVE  NoGapInv'
<1>0. /\ handler \in [Clients -> {"absent", "upgraded", "registered", "sending", "returned", "panicked"}]
      /\ pending \in [Clients -> Seq(Message)] /\ log \in [Sessions -> Seq(Events)]
  BY DEF IInv, TypeOK
<1>1. /\ UNCHANGED <<log, emitVars, at, send, conn, frame, ghostVars>>
      /\ handler' = [handler EXCEPT ![c] = "sending"] /\ handler[c] = "registered"
      /\ pending' = [pending EXCEPT ![c] = History(at[c])]
  BY DEF CopyHistory, engineVars
<1>. SUFFICES ASSUME NEW d \in Clients, Watching(d)', NEW f \in Range(log[at[d]])
              PROVE  Accounted(d, f)'
  BY <1>1 DEF NoGapInv
<1>2. CASE d = c
  <2>1. log[at[c]] \in Seq(Events)
    BY <1>0, <1>1 DEF IInv, Sited
  <2>2. log[at[c]] \in Seq(Message) /\ <<SessionInfo>> \in Seq(Message)
    BY <2>1 DEF Message
  <2>3. Range(History(at[c])) = Range(<<SessionInfo>>) \cup Range(log[at[c]])
    <3>1. \A q, r \in Seq(Message) : Range(q \o r) = Range(q) \cup Range(r)
      BY RangeConcat
    <3>2. Range(<<SessionInfo>> \o log[at[c]]) = Range(<<SessionInfo>>) \cup Range(log[at[c]])
      BY <2>2, <3>1
    <3>. QED BY <3>2 DEF History
  <2>4. pending'[d] = History(at[c])
    BY <1>0, <1>1, <1>2
  <2>. QED BY <2>3, <2>4, <1>2 DEF Accounted, Travelling
<1>3. CASE d # c
  <2>1. Watching(d) /\ handler'[d] = handler[d] /\ Travelling(d)' = Travelling(d)
    BY <1>0, <1>1, <1>3 DEF Watching, Travelling
  <2>. QED BY <1>1, <2>1 DEF NoGapInv, Accounted, emitVars, ghostVars
<1>. QED BY <1>2, <1>3

\* A history message moves from pending to the channel; after a panic the
\* connection is closed and nobody watches.
LEMMA SendHistoryNoGap ==
  ASSUME IInv, IInv', NoGapInv, NEW c \in Clients, SendHistory(c) \/ HistoryPanic(c)
  PROVE  NoGapInv'
<1>0. /\ handler \in [Clients -> {"absent", "upgraded", "registered", "sending", "returned", "panicked"}]
      /\ pending \in [Clients -> Seq(Message)] /\ send \in [Clients -> Seq(Message)]
  BY DEF IInv, TypeOK
<1>1. UNCHANGED <<log, emitVars, at, conn, frame, ghostVars>> /\ handler[c] = "sending"
  BY DEF SendHistory, HistoryPanic, engineVars
<1>2. ASSUME NEW d \in Clients, Watching(d)'
      PROVE  /\ Watching(d) /\ (handler[d] = "registered" => handler'[d] = "registered")
             /\ Travelling(d) \subseteq Travelling(d)'
  <2>1. CASE d # c
    BY <1>0, <1>1, <1>2, <2>1 DEF SendHistory, HistoryPanic, Watching, Travelling
  <2>2. CASE d = c /\ SendHistory(c)
    <3>1. pending[c] \in Seq(Message) /\ send[c] \in Seq(Message) /\ pending[c] # <<>>
      BY <1>0, <1>1 DEF IInv, Lifecycle
    <3>2. /\ Head(pending[c]) \in Message
          /\ Range(pending[c]) = {Head(pending[c])} \cup Range(Tail(pending[c]))
      BY <3>1, RangeHeadTail
    <3>3. Range(Append(send[c], Head(pending[c]))) = Range(send[c]) \cup {Head(pending[c])}
      BY <3>1, <3>2, RangeAppend
    <3>4. pending'[c] = Tail(pending[c]) /\ send'[c] = Append(send[c], Head(pending[c]))
      BY <1>0, <2>2 DEF SendHistory
    <3>5. Travelling(c) \subseteq Travelling(c)'
      BY <1>1, <3>2, <3>3, <3>4 DEF Travelling
    <3>. QED BY <1>1, <1>2, <2>2, <3>5 DEF Watching
  <2>3. CASE d = c /\ HistoryPanic(c)
    BY <1>1, <1>2, <2>3 DEF HistoryPanic, IInv, Lifecycle, Watching
  <2>. QED BY <1>2, <2>1, <2>2, <2>3
<1>. QED BY <1>1, <1>2, ClientStepNoGap DEF ghostVars

\* writePump: what leaves the channel is in the frame, and what leaves the frame
\* of an open connection has reached the browser.
LEMMA WriterNoGap ==
  ASSUME IInv, IInv', NoGapInv, NEW c \in Clients, WriterStep(c) \/ WriterFail(c)
  PROVE  NoGapInv'
<1>0. /\ send \in [Clients -> Seq(Message)] /\ frame \in [Clients -> Seq(Message)]
      /\ delivered \in [Clients -> Seq(Message)]
      /\ conn \in [Clients -> {"none", "open", "gone", "closed"}]
  BY DEF IInv, TypeOK
<1>1. UNCHANGED <<log, emitVars, at, handler, pending, skipped>>
  BY DEF WriterStep, WriterReceive, WriterDrain, WriterFlush, WriterSawClose, WriterFail, WriterExit,
         engineVars, ghostVars
<1>2. ASSUME NEW d \in Clients, Watching(d)'
      PROVE  /\ Watching(d) /\ Range(delivered[d]) \subseteq Range(delivered'[d])
             /\ Travelling(d) \subseteq Travelling(d)' \cup Range(delivered'[d])
  <2>0. \A q, r \in Seq(Message) : Range(q \o r) = Range(q) \cup Range(r)
    BY RangeConcat
  <2>1. CASE WriterReceive(c)
    <3>1. send[c] \in Seq(Message) /\ send[c] # <<>>
      BY <1>0, <2>1 DEF WriterReceive
    <3>2. Range(send[c]) = {Head(send[c])} \cup Range(Tail(send[c]))
      BY <3>1, RangeHeadTail
    <3>3. frame[c] = <<>> /\ Range(frame[c]) = {}
      BY <2>1 DEF WriterReceive, IInv, Lifecycle, Range
    <3>4. Range(<<Head(send[c])>>) = {Head(send[c])}
      BY DEF Range
    <3>5. UNCHANGED <<conn, delivered>> /\ send' = [send EXCEPT ![c] = Tail(@)]
          /\ frame' = [frame EXCEPT ![c] = <<Head(send[c])>>]
      BY <2>1 DEF WriterReceive, ghostVars
    <3>6. Travelling(d) \subseteq Travelling(d)'
      BY <1>0, <1>1, <3>2, <3>3, <3>4, <3>5 DEF Travelling
    <3>. QED BY <1>1, <1>2, <3>5, <3>6 DEF Watching
  <2>2. CASE WriterDrain(c)
    <3>1. UNCHANGED <<conn, delivered>> /\ send' = [send EXCEPT ![c] = <<>>]
          /\ frame' = [frame EXCEPT ![c] = @ \o send[c]]
      BY <2>2 DEF WriterDrain, ghostVars
    <3>2. Range(frame[c] \o send[c]) = Range(frame[c]) \cup Range(send[c])
      BY <1>0, <2>0
    <3>3. Travelling(d) \subseteq Travelling(d)'
      BY <1>0, <1>1, <3>1, <3>2 DEF Travelling
    <3>. QED BY <1>1, <1>2, <3>1, <3>3 DEF Watching
  <2>3. CASE WriterFlush(c)
    <3>1. UNCHANGED <<conn, send>> /\ frame' = [frame EXCEPT ![c] = <<>>]
      BY <2>3 DEF WriterFlush
    <3>2. Watching(d)
      BY <1>1, <1>2, <3>1 DEF Watching
    <3>3. CASE d # c
      <4>1. delivered'[d] = delivered[d] /\ Travelling(d)' = Travelling(d)
        BY <1>0, <1>1, <2>3, <3>1, <3>3 DEF WriterFlush, Travelling
      <4>. QED BY <3>2, <4>1
    <3>4. CASE d = c
      <4>1. delivered'[c] = delivered[c] \o frame[c]
        BY <1>0, <2>3, <3>2, <3>4 DEF WriterFlush, Watching
      <4>2. Range(delivered'[c]) = Range(delivered[c]) \cup Range(frame[c])
        BY <1>0, <2>0, <4>1
      <4>. QED BY <1>1, <3>1, <3>2, <3>4, <4>2 DEF Travelling
    <3>. QED BY <3>3, <3>4
  <2>4. CASE WriterSawClose(c) \/ WriterFail(c)
    <3>1. UNCHANGED <<send, delivered>> /\ conn' = [conn EXCEPT ![c] = "closed"]
          /\ frame' = [frame EXCEPT ![c] = <<>>]
      BY <2>4 DEF WriterSawClose, WriterFail, WriterExit, ghostVars
    <3>2. d # c
      BY <1>0, <1>2, <3>1 DEF Watching
    <3>. QED BY <1>0, <1>1, <1>2, <3>1, <3>2 DEF Watching, Travelling
  <2>. QED BY <2>1, <2>2, <2>3, <2>4 DEF WriterStep
<1>. QED BY <1>1, <1>2, ClientStepNoGap

LEMMA NextNoGap == IInv /\ IInv' /\ NoGapInv /\ [Next]_vars => NoGapInv'
<1>. SUFFICES ASSUME IInv, IInv', NoGapInv, [Next]_vars PROVE NoGapInv'
  OBVIOUS
<1>1. CASE UNCHANGED vars \/ (\E s \in Sessions : CreateSession(s) \/ DeleteSession(s))
  BY <1>1, QuietNoGap
<1>2. ASSUME NEW e \in Events, (\E s \in Sessions : AddEvent(e, s)) \/ EmitStep(e) PROVE NoGapInv'
  BY <1>2, AddEventNoGap, AppendEventNoGap, BroadcastNoGap DEF EmitStep
<1>3. ASSUME NEW c \in Clients,
             \/ \E s \in Sessions : Connect(c, s)
             \/ \E st \in Commands : HandleMessage(c, st)
             \/ PeerGone(c) \/ ReaderExit(c)
      PROVE  NoGapInv'
  BY <1>3, QuietNoGap
<1>4. ASSUME NEW c \in Clients, HandlerStep(c) PROVE NoGapInv'
  BY <1>4, RegisterNoGap, CopyHistoryNoGap, SendHistoryNoGap DEF HandlerStep
<1>5. ASSUME NEW c \in Clients, WriterStep(c) \/ WriterFail(c) PROVE NoGapInv'
  BY <1>5, WriterNoGap
<1>. QED BY <1>1, <1>2, <1>3, <1>4, <1>5 DEF Next

\* No gap between history and live events: registering before copying the log
\* (stream.go:55-63) loses no event, whatever the interleaving with AddEvent.
THEOREM NoGapForWatchers == Spec => []NoGap
<1>1. Init => NoGapInv
  BY DEF Init, NoGapInv, Watching
<1>2. Spec => []NoGapInv
  BY <1>1, NextNoGap, Inductive, PTL DEF Spec
<1>. QED BY <1>2, NoGapInvImpliesNoGap, Inductive, PTL

-----------------------------------------------------------------------------
(* KeepsFeed: every step is one of EventFeed or changes nothing it sees.   *)

\* An event is in the log of the session it was added to, from the append on.
LogHolds ==
  \A s \in Sessions, e \in Events :
    e \in Range(log[s]) <=> target[e] = s /\ emit[e] \in {"appended", "casting", "done"}

\* What travels to a client comes from the log of its session.
QueuesHold ==
  \A c \in Clients :
    Queued(c) \subseteq IF handler[c] \in {"absent", "upgraded"} THEN {} ELSE Range(log[at[c]])

FeedInv == LogHolds /\ QueuesHold

Simulated == [Feed!Next]_(Feed!vars)

Follows(c) == IF Watching(c) THEN at[c] ELSE NoSession

\* The feed of a client looks the same after the step.
SameDebt(c) == Follows(c)' = Follows(c) /\ Owed(c)' = Owed(c)

\* The variables of EventFeed, as LookingGlass defines them.
follows == [c \in Clients |-> Follows(c)]
owed == [c \in Clients |-> Owed(c)]
got == [c \in Clients |-> Received(c)]

LEMMA FeedVariables ==
  /\ follows = [c \in Clients |-> IF Watching(c) THEN at[c] ELSE NoSession]
  /\ follows' = [c \in Clients |-> IF Watching(c) THEN at[c] ELSE NoSession]'
BY DEF follows, Follows

LEMMA InitFeedInv == Init => FeedInv
<1>. SUFFICES ASSUME Init PROVE FeedInv
  OBVIOUS
<1>1. ASSUME NEW s \in Sessions PROVE Range(log[s]) = {}
  BY DEF Init, Range
<1>2. ASSUME NEW c \in Clients PROVE Queued(c) = {}
  <2>1. pending[c] = <<>> /\ send[c] = <<>> /\ frame[c] = <<>>
    BY DEF Init
  <2>. QED BY <2>1 DEF Queued, Range
<1>. QED BY <1>1, <1>2 DEF Init, FeedInv, LogHolds, QueuesHold

\* Steps that append nothing, and put nothing new into what travels.
LEMMA FeedInvKept ==
  ASSUME IInv, FeedInv, log' = log,
         \A e \in Events : /\ target'[e] = target[e]
                           /\ emit'[e] \in {"appended", "casting", "done"} <=>
                              emit[e] \in {"appended", "casting", "done"},
         \A c \in Clients :
           /\ Queued(c)' \subseteq Queued(c)
           /\ Queued(c) # {} => /\ at'[c] = at[c]
                                /\ handler[c] \notin {"absent", "upgraded"} =>
                                     handler'[c] \notin {"absent", "upgraded"}
  PROVE  FeedInv'
<1>1. LogHolds'
  BY DEF FeedInv, LogHolds
<1>2. QueuesHold'
  <2>1. ASSUME NEW c \in Clients, Queued(c) = {}
        PROVE  Queued(c)' = {}
    BY <2>1
  <2>2. ASSUME NEW c \in Clients, Queued(c) # {}
        PROVE  /\ handler'[c] \notin {"absent", "upgraded"}
               /\ Queued(c)' \subseteq Range(log'[at'[c]])
    BY <2>2 DEF FeedInv, QueuesHold
  <2>. QED BY <2>1, <2>2 DEF QueuesHold
<1>. QED BY <1>1, <1>2 DEF FeedInv

\* Debts that look the same make a stutter of the feed.
LEMMA FeedStutters ==
  ASSUME log' = log, skipped' = skipped,
         \A c \in Clients : SameDebt(c) /\ Received(c)' = Received(c)
  PROVE  Simulated
<1>1. UNCHANGED <<follows, owed, got>>
  BY DEF follows, owed, got, SameDebt
<1>2. UNCHANGED Feed!vars
  BY <1>1, FeedVariables DEF owed, got, Feed!vars
<1>. QED BY <1>2 DEF Simulated

\* The client's connection ends.
LEMMA LeaveSimulated ==
  ASSUME NEW c \in Clients, Watching(c), ~Watching(c)', at[c] \in Sessions,
         log' = log, skipped' = skipped,
         \A d \in Clients : Received(d)' = Received(d) /\ (d # c => SameDebt(d))
  PROVE  Simulated
<1>1. Owed(c)' = {} /\ Follows(c)' = NoSession /\ Follows(c) # NoSession
  BY LGAssumption DEF Owed, Follows
<1>2. got' = got
  BY DEF got
<1>3. follows' = [follows EXCEPT ![c] = NoSession] /\ follows[c] # NoSession
  BY <1>1 DEF follows, SameDebt
<1>4. owed' = [owed EXCEPT ![c] = {}]
  BY <1>1 DEF owed, SameDebt
<1>5. Feed!Leave(c)
  BY <1>2, <1>3, <1>4, FeedVariables DEF Feed!Leave, owed, got
<1>. QED BY <1>5 DEF Simulated, Feed!Next

LEMMA DebtKept ==
  ASSUME NEW c \in Clients, log' = log, UNCHANGED emitVars, Watching(c)' <=> Watching(c),
         Watching(c) => /\ at'[c] = at[c] /\ Queued(c)' = Queued(c)
                        /\ handler'[c] = "registered" <=> handler[c] = "registered"
  PROVE  SameDebt(c)
<1>1. CASE Watching(c)
  <2>1. InFlight(c)' = InFlight(c)
    BY <1>1 DEF InFlight, emitVars
  <2>. QED BY <1>1, <2>1 DEF SameDebt, Follows, Owed
<1>2. CASE ~Watching(c)
  BY <1>2 DEF SameDebt, Follows, Owed
<1>. QED BY <1>1, <1>2

\* Sessions and commands.
LEMMA QuietFeed ==
  ASSUME IInv, FeedInv,
         \/ UNCHANGED vars
         \/ \E s \in Sessions : CreateSession(s) \/ DeleteSession(s)
         \/ \E c \in Clients, st \in Commands : HandleMessage(c, st)
  PROVE  FeedInv' /\ Simulated
<1>1. log' = log /\ UNCHANGED <<emitVars, clientVars, ghostVars>>
  BY DEF vars, engineVars, CreateSession, DeleteSession, HandleMessage
<1>2. ASSUME NEW c \in Clients
      PROVE  /\ Queued(c)' = Queued(c) /\ Received(c)' = Received(c)
             /\ Watching(c)' <=> Watching(c)
  BY <1>1 DEF clientVars, ghostVars, Queued, Received, Watching
<1>3. \A c \in Clients : SameDebt(c)
  BY <1>1, <1>2, DebtKept DEF clientVars
<1>4. FeedInv'
  BY <1>1, <1>2, FeedInvKept DEF clientVars, emitVars
<1>. QED BY <1>1, <1>2, <1>3, <1>4, FeedStutters DEF ghostVars

LEMMA ConnectFeed ==
  ASSUME IInv, FeedInv, NEW c \in Clients, NEW s \in Sessions, Connect(c, s)
  PROVE  FeedInv' /\ Simulated
<1>1. /\ UNCHANGED <<log, emitVars, pending, send, frame, ghostVars>>
      /\ handler[c] = "absent" /\ handler'[c] = "upgraded"
      /\ \A d \in Clients \ {c} : /\ at'[d] = at[d] /\ handler'[d] = handler[d]
                                  /\ conn'[d] = conn[d]
  BY DEF Connect, engineVars, IInv, TypeOK
<1>2. ASSUME NEW d \in Clients
      PROVE  /\ Queued(d)' = Queued(d) /\ Received(d)' = Received(d)
             /\ Watching(d)' <=> Watching(d)
             /\ Watching(d) => d # c
  BY <1>1 DEF ghostVars, Queued, Received, Watching
<1>3. \A d \in Clients : SameDebt(d)
  BY <1>1, <1>2, DebtKept
<1>4. Queued(c) = {}
  BY <1>1 DEF FeedInv, QueuesHold
<1>5. FeedInv'
  BY <1>1, <1>2, <1>4, FeedInvKept DEF emitVars
<1>. QED BY <1>1, <1>2, <1>3, <1>5, FeedStutters DEF ghostVars

\* PeerGone, ReaderExit and the end of writePump.
LEMMA EndFeed ==
  ASSUME IInv, FeedInv, NEW c \in Clients,
         UNCHANGED <<log, emitVars, at, handler, pending, send, ghostVars>>,
         frame' \in {frame, [frame EXCEPT ![c] = <<>>]},
         conn' \in {[conn EXCEPT ![c] = "gone"], [conn EXCEPT ![c] = "closed"]}
  PROVE  FeedInv' /\ Simulated
<1>1. /\ conn'[c] # "open" /\ \A d \in Clients \ {c} : conn'[d] = conn[d] /\ frame'[d] = frame[d]
      /\ frame'[c] = frame[c] \/ frame'[c] = <<>>
  BY DEF IInv, TypeOK
<1>2. Range(<<>>) = {}
  BY DEF Range
<1>3. ASSUME NEW d \in Clients
      PROVE  /\ Queued(d)' \subseteq Queued(d) /\ (d # c => Queued(d)' = Queued(d))
             /\ Received(d)' = Received(d)
             /\ (d # c => (Watching(d)' <=> Watching(d)))
  BY <1>1, <1>2 DEF ghostVars, Queued, Received, Watching
<1>4. ~Watching(c)'
  BY <1>1 DEF Watching
<1>5. \A d \in Clients \ {c} : SameDebt(d)
  BY <1>3, DebtKept
<1>6. FeedInv'
  BY <1>3, FeedInvKept DEF emitVars
<1>7. CASE Watching(c)
  <2>1. at[c] \in Sessions
    BY <1>7 DEF IInv, Sited, Watching
  <2>. QED BY <1>3, <1>4, <1>5, <1>6, <1>7, <2>1, LeaveSimulated DEF ghostVars
<1>8. CASE ~Watching(c)
  <2>1. SameDebt(c)
    BY <1>4, <1>8, DebtKept
  <2>. QED BY <1>3, <1>5, <1>6, <2>1, FeedStutters DEF ghostVars
<1>. QED BY <1>7, <1>8

-----------------------------------------------------------------------------
LEMMA AddEventFeed ==
  ASSUME IInv, FeedInv, NEW e \in Events, NEW s \in Sessions, AddEvent(e, s)
  PROVE  FeedInv' /\ Simulated
<1>1. /\ UNCHANGED <<log, clientVars, ghostVars, todo>>
      /\ emit[e] = "idle" /\ emit'[e] \in {"found", "unknown"}
      /\ \A f \in Events \ {e} : emit'[f] = emit[f] /\ target'[f] = target[f]
  BY DEF AddEvent, engineVars, IInv, TypeOK
<1>2. ASSUME NEW c \in Clients
      PROVE  /\ Queued(c)' = Queued(c) /\ Received(c)' = Received(c)
             /\ Watching(c)' <=> Watching(c)
             /\ InFlight(c)' = InFlight(c)
  BY <1>1 DEF clientVars, ghostVars, Queued, Received, Watching, InFlight
<1>3. \A c \in Clients : SameDebt(c)
  BY <1>1, <1>2 DEF SameDebt, Follows, Owed, clientVars
<1>4. LogHolds'
  BY <1>1 DEF FeedInv, LogHolds
<1>5. QueuesHold'
  BY <1>1, <1>2 DEF FeedInv, QueuesHold, clientVars
<1>. QED BY <1>1, <1>2, <1>3, <1>4, <1>5, FeedStutters DEF FeedInv, ghostVars

\* The append publishes the event, which its clients are owed from then on.
LEMMA AppendEventFeed ==
  ASSUME IInv, FeedInv, NEW e \in Events, AppendEvent(e)
  PROVE  FeedInv' /\ Simulated
<1>. DEFINE s == target[e]
<1>1. /\ UNCHANGED <<target, todo, clientVars, ghostVars>>
      /\ s \in Sessions /\ log' = [log EXCEPT ![s] = Append(@, e)]
      /\ emit[e] = "found" /\ emit'[e] = "appended"
      /\ \A f \in Events \ {e} : emit'[f] = emit[f]
  BY DEF AppendEvent, IInv, TypeOK, Sited
<1>2. \A t \in Sessions : e \notin Range(log[t])
  BY <1>1 DEF FeedInv, LogHolds
<1>3. \A t \in Sessions : Range(log'[t]) = IF t = s THEN Range(log[t]) \cup {e} ELSE Range(log[t])
  <2>1. log \in [Sessions -> Seq(Events)]
    BY DEF IInv, TypeOK
  <2>2. Range(Append(log[s], e)) = Range(log[s]) \cup {e}
    BY <1>1, <2>1, RangeAppend
  <2>. QED BY <1>1, <2>1, <2>2
<1>4. LogHolds'
  <2>1. \A t \in Sessions, f \in Events :
          f \in Range(log'[t]) <=> f \in Range(log[t]) \/ (t = s /\ f = e)
    BY <1>3
  <2>. HIDE DEF s
  <2>2. ASSUME NEW t \in Sessions, NEW f \in Events
        PROVE  f \in Range(log'[t]) <=>
                 target'[f] = t /\ emit'[f] \in {"appended", "casting", "done"}
    <3>1. CASE f = e
      BY <1>1, <1>2, <2>1, <3>1 DEF s
    <3>2. CASE f # e
      BY <1>1, <2>1, <3>2 DEF FeedInv, LogHolds
    <3>. QED BY <3>1, <3>2
  <2>. QED BY <2>2 DEF LogHolds
<1>5. ASSUME NEW c \in Clients
      PROVE  /\ Queued(c)' = Queued(c) /\ Received(c)' = Received(c)
             /\ Watching(c)' <=> Watching(c)
             /\ Follows(c)' = Follows(c)
             /\ Watching(c) => at[c] \in Sessions
             /\ handler[c] # "absent" => at[c] \in Sessions
  BY <1>1 DEF clientVars, ghostVars, Queued, Received, Watching, Follows, IInv, Sited
<1>6. QueuesHold'
  <2>1. ASSUME NEW c \in Clients, handler[c] \notin {"absent", "upgraded"}
        PROVE  Queued(c) \subseteq Range(log'[at[c]])
    <3>1. at[c] \in Sessions /\ Queued(c) \subseteq Range(log[at[c]])
      BY <1>5, <2>1 DEF FeedInv, QueuesHold
    <3>. QED BY <1>3, <3>1
  <2>. QED BY <1>1, <1>5, <2>1 DEF FeedInv, QueuesHold, clientVars
<1>7. ASSUME NEW c \in Clients
      PROVE  Owed(c)' = IF Follows(c) = s THEN Owed(c) \cup {e} ELSE Owed(c)
  <2>1. CASE ~Watching(c)
    BY <1>1, <1>5, <2>1, LGAssumption DEF Owed, Follows
  <2>2. CASE Watching(c) /\ handler[c] = "registered"
    BY <1>1, <1>3, <1>5, <2>2 DEF Owed, Follows, clientVars
  <2>3. CASE Watching(c) /\ handler[c] # "registered"
    <3>1. InFlight(c)' = IF at[c] = s THEN InFlight(c) \cup {e} ELSE InFlight(c)
      BY <1>1 DEF InFlight, clientVars
    <3>. QED BY <1>1, <1>5, <2>3, <3>1 DEF Owed, Follows, clientVars
  <2>. QED BY <2>1, <2>2, <2>3
<1>8. follows' = follows /\ got' = got /\ skipped' = skipped
  BY <1>1, <1>5 DEF follows, got, ghostVars
<1>9. owed' = [c \in Clients |-> IF follows[c] = s THEN owed[c] \cup {e} ELSE owed[c]]
  BY <1>7 DEF owed, follows
<1>10. Feed!Publish(s, e)
  BY <1>1, <1>2, <1>8, <1>9, FeedVariables DEF Feed!Publish, Feed!Range, Range, owed, got
<1>. QED BY <1>1, <1>4, <1>6, <1>10 DEF FeedInv, Simulated, Feed!Next

\* Every watching client of the session is among those the broadcast serves.
LEMMA BroadcastFeed ==
  ASSUME IInv, FeedInv, NEW e \in Events, BeginBroadcast(e) \/ EndBroadcast(e)
  PROVE  FeedInv' /\ Simulated
<1>1. /\ UNCHANGED <<log, target, clientVars, ghostVars>>
      /\ \A f \in Events \ {e} : emit'[f] = emit[f] /\ todo'[f] = todo[f]
  BY DEF BeginBroadcast, EndBroadcast, engineVars, IInv, TypeOK
<1>2. \/ emit[e] = "appended" /\ emit'[e] = "casting" /\ todo'[e] = clients[target[e]]
      \/ emit[e] = "casting" /\ todo[e] = {} /\ emit'[e] = "done"
  BY DEF BeginBroadcast, EndBroadcast, IInv, TypeOK
<1>3. ASSUME NEW c \in Clients
      PROVE  /\ Queued(c)' = Queued(c) /\ Received(c)' = Received(c)
             /\ Watching(c)' <=> Watching(c)
  BY <1>1 DEF clientVars, ghostVars, Queued, Received, Watching
<1>4. ASSUME NEW c \in Clients, Watching(c) PROVE InFlight(c)' = InFlight(c)
  <2>1. c \in clients[at[c]]
    BY <1>4 DEF IInv, Registration
  <2>. QED BY <1>1, <1>2, <2>1 DEF InFlight, clientVars
<1>5. \A c \in Clients : SameDebt(c)
  BY <1>1, <1>3, <1>4 DEF SameDebt, Follows, Owed, clientVars
<1>6. FeedInv'
  BY <1>1, <1>2, <1>3, FeedInvKept DEF clientVars
<1>. QED BY <1>1, <1>3, <1>5, <1>6, FeedStutters DEF ghostVars

\* A client that is served finds the event in its channel instead, or has lost it.
LEMMA CastToFeed ==
  ASSUME IInv, FeedInv, NEW e \in Events, NEW c \in Clients, CastTo(e, c)
  PROVE  FeedInv' /\ Simulated
<1>1. /\ UNCHANGED <<log, emit, target, at, handler, pending, conn, frame, delivered>>
      /\ emit[e] = "casting" /\ c \in todo[e] /\ todo' = [todo EXCEPT ![e] = @ \ {c}]
      /\ todo \in [Events -> SUBSET Clients] /\ send \in [Clients -> Seq(Message)]
      /\ skipped \in [Clients -> SUBSET Events]
  BY DEF CastTo, engineVars, IInv, TypeOK
<1>2. /\ target[e] \in Sessions /\ c \in clients[target[e]] /\ at[c] = target[e]
      /\ handler[c] \notin {"absent", "upgraded"} /\ e \in Range(log[at[c]])
      /\ e # SessionInfo
  <2>1. target[e] \in Sessions /\ c \in clients[target[e]]
    BY <1>1 DEF IInv, Sited, Locking
  <2>2. at[c] = target[e] /\ reader[c]
    BY <2>1 DEF IInv, Registration
  <2>3. handler[c] \notin {"absent", "upgraded"}
    BY <2>2 DEF IInv, Lifecycle
  <2>. QED BY <1>1, <2>1, <2>2, <2>3, LGAssumption DEF FeedInv, LogHolds
<1>3. ASSUME NEW d \in Clients PROVE (Watching(d)' <=> Watching(d)) /\ Received(d)' = Received(d)
  BY <1>1 DEF Watching, Received
<1>4. ASSUME NEW d \in Clients, d # c
      PROVE  Queued(d)' = Queued(d) /\ InFlight(d)' = InFlight(d)
  <2>1. send'[d] = send[d] /\ \A f \in Events : d \in todo'[f] <=> d \in todo[f]
    BY <1>1, <1>4 DEF CastTo
  <2>. QED BY <1>1, <2>1 DEF Queued, InFlight
<1>5. \A d \in Clients \ {c} : SameDebt(d)
  BY <1>1, <1>3, <1>4 DEF SameDebt, Follows, Owed
<1>6. InFlight(c)' = InFlight(c) \ {e} /\ e \in InFlight(c)
  BY <1>1, <1>2 DEF InFlight
<1>7. CASE HasRoom(c)
  <2>1. send' = [send EXCEPT ![c] = Append(@, e)] /\ skipped' = skipped
    BY <1>7 DEF CastTo
  <2>2. Range(Append(send[c], e)) = Range(send[c]) \cup {e}
    BY <1>1, RangeAppend DEF Message
  <2>3. Queued(c)' = Queued(c) \cup {e}
    BY <1>1, <1>2, <2>1, <2>2 DEF Queued
  <2>4. SameDebt(c)
    BY <1>1, <1>3, <1>6, <2>3 DEF SameDebt, Follows, Owed
  <2>5. QueuesHold'
    BY <1>1, <1>2, <1>4, <2>3 DEF FeedInv, QueuesHold
  <2>6. LogHolds'
    BY <1>1 DEF FeedInv, LogHolds
  <2>. QED BY <1>1, <1>3, <1>5, <2>1, <2>4, <2>5, <2>6, FeedStutters DEF FeedInv
<1>8. CASE ~HasRoom(c)
  <2>1. /\ send' = send
        /\ skipped' = IF conn[c] = "open" THEN [skipped EXCEPT ![c] = @ \cup {e}] ELSE skipped
    BY <1>8 DEF CastTo
  <2>2. Queued(c)' = Queued(c)
    BY <1>1, <2>1 DEF Queued
  <2>3. FeedInv'
    BY <1>1, <1>4, <2>2, FeedInvKept
  <2>4. CASE conn[c] # "open"
    <3>1. SameDebt(c)
      BY <1>1, <1>3, <2>4 DEF SameDebt, Follows, Owed, Watching
    <3>. QED BY <1>1, <1>3, <1>5, <2>1, <2>3, <2>4, <3>1, FeedStutters
  <2>5. CASE conn[c] = "open"
    <3>1. Watching(c)
      BY <1>2, <2>5 DEF Watching
    <3>2. e \in Owed(c) /\ (Owed(c)' = Owed(c) \/ Owed(c)' = Owed(c) \ {e})
      BY <1>1, <1>2, <1>3, <1>6, <2>2, <3>1 DEF Owed
    <3>3. follows' = follows /\ got' = got
      BY <1>1, <1>3 DEF follows, Follows, got
    <3>4. owed' \in {owed, [owed EXCEPT ![c] = @ \ {e}]} /\ e \in owed[c]
      BY <1>5, <3>2 DEF owed, SameDebt
    <3>5. skipped' = [skipped EXCEPT ![c] = @ \cup {e}]
      BY <2>1, <2>5
    <3>6. Feed!Lose(c, e)
      BY <1>1, <3>3, <3>4, <3>5, FeedVariables DEF Feed!Lose, owed, got
    <3>. QED BY <2>3, <3>2, <3>6 DEF Simulated, Feed!Next
  <2>. QED BY <2>4, <2>5
<1>. QED BY <1>7, <1>8

-----------------------------------------------------------------------------
\* Registering on an open connection follows the session, and owes its log.
LEMMA RegisterFeed ==
  ASSUME IInv, FeedInv, NEW c \in Clients, RegisterClient(c)
  PROVE  FeedInv' /\ Simulated
<1>1. /\ UNCHANGED <<log, emitVars, at, pending, send, conn, frame, ghostVars>>
      /\ handler[c] = "upgraded" /\ handler'[c] = "registered" /\ at[c] \in Sessions
      /\ \A d \in Clients \ {c} : handler'[d] = handler[d]
  BY DEF RegisterClient, engineVars, IInv, TypeOK, Sited
<1>2. Queued(c) = {} /\ ~Watching(c)
  BY <1>1 DEF FeedInv, QueuesHold, Watching
<1>3. ASSUME NEW d \in Clients
      PROVE  /\ Queued(d)' = Queued(d) /\ Received(d)' = Received(d)
             /\ d # c => (Watching(d)' <=> Watching(d))
  BY <1>1 DEF ghostVars, Queued, Received, Watching
<1>4. FeedInv'
  BY <1>1, <1>2, <1>3, FeedInvKept DEF emitVars
<1>5. \A d \in Clients \ {c} : SameDebt(d)
  BY <1>1, <1>3, DebtKept
<1>6. CASE conn[c] # "open"
  <2>1. ~Watching(c)'
    BY <1>1, <1>6 DEF Watching
  <2>2. SameDebt(c)
    BY <1>1, <1>2, <2>1, DebtKept
  <2>. QED BY <1>1, <1>3, <1>4, <1>5, <2>2, FeedStutters DEF ghostVars
<1>7. CASE conn[c] = "open"
  <2>1. Watching(c)'
    BY <1>1, <1>7 DEF Watching
  <2>2. PICK s \in Sessions : s = at[c]
    BY <1>1
  <2>3. Follows(c) = NoSession /\ Follows(c)' = s /\ Owed(c)' = Range(log[s])
    BY <1>1, <1>2, <2>1, <2>2 DEF Follows, Owed
  <2>4. follows' = [follows EXCEPT ![c] = s] /\ follows[c] = NoSession
    BY <1>5, <2>3 DEF follows, SameDebt
  <2>5. owed' = [owed EXCEPT ![c] = Range(log[s])]
    BY <1>5, <2>3 DEF owed, SameDebt
  <2>6. got' = got /\ skipped' = skipped
    BY <1>1, <1>3 DEF got, ghostVars
  <2>7. Feed!Follow(c, s)
    BY <1>1, <2>4, <2>5, <2>6, FeedVariables DEF Feed!Follow, Feed!Range, Range, owed, got
  <2>. QED BY <1>4, <2>7 DEF Simulated, Feed!Next
<1>. QED BY <1>6, <1>7

\* A client whose debt changes its form only.
LEMMA MovedFeed ==
  ASSUME IInv, FeedInv, NEW c \in Clients,
         UNCHANGED <<log, emitVars, at, conn, ghostVars>>,
         \A d \in Clients \ {c} :
           handler'[d] = handler[d] /\ pending'[d] = pending[d] /\ send'[d] = send[d]
           /\ frame'[d] = frame[d],
         handler[c] \notin {"absent", "upgraded"}, handler'[c] \notin {"absent", "upgraded"},
         Watching(c) => Owed(c)' = Owed(c),
         Queued(c)' \subseteq Range(log[at[c]])
  PROVE  FeedInv' /\ Simulated
<1>1. ASSUME NEW d \in Clients, d # c
      PROVE  /\ Queued(d)' = Queued(d)
             /\ SameDebt(d)
  <2>1. Queued(d)' = Queued(d) /\ (Watching(d)' <=> Watching(d))
    BY <1>1 DEF Queued, Watching
  <2>. QED BY <1>1, <2>1, DebtKept
<1>2. \A d \in Clients : Received(d)' = Received(d)
  BY DEF Received, ghostVars
<1>3. SameDebt(c)
  <2>1. Watching(c)' <=> Watching(c)
    BY DEF Watching
  <2>. QED BY <2>1 DEF SameDebt, Follows, Owed
<1>4. LogHolds'
  BY DEF FeedInv, LogHolds, emitVars
<1>5. QueuesHold'
  BY <1>1 DEF FeedInv, QueuesHold
<1>. QED BY <1>1, <1>2, <1>3, <1>4, <1>5, FeedStutters DEF FeedInv, ghostVars

\* The copied log is what the client is owed.
LEMMA CopyHistoryFeed ==
  ASSUME IInv, FeedInv, NEW c \in Clients, CopyHistory(c)
  PROVE  FeedInv' /\ Simulated
<1>1. /\ UNCHANGED <<log, emitVars, at, send, conn, frame, ghostVars>>
      /\ handler[c] = "registered" /\ handler'[c] = "sending" /\ at[c] \in Sessions
      /\ \A d \in Clients \ {c} : handler'[d] = handler[d] /\ pending'[d] = pending[d]
      /\ pending'[c] = History(at[c])
  BY DEF CopyHistory, engineVars, IInv, TypeOK, Sited
<1>2. Range(History(at[c])) \ {SessionInfo} = Range(log[at[c]])
  <2>1. log[at[c]] \in Seq(Events)
    BY <1>1 DEF IInv, TypeOK
  <2>2. log[at[c]] \in Seq(Message) /\ <<SessionInfo>> \in Seq(Message)
    BY <2>1 DEF Message
  <2>3. \A q, r \in Seq(Message) : Range(q \o r) = Range(q) \cup Range(r)
    BY RangeConcat
  <2>4. Range(<<SessionInfo>> \o log[at[c]]) = Range(<<SessionInfo>>) \cup Range(log[at[c]])
    BY <2>2, <2>3
  <2>5. Range(<<SessionInfo>>) = {SessionInfo} /\ Range(log[at[c]]) \subseteq Events
    BY <2>1 DEF Range
  <2>. QED BY <2>4, <2>5, LGAssumption DEF History
<1>3. Queued(c) \subseteq Range(log[at[c]])
  BY <1>1 DEF FeedInv, QueuesHold
<1>4. Queued(c)' = Range(log[at[c]])
  BY <1>1, <1>2, <1>3 DEF Queued
<1>5. InFlight(c)' \subseteq Range(log[at[c]])
  BY <1>1 DEF InFlight, FeedInv, LogHolds, emitVars
<1>6. Watching(c) => Owed(c)' = Owed(c)
  BY <1>1, <1>4, <1>5 DEF Owed, Watching
<1>. QED BY <1>1, <1>4, <1>6, MovedFeed

\* A history message moves to the channel, or the handler ends after its client.
LEMMA SendHistoryFeed ==
  ASSUME IInv, FeedInv, NEW c \in Clients, SendHistory(c) \/ HistoryPanic(c)
  PROVE  FeedInv' /\ Simulated
<1>1. /\ UNCHANGED <<log, emitVars, at, conn, frame, ghostVars>> /\ handler[c] = "sending"
      /\ handler'[c] \in {"sending", "returned", "panicked"}
      /\ \A d \in Clients \ {c} : /\ handler'[d] = handler[d] /\ pending'[d] = pending[d]
                                  /\ send'[d] = send[d]
      /\ pending[c] \in Seq(Message) /\ send[c] \in Seq(Message) /\ pending[c] # <<>>
  BY DEF SendHistory, HistoryPanic, engineVars, IInv, TypeOK, Lifecycle
<1>2. Queued(c) \subseteq Range(log[at[c]])
  BY <1>1 DEF FeedInv, QueuesHold
<1>3. CASE SendHistory(c)
  <2>1. /\ Head(pending[c]) \in Message
        /\ Range(pending[c]) = {Head(pending[c])} \cup Range(Tail(pending[c]))
    BY <1>1, RangeHeadTail
  <2>2. Range(Append(send[c], Head(pending[c]))) = Range(send[c]) \cup {Head(pending[c])}
    BY <1>1, <2>1, RangeAppend
  <2>3. pending'[c] = Tail(pending[c]) /\ send'[c] = Append(send[c], Head(pending[c]))
    BY <1>3 DEF SendHistory, IInv, TypeOK
  <2>4. Queued(c)' = Queued(c)
    BY <1>1, <2>1, <2>2, <2>3 DEF Queued
  <2>5. InFlight(c)' = InFlight(c) /\ (Watching(c)' <=> Watching(c))
    BY <1>1 DEF InFlight, Watching, emitVars
  <2>6. Watching(c) => Owed(c)' = Owed(c)
    BY <1>1, <2>4, <2>5 DEF Owed
  <2>. QED BY <1>1, <1>2, <2>4, <2>6, MovedFeed
<1>4. CASE HistoryPanic(c)
  <2>1. ~Watching(c)
    BY <1>4 DEF HistoryPanic, IInv, Lifecycle, Watching
  <2>2. pending'[c] = <<>> /\ send' = send
    BY <1>4 DEF HistoryPanic, IInv, TypeOK
  <2>3. Queued(c)' \subseteq Queued(c)
    BY <1>1, <2>2 DEF Queued, Range
  <2>. QED BY <1>1, <1>2, <2>1, <2>3, MovedFeed
<1>. QED BY <1>3, <1>4

\* What leaves the channel is in the frame.
LEMMA ReceiveFeed ==
  ASSUME IInv, FeedInv, NEW c \in Clients, WriterReceive(c) \/ WriterDrain(c)
  PROVE  FeedInv' /\ Simulated
<1>1. /\ UNCHANGED <<log, emitVars, at, handler, pending, conn, ghostVars>>
      /\ \A d \in Clients \ {c} : send'[d] = send[d] /\ frame'[d] = frame[d]
      /\ send[c] \in Seq(Message) /\ frame[c] \in Seq(Message)
      /\ handler[c] \notin {"absent", "upgraded"}
  BY DEF WriterReceive, WriterDrain, engineVars, IInv, TypeOK, Lifecycle
<1>2. Queued(c)' = Queued(c)
  <2>1. CASE WriterReceive(c)
    <3>1. /\ send[c] # <<>> /\ frame[c] = <<>>
          /\ send'[c] = Tail(send[c]) /\ frame'[c] = <<Head(send[c])>>
      BY <2>1 DEF WriterReceive, IInv, TypeOK, Lifecycle
    <3>2. Range(send[c]) = {Head(send[c])} \cup Range(Tail(send[c]))
      BY <1>1, <3>1, RangeHeadTail
    <3>3. Range(frame[c]) = {} /\ Range(frame'[c]) = {Head(send[c])}
      BY <3>1 DEF Range
    <3>. QED BY <1>1, <3>1, <3>2, <3>3 DEF Queued
  <2>2. CASE WriterDrain(c)
    <3>1. send'[c] = <<>> /\ frame'[c] = frame[c] \o send[c]
      BY <2>2 DEF WriterDrain, IInv, TypeOK
    <3>2. Range(frame'[c]) = Range(frame[c]) \cup Range(send[c])
      BY <1>1, <3>1, RangeConcat
    <3>3. Range(send'[c]) = {}
      BY <3>1 DEF Range
    <3>. QED BY <1>1, <3>2, <3>3 DEF Queued
  <2>. QED BY <2>1, <2>2
<1>3. Queued(c) \subseteq Range(log[at[c]])
  BY <1>1 DEF FeedInv, QueuesHold
<1>4. InFlight(c)' = InFlight(c) /\ (Watching(c)' <=> Watching(c))
  BY <1>1 DEF InFlight, Watching, emitVars
<1>5. Watching(c) => Owed(c)' = Owed(c)
  BY <1>1, <1>2, <1>4 DEF Owed
<1>. QED BY <1>1, <1>2, <1>3, <1>5, MovedFeed

\* A frame that is written to an open connection delivers its events.
LEMMA FlushFeed ==
  ASSUME IInv, FeedInv, NEW c \in Clients, WriterFlush(c)
  PROVE  FeedInv' /\ Simulated
<1>. DEFINE E == Range(frame[c]) \ {SessionInfo}
<1>1. /\ UNCHANGED <<log, emitVars, at, handler, pending, send, conn, skipped>>
      /\ frame'[c] = <<>> /\ \A d \in Clients \ {c} : frame'[d] = frame[d]
      /\ frame[c] \in Seq(Message) /\ delivered[c] \in Seq(Message)
      /\ handler[c] \notin {"absent", "upgraded"}
  BY DEF WriterFlush, engineVars, IInv, TypeOK, Lifecycle
<1>2. Range(<<>>) = {}
  BY DEF Range
<1>3. ASSUME NEW d \in Clients
      PROVE  /\ Watching(d)' <=> Watching(d)
             /\ d # c => Queued(d)' = Queued(d)
             /\ InFlight(d)' = InFlight(d)
  BY <1>1 DEF Watching, Queued, InFlight, emitVars
<1>4. Queued(c)' \subseteq Queued(c) /\ Queued(c) \ E \subseteq Queued(c)' /\ E \subseteq Queued(c)
  BY <1>1, <1>2 DEF Queued
<1>5. FeedInv'
  BY <1>1, <1>3, <1>4, FeedInvKept DEF emitVars
<1>6. \A d \in Clients \ {c} : SameDebt(d)
  BY <1>1, <1>3, DebtKept
<1>7. CASE conn[c] # "open"
  <2>1. delivered' = delivered
    BY <1>7 DEF WriterFlush
  <2>2. SameDebt(c)
    BY <1>1, <1>3, <1>7, DebtKept DEF Watching
  <2>. QED BY <1>1, <1>5, <1>6, <2>1, <2>2, FeedStutters DEF Received
<1>8. CASE conn[c] = "open"
  <2>1. Watching(c)
    BY <1>1, <1>8 DEF Watching
  <2>2. /\ delivered'[c] = delivered[c] \o frame[c]
        /\ \A d \in Clients \ {c} : delivered'[d] = delivered[d]
    BY <1>8 DEF WriterFlush, IInv, TypeOK
  <2>3. Range(delivered'[c]) = Range(delivered[c]) \cup Range(frame[c])
    BY <1>1, <2>2, RangeConcat
  <2>4. Received(c)' = Received(c) \cup E /\ \A d \in Clients \ {c} : Received(d)' = Received(d)
    BY <2>2, <2>3 DEF Received
  <2>5. E \subseteq Owed(c) /\ Owed(c)' \subseteq Owed(c) /\ Owed(c) \ E \subseteq Owed(c)'
    <3>1. CASE handler[c] = "registered"
      <4>1. Owed(c) = Range(log[at[c]]) /\ Owed(c)' = Owed(c)
        BY <1>1, <1>3, <2>1, <3>1 DEF Owed
      <4>2. Queued(c) \subseteq Range(log[at[c]])
        BY <1>1 DEF FeedInv, QueuesHold
      <4>. QED BY <1>4, <4>1, <4>2
    <3>2. CASE handler[c] # "registered"
      <4>1. Owed(c) = Queued(c) \cup InFlight(c) /\ Owed(c)' = Queued(c)' \cup InFlight(c)
        BY <1>1, <1>3, <2>1, <3>2 DEF Owed
      <4>. QED BY <1>4, <4>1
    <3>. QED BY <3>1, <3>2
  <2>. HIDE DEF E
  <2>6. follows' = follows
    BY <1>1, <1>3 DEF follows, Follows
  <2>7. got' = [got EXCEPT ![c] = @ \cup E]
    BY <2>4 DEF got
  <2>8. owed' = [owed EXCEPT ![c] = Owed(c)']
    BY <1>6 DEF owed, SameDebt
  <2>9. E \subseteq owed[c] /\ Owed(c)' \in SUBSET owed[c] /\ owed[c] \ E \subseteq Owed(c)'
    BY <2>5 DEF owed
  <2>10. Feed!Deliver(c, E)
    BY <1>1, <2>6, <2>7, <2>8, <2>9, FeedVariables DEF Feed!Deliver, owed, got
  <2>11. \E F \in SUBSET Owed(c) : Feed!Deliver(c, F)
    BY <2>5, <2>10
  <2>. QED BY <1>5, <2>11 DEF Simulated, Feed!Next
<1>. QED BY <1>7, <1>8

LEMMA NextFeed == IInv /\ FeedInv /\ [Next]_vars => FeedInv' /\ Simulated
<1>. SUFFICES ASSUME IInv, FeedInv, [Next]_vars PROVE FeedInv' /\ Simulated
  OBVIOUS
<1>1. CASE UNCHANGED vars \/ (\E s \in Sessions : CreateSession(s) \/ DeleteSession(s))
  BY <1>1, QuietFeed
<1>2. ASSUME NEW e \in Events, (\E s \in Sessions : AddEvent(e, s)) \/ EmitStep(e)
      PROVE  FeedInv' /\ Simulated
  BY <1>2, AddEventFeed, AppendEventFeed, BroadcastFeed, CastToFeed DEF EmitStep
<1>3. ASSUME NEW c \in Clients,
             \/ \E s \in Sessions : Connect(c, s)
             \/ \E st \in Commands : HandleMessage(c, st)
             \/ HandlerStep(c)
      PROVE  FeedInv' /\ Simulated
  BY <1>3, ConnectFeed, QuietFeed, RegisterFeed, CopyHistoryFeed, SendHistoryFeed DEF HandlerStep
<1>4. ASSUME NEW c \in Clients, PeerGone(c) \/ ReaderExit(c) PROVE FeedInv' /\ Simulated
  BY <1>4, EndFeed DEF PeerGone, ReaderExit, engineVars
<1>5. ASSUME NEW c \in Clients, WriterStep(c) \/ WriterFail(c) PROVE FeedInv' /\ Simulated
  <2>1. CASE WriterSawClose(c) \/ WriterFail(c)
    BY <2>1, EndFeed DEF WriterSawClose, WriterFail, WriterExit, engineVars
  <2>. QED BY <1>5, <2>1, ReceiveFeed, FlushFeed DEF WriterStep
<1>. QED BY <1>1, <1>2, <1>3, <1>4, <1>5 DEF Next

\* The engine implements EventFeed: whatever the goroutines of AddEvent, of the
\* handler and of the pumps do between each other, what a watcher is owed is
\* delivered or declared lost, and nothing else reaches it.
THEOREM ImplementsFeed == Spec => KeepsFeed
<1>1. Init => Feed!Init
  <2>. SUFFICES ASSUME Init PROVE Feed!Init
    OBVIOUS
  <2>1. ASSUME NEW c \in Clients
        PROVE  Follows(c) = NoSession /\ Owed(c) = {} /\ Received(c) = {}
    BY DEF Init, Follows, Watching, Owed, Received, Range
  <2>. QED BY <2>1, FeedVariables DEF Init, Feed!Init, follows
<1>2. Spec => Feed!Spec
  BY <1>1, InitFeedInv, NextFeed, Inductive, PTL DEF Spec, Feed!Spec, Simulated
<1>. QED BY <1>2 DEF KeepsFeed

-----------------------------------------------------------------------------
(* NoEarlyDrop.  What is in a client's channel, or has still to be sent, is *)
(* no more than its history and one message for each event that a broadcast *)
(* has tried to send it.                                                    *)

\* The events of its session's log that broadcasts are done with for client c.
Served(c) ==
  {e \in Range(log[at[c]]) : emit[e] \in {"casting", "done"} /\ c \notin todo[e]}

Sent(c) == IF handler[c] = "registered" THEN 0 ELSE 1 + Len(log[at[c]])

\* An event is in a log once.
LogsDistinct ==
  \A s \in Sessions : IsFiniteSet(Range(log[s])) /\ Cardinality(Range(log[s])) = Len(log[s])

Bounded(c) ==
  /\ handler[c] \in {"absent", "upgraded"} => send[c] = <<>> /\ skipped[c] = {}
  /\ handler[c] \in {"absent", "upgraded", "registered"} => pending[c] = <<>>
  /\ handler[c] \notin {"absent", "upgraded"} =>
       Len(send[c]) + Len(pending[c]) <= Sent(c) + Cardinality(Served(c))
  /\ skipped[c] # {} => 2 * Len(log[at[c]]) + 1 > BufferCap

DropInv == LogsDistinct /\ \A c \in Clients : Bounded(c)

LEMMA Sum ==
  ASSUME NEW l \in Nat, NEW p \in Nat, NEW s \in Nat, NEW k \in Nat, l + p <= s + k,
         NEW m \in Nat, NEW t \in Nat, NEW n \in Nat, m <= l, s <= t, k <= n
  PROVE  m + p <= t + n
OBVIOUS

LEMMA SumServed ==
  ASSUME NEW l \in Nat, NEW p \in Nat, NEW s \in Nat, NEW k \in Nat, l + p <= s + k
  PROVE  /\ (l + 1) + p <= s + (k + 1)
         /\ l + p <= s + (k + 1)
OBVIOUS

LEMMA SumFull ==
  ASSUME NEW l \in Nat, NEW p \in Nat, NEW s \in Nat, NEW k \in Nat, l + p <= s + k,
         NEW n \in Nat, s <= 1 + n, k + 1 <= n, NEW b \in Nat, b <= l
  PROVE  2 * n + 1 > b
OBVIOUS

LEMMA SumNotMore ==
  ASSUME NEW l \in Nat, NEW p \in Nat, NEW s \in Nat, NEW k \in Nat, l + p <= s + k,
         NEW m \in Nat, NEW q \in Nat, m + q <= l + p
  PROVE  m + q <= s + k
OBVIOUS

LEMMA Fewer ==
  ASSUME NEW T, IsFiniteSet(T), NEW S, S \subseteq T
  PROVE  /\ IsFiniteSet(S) /\ Cardinality(S) \in Nat /\ Cardinality(T) \in Nat
         /\ Cardinality(S) <= Cardinality(T)
BY FS_Subset, FS_CardinalityType

LEMMA OneMore ==
  ASSUME NEW S, IsFiniteSet(S), NEW x, x \notin S
  PROVE  IsFiniteSet(S \cup {x}) /\ Cardinality(S \cup {x}) = Cardinality(S) + 1
BY FS_AddElement

\* The sizes, for a client that has a session.
LEMMA Sizes ==
  ASSUME IInv, DropInv, NEW c \in Clients, handler[c] # "absent"
  PROVE  /\ at[c] \in Sessions /\ log[at[c]] \in Seq(Events) /\ Len(log[at[c]]) \in Nat
         /\ Len(send[c]) \in Nat /\ Len(pending[c]) \in Nat
         /\ IsFiniteSet(Range(log[at[c]])) /\ Cardinality(Range(log[at[c]])) = Len(log[at[c]])
         /\ IsFiniteSet(Served(c)) /\ Cardinality(Served(c)) \in Nat
         /\ Cardinality(Served(c)) <= Len(log[at[c]])
<1>1. at[c] \in Sessions /\ log \in [Sessions -> Seq(Events)]
  BY DEF IInv, TypeOK, Sited
<1>2. send[c] \in Seq(Message) /\ pending[c] \in Seq(Message)
  BY DEF IInv, TypeOK
<1>3. IsFiniteSet(Range(log[at[c]])) /\ Cardinality(Range(log[at[c]])) = Len(log[at[c]])
  BY <1>1 DEF DropInv, LogsDistinct
<1>4. Served(c) \subseteq Range(log[at[c]])
  BY DEF Served
<1>5. /\ IsFiniteSet(Served(c)) /\ Cardinality(Served(c)) \in Nat
      /\ Cardinality(Served(c)) <= Cardinality(Range(log[at[c]]))
  BY <1>3, <1>4, Fewer
<1>. QED BY <1>1, <1>2, <1>3, <1>5

LEMMA InitDropInv == Init => DropInv
<1>. SUFFICES ASSUME Init PROVE DropInv
  OBVIOUS
<1>1. ASSUME NEW s \in Sessions PROVE log[s] = <<>> /\ Range(log[s]) = {} /\ Len(log[s]) = 0
  BY DEF Init, Range
<1>2. LogsDistinct
  BY <1>1, FS_EmptySet DEF LogsDistinct
<1>. QED BY <1>2 DEF Init, DropInv, Bounded

\* Nothing is added to a client's channel, and nothing leaves what bounds it.
LEMMA BoundedKept ==
  ASSUME IInv, IInv', DropInv, LogsDistinct', NEW c \in Clients,
         at'[c] = at[c], handler'[c] = handler[c], pending'[c] = pending[c],
         skipped'[c] = skipped[c], Len(send'[c]) <= Len(send[c]),
         at[c] \in Sessions => /\ Len(log[at[c]]) <= Len(log'[at[c]])
                               /\ Served(c) \subseteq Served(c)'
  PROVE  Bounded(c)'
<1>1. /\ send[c] \in Seq(Message) /\ send'[c] \in Seq(Message)
      /\ at[c] \in Sessions \/ handler[c] = "absent"
  BY DEF IInv, TypeOK, Sited
<1>2. send[c] = <<>> => send'[c] = <<>>
  BY <1>1
<1>3. Bounded(c)
  BY DEF DropInv
<1>4. CASE handler[c] \in {"absent", "upgraded"}
  BY <1>2, <1>3, <1>4 DEF Bounded
<1>5. CASE handler[c] \notin {"absent", "upgraded"}
  <2>1. /\ at[c] \in Sessions /\ Len(log[at[c]]) \in Nat /\ Len(send[c]) \in Nat
        /\ Len(pending[c]) \in Nat /\ Cardinality(Served(c)) \in Nat
    BY <1>5, Sizes
  <2>2. Len(log'[at[c]]) \in Nat /\ Len(send'[c]) \in Nat
    BY <1>1, <2>1 DEF IInv, TypeOK
  <2>3. IsFiniteSet(Range(log'[at[c]])) /\ Served(c)' \subseteq Range(log'[at[c]])
    BY <2>1 DEF LogsDistinct, Served
  <2>4. IsFiniteSet(Served(c)')
    BY <2>3, Fewer
  <2>5. Cardinality(Served(c)') \in Nat /\ Cardinality(Served(c)) <= Cardinality(Served(c)')
    BY <2>1, <2>4, Fewer
  <2>6. Sent(c) \in Nat /\ Sent(c)' \in Nat /\ Sent(c) <= Sent(c)'
    BY <2>1, <2>2 DEF Sent
  <2>7. Len(send'[c]) + Len(pending'[c]) <= Sent(c)' + Cardinality(Served(c)')
    <3>1. Len(send[c]) + Len(pending[c]) <= Sent(c) + Cardinality(Served(c))
      BY <1>3, <1>5 DEF Bounded
    <3>. QED BY <2>1, <2>2, <2>5, <2>6, <3>1, Sum
  <2>8. skipped[c] # {} => 2 * Len(log'[at[c]]) + 1 > BufferCap
    BY <1>3, <2>1, <2>2, LGAssumption DEF Bounded
  <2>. QED BY <1>3, <1>5, <2>7, <2>8 DEF Bounded
<1>. QED BY <1>4, <1>5

\* Steps that leave the logs alone and after which a broadcast is not undone.
LEMMA DropInvKept ==
  ASSUME IInv, IInv', DropInv, log' = log,
         \A c \in Clients :
           \/ Bounded(c)'
           \/ /\ at'[c] = at[c] /\ handler'[c] = handler[c] /\ pending'[c] = pending[c]
              /\ skipped'[c] = skipped[c] /\ Len(send'[c]) <= Len(send[c])
              /\ at[c] \in Sessions => Served(c) \subseteq Served(c)'
  PROVE  DropInv'
<1>1. LogsDistinct'
  BY DEF DropInv, LogsDistinct
<1>2. \A s \in Sessions : Len(log[s]) <= Len(log'[s])
  BY DEF IInv, TypeOK
<1>3. \A c \in Clients : Bounded(c)'
  BY <1>1, <1>2, BoundedKept
<1>. QED BY <1>1, <1>3 DEF DropInv

\* Sessions, commands, the ends of connections, AddEvent and EndBroadcast.
LEMMA QuietDrop ==
  ASSUME IInv, IInv', FeedInv, DropInv,
         \/ UNCHANGED vars
         \/ \E s \in Sessions : CreateSession(s) \/ DeleteSession(s)
         \/ \E c \in Clients, st \in Commands : HandleMessage(c, st)
         \/ \E c \in Clients : PeerGone(c) \/ ReaderExit(c) \/ WriterFlush(c)
                               \/ WriterSawClose(c) \/ WriterFail(c)
         \/ \E e \in Events, s \in Sessions : AddEvent(e, s)
         \/ \E e \in Events : BeginBroadcast(e) \/ EndBroadcast(e)
  PROVE  DropInv'
<1>1. UNCHANGED <<log, at, handler, pending, send, skipped>>
  BY DEF vars, engineVars, clientVars, ghostVars, CreateSession, DeleteSession, HandleMessage,
         PeerGone, ReaderExit, WriterFlush, WriterSawClose, WriterFail, WriterExit, AddEvent,
         BeginBroadcast, EndBroadcast
<1>2. ASSUME NEW e \in Events, emit[e] \in {"casting", "done"}
      PROVE  /\ emit'[e] \in {"casting", "done"} /\ todo'[e] = todo[e]
  <2>1. CASE \E f \in Events, s \in Sessions : AddEvent(f, s)
    BY <1>2, <2>1 DEF AddEvent, IInv, TypeOK
  <2>2. CASE \E f \in Events : BeginBroadcast(f) \/ EndBroadcast(f)
    BY <1>2, <2>2 DEF BeginBroadcast, EndBroadcast, IInv, TypeOK
  <2>3. CASE UNCHANGED emitVars
    BY <1>2, <2>3 DEF emitVars
  <2>. QED BY <2>1, <2>2, <2>3 DEF vars, CreateSession, DeleteSession, HandleMessage,
         PeerGone, ReaderExit, WriterFlush, WriterSawClose, WriterFail, WriterExit
<1>3. ASSUME NEW c \in Clients, at[c] \in Sessions PROVE Served(c) \subseteq Served(c)'
  <2>1. Range(log[at[c]]) \subseteq Events
    BY <1>3 DEF IInv, TypeOK, Range
  <2>. QED BY <1>1, <1>2, <2>1 DEF Served
<1>4. LogsDistinct'
  BY <1>1 DEF DropInv, LogsDistinct
<1>5. ASSUME NEW c \in Clients PROVE Len(send'[c]) <= Len(send[c])
  BY <1>1 DEF IInv, TypeOK
<1>6. ASSUME NEW s \in Sessions PROVE Len(log[s]) <= Len(log'[s])
  BY <1>1 DEF IInv, TypeOK
<1>7. \A c \in Clients : Bounded(c)'
  BY <1>1, <1>3, <1>4, <1>5, <1>6, BoundedKept
<1>. QED BY <1>4, <1>7 DEF DropInv

\* The appended event is new, and no broadcast has served it.
LEMMA AppendEventDrop ==
  ASSUME IInv, IInv', FeedInv, DropInv, NEW e \in Events, AppendEvent(e)
  PROVE  DropInv'
<1>. DEFINE s == target[e]
<1>1. /\ UNCHANGED <<todo, at, handler, pending, send, skipped>>
      /\ s \in Sessions /\ log' = [log EXCEPT ![s] = Append(@, e)]
      /\ emit[e] = "found" /\ \A f \in Events \ {e} : emit'[f] = emit[f]
      /\ log \in [Sessions -> Seq(Events)]
  BY DEF AppendEvent, clientVars, ghostVars, IInv, TypeOK, Sited
<1>2. e \notin Range(log[s])
  BY <1>1 DEF FeedInv, LogHolds
<1>3. Range(Append(log[s], e)) = Range(log[s]) \cup {e}
  BY <1>1, RangeAppend
<1>4. ASSUME NEW t \in Sessions
      PROVE  /\ Range(log[t]) \subseteq Range(log'[t]) /\ Len(log[t]) <= Len(log'[t])
             /\ IsFiniteSet(Range(log'[t])) /\ Cardinality(Range(log'[t])) = Len(log'[t])
  <2>1. IsFiniteSet(Range(log[t])) /\ Cardinality(Range(log[t])) = Len(log[t])
    BY DEF DropInv, LogsDistinct
  <2>2. CASE t # s
    <3>1. log'[t] = log[t] /\ Len(log[t]) \in Nat
      BY <1>1, <2>2
    <3>. QED BY <2>1, <3>1
  <2>3. CASE t = s
    <3>1. log'[t] = Append(log[t], e) /\ Len(log'[t]) = Len(log[t]) + 1 /\ Len(log[t]) \in Nat
      BY <1>1, <2>3
    <3>2. Range(log'[t]) = Range(log[t]) \cup {e} /\ e \notin Range(log[t])
      BY <1>2, <1>3, <2>3, <3>1
    <3>3. /\ IsFiniteSet(Range(log[t]) \cup {e})
          /\ Cardinality(Range(log[t]) \cup {e}) = Cardinality(Range(log[t])) + 1
      BY <2>1, <3>2, OneMore
    <3>. QED BY <2>1, <3>1, <3>2, <3>3
  <2>. QED BY <2>2, <2>3
<1>. HIDE DEF s
<1>5. LogsDistinct'
  BY <1>4 DEF LogsDistinct
<1>6. ASSUME NEW c \in Clients, at[c] \in Sessions PROVE Served(c) \subseteq Served(c)'
  <2>1. Range(log[at[c]]) \subseteq Events
    BY <1>6 DEF IInv, TypeOK, Range
  <2>2. Range(log[at[c]]) \subseteq Range(log'[at[c]])
    BY <1>4, <1>6
  <2>. QED BY <1>1, <2>1, <2>2 DEF Served
<1>7. ASSUME NEW c \in Clients PROVE Len(send'[c]) <= Len(send[c])
  BY <1>1 DEF IInv, TypeOK
<1>8. \A c \in Clients : Bounded(c)'
  BY <1>1, <1>4, <1>5, <1>6, <1>7, BoundedKept
<1>. QED BY <1>5, <1>8 DEF DropInv

\* A broadcast that serves c counts once more, whether its message fits or not;
\* it does not fit only if the channel holds the buffer's capacity.
LEMMA CastToDrop ==
  ASSUME IInv, IInv', FeedInv, DropInv, NEW e \in Events, NEW c \in Clients, CastTo(e, c)
  PROVE  DropInv'
<1>1. /\ UNCHANGED <<log, emit, target, at, handler, pending, conn>>
      /\ emit[e] = "casting" /\ c \in todo[e] /\ todo' = [todo EXCEPT ![e] = @ \ {c}]
      /\ todo \in [Events -> SUBSET Clients] /\ send \in [Clients -> Seq(Message)]
      /\ skipped \in [Clients -> SUBSET Events] /\ e \in Message
  BY DEF CastTo, engineVars, IInv, TypeOK, Message
<1>2. /\ handler[c] \notin {"absent", "upgraded"} /\ e \in Range(log[at[c]])
  <2>1. target[e] \in Sessions /\ c \in clients[target[e]]
    BY <1>1 DEF IInv, Sited, Locking
  <2>2. at[c] = target[e] /\ reader[c]
    BY <2>1 DEF IInv, Registration
  <2>. QED BY <1>1, <2>1, <2>2 DEF IInv, Lifecycle, FeedInv, LogHolds
<1>3. ASSUME NEW d \in Clients, d # c
      PROVE  /\ send'[d] = send[d] /\ skipped'[d] = skipped[d] /\ Len(send'[d]) <= Len(send[d])
             /\ at[d] \in Sessions => Served(d) \subseteq Served(d)'
  <2>1. send'[d] = send[d] /\ skipped'[d] = skipped[d]
    BY <1>1, <1>3 DEF CastTo
  <2>2. Len(send[d]) \in Nat
    BY <1>1
  <2>3. \A f \in Events : d \in todo'[f] => d \in todo[f]
    BY <1>1, <1>3
  <2>4. at[d] \in Sessions => Range(log[at[d]]) \subseteq Events
    <3>1. at[d] \in Sessions => log[at[d]] \in Seq(Events)
      BY DEF IInv, TypeOK
    <3>. QED BY <3>1 DEF Range
  <2>. QED BY <1>1, <2>1, <2>2, <2>3, <2>4 DEF Served
<1>4. Served(c)' = Served(c) \cup {e} /\ e \notin Served(c) /\ e \in Range(log[at[c]])
  <2>1. Range(log[at[c]]) \subseteq Events
    BY <1>2 DEF IInv, TypeOK, Sited, Range
  <2>2. \A f \in Events : f # e => todo'[f] = todo[f]
    BY <1>1
  <2>3. c \notin todo'[e]
    BY <1>1
  <2>. QED BY <1>1, <1>2, <2>1, <2>2, <2>3 DEF Served
<1>5. /\ at[c] \in Sessions /\ Len(log[at[c]]) \in Nat
      /\ Len(send[c]) \in Nat /\ Len(pending[c]) \in Nat
      /\ IsFiniteSet(Range(log[at[c]])) /\ Cardinality(Range(log[at[c]])) = Len(log[at[c]])
      /\ IsFiniteSet(Served(c)) /\ Cardinality(Served(c)) \in Nat
  BY <1>2, Sizes
<1>6. Cardinality(Served(c)') = Cardinality(Served(c)) + 1
  <2>1. Cardinality(Served(c) \cup {e}) = Cardinality(Served(c)) + 1
    BY <1>4, <1>5, OneMore
  <2>. QED BY <1>4, <2>1
<1>7. Cardinality(Served(c)) + 1 <= Len(log[at[c]])
  <2>1. Served(c) \cup {e} \subseteq Range(log[at[c]])
    BY <1>4 DEF Served
  <2>2. Cardinality(Served(c) \cup {e}) <= Cardinality(Range(log[at[c]]))
    BY <1>5, <2>1, Fewer
  <2>3. Cardinality(Served(c) \cup {e}) = Cardinality(Served(c)) + 1
    BY <1>4, <1>5, OneMore
  <2>. QED BY <1>5, <2>2, <2>3
<1>8. /\ Sent(c)' = Sent(c) /\ Sent(c) \in Nat /\ Sent(c) <= 1 + Len(log[at[c]])
  BY <1>1, <1>5 DEF Sent
<1>9. /\ Bounded(c)
      /\ Len(send[c]) + Len(pending[c]) <= Sent(c) + Cardinality(Served(c))
  BY <1>2 DEF DropInv, Bounded
<1>10. ASSUME Len(send'[c]) + Len(pending[c]) <= Sent(c) + (Cardinality(Served(c)) + 1),
               skipped'[c] # {} => 2 * Len(log[at[c]]) + 1 > BufferCap
       PROVE  DropInv'
  <2>1. Len(send'[c]) + Len(pending'[c]) <= Sent(c)' + Cardinality(Served(c)')
    BY <1>1, <1>6, <1>8, <1>10
  <2>2. skipped'[c] # {} => 2 * Len(log'[at'[c]]) + 1 > BufferCap
    BY <1>1, <1>10
  <2>3. handler'[c] = handler[c] /\ pending'[c] = pending[c]
    BY <1>1
  <2>4. Bounded(c)'
    BY <1>2, <1>9, <2>1, <2>2, <2>3 DEF Bounded
  <2>. QED BY <1>1, <1>3, <2>4, DropInvKept
<1>11. CASE HasRoom(c)
  <2>1. Len(send'[c]) = Len(send[c]) + 1 /\ skipped' = skipped
    BY <1>1, <1>11 DEF CastTo
  <2>2. (Len(send[c]) + 1) + Len(pending[c]) <= Sent(c) + (Cardinality(Served(c)) + 1)
    BY <1>5, <1>8, <1>9, SumServed
  <2>3. skipped[c] # {} => 2 * Len(log[at[c]]) + 1 > BufferCap
    BY <1>9 DEF Bounded
  <2>. QED BY <1>10, <2>1, <2>2, <2>3
<1>12. CASE ~HasRoom(c)
  <2>1. send' = send
    BY <1>12 DEF CastTo
  <2>2. Len(send[c]) + Len(pending[c]) <= Sent(c) + (Cardinality(Served(c)) + 1)
    BY <1>5, <1>8, <1>9, SumServed
  <2>3. BufferCap <= Len(send[c]) /\ BufferCap \in Nat
    BY <1>5, <1>12, LGAssumption DEF HasRoom
  <2>4. 2 * Len(log[at[c]]) + 1 > BufferCap
    BY <1>5, <1>7, <1>8, <1>9, <2>3, SumFull
  <2>. QED BY <1>10, <2>1, <2>2, <2>4
<1>. QED BY <1>11, <1>12

\* The channel of a client that has not registered is empty.
LEMMA ConnectDrop ==
  ASSUME IInv, IInv', DropInv, NEW c \in Clients, NEW s \in Sessions, Connect(c, s)
  PROVE  DropInv'
<1>1. /\ UNCHANGED <<log, emit, todo, pending, send, skipped>>
      /\ handler[c] = "absent" /\ handler'[c] = "upgraded"
      /\ \A d \in Clients \ {c} : at'[d] = at[d] /\ handler'[d] = handler[d]
      /\ send \in [Clients -> Seq(Message)]
  BY DEF Connect, engineVars, emitVars, ghostVars, IInv, TypeOK
<1>2. Bounded(c)'
  <2>1. Bounded(c)
    BY DEF DropInv
  <2>. QED BY <1>1, <2>1 DEF Bounded
<1>3. ASSUME NEW d \in Clients \ {c}
      PROVE  Len(send'[d]) <= Len(send[d]) /\ Served(d)' = Served(d)
  BY <1>1 DEF Served
<1>. QED BY <1>1, <1>2, <1>3, DropInvKept

LEMMA RegisterDrop ==
  ASSUME IInv, IInv', DropInv, NEW c \in Clients, RegisterClient(c)
  PROVE  DropInv'
<1>1. /\ UNCHANGED <<log, emit, todo, at, pending, send, skipped>>
      /\ handler[c] = "upgraded" /\ handler'[c] = "registered"
      /\ \A d \in Clients \ {c} : handler'[d] = handler[d]
      /\ send \in [Clients -> Seq(Message)]
  BY DEF RegisterClient, engineVars, emitVars, ghostVars, IInv, TypeOK
<1>2. Bounded(c)'
  <2>1. send'[c] = <<>> /\ pending'[c] = <<>> /\ skipped'[c] = {}
    BY <1>1 DEF DropInv, Bounded
  <2>2. Cardinality(Served(c)) \in Nat /\ Served(c)' = Served(c)
    BY <1>1, Sizes DEF Served
  <2>3. Sent(c)' = 0
    BY <1>1 DEF Sent
  <2>4. Len(send'[c]) + Len(pending'[c]) <= Sent(c)' + Cardinality(Served(c)')
    BY <2>1, <2>2, <2>3
  <2>. QED BY <1>1, <2>1, <2>4 DEF Bounded
<1>3. ASSUME NEW d \in Clients \ {c}
      PROVE  Len(send'[d]) <= Len(send[d]) /\ Served(d)' = Served(d)
  BY <1>1 DEF Served
<1>. QED BY <1>1, <1>2, <1>3, DropInvKept

\* The copy is the session info and the log: what Sent counts from now on.
LEMMA CopyHistoryDrop ==
  ASSUME IInv, IInv', DropInv, NEW c \in Clients, CopyHistory(c)
  PROVE  DropInv'
<1>1. /\ UNCHANGED <<log, emit, todo, at, send, skipped>>
      /\ handler[c] = "registered" /\ handler'[c] = "sending"
      /\ pending'[c] = History(at[c])
      /\ \A d \in Clients \ {c} : handler'[d] = handler[d] /\ pending'[d] = pending[d]
      /\ send \in [Clients -> Seq(Message)]
  BY DEF CopyHistory, engineVars, emitVars, ghostVars, IInv, TypeOK
<1>2. /\ at[c] \in Sessions /\ log[at[c]] \in Seq(Events) /\ Len(log[at[c]]) \in Nat
      /\ Len(send[c]) \in Nat /\ Len(pending[c]) \in Nat
      /\ Cardinality(Served(c)) \in Nat
  BY <1>1, Sizes
<1>3. Bounded(c)'
  <2>1. Len(pending'[c]) = 1 + Len(log[at[c]])
    <3>1. <<SessionInfo>> \in Seq(Message) /\ log[at[c]] \in Seq(Message)
      BY <1>2 DEF Message
    <3>. QED BY <1>1, <1>2, <3>1 DEF History
  <2>2. pending[c] = <<>> /\ Bounded(c) /\ Sent(c) = 0
    BY <1>1 DEF DropInv, Bounded, Sent
  <2>3. Len(send[c]) <= Cardinality(Served(c))
    <3>1. Len(send[c]) + Len(pending[c]) <= Sent(c) + Cardinality(Served(c))
      BY <1>1, <2>2 DEF Bounded
    <3>. QED BY <1>2, <2>2, <3>1
  <2>4. Sent(c)' = 1 + Len(log[at[c]]) /\ Served(c)' = Served(c)
    BY <1>1 DEF Sent, Served
  <2>5. Len(send'[c]) + Len(pending'[c]) <= Sent(c)' + Cardinality(Served(c)')
    BY <1>1, <1>2, <2>1, <2>3, <2>4
  <2>6. skipped'[c] # {} => 2 * Len(log'[at'[c]]) + 1 > BufferCap
    BY <1>1, <2>2 DEF Bounded
  <2>. QED BY <1>1, <2>5, <2>6 DEF Bounded
<1>4. ASSUME NEW d \in Clients \ {c}
      PROVE  Len(send'[d]) <= Len(send[d]) /\ Served(d)' = Served(d)
  BY <1>1 DEF Served
<1>. QED BY <1>1, <1>3, <1>4, DropInvKept

\* A message moves from the copy to the channel, or the copy is abandoned.
LEMMA SendHistoryDrop ==
  ASSUME IInv, IInv', DropInv, NEW c \in Clients, SendHistory(c) \/ HistoryPanic(c)
  PROVE  DropInv'
<1>1. /\ UNCHANGED <<log, emit, todo, at, skipped>>
      /\ handler[c] = "sending" /\ handler'[c] \in {"sending", "returned", "panicked"}
      /\ \A d \in Clients \ {c} : /\ handler'[d] = handler[d] /\ pending'[d] = pending[d]
                                  /\ send'[d] = send[d]
      /\ send \in [Clients -> Seq(Message)] /\ pending \in [Clients -> Seq(Message)]
  <2>1. CASE SendHistory(c)
    BY <2>1 DEF SendHistory, engineVars, emitVars, ghostVars, IInv, TypeOK
  <2>2. CASE HistoryPanic(c)
    BY <2>2 DEF HistoryPanic, engineVars, emitVars, ghostVars, IInv, TypeOK
  <2>. QED BY <2>1, <2>2
<1>2. Len(send'[c]) + Len(pending'[c]) <= Len(send[c]) + Len(pending[c])
  <2>1. CASE SendHistory(c)
    <3>1. pending[c] # <<>>
      BY <1>1 DEF IInv, Lifecycle
    <3>2. /\ Len(send'[c]) = Len(send[c]) + 1
          /\ Len(pending'[c]) = Len(pending[c]) - 1
      BY <1>1, <2>1, <3>1 DEF SendHistory
    <3>. QED BY <1>1, <3>2
  <2>2. CASE HistoryPanic(c)
    <3>1. pending'[c] = <<>> /\ send' = send
      BY <1>1, <2>2 DEF HistoryPanic
    <3>. QED BY <1>1, <3>1
  <2>. QED BY <2>1, <2>2
<1>3. Bounded(c)'
  <2>1. /\ Len(send[c]) \in Nat /\ Len(pending[c]) \in Nat /\ Len(log[at[c]]) \in Nat
        /\ Cardinality(Served(c)) \in Nat
    BY <1>1, Sizes
  <2>2. Len(send'[c]) \in Nat /\ Len(pending'[c]) \in Nat
    <3>1. send'[c] \in Seq(Message) /\ pending'[c] \in Seq(Message)
      BY DEF IInv, TypeOK
    <3>. QED BY <3>1
  <2>3. Bounded(c) /\ Len(send[c]) + Len(pending[c]) <= Sent(c) + Cardinality(Served(c))
    BY <1>1 DEF DropInv, Bounded
  <2>4. Sent(c)' = Sent(c) /\ Sent(c) \in Nat /\ Served(c)' = Served(c)
    BY <1>1, <2>1 DEF Sent, Served
  <2>5. Len(send'[c]) + Len(pending'[c]) <= Sent(c) + Cardinality(Served(c))
    <3>. DEFINE l == Len(send[c])  p == Len(pending[c])  m == Len(send'[c])
                q == Len(pending'[c])  n == Sent(c)  k == Cardinality(Served(c))
    <3>1. /\ l \in Nat /\ p \in Nat /\ m \in Nat /\ q \in Nat /\ n \in Nat /\ k \in Nat
          /\ l + p <= n + k /\ m + q <= l + p
      BY <1>2, <2>1, <2>2, <2>3, <2>4
    <3>. HIDE DEF l, p, m, q, n, k
    <3>2. m + q <= n + k
      BY <3>1, SumNotMore
    <3>. QED BY <3>2 DEF m, q, n, k
  <2>6. skipped'[c] # {} => 2 * Len(log'[at'[c]]) + 1 > BufferCap
    BY <1>1, <2>3 DEF Bounded
  <2>. QED BY <1>1, <2>4, <2>5, <2>6 DEF Bounded
<1>4. ASSUME NEW d \in Clients \ {c}
      PROVE  Len(send'[d]) <= Len(send[d]) /\ Served(d)' = Served(d)
  BY <1>1 DEF Served
<1>. QED BY <1>1, <1>3, <1>4, DropInvKept

\* writePump takes messages out of the channel.
LEMMA ReceiveDrop ==
  ASSUME IInv, IInv', DropInv, NEW c \in Clients, WriterReceive(c) \/ WriterDrain(c)
  PROVE  DropInv'
<1>1. /\ UNCHANGED <<log, emit, todo, at, handler, pending, skipped>>
      /\ send \in [Clients -> Seq(Message)]
      /\ \A d \in Clients \ {c} : send'[d] = send[d]
  BY DEF WriterReceive, WriterDrain, engineVars, emitVars, ghostVars, IInv, TypeOK
<1>2. Len(send'[c]) <= Len(send[c])
  <2>1. CASE WriterReceive(c)
    BY <1>1, <2>1 DEF WriterReceive
  <2>2. CASE WriterDrain(c)
    BY <1>1, <2>2 DEF WriterDrain
  <2>. QED BY <2>1, <2>2
<1>3. ASSUME NEW d \in Clients
      PROVE  Len(send'[d]) <= Len(send[d]) /\ Served(d)' = Served(d)
  BY <1>1, <1>2 DEF Served
<1>. QED BY <1>1, <1>3, DropInvKept

LEMMA NextDrop == IInv /\ IInv' /\ FeedInv /\ DropInv /\ [Next]_vars => DropInv'
<1>. SUFFICES ASSUME IInv, IInv', FeedInv, DropInv, [Next]_vars PROVE DropInv'
  OBVIOUS
<1>1. CASE \E e \in Events : AppendEvent(e)
  BY <1>1, AppendEventDrop
<1>2. CASE \E e \in Events, c \in Clients : CastTo(e, c)
  BY <1>2, CastToDrop
<1>3. CASE \E c \in Clients, s \in Sessions : Connect(c, s)
  BY <1>3, ConnectDrop
<1>4. CASE \E c \in Clients : HandlerStep(c)
  BY <1>4, RegisterDrop, CopyHistoryDrop, SendHistoryDrop DEF HandlerStep
<1>5. CASE \E c \in Clients : WriterReceive(c) \/ WriterDrain(c)
  BY <1>5, ReceiveDrop
<1>6. CASE \/ UNCHANGED vars
           \/ \E s \in Sessions : CreateSession(s) \/ DeleteSession(s)
           \/ \E c \in Clients, st \in Commands : HandleMessage(c, st)
           \/ \E c \in Clients : PeerGone(c) \/ ReaderExit(c) \/ WriterFlush(c)
                                 \/ WriterSawClose(c) \/ WriterFail(c)
           \/ \E e \in Events, s \in Sessions : AddEvent(e, s)
           \/ \E e \in Events : BeginBroadcast(e) \/ EndBroadcast(e)
  BY <1>6, QuietDrop
<1>. QED BY <1>1, <1>2, <1>3, <1>4, <1>5, <1>6 DEF Next, EmitStep, WriterStep

\* Spec => []NoEarlyDrop: whatever the number of sessions, browsers and events, and
\* for every capacity of the channel, broadcast drops an event only once the log
\* sent twice would overflow it.
THEOREM NoEarlyDrops == Spec => []NoEarlyDrop
<1>1. Init => FeedInv /\ DropInv
  BY InitFeedInv, InitDropInv
<1>2. IInv /\ IInv' /\ FeedInv /\ DropInv /\ [Next]_vars => FeedInv' /\ DropInv'
  BY NextFeed, NextDrop
<1>3. DropInv => NoEarlyDrop
  BY DEF DropInv, Bounded, NoEarlyDrop
<1>. QED BY <1>1, <1>2, <1>3, Inductive, PTL DEF Spec

-----------------------------------------------------------------------------
(* No goroutine of a client waits for one that is no more. *)

Pumping(c) == writer[c] \in {"waiting", "received", "writing"}

\* The safety side of EventReachesWatcher and DeadClientIsReleased, which leaves to
\* fairness only that goroutines that can go on do.  A watched channel is read and
\* its readPump runs; whoever sends the history on an open channel has a writePump
\* to empty it, or a readPump about to close it; and as long as a client whose
\* connection or writePump is gone has not ended, one of its goroutines has its turn.
NoneLeftBehind ==
  \A c \in Clients :
    /\ Watching(c) => reader[c] /\ ~closed[c] /\ Pumping(c)
    /\ handler[c] = "sending" /\ ~closed[c] => reader[c] /\ (Pumping(c) \/ conn[c] = "closed")
    /\ conn[c] \in {"gone", "closed"} \/ writer[c] = "exited" =>
         \/ Ended(c)
         \/ handler[c] \in {"upgraded", "registered"}
         \/ handler[c] = "sending" /\ closed[c]
         \/ reader[c] /\ conn[c] # "open"
         \/ Pumping(c) /\ conn[c] = "closed"

\* The pumps outlive each other in order: writePump ends the connection, on which
\* readPump ends, which closes the channel.
PumpsInOrder ==
  \A c \in Clients :
    /\ handler[c] = "absent" <=> conn[c] = "none"
    /\ handler[c] \notin {"absent", "upgraded"} => writer[c] # "off" /\ (reader[c] \/ closed[c])
    /\ writer[c] = "exited" => conn[c] = "closed"

LEMMA InitPumps == Init => PumpsInOrder
BY DEF Init, PumpsInOrder

LEMMA NextPumps == IInv /\ PumpsInOrder /\ [Next]_vars => PumpsInOrder'
<1>. SUFFICES ASSUME IInv, PumpsInOrder, [Next]_vars PROVE PumpsInOrder'
  OBVIOUS
<1>. USE DEF IInv, PumpsInOrder
<1>1. ASSUME UNCHANGED clientVars PROVE PumpsInOrder'
  BY <1>1 DEF clientVars
<1>2. CASE \E s \in Sessions : CreateSession(s) \/ DeleteSession(s)
  BY <1>1, <1>2 DEF CreateSession, DeleteSession
<1>3. ASSUME NEW e \in Events,
             \/ \E s \in Sessions : AddEvent(e, s)
             \/ AppendEvent(e) \/ BeginBroadcast(e) \/ EndBroadcast(e)
             \/ \E c \in Clients : CastTo(e, c)
      PROVE  PumpsInOrder'
  <2>1. UNCHANGED <<handler, closed, conn, reader, writer>>
    BY <1>3 DEF AddEvent, AppendEvent, BeginBroadcast, EndBroadcast, CastTo, clientVars
  <2>. QED BY <2>1
<1>4. ASSUME NEW c \in Clients,
             \/ \E s \in Sessions : Connect(c, s)
             \/ RegisterClient(c) \/ CopyHistory(c) \/ SendHistory(c) \/ HistoryPanic(c)
      PROVE  PumpsInOrder'
  <2>1. CASE \E s \in Sessions : Connect(c, s)
    BY <2>1 DEF Connect, TypeOK, Lifecycle
  <2>2. CASE RegisterClient(c)
    BY <2>2 DEF RegisterClient, TypeOK
  <2>3. CASE CopyHistory(c) \/ SendHistory(c) \/ HistoryPanic(c)
    <3>1. /\ handler[c] \in {"registered", "sending"}
          /\ \/ handler' = handler
             \/ \E w \in {"sending", "returned", "panicked"} : handler' = [handler EXCEPT ![c] = w]
          /\ UNCHANGED <<closed, conn, reader, writer>>
      BY <2>3 DEF CopyHistory, SendHistory, HistoryPanic
    <3>. QED BY <3>1 DEF TypeOK
  <2>. QED BY <1>4, <2>1, <2>2, <2>3
<1>5. ASSUME NEW c \in Clients,
             \/ \E st \in Commands : HandleMessage(c, st)
             \/ PeerGone(c) \/ ReaderExit(c) \/ WriterStep(c) \/ WriterFail(c)
      PROVE  PumpsInOrder'
  <2>1. CASE \E st \in Commands : HandleMessage(c, st)
    BY <1>1, <2>1 DEF HandleMessage
  <2>2. CASE PeerGone(c)
    BY <2>2 DEF PeerGone, TypeOK
  <2>3. CASE ReaderExit(c)
    BY <2>3 DEF ReaderExit, TypeOK, Lifecycle
  <2>4. CASE WriterReceive(c) \/ WriterDrain(c) \/ WriterFlush(c)
    BY <2>4 DEF WriterReceive, WriterDrain, WriterFlush, TypeOK
  <2>5. CASE WriterSawClose(c) \/ WriterFail(c)
    BY <2>5 DEF WriterSawClose, WriterFail, WriterExit, TypeOK, Lifecycle
  <2>. QED BY <1>5, <2>1, <2>2, <2>3, <2>4, <2>5 DEF WriterStep
<1>6. CASE UNCHANGED vars
  BY <1>1, <1>6 DEF vars
<1>. QED BY <1>2, <1>3, <1>4, <1>5, <1>6 DEF Next, EmitStep, HandlerStep

\* sendHistory does not hang on the full channel of a dead client, and a watcher's
\* goroutines run (stream.go, the deferred calls of readPump and writePump).
THEOREM NobodyLeftBehind == Spec => []NoneLeftBehind
<1>1. ASSUME IInv, PumpsInOrder PROVE NoneLeftBehind
  <2>. USE DEF NoneLeftBehind
  <2>. TAKE c \in Clients
  <2>. USE <1>1 DEF IInv, PumpsInOrder, Pumping
  <2>1. /\ handler[c] \in {"absent", "upgraded", "registered", "sending", "returned", "panicked"}
        /\ conn[c] \in {"none", "open", "gone", "closed"}
        /\ writer[c] \in {"off", "waiting", "received", "writing", "exited"}
    BY DEF TypeOK
  <2>2. closed[c] => \A s \in Sessions : c \notin clients[s]
    BY DEF Registration
  <2>3. Watching(c) => reader[c] /\ ~closed[c] /\ Pumping(c)
    BY <2>1, <2>2 DEF Watching, Registration, Sited
  <2>4. handler[c] = "sending" /\ ~closed[c] => reader[c] /\ (Pumping(c) \/ conn[c] = "closed")
    BY <2>1
  <2>5. ASSUME conn[c] \in {"gone", "closed"} \/ writer[c] = "exited",
               ~(handler[c] \in {"upgraded", "registered"}),
               ~(handler[c] = "sending" /\ closed[c]),
               ~(reader[c] /\ conn[c] # "open"), ~(Pumping(c) /\ conn[c] = "closed")
        PROVE  Ended(c)
    <3>1. handler[c] \in {"sending", "returned", "panicked"} /\ conn[c] # "open"
      BY <2>1, <2>5
    <3>2. ~reader[c] /\ closed[c] /\ handler[c] # "sending" /\ conn[c] = "closed"
      BY <2>5, <3>1 DEF Lifecycle
    <3>. QED BY <2>1, <2>2, <2>5, <3>1, <3>2 DEF Ended
  <2>. QED BY <2>3, <2>4, <2>5
<1>. QED BY <1>1, Inductive, InitPumps, NextPumps, PTL DEF Spec

=============================================================================
