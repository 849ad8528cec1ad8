------------------------- MODULE WebSocketHook_proofs -------------------------
(***************************************************************************)
(* The state shown to the user never says connected without an open        *)
(* socket, and retries are bounded, for any number of urls, sockets,       *)
(* renders and attempts.                                                   *)
(***************************************************************************)
EXTENDS WebSocketHook, FiniteSetTheorems, TLAPS

IInv == TypeOK /\ ConnectedMeansOpen

LEMMA RenderIInv ==
  ASSUME IInv, NEW u \in Urls \cup {None}, Render(u)
  PROVE  IInv'
<1>. USE DEF Render, Disconnect, ConnectFrom, Closing, IsOpen, Unused
<1>0. /\ ready \in [Sockets -> {"free", "connecting", "open", "closing", "closed"}]
      /\ Closing(ready, wsRef) \in [Sockets -> {"free", "connecting", "open", "closing", "closed"}]
      /\ \A i \in Sockets : ready[i] \in {"free", "closed"} => Closing(ready, wsRef)[i] = ready[i]
      /\ \A i \in Sockets : ready[i] = "closed" <=> Closing(ready, wsRef)[i] = "closed"
  BY DEF IInv, TypeOK
<1>1. url' \in Urls \cup {None} /\ renders' \in 0 .. MaxRenders
  BY WHAssumption DEF IInv, TypeOK
<1>2. timer' \in [Sockets -> BOOLEAN] /\ \A i \in Sockets : timer'[i] => timer[i]
  BY DEF IInv, TypeOK
<1>3. /\ wsRef' \in Sockets \cup {None}
      /\ ready' \in [Sockets -> {"free", "connecting", "open", "closing", "closed"}]
      /\ to' \in [Sockets -> Urls \cup {None}]
      /\ \A i \in Sockets : timer[i] => ready'[i] = "closed"
  BY <1>0 DEF IInv, TypeOK
<1>4. connected' = FALSE /\ UNCHANGED <<timerRef, attempts, serverUp>>
  OBVIOUS
<1>5. TypeOK'
  BY <1>1, <1>2, <1>3, <1>4 DEF IInv, TypeOK
<1>. QED BY <1>4, <1>5 DEF IInv, ConnectedMeansOpen

LEMMA BrowserIInv ==
  ASSUME IInv, NEW i \in Sockets, OnOpen(i) \/ OnClose(i)
  PROVE  IInv'
<1>1. CASE OnOpen(i)
  <2>1. TypeOK'
    BY <1>1 DEF OnOpen, IInv, TypeOK
  <2>2. ready'[i] = "open"
    BY <1>1 DEF OnOpen, IInv, TypeOK
  <2>. QED BY <2>1, <2>2 DEF IInv, ConnectedMeansOpen
<1>2. CASE OnClose(i)
  <2>1. TypeOK'
    BY <1>2 DEF OnClose, IInv, TypeOK
  <2>2. connected' = FALSE
    BY <1>2 DEF OnClose
  <2>. QED BY <2>1, <2>2 DEF IInv, ConnectedMeansOpen
<1>. QED BY <1>1, <1>2

\* A retry takes an id nobody uses, never that of an open socket.
LEMMA TimerIInv ==
  ASSUME IInv, NEW i \in Sockets, TimerFires(i)
  PROVE  IInv'
<1>. USE DEF TimerFires, ConnectFrom, IsOpen, Unused
<1>1. /\ wsRef' \in Sockets \cup {None}
      /\ ready' \in [Sockets -> {"free", "connecting", "open", "closing", "closed"}]
      /\ to' \in [Sockets -> Urls \cup {None}]
      /\ \A j \in Sockets : timer[j] => ready'[j] = "closed"
      /\ \A j \in Sockets : ready[j] = "open" => ready'[j] = "open"
  BY DEF IInv, TypeOK
<1>2. timer' \in [Sockets -> BOOLEAN] /\ \A j \in Sockets : timer'[j] => timer[j]
  BY DEF IInv, TypeOK
<1>3. attempts' \in Nat /\ UNCHANGED <<url, renders, timerRef, connected, serverUp>>
  BY DEF IInv, TypeOK
<1>4. TypeOK'
  BY <1>1, <1>2, <1>3 DEF IInv, TypeOK
<1>. QED BY <1>1, <1>3, <1>4 DEF IInv, ConnectedMeansOpen

LEMMA NextIInv == IInv /\ [Next]_vars => IInv'
<1>. SUFFICES ASSUME IInv, [Next]_vars PROVE IInv'
  OBVIOUS
<1>1. CASE \E u \in Urls \cup {None} : Render(u)
  BY <1>1, RenderIInv
<1>2. CASE \E i \in Sockets : OnOpen(i) \/ OnClose(i) \/ TimerFires(i)
  BY <1>2, BrowserIInv, TimerIInv
<1>3. CASE Server \/ UNCHANGED vars
  <2>1. UNCHANGED <<url, renders, wsRef, timerRef, attempts, connected, ready, to, timer>>
        /\ serverUp' \in BOOLEAN
    BY <1>3 DEF Server, vars, IInv, TypeOK
  <2>. QED BY <2>1 DEF IInv, TypeOK, ConnectedMeansOpen
<1>. QED BY <1>1, <1>2, <1>3 DEF Next

LEMMA InitIInv == Init => IInv
<1>. SUFFICES ASSUME Init PROVE IInv
  OBVIOUS
<1>1. renders \in 0 .. MaxRenders /\ attempts \in Nat
  BY WHAssumption DEF Init
<1>2. connected = FALSE /\ \A i \in Sockets : timer[i] = FALSE
  BY DEF Init
<1>3. timer \in [Sockets -> BOOLEAN] /\ connected \in BOOLEAN /\ serverUp \in BOOLEAN
  BY DEF Init
<1>4. TypeOK
  BY <1>1, <1>2, <1>3 DEF Init, TypeOK
<1>. QED BY <1>2, <1>4 DEF IInv, ConnectedMeansOpen

\* The hook's refs name sockets, and a pending timer one that is closed.
THEOREM HookTypes == Spec => []TypeOK
<1>1. IInv => TypeOK
  BY DEF IInv
<1>. QED BY <1>1, InitIInv, NextIInv, PTL DEF Spec

\* The indicator is never left on by sockets that overlap across renders and
\* retries (useWebSocket.ts:54-71, 86-97).
THEOREM ConnectedIsOpen == Spec => []ConnectedMeansOpen
<1>1. IInv => ConnectedMeansOpen
  BY DEF IInv
<1>. QED BY <1>1, InitIInv, NextIInv, PTL DEF Spec

-----------------------------------------------------------------------------
(* Retries *)

Waiting == {i \in Sockets : timer[i]}

\* A chain of attempts: a socket, or the timer that its onclose has started.
Chains == {i \in Sockets : timer[i] \/ ready[i] \in {"connecting", "open", "closing"}}

\* No render starts more than one chain, and each timer that is pending will
\* count at most one attempt more.
RetryIInv ==
  /\ IsFiniteSet(Chains) /\ Cardinality(Chains) <= renders
  /\ Waiting # {} => MaxAttempts # 0
  /\ attempts # 0 => attempts + Cardinality(Waiting) < MaxAttempts + renders

\* The numbers of timers and of chains.
LEMMA ChainNumbers ==
  ASSUME TypeOK, RetryIInv
  PROVE  /\ IsFiniteSet(Waiting) /\ Cardinality(Waiting) \in Nat /\ Cardinality(Chains) \in Nat
         /\ Cardinality(Waiting) <= Cardinality(Chains)
         /\ renders \in Nat /\ MaxAttempts \in Nat /\ attempts \in Nat
<1>1. Waiting \subseteq Chains /\ IsFiniteSet(Chains)
  BY DEF Waiting, Chains, RetryIInv
<1>. QED BY <1>1, FS_Subset, FS_CardinalityType, WHAssumption DEF TypeOK

LEMMA OneMore ==
  ASSUME NEW S, IsFiniteSet(S), NEW j, NEW T, T \subseteq S \cup {j}
  PROVE  /\ IsFiniteSet(T) /\ Cardinality(T) \in Nat /\ Cardinality(S) \in Nat
         /\ Cardinality(T) <= Cardinality(S) + 1
<1>. DEFINE U == S \cup {j}
<1>1. Cardinality(S) \in Nat
  BY FS_CardinalityType
<1>2. IsFiniteSet(U) /\ (Cardinality(U) = Cardinality(S) \/ Cardinality(U) = Cardinality(S) + 1)
  BY FS_AddElement
<1>3. T \subseteq U
  OBVIOUS
<1>. HIDE DEF U
<1>4. IsFiniteSet(T) /\ Cardinality(T) <= Cardinality(U)
  BY <1>2, <1>3, FS_Subset
<1>5. Cardinality(T) \in Nat
  BY <1>4, FS_CardinalityType
<1>. QED BY <1>1, <1>2, <1>4, <1>5

\* Chains after a step that starts at most the one of socket j.
LEMMA RenderRetries ==
  ASSUME IInv, RetryIInv, NEW u \in Urls \cup {None}, Render(u)
  PROVE  RetryIInv'
<1>1. renders' = renders + 1 /\ UNCHANGED attempts
  BY DEF Render
<1>2. \A i \in Sockets : timer'[i] => timer[i]
  BY DEF Render, Disconnect, IInv, TypeOK
<1>3. \E j : Chains' \subseteq Chains \cup {j}
  <2>1. \A i \in Sockets : Closing(ready, wsRef)[i] \in {ready[i], "closing"} /\
          (Closing(ready, wsRef)[i] # ready[i] => ready[i] \in {"connecting", "open"})
    BY DEF Closing, IInv, TypeOK
  <2>2. \E j : \A i \in Sockets : i # j => ready'[i] = Closing(ready, wsRef)[i]
    BY DEF Render, ConnectFrom, IsOpen, Closing, IInv, TypeOK
  <2>. QED BY <1>2, <2>1, <2>2 DEF Chains
<1>4. PICK j : Chains' \subseteq Chains \cup {j}
  BY <1>3
<1>5. Waiting' \subseteq Waiting
  BY <1>2 DEF Waiting
<1>6. IsFiniteSet(Chains)
  BY DEF RetryIInv
<1>7. /\ IsFiniteSet(Chains') /\ Cardinality(Chains') \in Nat
      /\ Cardinality(Chains') <= Cardinality(Chains) + 1
  BY <1>4, <1>6, OneMore
<1>8. Cardinality(Waiting') \in Nat /\ Cardinality(Waiting') <= Cardinality(Waiting)
  BY <1>5, ChainNumbers, FS_Subset, FS_CardinalityType DEF IInv
<1>9. IsFiniteSet(Chains') /\ Cardinality(Chains') <= renders'
  BY <1>1, <1>7, ChainNumbers DEF IInv, RetryIInv
<1>10. Waiting' # {} => MaxAttempts # 0
  BY <1>5 DEF RetryIInv
<1>11. attempts' # 0 => attempts' + Cardinality(Waiting') < MaxAttempts + renders'
  BY <1>1, <1>8, ChainNumbers DEF IInv, RetryIInv
<1>. QED BY <1>9, <1>10, <1>11 DEF RetryIInv

LEMMA BrowserRetries ==
  ASSUME IInv, RetryIInv, NEW i \in Sockets, OnOpen(i) \/ OnClose(i)
  PROVE  RetryIInv'
<1>0. /\ ready \in [Sockets -> {"free", "connecting", "open", "closing", "closed"}]
      /\ timer \in [Sockets -> BOOLEAN] /\ UNCHANGED renders
      /\ \A j \in Sockets : timer[j] => ready[j] = "closed"
  BY DEF IInv, TypeOK, OnOpen, OnClose
<1>1. CASE OnOpen(i)
  <2>1. Chains' = Chains /\ Waiting' = Waiting /\ attempts' = 0
    BY <1>0, <1>1 DEF OnOpen, Chains, Waiting
  <2>. QED BY <1>0, <2>1 DEF RetryIInv
<1>2. CASE OnClose(i) /\ attempts < MaxAttempts
  <2>1. /\ Waiting' = Waiting \cup {i} /\ Chains' = Chains /\ UNCHANGED attempts
        /\ Waiting' \subseteq Chains
    BY <1>0, <1>2 DEF OnClose, Chains, Waiting
  <2>2. Cardinality(Waiting') \in Nat /\ Cardinality(Waiting') <= Cardinality(Chains)
    BY <2>1, FS_Subset, FS_CardinalityType DEF RetryIInv
  <2>. QED BY <1>0, <1>2, <2>1, <2>2, ChainNumbers DEF IInv, RetryIInv
<1>3. CASE OnClose(i) /\ ~(attempts < MaxAttempts)
  <2>1. Waiting' = Waiting /\ Chains' \subseteq Chains /\ UNCHANGED attempts
    BY <1>0, <1>3 DEF OnClose, Chains, Waiting
  <2>2. /\ IsFiniteSet(Chains') /\ Cardinality(Chains') \in Nat
        /\ Cardinality(Chains') <= Cardinality(Chains)
    BY <2>1, FS_Subset, FS_CardinalityType DEF RetryIInv
  <2>. QED BY <1>0, <2>1, <2>2, ChainNumbers DEF IInv, RetryIInv
<1>. QED BY <1>1, <1>2, <1>3

\* A timer that fires goes on as a socket, or ends with the chain.
LEMMA TimerRetries ==
  ASSUME IInv, RetryIInv, NEW i \in Sockets, TimerFires(i)
  PROVE  RetryIInv'
<1>0. /\ ready \in [Sockets -> {"free", "connecting", "open", "closing", "closed"}]
      /\ timer \in [Sockets -> BOOLEAN] /\ UNCHANGED renders
      /\ timer[i] /\ ready[i] = "closed" /\ attempts' = attempts + 1
      /\ timer' = [timer EXCEPT ![i] = FALSE]
  BY DEF IInv, TypeOK, TimerFires
<1>1. Waiting' = Waiting \ {i} /\ i \in Waiting
  BY <1>0 DEF Waiting
<1>2. PICK j : Chains' \subseteq (Chains \ {i}) \cup {j}
  <2>1. \E j : \A k \in Sockets : k # j => ready'[k] = ready[k]
    BY <1>0 DEF TimerFires, ConnectFrom
  <2>. QED BY <1>0, <2>1 DEF Chains
<1>3. /\ IsFiniteSet(Chains \ {i}) /\ Cardinality(Chains) \in Nat
      /\ Cardinality(Chains \ {i}) = Cardinality(Chains) - 1
  <2>1. i \in Chains /\ IsFiniteSet(Chains)
    BY <1>0 DEF Chains, RetryIInv
  <2>. QED BY <2>1, FS_RemoveElement, FS_CardinalityType
<1>4. /\ IsFiniteSet(Chains') /\ Cardinality(Chains') \in Nat
      /\ Cardinality(Chains') <= Cardinality(Chains \ {i}) + 1
  BY <1>2, <1>3, OneMore
<1>5. Cardinality(Chains') <= Cardinality(Chains)
  BY <1>3, <1>4
<1>6. Cardinality(Waiting') = Cardinality(Waiting) - 1 /\ Cardinality(Waiting') \in Nat
  BY <1>1, ChainNumbers, FS_RemoveElement, FS_CardinalityType DEF IInv
<1>7. MaxAttempts # 0
  BY <1>1 DEF RetryIInv
<1>. QED BY <1>0, <1>1, <1>4, <1>5, <1>6, <1>7, ChainNumbers DEF IInv, RetryIInv

\* onclose and the timer: the attempts since the last open connection exceed the
\* limit by less than the number of renders, however their chains overlap.
THEOREM Retries == Spec => []RetriesBounded
<1>1. Init => RetryIInv
  <2>. SUFFICES ASSUME Init PROVE RetryIInv
    OBVIOUS
  <2>1. Chains = {} /\ Waiting = {} /\ attempts = 0 /\ renders = 0
    BY DEF Init, Chains, Waiting
  <2>. QED BY <2>1, FS_EmptySet DEF RetryIInv
<1>2. IInv /\ RetryIInv /\ [Next]_vars => RetryIInv'
  <2>. SUFFICES ASSUME IInv, RetryIInv, [Next]_vars PROVE RetryIInv'
    OBVIOUS
  <2>1. CASE \E u \in Urls \cup {None} : Render(u)
    BY <2>1, RenderRetries
  <2>2. CASE \E i \in Sockets : OnOpen(i) \/ OnClose(i) \/ TimerFires(i)
    BY <2>2, BrowserRetries, TimerRetries
  <2>3. CASE Server \/ UNCHANGED vars
    BY <2>3 DEF Server, vars, RetryIInv, Chains, Waiting
  <2>. QED BY <2>1, <2>2, <2>3 DEF Next
<1>3. IInv /\ RetryIInv => RetriesBounded
  BY ChainNumbers DEF IInv, RetriesBounded, RetryIInv
<1>. QED BY <1>1, <1>2, <1>3, InitIInv, NextIInv, PTL DEF Spec

=============================================================================
