------------------------- MODULE FrontendHooks_proofs --------------------------
(***************************************************************************)
(* For any bounds: the device flow polls for no executor that was aborted, *)
(* its first run has one timer at a time, and the first executor sends a   *)
(* code with the verifier of its own login.                                *)
(***************************************************************************)
EXTENDS DevicePolling, LiveExecutor, TLAPS

-----------------------------------------------------------------------------
(* The device flow *)

Devices ==
  [status: {"idle", "executing", "awaiting_user", "completed", "error"},
   tokens: {0} \cup Runs, controller: {0} \cup Runs, aborted: BOOLEAN,
   pollTimer: {0} \cup Intervals]

PollTypes ==
  /\ device \in Devices
  /\ intervals \in [Intervals -> {0} \cup Runs]
  /\ pollers \in [Runs -> {"unused", "requesting", "polling", "ended"}]
  /\ polls \in [Runs -> [Runs -> Nat]]

\* Nothing will wake run r.
Dead(r) == (\A i \in Intervals : intervals[i] # r) /\ \A c \in Runs : polls[r][c] = 0

\* Run r is the one that the controller and pollTimer are of: an abort gets at
\* its interval and at all its polls.
Live(r) ==
  /\ device.controller = r /\ ~device.aborted /\ device.status = "awaiting_user"
  /\ \A i \in Intervals : intervals[i] = r => i = device.pollTimer
  /\ \A c \in Runs : polls[r][c] # 0 => c = r

RunGoverned(r) ==
  /\ pollers[r] \in {"unused", "requesting"} => Dead(r)
  /\ pollers[r] = "requesting" =>
       device.controller = r /\ ~device.aborted /\ device.status = "executing"
  /\ pollers[r] = "polling" => Live(r) \/ Dead(r)

PollIInv == PollTypes /\ \A r \in Runs : RunGoverned(r)

\* What NoPollAfterAbort says of a step.
PollsUnaborted == \A r, c \in Runs : polls'[r][c] > polls[r][c] => ~device.aborted

LEMMA DeviceNumbers == 0 \notin Runs /\ 0 \notin Intervals
BY DEF Runs, Intervals

LEMMA ExecutePolls ==
  ASSUME PollIInv, NEW r \in Runs, Execute(r)
  PROVE  PollIInv' /\ PollsUnaborted
<1>1. PollTypes'
  BY DEF Execute, PollIInv, PollTypes, Devices
<1>2. ASSUME NEW q \in Runs PROVE RunGoverned(q)'
  <2>1. /\ device.status \in {"idle", "error"} /\ pollers[r] = "unused"
        /\ device'.controller = r /\ ~device'.aborted /\ device'.status = "executing"
        /\ pollers' = [pollers EXCEPT ![r] = "requesting"] /\ UNCHANGED <<intervals, polls>>
    <3>1. pollers[r] = "unused" <=> r <= r
      BY DEF Execute
    <3>. QED BY <3>1 DEF Execute, PollIInv, PollTypes, Runs
  <2>2. pollers'[q] = IF q = r THEN "requesting" ELSE pollers[q]
    BY <2>1 DEF PollIInv, PollTypes
  <2>. QED BY <2>1, <2>2 DEF PollIInv, RunGoverned, Dead, Live
<1>3. PollsUnaborted
  BY DEF Execute, PollIInv, PollTypes, PollsUnaborted
<1>. QED BY <1>1, <1>2, <1>3 DEF PollIInv

LEMMA StartPolls ==
  ASSUME PollIInv, NEW r \in Runs, StartPolling(r)
  PROVE  PollIInv' /\ PollsUnaborted
<1>1. PICK k \in Intervals :
        /\ pollers[r] = "requesting" /\ created' = k
        /\ intervals' = [intervals EXCEPT ![k] = r]
        /\ device' = [device EXCEPT !.status = "awaiting_user", !.pollTimer = k]
        /\ pollers' = [pollers EXCEPT ![r] = "polling"]
        /\ polls' = [polls EXCEPT ![r][r] = 1]
  BY DEF StartPolling, SetInterval, Intervals
<1>2. PollTypes'
  BY <1>1 DEF PollIInv, PollTypes, Devices
<1>3. ASSUME NEW q \in Runs PROVE RunGoverned(q)'
  BY <1>1 DEF PollIInv, PollTypes, RunGoverned, Dead, Live
<1>4. PollsUnaborted
  BY <1>1 DEF PollIInv, PollTypes, RunGoverned, PollsUnaborted
<1>. QED BY <1>2, <1>3, <1>4 DEF PollIInv

\* An expiry changes nothing that is governed.
LEMMA ExpirePolls ==
  ASSUME PollIInv, NEW r \in Runs, Expire(r)
  PROVE  PollIInv' /\ PollsUnaborted
<1>1. UNCHANGED <<device, intervals, pollers, polls>>
  BY DEF Expire
<1>. QED BY <1>1 DEF PollIInv, PollTypes, RunGoverned, Dead, Live, PollsUnaborted

LEMMA AuthorizationPolls ==
  ASSUME PollIInv, NEW r \in Runs, AuthorizationFails(r)
  PROVE  PollIInv' /\ PollsUnaborted
<1>1. /\ pollers[r] = "requesting" /\ intervals' = Cleared(device.pollTimer)
      /\ device' = [device EXCEPT !.status = "error", !.pollTimer = 0]
      /\ pollers' = [pollers EXCEPT ![r] = "ended"] /\ UNCHANGED polls
  BY DEF AuthorizationFails
<1>2. PollTypes'
  BY <1>1 DEF Cleared, PollIInv, PollTypes, Devices
<1>3. ASSUME NEW q \in Runs PROVE RunGoverned(q)'
  BY <1>1, DeviceNumbers DEF Cleared, PollIInv, PollTypes, RunGoverned, Dead, Live
<1>. QED BY <1>1, <1>2, <1>3 DEF PollIInv, PollTypes, PollsUnaborted

\* What a turn of run r may do that ends it, or that comes when it has ended.
Ends(r) ==
  /\ device' \in Devices
  /\ device'.controller = device.controller /\ device'.aborted = device.aborted
  /\ IF pollers[r] = "polling" THEN pollers' = [pollers EXCEPT ![r] = "ended"]
     ELSE /\ UNCHANGED pollers
          /\ device'.status = device.status /\ device'.pollTimer = device.pollTimer

LEMMA SettleEnds ==
  ASSUME PollIInv, NEW r \in Runs, Settle(r, "error")
  PROVE  Ends(r)
<1>1. CASE pollers[r] # "polling"
  <2>1. device' = device /\ UNCHANGED pollers
    BY <1>1 DEF Settle
  <2>. QED BY <1>1, <2>1 DEF Ends, PollIInv, PollTypes
<1>2. CASE pollers[r] = "polling"
  <2>1. /\ device' = [device EXCEPT !.status = "error", !.pollTimer = 0]
        /\ pollers' = [pollers EXCEPT ![r] = "ended"] /\ device \in Devices
    BY <1>2 DEF Settle, PollIInv, PollTypes
  <2>2. /\ device' \in Devices
        /\ device'.controller = device.controller /\ device'.aborted = device.aborted
    BY <2>1 DEF Devices
  <2>. QED BY <1>2, <2>1, <2>2 DEF Ends
<1>. QED BY <1>1, <1>2

\* Something woke run r, so that it is the live one if it has not ended; it
\* leaves no new interval and no new poll.
LEMMA EndsPolls ==
  ASSUME PollIInv, NEW r \in Runs, ~Dead(r), Ends(r),
         intervals' = Cleared(device.pollTimer), polls' \in [Runs -> [Runs -> Nat]],
         \A q, c \in Runs : polls'[q][c] <= polls[q][c]
  PROVE  PollIInv' /\ PollsUnaborted
<1>1. \A q, c \in Runs : /\ polls[q][c] = 0 => polls'[q][c] = 0
                         /\ ~(polls'[q][c] > polls[q][c])
  BY DEF PollIInv, PollTypes
<1>2. /\ intervals' \in [Intervals -> {0} \cup Runs]
      /\ \A k \in Intervals : intervals'[k] \in {0, intervals[k]}
  BY DEF Cleared, PollIInv, PollTypes
<1>3. \A q \in Runs : Dead(q) => Dead(q)'
  BY <1>1, <1>2, DeviceNumbers DEF Dead
<1>4. CASE pollers[r] # "polling"
  <2>1. UNCHANGED pollers /\ device'.status = device.status
        /\ device'.pollTimer = device.pollTimer /\ device' \in Devices
        /\ device'.controller = device.controller /\ device'.aborted = device.aborted
    BY <1>4 DEF Ends
  <2>2. PollTypes'
    BY <1>2, <2>1 DEF PollIInv, PollTypes
  <2>3. ASSUME NEW q \in Runs, Live(q) PROVE Live(q)'
    BY <1>1, <1>2, <2>1, <2>3, DeviceNumbers DEF Live
  <2>4. \A q \in Runs : RunGoverned(q)'
    BY <1>3, <2>1, <2>3 DEF PollIInv, RunGoverned
  <2>. QED BY <1>1, <2>2, <2>4 DEF PollIInv, PollsUnaborted
<1>5. CASE pollers[r] = "polling"
  <2>1. /\ pollers' = [pollers EXCEPT ![r] = "ended"] /\ device' \in Devices
        /\ device.controller = r /\ device.status = "awaiting_user"
    BY <1>5 DEF Ends, PollIInv, RunGoverned, Live
  <2>2. PollTypes'
    BY <1>2, <2>1 DEF PollIInv, PollTypes
  <2>3. \A q \in Runs : RunGoverned(q)'
    BY <1>3, <2>1 DEF PollIInv, PollTypes, RunGoverned, Live
  <2>. QED BY <1>1, <2>2, <2>3 DEF PollIInv, PollsUnaborted
<1>. QED BY <1>4, <1>5

\* The interval of a run: it polls, or it finds the flow over or aborted.
LEMMA PollPolls ==
  ASSUME PollIInv, NEW i \in Intervals, Poll(i)
  PROVE  PollIInv' /\ PollsUnaborted
<1>. DEFINE r == intervals[i]
            c == device.controller
<1>1. r \in Runs /\ ~Dead(r)
  BY DEF Poll, PollIInv, PollTypes, Dead
<1>2. CASE PollsOn(r)
  <2>1. /\ ~device.aborted /\ polls' = [polls EXCEPT ![r][c] = @ + 1]
        /\ UNCHANGED <<device, intervals, pollers>>
    BY <1>2 DEF Poll, PollsOn
  <2>2. polls' \in [Runs -> [Runs -> Nat]]
    <3>1. polls \in [Runs -> [Runs -> Nat]]
      BY DEF PollIInv, PollTypes
    <3>2. ASSUME NEW f \in [Runs -> Nat], NEW d PROVE [f EXCEPT ![d] = @ + 1] \in [Runs -> Nat]
      <4>. DEFINE g == [f EXCEPT ![d] = @ + 1]
      <4>1. \A x \in Runs : g[x] \in Nat
        OBVIOUS
      <4>. QED BY <4>1
    <3>3. [polls[r] EXCEPT ![c] = @ + 1] \in [Runs -> Nat]
      BY <1>1, <3>1, <3>2
    <3>. QED BY <2>1, <3>1, <3>3
  <2>3. \A q, d \in Runs : q # r \/ d # c => polls'[q][d] = polls[q][d]
    BY <2>1, <1>1 DEF PollIInv, PollTypes
  <2>4. ASSUME NEW q \in Runs PROVE RunGoverned(q)'
    BY <1>1, <2>1, <2>3 DEF PollIInv, PollTypes, RunGoverned, Dead, Live
  <2>. QED BY <2>1, <2>2, <2>4 DEF PollIInv, PollTypes, PollsUnaborted
<1>3. CASE ~PollsOn(r)
  <2>1. intervals' = Cleared(device.pollTimer) /\ Settle(r, "error") /\ UNCHANGED polls
    BY <1>3 DEF Poll
  <2>2. polls' \in [Runs -> [Runs -> Nat]] /\ \A q, d \in Runs : polls'[q][d] <= polls[q][d]
    BY <2>1 DEF PollIInv, PollTypes
  <2>. HIDE DEF r
  <2>. QED BY <1>1, <2>1, <2>2, SettleEnds, EndsPolls
<1>. QED BY <1>2, <1>3

\* The answer to a poll: it was sent, so its run is not dead.
LEMMA AnswerPolls ==
  ASSUME PollIInv, NEW r \in Runs, NEW c \in Runs, Answer(r, c)
  PROVE  PollIInv' /\ PollsUnaborted
<1>1. polls[r][c] > 0 /\ polls' = [polls EXCEPT ![r][c] = @ - 1]
  BY DEF Answer, AnswerTokens, AnswerPending, SlowDown, AnswerRefused, Answered
<1>2. polls \in [Runs -> [Runs -> Nat]] /\ device \in Devices
      /\ pollers \in [Runs -> {"unused", "requesting", "polling", "ended"}]
      /\ intervals \in [Intervals -> {0} \cup Runs]
  BY DEF PollIInv, PollTypes
<1>3. ~Dead(r) /\ pollers[r] \notin {"unused", "requesting"}
  BY <1>1, <1>2 DEF Dead, PollIInv, RunGoverned
<1>4. /\ polls' \in [Runs -> [Runs -> Nat]]
      /\ \A q, d \in Runs : polls'[q][d] <= polls[q][d]
  <2>1. [polls[r] EXCEPT ![c] = @ - 1] \in [Runs -> Nat]
    BY <1>1, <1>2
  <2>. QED BY <1>1, <1>2, <2>1
<1>5. CASE AnswerTokens(r, c)
  <2>1. intervals' = Cleared(device.pollTimer)
    BY <1>5 DEF AnswerTokens
  <2>2. Ends(r)
    <3>1. CASE pollers[r] = "polling"
      <4>1. /\ device' = [device EXCEPT !.status = "completed", !.tokens = r, !.pollTimer = 0]
            /\ pollers' = [pollers EXCEPT ![r] = "ended"]
        BY <1>5, <3>1 DEF AnswerTokens
      <4>2. /\ device' \in Devices /\ device'.controller = device.controller
            /\ device'.aborted = device.aborted
        BY <1>2, <4>1 DEF Devices
      <4>. QED BY <3>1, <4>1, <4>2 DEF Ends
    <3>2. CASE pollers[r] # "polling"
      <4>1. device' = [device EXCEPT !.tokens = r] /\ UNCHANGED pollers
        BY <1>5, <3>2 DEF AnswerTokens
      <4>2. /\ device' \in Devices /\ device'.controller = device.controller
            /\ device'.aborted = device.aborted /\ device'.status = device.status
            /\ device'.pollTimer = device.pollTimer
        BY <1>2, <4>1 DEF Devices
      <4>. QED BY <3>2, <4>1, <4>2 DEF Ends
    <3>. QED BY <3>1, <3>2
  <2>. QED BY <1>3, <1>4, <2>1, <2>2, EndsPolls
<1>6. CASE AnswerRefused(r, c)
  <2>1. intervals' = Cleared(device.pollTimer) /\ Settle(r, "error")
    BY <1>6 DEF AnswerRefused
  <2>. QED BY <1>3, <1>4, <2>1, SettleEnds, EndsPolls
<1>7. \A q, d \in Runs : /\ polls[q][d] = 0 => polls'[q][d] = 0
                         /\ ~(polls'[q][d] > polls[q][d])
  BY <1>2, <1>4
<1>8. CASE AnswerPending(r, c)
  <2>1. UNCHANGED <<device, intervals, pollers>>
    BY <1>8 DEF AnswerPending
  <2>2. \A q \in Runs : RunGoverned(q)'
    BY <1>7, <2>1 DEF PollIInv, RunGoverned, Dead, Live
  <2>. QED BY <1>2, <1>4, <1>7, <2>1, <2>2 DEF PollIInv, PollTypes, PollsUnaborted
\* The new interval is the only one of the live run, if r is the live run.
<1>9. CASE SlowDown(r, c)
  <2>1. PICK k \in Intervals :
          /\ intervals' = [Cleared(device.pollTimer) EXCEPT ![k] = r]
          /\ device' = [device EXCEPT !.pollTimer = k] /\ UNCHANGED pollers
    BY <1>9 DEF SlowDown, SetInterval
  <2>2. /\ device' \in Devices /\ device'.controller = device.controller
        /\ device'.aborted = device.aborted /\ device'.status = device.status
        /\ device'.pollTimer = k
    BY <1>2, <2>1 DEF Devices
  <2>3. /\ intervals' \in [Intervals -> {0} \cup Runs]
        /\ \A i \in Intervals : i # k => intervals'[i] \in {0, intervals[i]}
        /\ device.pollTimer \in Intervals \ {k} => intervals'[device.pollTimer] = 0
        /\ intervals'[k] = r
    BY <1>2, <2>1, DeviceNumbers DEF Cleared
  <2>4. ASSUME NEW q \in Runs PROVE RunGoverned(q)'
    <3>1. ASSUME Dead(q) PROVE Dead(q)'
      BY <1>3, <1>7, <2>3, <3>1, DeviceNumbers DEF Dead
    <3>2. ASSUME Live(q) PROVE Live(q)'
      <4>1. ASSUME NEW i \in Intervals, intervals'[i] = q PROVE i = k
        BY <2>3, <3>2, <4>1, DeviceNumbers DEF Live
      <4>. QED BY <1>7, <2>2, <3>2, <4>1 DEF Live
    <3>. QED BY <2>1, <2>2, <3>1, <3>2 DEF PollIInv, RunGoverned
  <2>. QED BY <1>2, <1>4, <1>7, <2>1, <2>2, <2>3, <2>4 DEF PollIInv, PollTypes, PollsUnaborted
<1>. QED BY <1>5, <1>6, <1>8, <1>9 DEF Answer

\* abort() leaves the live run dead: it clears its interval and rejects its polls.
LEMMA InterruptPolls ==
  ASSUME PollIInv, NEW tokens \in {0} \cup Runs, Interrupt("idle", tokens)
  PROVE  PollIInv' /\ PollsUnaborted
<1>. DEFINE c == device.controller
            requesting == c # 0 /\ pollers[c] = "requesting"
<1>1. /\ intervals' = Cleared(device.pollTimer)
      /\ device' = [status |-> IF requesting THEN "error" ELSE "idle", tokens |-> tokens,
                    controller |-> c, aborted |-> c # 0, pollTimer |-> 0]
      /\ pollers' = IF requesting THEN [pollers EXCEPT ![c] = "ended"] ELSE pollers
      /\ polls' = IF c = 0 THEN polls ELSE [r \in Runs |-> [polls[r] EXCEPT ![c] = 0]]
  BY DEF Interrupt
<1>2. polls \in [Runs -> [Runs -> Nat]] /\ device \in Devices /\ c \in {0} \cup Runs
      /\ pollers \in [Runs -> {"unused", "requesting", "polling", "ended"}]
      /\ intervals \in [Intervals -> {0} \cup Runs]
  BY DEF PollIInv, PollTypes, Devices
<1>3. /\ polls' \in [Runs -> [Runs -> Nat]]
      /\ \A q, d \in Runs : /\ polls[q][d] = 0 \/ d = c => polls'[q][d] = 0
                            /\ ~(polls'[q][d] > polls[q][d])
  BY <1>1, <1>2, DeviceNumbers
<1>4. /\ intervals' \in [Intervals -> {0} \cup Runs]
      /\ \A i \in Intervals : intervals'[i] \in {0, intervals[i]}
      /\ device.pollTimer \in Intervals => intervals'[device.pollTimer] = 0
  BY <1>1, <1>2, DeviceNumbers DEF Cleared
<1>5. PollTypes'
  BY <1>1, <1>2, <1>3, <1>4 DEF PollTypes, Devices
<1>6. ASSUME NEW q \in Runs, Dead(q) \/ Live(q) PROVE Dead(q)'
  BY <1>3, <1>4, <1>6, DeviceNumbers DEF Dead, Live
<1>7. \A q \in Runs : pollers'[q] # "requesting" /\
                      (pollers'[q] = pollers[q] \/ pollers'[q] = "ended")
  BY <1>1, <1>2, DeviceNumbers DEF PollIInv, RunGoverned
<1>8. \A q \in Runs : RunGoverned(q)'
  BY <1>6, <1>7 DEF PollIInv, RunGoverned
<1>. QED BY <1>3, <1>5, <1>8 DEF PollIInv, PollsUnaborted

LEMMA PollInit == PollingInit => PollIInv
<1>. SUFFICES ASSUME PollingInit PROVE PollIInv
  OBVIOUS
<1>1. PollTypes
  BY DEF PollingInit, PollTypes, Devices
<1>2. \A r \in Runs : RunGoverned(r)
  BY DeviceNumbers DEF PollingInit, RunGoverned, Dead
<1>. QED BY <1>1, <1>2 DEF PollIInv

LEMMA PollNext == PollIInv /\ [PollingNext]_pollingVars => PollIInv' /\ PollsUnaborted
<1>. SUFFICES ASSUME PollIInv, [PollingNext]_pollingVars PROVE PollIInv' /\ PollsUnaborted
  OBVIOUS
<1>1. CASE \E r \in Runs : Execute(r) \/ StartPolling(r) \/ AuthorizationFails(r) \/ Expire(r)
  BY <1>1, ExecutePolls, StartPolls, AuthorizationPolls, ExpirePolls
<1>2. CASE \E i \in Intervals : Poll(i)
  BY <1>2, PollPolls
<1>3. CASE \E r, c \in Runs : Answer(r, c)
  BY <1>3, AnswerPolls
<1>4. CASE Abort \/ Reset
  <2>1. device.tokens \in {0} \cup Runs
    BY DEF PollIInv, PollTypes, Devices
  <2>. QED BY <1>4, <2>1, InterruptPolls DEF Abort, Reset
<1>5. CASE UNCHANGED pollingVars
  <2>1. UNCHANGED <<device, intervals, pollers, polls>>
    BY <1>5 DEF pollingVars
  <2>. QED BY <2>1 DEF PollIInv, PollTypes, RunGoverned, Dead, Live, PollsUnaborted
<1>. QED BY <1>1, <1>2, <1>3, <1>4, <1>5 DEF PollingNext

\* pollForToken and abort(): for any number of runs, intervals and late answers
\* no poll is sent for an executor that was aborted.
THEOREM NoPolls == PollingSpec => NoPollAfterAbort
<1>1. PollIInv /\ [PollingNext]_pollingVars => [PollsUnaborted]_pollingVars
  BY PollNext
<1>2. [][PollsUnaborted]_pollingVars => NoPollAfterAbort
  BY PTL DEF PollsUnaborted, NoPollAfterAbort
<1>. QED BY <1>1, <1>2, PollInit, PollNext, PTL DEF PollingSpec

\* As long as no second run was started, a late slow_down may start an interval
\* again, but there is never more than one, and pollTimer refers to it: the interval
\* that PollingStops waits for is the one that the next end clears.
OneTimer ==
  (\A r \in Runs \ {1} : pollers[r] = "unused") =>
    \A i \in Intervals : intervals[i] # 0 => i = device.pollTimer

LEMMA NextTimer == PollIInv /\ OneTimer /\ [PollingNext]_pollingVars => OneTimer'
<1>. SUFFICES ASSUME PollIInv, OneTimer, [PollingNext]_pollingVars,
                     \A r \in Runs \ {1} : pollers'[r] = "unused"
              PROVE  \A i \in Intervals : intervals'[i] # 0 => i = device'.pollTimer
  BY DEF OneTimer
<1>1. /\ device \in Devices /\ intervals \in [Intervals -> {0} \cup Runs]
      /\ pollers \in [Runs -> {"unused", "requesting", "polling", "ended"}]
  BY DEF PollIInv, PollTypes
<1>2. ASSUME pollers' = pollers \/ \E r \in Runs, w \in {"requesting", "polling", "ended"} :
                                     pollers' = [pollers EXCEPT ![r] = w]
      PROVE  \A i \in Intervals : intervals[i] # 0 => i = device.pollTimer
  <2>1. \A r \in Runs \ {1} : pollers[r] = "unused"
    BY <1>1, <1>2
  <2>. QED BY <2>1 DEF OneTimer
<1>3. ASSUME pollers' = pollers \/ \E r \in Runs, w \in {"requesting", "polling", "ended"} :
                                     pollers' = [pollers EXCEPT ![r] = w],
             intervals' = Cleared(device.pollTimer)
      PROVE  \A i \in Intervals : intervals'[i] = 0
  <2>1. \A i \in Intervals : intervals[i] # 0 => i = device.pollTimer
    BY <1>2, <1>3
  <2>. QED BY <1>1, <1>3, <2>1, DeviceNumbers DEF Cleared
<1>4. ASSUME NEW r \in Runs, Settle(r, "error"), intervals' = Cleared(device.pollTimer)
      PROVE  \A i \in Intervals : intervals'[i] = 0
  <2>1. pollers' = pollers \/ pollers' = [pollers EXCEPT ![r] = "ended"]
    BY <1>4 DEF Settle
  <2>. QED BY <1>3, <1>4, <2>1
<1>5. ASSUME NEW r \in Runs,
             Execute(r) \/ StartPolling(r) \/ AuthorizationFails(r) \/ Expire(r)
      PROVE  \A i \in Intervals : intervals'[i] # 0 => i = device'.pollTimer
  <2>1. CASE Execute(r)
    <3>1. /\ pollers' = [pollers EXCEPT ![r] = "requesting"]
          /\ UNCHANGED intervals /\ device'.pollTimer = device.pollTimer
      BY <1>1, <2>1 DEF Execute, Devices
    <3>. QED BY <1>2, <3>1
  <2>2. CASE StartPolling(r)
    <3>1. PICK k \in Intervals :
            /\ pollers[r] = "requesting" /\ pollers' = [pollers EXCEPT ![r] = "polling"]
            /\ intervals' = [intervals EXCEPT ![k] = r]
            /\ device' = [device EXCEPT !.status = "awaiting_user", !.pollTimer = k]
      BY <2>2 DEF StartPolling, SetInterval, Intervals
    <3>2. \A q \in Runs : pollers[q] \in {"unused", "requesting"}
      BY <1>1, <3>1
    <3>3. \A i \in Intervals : intervals[i] = 0
      BY <1>1, <3>2 DEF PollIInv, RunGoverned, Dead
    <3>4. device'.pollTimer = k
      BY <1>1, <3>1 DEF Devices
    <3>. QED BY <1>1, <3>1, <3>3, <3>4
  <2>3. CASE AuthorizationFails(r)
    BY <1>3, <2>3 DEF AuthorizationFails
  <2>4. CASE Expire(r)
    BY <1>2, <2>4 DEF Expire
  <2>. QED BY <1>5, <2>1, <2>2, <2>3, <2>4
<1>6. ASSUME NEW i \in Intervals, Poll(i)
      PROVE  \A j \in Intervals : intervals'[j] # 0 => j = device'.pollTimer
  <2>1. CASE UNCHANGED <<device, intervals, pollers>>
    BY <1>2, <2>1
  <2>2. CASE /\ intervals' = Cleared(device.pollTimer) /\ Settle(intervals[i], "error")
             /\ intervals[i] # 0
    BY <1>1, <1>4, <2>2
  <2>. QED BY <1>6, <2>1, <2>2 DEF Poll
<1>7. ASSUME NEW r \in Runs, NEW c \in Runs, Answer(r, c)
      PROVE  \A i \in Intervals : intervals'[i] # 0 => i = device'.pollTimer
  <2>1. CASE AnswerTokens(r, c)
    <3>1. /\ intervals' = Cleared(device.pollTimer)
          /\ pollers' = pollers \/ pollers' = [pollers EXCEPT ![r] = "ended"]
      BY <2>1 DEF AnswerTokens
    <3>. QED BY <1>3, <3>1
  <2>2. CASE AnswerPending(r, c)
    BY <1>2, <2>2 DEF AnswerPending
  <2>3. CASE SlowDown(r, c)
    <3>1. PICK k \in Intervals :
            /\ intervals' = [Cleared(device.pollTimer) EXCEPT ![k] = r]
            /\ device' = [device EXCEPT !.pollTimer = k] /\ UNCHANGED pollers
      BY <2>3 DEF SlowDown, SetInterval
    <3>2. \A i \in Intervals : intervals[i] # 0 => i = device.pollTimer
      BY <1>2, <3>1
    <3>3. \A i \in Intervals : i # k => intervals'[i] = 0
      BY <1>1, <3>1, <3>2, DeviceNumbers DEF Cleared
    <3>4. device'.pollTimer = k
      BY <1>1, <3>1 DEF Devices
    <3>. QED BY <3>3, <3>4
  <2>4. CASE AnswerRefused(r, c)
    BY <1>4, <2>4 DEF AnswerRefused
  <2>. QED BY <1>7, <2>1, <2>2, <2>3, <2>4 DEF Answer
<1>8. CASE Abort \/ Reset
  <2>1. /\ intervals' = Cleared(device.pollTimer)
        /\ pollers' = pollers \/ /\ device.controller # 0
                                 /\ pollers' = [pollers EXCEPT ![device.controller] = "ended"]
    BY <1>8 DEF Abort, Reset, Interrupt
  <2>2. device.controller \in {0} \cup Runs
    BY <1>1 DEF Devices
  <2>. QED BY <1>3, <2>1, <2>2
<1>9. CASE UNCHANGED pollingVars
  BY <1>2, <1>9 DEF pollingVars
<1>. QED BY <1>5, <1>6, <1>7, <1>8, <1>9 DEF PollingNext

\* What is left of PollingStops to fairness is that one interval, which polls until
\* it finds its run expired (device-code.ts:229-300).
THEOREM KeepsOneTimer == PollingSpec => []OneTimer
<1>1. PollingInit => OneTimer
  BY DEF PollingInit, OneTimer
<1>. QED BY <1>1, PollInit, PollNext, NextTimer, PTL DEF PollingSpec

-----------------------------------------------------------------------------
(* The first executor *)

LoginNames == {0} \cup Logins

LiveStates ==
  [status: {"idle", "started", "authorizing", "exchanging", "completed", "error"},
   param: LoginNames, verifier: LoginNames, tokens: LoginNames, valid: BOOLEAN]

Requests == [code: LoginNames, verifier: LoginNames, signal: LoginNames]

LoginStates ==
  [at: {"unused", "digest", "listening", "exchanging", "ended"}, handle: LoginNames,
   request: Requests]

LiveTypes ==
  /\ live \in [state: LiveStates, signal: LoginNames, aborted: BOOLEAN]
  /\ logins \in [Logins -> LoginStates]
  /\ popup \in [by: LoginNames, at: LoginNames]
  /\ inbox \in [code: LoginNames, ok: BOOLEAN]

\* The state parameter and the verifier are written together.
LiveIInv == LiveTypes /\ live.state.param = live.state.verifier /\ ExchangesOwnCode

LEMMA LiveStarts == LiveInit => LiveIInv
<1>. SUFFICES ASSUME LiveInit PROVE LiveIInv
  OBVIOUS
<1>1. Fresh("idle") \in LiveStates /\ NoRequest \in Requests
  BY DEF Fresh, LiveStates, LoginNames, NoRequest, Requests
<1>. QED BY <1>1 DEF LiveInit, LiveIInv, LiveTypes, LoginStates, LoginNames, Fresh, NoRequest,
                     ExchangesOwnCode

\* One login goes on, and the state with it.
LEMMA OneLogin ==
  ASSUME LiveIInv, NEW r \in Logins, NEW n \in LoginStates, n.request.code = n.request.verifier,
         logins' = [logins EXCEPT ![r] = n],
         live' \in [state: LiveStates, signal: LoginNames, aborted: BOOLEAN],
         live'.state.param = live'.state.verifier,
         popup' \in [by: LoginNames, at: LoginNames], UNCHANGED inbox
  PROVE  LiveIInv'
BY DEF LiveIInv, LiveTypes, ExchangesOwnCode

LEMMA LoginStep ==
  ASSUME LiveIInv, NEW r \in Logins,
         Start(r) \/ Authorize(r) \/ DigestFails(r) \/ SeeClosed(r) \/ Exchanged(r)
  PROVE  LiveIInv'
<1>0. /\ live \in [state: LiveStates, signal: LoginNames, aborted: BOOLEAN]
      /\ logins[r] \in LoginStates /\ logins \in [Logins -> LoginStates]
      /\ popup \in [by: LoginNames, at: LoginNames]
      /\ live.state.param = live.state.verifier
      /\ logins[r].request.code = logins[r].request.verifier
      /\ r \in LoginNames /\ 0 \in LoginNames
  BY DEF LiveIInv, LiveTypes, ExchangesOwnCode, LoginNames
<1>. DEFINE At(at) == [logins[r] EXCEPT !.at = at]
<1>1. \A at \in {"digest", "ended"} :
        At(at) \in LoginStates /\ At(at).request.code = At(at).request.verifier
  BY <1>0 DEF LoginStates
<1>2. CASE Start(r)
  <2>1. Fresh("started") \in LiveStates /\ Fresh("started").param = Fresh("started").verifier
    BY <1>0 DEF Fresh, LiveStates
  <2>2. /\ live' = [state |-> Fresh("started"), signal |-> r, aborted |-> FALSE]
        /\ logins' = [logins EXCEPT ![r] = At("digest")] /\ UNCHANGED <<popup, inbox>>
    BY <1>2 DEF Start
  <2>. HIDE DEF At
  <2>. QED BY <1>0, <1>1, <2>1, <2>2, OneLogin
<1>3. CASE Authorize(r)
  <2>1. /\ live' = [live EXCEPT !.state.param = r, !.state.verifier = r,
                                !.state.status = "authorizing"]
        /\ UNCHANGED inbox
    BY <1>3 DEF Authorize
  <2>2. /\ live' \in [state: LiveStates, signal: LoginNames, aborted: BOOLEAN]
        /\ live'.state.param = live'.state.verifier
    BY <1>0, <2>1 DEF LiveStates
  <2>3. CASE /\ popup' = [by |-> IF popup.by = 0 THEN r ELSE popup.by, at |-> r]
             /\ logins' = [logins EXCEPT ![r].at = "listening", ![r].handle = popup'.by]
    <3>. DEFINE n == [logins[r] EXCEPT !.at = "listening", !.handle = popup'.by]
    <3>1. popup' \in [by: LoginNames, at: LoginNames] /\ popup'.by \in LoginNames
      BY <1>0, <2>3
    <3>2. n \in LoginStates /\ n.request.code = n.request.verifier
      BY <1>0, <3>1 DEF LoginStates
    <3>3. logins' = [logins EXCEPT ![r] = n]
      BY <1>0, <2>3
    <3>. HIDE DEF n
    <3>. QED BY <2>1, <2>2, <3>1, <3>2, <3>3, OneLogin
  <2>4. CASE logins' = [logins EXCEPT ![r].at = "ended"] /\ UNCHANGED popup
    <3>1. logins' = [logins EXCEPT ![r] = At("ended")]
      BY <2>4
    <3>. HIDE DEF At
    <3>. QED BY <1>0, <1>1, <2>1, <2>2, <2>4, <3>1, OneLogin
  <2>. QED BY <1>3, <2>3, <2>4 DEF Authorize
<1>4. CASE DigestFails(r) \/ SeeClosed(r)
  <2>1. /\ logins' = [logins EXCEPT ![r] = At("ended")] /\ UNCHANGED <<popup, inbox>>
        /\ \E status \in {"error", "idle"} :
             live' \in {live, [live EXCEPT !.state.status = status]}
    BY <1>4 DEF DigestFails, SeeClosed
  <2>2. /\ live' \in [state: LiveStates, signal: LoginNames, aborted: BOOLEAN]
        /\ live'.state.param = live'.state.verifier
    BY <1>0, <2>1 DEF LiveStates
  <2>. HIDE DEF At
  <2>. QED BY <1>0, <1>1, <2>1, <2>2, OneLogin
<1>5. CASE Exchanged(r)
  <2>. DEFINE n == [logins[r] EXCEPT !.at = "ended", !.request = NoRequest]
  <2>1. logins' = [logins EXCEPT ![r] = n] /\ UNCHANGED <<popup, inbox>>
    BY <1>0, <1>5 DEF Exchanged
  <2>2. n \in LoginStates /\ n.request.code = n.request.verifier
    BY <1>0 DEF LoginStates, Requests, NoRequest
  <2>3. logins[r].request.code \in LoginNames
    BY <1>0 DEF LoginStates, Requests
  <2>4. /\ live' \in [state: LiveStates, signal: LoginNames, aborted: BOOLEAN]
        /\ live'.state.param = live'.state.verifier
    <3>1. \/ live' = [live EXCEPT !.state.tokens = logins[r].request.code,
                         !.state.status = "completed",
                         !.state.valid = (logins[r].request.code = live.state.param)]
          \/ live' = [live EXCEPT !.state.status = "error"]
          \/ live' = live
      BY <1>5 DEF Exchanged, TokensReceived, NonceMatches
    <3>2. (logins[r].request.code = live.state.param) \in BOOLEAN
      OBVIOUS
    <3>3. CASE live' = live
      BY <1>0, <3>3
    <3>4. CASE live' = [live EXCEPT !.state.status = "error"]
      BY <1>0, <3>4 DEF LiveStates
    <3>5. ASSUME NEW valid \in BOOLEAN, NEW code \in LoginNames,
                 live' = [live EXCEPT !.state.tokens = code, !.state.status = "completed",
                                      !.state.valid = valid]
          PROVE  /\ live' \in [state: LiveStates, signal: LoginNames, aborted: BOOLEAN]
                 /\ live'.state.param = live'.state.verifier
      BY <1>0, <3>5 DEF LiveStates
    <3>. QED BY <2>3, <3>1, <3>2, <3>3, <3>4, <3>5
  <2>. HIDE DEF n
  <2>. QED BY <1>0, <2>1, <2>2, <2>4, OneLogin
<1>. QED BY <1>2, <1>3, <1>4, <1>5

\* The code of a message that is accepted is the executor's present login, and
\* so is the verifier that is sent with it.
LEMMA MessageStep ==
  ASSUME LiveIInv, HandleMessage
  PROVE  LiveIInv'
<1>. DEFINE ended(r) == [logins[r] EXCEPT !.at = "ended"]
            sent == [code |-> inbox.code, verifier |-> live.state.verifier,
                     signal |-> live.signal]
            asking(r) == [logins[r] EXCEPT !.at = "exchanging", !.request = sent]
<1>1. /\ inbox' = [code |-> 0, ok |-> FALSE]
      /\ \E status \in {"exchanging", "error"} :
           live' \in {live, [live EXCEPT !.state.status = status]}
      /\ popup' \in {popup, [by |-> 0, at |-> 0]}
  BY DEF HandleMessage
<1>2. /\ live \in [state: LiveStates, signal: LoginNames, aborted: BOOLEAN]
      /\ logins \in [Logins -> LoginStates] /\ inbox.code \in LoginNames
      /\ popup \in [by: LoginNames, at: LoginNames]
      /\ live.state.param = live.state.verifier /\ 0 \in LoginNames
      /\ live.state.verifier \in LoginNames
  BY DEF LiveIInv, LiveTypes, LoginNames, LiveStates
<1>3. /\ live' \in [state: LiveStates, signal: LoginNames, aborted: BOOLEAN]
      /\ live'.state.param = live'.state.verifier
  BY <1>1, <1>2 DEF LiveStates
<1>4. ASSUME NEW r \in Logins
      PROVE  /\ logins'[r] \in LoginStates
             /\ logins'[r].request.code = logins'[r].request.verifier
  <2>1. /\ logins[r] \in LoginStates
        /\ logins[r].request.code = logins[r].request.verifier
    BY <1>2 DEF LiveIInv, ExchangesOwnCode
  <2>2. ended(r) \in LoginStates /\ ended(r).request.code = ended(r).request.verifier
    BY <2>1 DEF LoginStates
  <2>3. CASE Accepts
    <3>1. sent \in Requests /\ sent.code = sent.verifier
      BY <1>2, <2>3 DEF Accepts, Requests
    <3>2. asking(r) \in LoginStates /\ asking(r).request = sent
      BY <2>1, <3>1 DEF LoginStates
    <3>3. logins'[r] \in {logins[r], ended(r), asking(r)}
      BY DEF HandleMessage
    <3>. HIDE DEF sent, ended, asking
    <3>. QED BY <2>1, <2>2, <3>1, <3>2, <3>3
  <2>4. CASE ~Accepts
    <3>1. logins'[r] \in {logins[r], ended(r)}
      BY <2>4 DEF HandleMessage
    <3>. QED BY <2>1, <2>2, <3>1
  <2>. QED BY <2>3, <2>4
<1>5. logins' \in [Logins -> LoginStates]
  BY <1>4 DEF HandleMessage
<1>. QED BY <1>1, <1>2, <1>3, <1>4, <1>5 DEF LiveIInv, LiveTypes, ExchangesOwnCode

LEMMA InterruptStep ==
  ASSUME LiveIInv, AbortLive \/ ResetLive
  PROVE  LiveIInv'
<1>1. /\ live \in [state: LiveStates, signal: LoginNames, aborted: BOOLEAN]
      /\ logins \in [Logins -> LoginStates] /\ 0 \in LoginNames
      /\ live.state.param = live.state.verifier
  BY DEF LiveIInv, LiveTypes, LoginNames
<1>2. PICK state \in LiveStates : state.param = state.verifier /\ Interrupts(state)
  <2>1. [live.state EXCEPT !.status = "idle"] \in LiveStates /\ Fresh("idle") \in LiveStates
    BY <1>1 DEF LiveStates, Fresh
  <2>. QED BY <1>1, <2>1 DEF AbortLive, ResetLive, Fresh, LiveStates
<1>3. /\ live' = [live EXCEPT !.state = state, !.aborted = (live.signal # 0)]
      /\ UNCHANGED <<popup, inbox>>
  BY <1>2 DEF Interrupts
<1>4. /\ live' \in [state: LiveStates, signal: LoginNames, aborted: BOOLEAN]
      /\ live'.state.param = live'.state.verifier
  <2>1. (live.signal # 0) \in BOOLEAN
    OBVIOUS
  <2>. QED BY <1>1, <1>2, <1>3, <2>1
<1>5. ASSUME NEW r \in Logins
      PROVE  /\ logins'[r] \in LoginStates
             /\ logins'[r].request.code = logins'[r].request.verifier
  <2>. DEFINE ended == [logins[r] EXCEPT !.at = "ended", !.request = NoRequest]
  <2>1. /\ logins[r] \in LoginStates
        /\ logins[r].request.code = logins[r].request.verifier
    BY <1>1 DEF LiveIInv, ExchangesOwnCode
  <2>2. ended \in LoginStates /\ ended.request.code = ended.request.verifier
    BY <1>1, <2>1 DEF LoginStates, Requests, NoRequest
  <2>3. logins'[r] \in {logins[r], ended}
    BY <1>2 DEF Interrupts
  <2>. QED BY <2>1, <2>2, <2>3
<1>6. logins' \in [Logins -> LoginStates]
  BY <1>2, <1>5 DEF Interrupts
<1>. QED BY <1>3, <1>4, <1>5, <1>6 DEF LiveIInv, LiveTypes, ExchangesOwnCode

LEMMA LiveSteps == LiveIInv /\ [LiveNext]_liveVars => LiveIInv'
<1>. SUFFICES ASSUME LiveIInv, [LiveNext]_liveVars PROVE LiveIInv'
  OBVIOUS
<1>1. CASE \E ok \in BOOLEAN : CallBack(ok)
  BY <1>1 DEF CallBack, LiveIInv, LiveTypes, ExchangesOwnCode
<1>2. CASE ClosePopup \/ UNCHANGED liveVars
  BY <1>2 DEF ClosePopup, liveVars, LiveIInv, LiveTypes, LoginNames, ExchangesOwnCode
<1>. QED BY <1>1, <1>2, LoginStep, MessageStep, InterruptStep DEF LiveNext

\* handleMessage (executor.ts:392): however logins of one executor overlap and
\* share its window, a code goes to the token endpoint with its own verifier.
THEOREM OwnCodes == LiveSpec => []ExchangesOwnCode
<1>1. LiveIInv => ExchangesOwnCode
  BY DEF LiveIInv
<1>. QED BY <1>1, LiveStarts, LiveSteps, PTL DEF LiveSpec

=============================================================================
