---------------------------- MODULE DevicePolling -----------------------------
(***************************************************************************)
(* The device flow's executor (flows/device-code.ts): execute() asks for a *)
(* device code and then polls the token endpoint from an interval timer,   *)
(* whose poll function is async: a poll may still be unanswered when the   *)
(* next one is sent, and be answered when its run has ended.  Runs share   *)
(* one pollTimer and one abort controller.                                 *)
(*                                                                         *)
(* One action is one turn of the event loop.                               *)
(***************************************************************************)
EXTENDS Naturals

CONSTANTS
  MaxRuns,       \* bound: calls of execute()
  MaxIntervals,  \* bound: interval timers created
  MaxPolls       \* bound: polls of a run under way

Runs == 1..MaxRuns
Intervals == 1..MaxIntervals

VARIABLES
  device,      \* the executor: status, tokens, abort controller, pollTimer
  intervals,   \* intervals[i]: the run whose poll it repeats; 0: none
  created,     \* intervals created
  pollers,     \* pollers[r]: where run r is
  polls,       \* polls[r][c]: polls of run r sent with the controller of run c
  expired      \* runs whose maxDuration is over

pollingVars == <<device, intervals, created, pollers, polls, expired>>

PollingInit ==
  /\ device = [status |-> "idle", tokens |-> 0, controller |-> 0, aborted |-> FALSE,
               pollTimer |-> 0]
  /\ intervals = [i \in Intervals |-> 0] /\ created = 0
  /\ pollers = [r \in Runs |-> "unused"]
  /\ polls = [r \in Runs |-> [c \in Runs |-> 0]]
  /\ expired = {}

\* clearInterval(this.pollTimer), which leaves pollTimer as it is.
Cleared(i) == IF i = 0 THEN intervals ELSE [intervals EXCEPT ![i] = 0]

\* reject or resolve, the rest of execute() and its finally block: nothing when
\* the run has ended before.
Settle(r, status) ==
  IF pollers[r] # "polling" THEN device' = device /\ UNCHANGED pollers
  ELSE /\ device' = [device EXCEPT !.status = status, !.pollTimer = 0]
       /\ pollers' = [pollers EXCEPT ![r] = "ended"]

SetInterval(r, others) ==
  /\ created + 1 \in Intervals
  /\ created' = created + 1
  /\ intervals' = [others EXCEPT ![created + 1] = r]

Execute(r) ==
  /\ device.status \in {"idle", "error"}
  /\ \A q \in Runs : pollers[q] = "unused" <=> r <= q
  /\ device' = [device EXCEPT !.status = "executing", !.tokens = 0, !.controller = r,
                              !.aborted = FALSE]
  /\ pollers' = [pollers EXCEPT ![r] = "requesting"]
  /\ UNCHANGED <<intervals, created, polls, expired>>

\* requestDeviceAuthorization, and pollForToken with its first poll.  No later run
\* can have taken the controller: the status is "executing".
StartPolling(r) ==
  /\ pollers[r] = "requesting"
  /\ SetInterval(r, intervals)
  /\ device' = [device EXCEPT !.status = "awaiting_user", !.pollTimer = created']
  /\ pollers' = [pollers EXCEPT ![r] = "polling"]
  /\ polls' = [polls EXCEPT ![r][r] = 1]
  /\ UNCHANGED expired

AuthorizationFails(r) ==
  /\ pollers[r] = "requesting"
  /\ device' = [device EXCEPT !.status = "error", !.pollTimer = 0]
  /\ intervals' = Cleared(device.pollTimer)
  /\ pollers' = [pollers EXCEPT ![r] = "ended"]
  /\ UNCHANGED <<created, polls, expired>>

Expire(r) ==
  /\ pollers[r] \notin {"unused", "requesting"} /\ r \notin expired
  /\ expired' = expired \cup {r}
  /\ UNCHANGED <<device, intervals, created, pollers, polls>>

\* Mutant: the abort signal is left to fetch.
PollsOn_Anyway(r) == r \notin expired

PollsOn(r) == r \notin expired /\ ~device.aborted

\* The interval calls poll.
Poll(i) ==
  LET r == intervals[i] IN
  /\ r # 0
  /\ \/ /\ PollsOn(r)
        /\ polls[r][device.controller] < MaxPolls
        /\ polls' = [polls EXCEPT ![r][device.controller] = @ + 1]
        /\ UNCHANGED <<device, intervals, pollers>>
     \/ /\ ~PollsOn(r)
        /\ intervals' = Cleared(device.pollTimer)
        /\ Settle(r, "error")
        /\ UNCHANGED polls
  /\ UNCHANGED <<created, expired>>

Answered(r, c) ==
  polls[r][c] > 0 /\ polls' = [polls EXCEPT ![r][c] = @ - 1]

\* The answers: tokens; authorization_pending, or a failure of the network;
\* slow_down; anything else.
AnswerTokens(r, c) ==
  /\ Answered(r, c)
  /\ intervals' = Cleared(device.pollTimer)
  /\ \/ /\ pollers[r] = "polling"
        /\ device' = [device EXCEPT !.status = "completed", !.tokens = r, !.pollTimer = 0]
        /\ pollers' = [pollers EXCEPT ![r] = "ended"]
     \/ /\ pollers[r] # "polling"
        /\ device' = [device EXCEPT !.tokens = r]
        /\ UNCHANGED pollers
  /\ UNCHANGED <<created, expired>>

AnswerPending(r, c) ==
  /\ Answered(r, c)
  /\ UNCHANGED <<device, intervals, created, pollers, expired>>

\* Mutant: the old interval is not cleared.
SlowDown_Keeps(r, c) ==
  /\ Answered(r, c)
  /\ SetInterval(r, intervals)
  /\ device' = [device EXCEPT !.pollTimer = created']
  /\ UNCHANGED <<pollers, expired>>

SlowDown(r, c) ==
  /\ Answered(r, c)
  /\ SetInterval(r, Cleared(device.pollTimer))
  /\ device' = [device EXCEPT !.pollTimer = created']
  /\ UNCHANGED <<pollers, expired>>

AnswerRefused(r, c) ==
  /\ Answered(r, c)
  /\ intervals' = Cleared(device.pollTimer)
  /\ Settle(r, "error")
  /\ UNCHANGED <<created, expired>>

\* abort(): the timer, then the controller; fetches that have its signal reject,
\* which ends a run that was requesting its device code and nothing else.
Interrupt(status, tokens) ==
  LET c == device.controller
      requesting == c # 0 /\ pollers[c] = "requesting"
  IN /\ intervals' = Cleared(device.pollTimer)
     /\ device' = [status |-> IF requesting THEN "error" ELSE status, tokens |-> tokens,
                   controller |-> c, aborted |-> c # 0, pollTimer |-> 0]
     /\ pollers' = IF requesting THEN [pollers EXCEPT ![c] = "ended"] ELSE pollers
     /\ polls' = IF c = 0 THEN polls ELSE [r \in Runs |-> [polls[r] EXCEPT ![c] = 0]]
     /\ UNCHANGED <<created, expired>>

Abort == device.status \in {"executing", "awaiting_user"} /\ Interrupt("idle", device.tokens)

Reset == Interrupt("idle", 0)

Answer(r, c) ==
  AnswerTokens(r, c) \/ AnswerPending(r, c) \/ SlowDown(r, c) \/ AnswerRefused(r, c)

PollingNext ==
  \/ \E r \in Runs : Execute(r) \/ StartPolling(r) \/ AuthorizationFails(r) \/ Expire(r)
  \/ \E i \in Intervals : Poll(i)
  \/ \E r, c \in Runs : Answer(r, c)
  \/ Abort \/ Reset

\* Some interval fires, some poll is answered, and time passes; whoever answers
\* owes no particular answer.
PollingFairness ==
  /\ WF_pollingVars(\E i \in Intervals : Poll(i))
  /\ WF_pollingVars(\E r \in Runs : Expire(r))
  /\ WF_pollingVars(\E r, c \in Runs : Answer(r, c))

PollingSpec == PollingInit /\ [][PollingNext]_pollingVars /\ PollingFairness

-----------------------------------------------------------------------------
(* Properties *)

\* Nothing is asked of the server for an executor that was aborted or reset, not
\* even by an interval that a late slow_down started and nothing refers to: every
\* poll looks at the abort signal (device-code.ts:231).
NoPollAfterAbort ==
  [][\A r, c \in Runs : polls'[r][c] > polls[r][c] => ~device.aborted]_pollingVars

\* An executor that is executed once stops polling in the end, also when a
\* slow_down is answered after the flow is over and starts an interval again:
\* the interval expires like the first.  (With a second execute() it need not:
\* pollTimer then refers to the new interval, and the old one is never cleared.)
PollingStops ==
  \/ <>(\E r \in Runs \ {1} : pollers[r] # "unused")
  \/ <>[](\A i \in Intervals : intervals[i] = 0)

=============================================================================
