----------------------------- MODULE FlowExecutor -----------------------------
(***************************************************************************)
(* The Looking Glass page and the flow executors it creates: runs of       *)
(* execute() that the browser's event loop interleaves, the login windows  *)
(* they open, the messages the callback page posts, Abort, Reset and the   *)
(* change of the selected flow.  What a flow does is Program, a sequence   *)
(* of the steps that FlowPrograms describes.                               *)
(*                                                                         *)
(* One action is one turn of the event loop.  Microtasks and the listeners *)
(* of one message run before the next turn: see Quiet.                     *)
(***************************************************************************)
EXTENDS Naturals, Sequences, FiniteSets

CONSTANTS
  Flows,          \* the flows there are
  Offers,         \* bound: the sets of them that the page may list
  NoFlow,         \* none is selected
  Program,        \* what the executor of a flow does
  Supported,      \* the flows createFlowExecutor returns an executor for
  RefreshFlow,    \* the flow whose executor needs a refresh token
  ScimFlows,      \* the flows whose executor is given the SCIM bearer token
  FreshFlows,     \* the flows whose execute() begins with createInitialState()
  Windows,        \* names of login windows
  NoWindow,
  ErrorWindow,    \* the window whose executors hear the messages about errors
  Ids,            \* identifiers an executor keeps: a user, a group, a member
  MaxRuns,        \* bound: calls of execute()
  MaxExecutors,   \* bound: executors created
  Limit,          \* bound: executors created while the page lists an offer
  MaxMail         \* bound: messages posted and not yet delivered

Runs == 1..MaxRuns
Executors == 1..MaxExecutors

Step ==
  [await: {"digest", "popup", "request", "fetch"}, window: Windows \cup {NoWindow},
   status: {"same", "executing", "awaiting_user"}, states: BOOLEAN,
   needs: SUBSET Ids, lacking: {"throw", "skip"}, bad: {"throw", "go"},
   gives: SUBSET (Ids \cup {"tokens", "refresh", "merged"}),
   creates: SUBSET Ids, deletes: SUBSET Ids]

\* The programs are sequences of steps, and no window is opened without
\* writing awaiting_user.
ASSUME ProgramAssumption ==
  /\ NoFlow \notin Flows /\ NoWindow \notin Windows /\ ErrorWindow \in Windows
  /\ MaxRuns \in Nat /\ MaxExecutors \in Nat /\ MaxMail \in Nat
  /\ Supported \subseteq Flows /\ ScimFlows \subseteq Flows
  /\ Offers \subseteq SUBSET Flows /\ Limit \in [Offers -> Executors]
  /\ DOMAIN Program = Flows
  /\ \A f \in Flows : /\ DOMAIN Program[f] = 1..Len(Program[f])
                      /\ Len(Program[f]) \in Nat
                      /\ \A k \in 1..Len(Program[f]) :
                           /\ Program[f][k] \in Step
                           /\ Program[f][k].await = "popup" =>
                                /\ Program[f][k].status = "awaiting_user"
                                /\ Program[f][k].window \in Windows

VARIABLES
  offered,     \* the flows the page lists: what the registry has loaded
  selected,    \* selectedFlow of the page
  scim,        \* whether selectedProtocol is SCIM
  current,     \* executorRef.current of useRealFlowExecutor; 0: none
  subscribed,  \* executors that have the page as a listener
  executors,   \* FlowExecutorBase objects
  runs,        \* calls of execute()
  shown,       \* the state the page shows
  saved,       \* storedRefreshToken: the run that obtained it, or 0
  bearer,      \* scimBearerToken: absent, asked for, there
  windows,     \* login windows by name
  mail,        \* messages posted to the page
  hearing,     \* runs that have yet to hear the first of them
  rejecting,   \* runs whose promise is rejected: microtasks to run
  server       \* what SCIM runs created on the server and did not delete

vars == <<offered, selected, scim, current, subscribed, executors, runs, shown, saved, bearer,
          windows, mail, hearing, rejecting, server>>

-----------------------------------------------------------------------------
(* FlowExecutorBase *)

InitialState ==
  [status |-> "idle", param |-> 0, tokens |-> 0, refresh |-> 0]

NewExecutor(f) ==
  [flow |-> f, state |-> InitialState, signal |-> 0, aborted |-> FALSE,
   known |-> [i \in Ids |-> 0]]

NewRun == [of |-> 0, pc |-> 0, at |-> "unused", signal |-> 0, login |-> 0,
           popup |-> 0, failed |-> FALSE]

NotShown == [of |-> 0, state |-> InitialState]

Quiet == hearing = {} /\ rejecting = {}

\* updateState of executor e, and its listeners.
Publish(e, x) ==
  /\ executors' = [executors EXCEPT ![e] = x]
  /\ shown' = IF e \in subscribed THEN [of |-> e, state |-> x.state] ELSE shown

Keeps(r, run) == runs' = [runs EXCEPT ![r] = run]

-----------------------------------------------------------------------------
(* A run of execute().  In a turn of the event loop, x is its executor and  *)
(* run its record, both with the writes of the turn so far; opened is what  *)
(* has become of the windows.                                              *)

\* Mutant: only the run ends.
Fail_Silent(r, run, x) == Publish(run.of, x) /\ Keeps(r, [run EXCEPT !.at = "failed"])

\* The catch block: whatever was thrown, the status becomes "error".
Fail(r, run, x) ==
  /\ Publish(run.of, [x EXCEPT !.state.status = "error"])
  /\ Keeps(r, [run EXCEPT !.at = "failed"])

Complete(r, run, x) ==
  /\ Publish(run.of, [x EXCEPT !.state.status = "completed"])
  /\ Keeps(r, [run EXCEPT !.at = "completed"])

\* The URL carries the state parameter of the executor's state, of whichever
\* run it is.  A window of that name that is open is used again.
OpenPopup(r, run, x, window, opened) ==
  LET object == IF opened[window].page = "closed" THEN r ELSE opened[window].object IN
  /\ windows' = [opened EXCEPT ![window] =
       [object |-> object, page |-> "login", param |-> x.state.param]]
  /\ Publish(run.of, x)
  /\ Keeps(r, [run EXCEPT !.at = "popup", !.popup = object])
  /\ UNCHANGED rejecting

\* window.open returns null: the promise is rejected.
PopupBlocked(r, run, x, opened) ==
  Fail(r, run, x) /\ windows' = opened /\ UNCHANGED rejecting

\* makeRequest: with a signal that is aborted already fetch rejects at once.
MakeRequest(r, run, x, opened) ==
  /\ Publish(run.of, x)
  /\ Keeps(r, [run EXCEPT !.at = "request", !.signal = x.signal])
  /\ rejecting' = IF x.aborted THEN rejecting \cup {r} ELSE rejecting
  /\ windows' = opened

AwaitOther(r, run, x, await, opened) ==
  /\ Publish(run.of, x)
  /\ Keeps(r, [run EXCEPT !.at = await])
  /\ windows' = opened /\ UNCHANGED rejecting

Begin(r, run, x, step, opened) ==
  LET y == [x EXCEPT
              !.state.status = IF step.status = "same" THEN @ ELSE step.status,
              !.state.param = IF step.states THEN r ELSE @]
  IN \/ step.await = "popup" /\ OpenPopup(r, run, y, step.window, opened)
     \/ step.await = "popup" /\ PopupBlocked(r, run, y, opened)
     \/ step.await = "request" /\ MakeRequest(r, run, y, opened)
     \/ step.await \in {"digest", "fetch"} /\ AwaitOther(r, run, y, step.await, opened)

Has(x, step) == \A i \in step.needs : x.known[i] # 0

Skips(x, step) == ~Has(x, step) /\ step.lacking = "skip"

\* The code from one await to the next: on with step j of the program, the
\* first from step k on that is not skipped.
Proceed(r, run, x, k, opened) ==
  LET program == Program[x.flow] IN
  \E j \in k..(Len(program) + 1) :
    /\ \A i \in k..(j - 1) : Skips(x, program[i])
    /\ j <= Len(program) => ~Skips(x, program[j])
    /\ LET here == [run EXCEPT !.pc = j] IN
       \/ /\ j > Len(program)
          /\ Complete(r, here, x)
          /\ windows' = opened /\ UNCHANGED rejecting
       \/ /\ j <= Len(program) /\ ~Has(x, program[j])
          /\ Fail(r, here, x)
          /\ windows' = opened /\ UNCHANGED rejecting
       \/ /\ j <= Len(program) /\ Has(x, program[j])
          /\ Begin(r, here, x, program[j], opened)

StepOf(r) == Program[executors[runs[r].of].flow][runs[r].pc]

\* What a good answer to a step leaves in the executor.
Receive(r, run, x, step) ==
  [x EXCEPT
     !.state.tokens = IF "tokens" \in step.gives THEN run.login ELSE @,
     !.state.refresh = IF "tokens" \notin step.gives \/ "merged" \in step.gives THEN @
                       ELSE IF "refresh" \in step.gives THEN r ELSE 0,
     !.known = [i \in Ids |-> IF i \in step.gives THEN r ELSE x.known[i]]]

Resume(r, run, x) == Proceed(r, run, Receive(r, run, x, StepOf(r)), run.pc + 1, windows)

PageUnchanged == UNCHANGED <<offered, selected, scim, current, subscribed, saved, bearer>>

\* The hash is computed.
DigestDone(r) ==
  /\ Quiet /\ runs[r].at = "digest"
  /\ Resume(r, runs[r], executors[runs[r].of])
  /\ UNCHANGED <<mail, hearing, server>> /\ PageUnchanged

Asking(r) == runs[r].at \in {"request", "fetch"}

AnswerOk(r) ==
  LET x == executors[runs[r].of] IN
  /\ Quiet /\ Asking(r)
  /\ Resume(r, runs[r], x)
  /\ server' = (server \cup {<<i, r>> : i \in StepOf(r).creates})
                 \ {<<i, x.known[i]>> : i \in StepOf(r).deletes}
  /\ UNCHANGED <<mail, hearing>> /\ PageUnchanged

\* Mutant: no code looks at whether an answer is ok.
AnswerBad_Unchecked(r) ==
  /\ Quiet /\ Asking(r)
  /\ Proceed(r, [runs[r] EXCEPT !.failed = TRUE], executors[runs[r].of],
             runs[r].pc + 1, windows)
  /\ UNCHANGED <<mail, hearing, server>> /\ PageUnchanged

\* An answer that is not ok, where the code does not throw.
AnswerBad(r) ==
  /\ Quiet /\ Asking(r) /\ StepOf(r).bad = "go"
  /\ Proceed(r, [runs[r] EXCEPT !.failed = TRUE], executors[runs[r].of],
             runs[r].pc + 1, windows)
  /\ UNCHANGED <<mail, hearing, server>> /\ PageUnchanged

\* Where it does, and when the network or the hash fails.
AnswerThrows(r) ==
  /\ Quiet /\ (Asking(r) \/ runs[r].at = "digest")
  /\ Fail(r, runs[r], executors[runs[r].of])
  /\ UNCHANGED <<windows, mail, hearing, rejecting, server>> /\ PageUnchanged

\* AbortError, caught in a microtask.
Reject(r) ==
  /\ r \in rejecting
  /\ Fail(r, runs[r], executors[runs[r].of])
  /\ rejecting' = rejecting \ {r}
  /\ UNCHANGED <<windows, mail, hearing, server>> /\ PageUnchanged

-----------------------------------------------------------------------------
(* Login windows and the callback page *)

PopupOpen(r) ==
  LET window == windows[StepOf(r).window] IN
  window.page # "closed" /\ window.object = runs[r].popup

\* popup.close()
Closed(r) ==
  IF PopupOpen(r) THEN [windows EXCEPT ![StepOf(r).window].page = "closed"] ELSE windows

\* The provider sends the window to /callback, which posts a message.  Errors
\* are posted with the type that the code flow's executors listen to.
CallbackPage(w, ok) ==
  /\ Quiet /\ windows[w].page = "login" /\ Len(mail) < MaxMail
  /\ windows' = [windows EXCEPT ![w].page = "callback"]
  /\ mail' = Append(mail, [for |-> IF ok THEN w ELSE ErrorWindow,
                           ok |-> ok, param |-> windows[w].param])
  /\ UNCHANGED <<executors, runs, shown, hearing, rejecting, server>> /\ PageUnchanged

\* By the user, or by the callback page's timer.
WindowCloses(w) ==
  /\ Quiet /\ windows[w].page # "closed"
  /\ windows' = [windows EXCEPT ![w].page = "closed"]
  /\ UNCHANGED <<executors, runs, shown, mail, hearing, rejecting, server>>
  /\ PageUnchanged

Listening(for) == {r \in Runs : runs[r].at = "popup" /\ StepOf(r).window = for}

\* Mutant: the message is taken from the queue first.
Deliver_Consumes ==
  /\ Quiet /\ mail # <<>>
  /\ hearing' = Listening(Head(mail).for) /\ mail' = Tail(mail)
  /\ UNCHANGED <<executors, runs, shown, windows, rejecting, server>> /\ PageUnchanged

\* The message event: the listeners of its type are called in turn.
Deliver ==
  /\ Quiet /\ mail # <<>>
  /\ hearing' = Listening(Head(mail).for)
  /\ mail' = IF hearing' = {} THEN Tail(mail) ELSE mail
  /\ UNCHANGED <<executors, runs, shown, windows, rejecting, server>> /\ PageUnchanged

\* Mutant: any state parameter will do.
StateMatches_Any(x, message) == message.param # 0

\* The check of the state parameter, against the executor's present state.
StateMatches(x, message) == message.param # 0 /\ message.param = x.state.param

\* handleMessage of one executor, and what its execute() does in the
\* microtasks that follow.  The order in which runs began to listen is left
\* open: a later one's digest may have ended first.
Hear(r) ==
  LET x == executors[runs[r].of]
      message == Head(mail)
      run == [runs[r] EXCEPT !.login = message.param]
  IN /\ r \in hearing /\ rejecting = {}
     /\ hearing' = hearing \ {r}
     /\ mail' = IF hearing' = {} THEN Tail(mail) ELSE mail
     /\ \/ /\ message.ok /\ StateMatches(x, message)
           /\ Proceed(r, run, Receive(r, run, x, StepOf(r)), run.pc + 1, Closed(r))
        \/ /\ ~(message.ok /\ StateMatches(x, message))
           /\ Fail(r, runs[r], x)
           /\ windows' = Closed(r) /\ UNCHANGED rejecting
     /\ UNCHANGED server /\ PageUnchanged

\* Mutant: the timer never rejects.
PollPopup_Silent(r) ==
  /\ Quiet /\ runs[r].at = "popup" /\ ~PopupOpen(r)
  /\ Keeps(r, [runs[r] EXCEPT !.at = "lost"])
  /\ UNCHANGED <<executors, shown, windows, mail, hearing, rejecting, server>>
  /\ PageUnchanged

\* The timer finds the window closed: it rejects only while the status says
\* awaiting_user; otherwise the promise is never settled.
PollPopup(r) ==
  LET x == executors[runs[r].of] IN
  /\ Quiet /\ runs[r].at = "popup" /\ ~PopupOpen(r)
  /\ \/ x.state.status = "awaiting_user" /\ Fail(r, runs[r], x)
     \/ /\ x.state.status # "awaiting_user"
        /\ Keeps(r, [runs[r] EXCEPT !.at = "lost"])
        /\ UNCHANGED <<executors, shown>>
  /\ UNCHANGED <<windows, mail, hearing, rejecting, server>> /\ PageUnchanged

-----------------------------------------------------------------------------
(* The page *)

Status == IF shown = NotShown THEN "idle" ELSE shown.state.status

OthersUnchanged == UNCHANGED <<windows, mail, hearing, server>>

\* The first write of execute(): the SCIM and SPIFFE executors only write the
\* status, the others begin anew.
Started(x) ==
  [IF x.flow \in FreshFlows THEN InitialState ELSE x.state EXCEPT !.status = "executing"]

\* The Execute buttons: not while executing, not when completed.
Execute(r) ==
  LET x == executors[current]
      y == [x EXCEPT !.signal = r, !.aborted = FALSE, !.state = Started(x)]
  IN /\ Quiet /\ current # 0 /\ Status \in {"idle", "error"}
     /\ \A q \in Runs : runs[q].at = "unused" <=> r <= q
     /\ Proceed(r, [NewRun EXCEPT !.of = current, !.login = r], y, 1, windows)
     /\ UNCHANGED <<mail, hearing, server>> /\ PageUnchanged

\* Mutant: the controller is left alone.
Aborted_Heedless(x, state) == [x EXCEPT !.state = state]

\* abort(): the controller of the last execute(), then status "idle".
Aborted(x, state) == [x EXCEPT !.aborted = x.signal # 0, !.state = state]

\* Mutant: requests that are under way go on.
Interrupted_None(e) == {}

Interrupted(e) ==
  {r \in Runs : runs[r].of = e /\ runs[r].at = "request"
                /\ runs[r].signal = executors[e].signal}

Abort ==
  LET x == executors[current] IN
  /\ Quiet /\ current # 0 /\ Status \in {"executing", "awaiting_user"}
  /\ Publish(current, Aborted(x, [x.state EXCEPT !.status = "idle"]))
  /\ rejecting' = Interrupted(current)
  /\ UNCHANGED runs /\ OthersUnchanged /\ PageUnchanged

Reset ==
  /\ Quiet /\ current # 0
  /\ Publish(current, Aborted(executors[current], InitialState))
  /\ rejecting' = Interrupted(current)
  /\ UNCHANGED runs /\ OthersUnchanged /\ PageUnchanged

\* createFlowExecutor: null without an entry for the flow, or when its
\* constructor misses the refresh token.
CreateFlowExecutor(f, token) == f \in Supported /\ (f = RefreshFlow => token # 0)

\* Mutant: the listener is forgotten.
Unsubscribed_Never == subscribed

Unsubscribed == subscribed \ {current}

\* The effect of useRealFlowExecutor: the old executor loses its listener and
\* is aborted, state being what it is left with; a new one is created.
Recreate(f, token, state) ==
  LET dropped == IF current = 0 THEN executors
                 ELSE [executors EXCEPT ![current] = Aborted(@, state)]
  IN /\ rejecting' = IF current = 0 THEN {} ELSE Interrupted(current)
     /\ \/ /\ CreateFlowExecutor(f, token)
           /\ \E n \in 1..Limit[offered] :
                /\ \A e \in Executors : executors[e].flow = NoFlow <=> n <= e
                /\ executors' = [dropped EXCEPT ![n] = NewExecutor(f)]
                /\ current' = n /\ subscribed' = Unsubscribed \cup {n}
                /\ shown' = [of |-> n, state |-> InitialState]
        \/ /\ ~CreateFlowExecutor(f, token)
           /\ executors' = dropped
           /\ current' = 0 /\ subscribed' = Unsubscribed /\ shown' = NotShown
     /\ UNCHANGED runs /\ OthersUnchanged

\* The effect that asks for the SCIM token when SCIM is selected.
FetchScimToken(isScim) ==
  /\ scim' = isScim
  /\ bearer' = IF isScim /\ ~scim /\ bearer = "absent" THEN "asked" ELSE bearer

\* handleFlowSelect, handleQuickSelect: reset() before the effect runs.
SelectFlow(f) ==
  /\ Quiet /\ f \in offered \ {selected}
  /\ selected' = f
  /\ Recreate(f, saved, InitialState)
  /\ FetchScimToken(f \in ScimFlows)
  /\ UNCHANGED <<offered, saved>>

\* handleProtocolSelect: a protocol that is listed has flows.
SelectProtocol(isScim) ==
  /\ Quiet /\ \E f \in offered : isScim = (f \in ScimFlows)
  /\ selected # NoFlow \/ isScim # scim
  /\ selected' = NoFlow
  /\ Recreate(NoFlow, saved, InitialState)
  /\ FetchScimToken(isScim)
  /\ UNCHANGED <<offered, saved>>

Present == executors[current].state

\* The token of /scim/internal/token: an option of the hook for SCIM flows.
TokenArrives ==
  /\ Quiet /\ bearer = "asked"
  /\ bearer' = "there"
  /\ \/ /\ selected \in ScimFlows
        /\ Recreate(selected, saved, [Present EXCEPT !.status = "idle"])
     \/ /\ selected \notin ScimFlows
        /\ UNCHANGED <<current, subscribed, executors, runs, shown, rejecting>>
        /\ OthersUnchanged
  /\ UNCHANGED <<offered, selected, scim, saved>>

TokenFails ==
  /\ Quiet /\ bearer = "asked"
  /\ bearer' = "absent"
  /\ UNCHANGED <<offered, selected, scim, current, subscribed, executors, runs, shown,
                 saved, rejecting>>
  /\ OthersUnchanged

\* The effect that keeps the refresh token of a completed flow: an option of
\* the hook for the refresh token flow, whose executor is created anew.
StoreRefreshToken ==
  /\ Quiet /\ Status = "completed"
  /\ shown.state.refresh \notin {0, saved}
  /\ saved' = shown.state.refresh
  /\ \/ /\ selected = RefreshFlow
        /\ Recreate(selected, saved', [Present EXCEPT !.status = "idle"])
     \/ /\ selected # RefreshFlow
        /\ UNCHANGED <<current, subscribed, executors, runs, shown, rejecting>>
        /\ OthersUnchanged
  /\ UNCHANGED <<offered, selected, scim, bearer>>

-----------------------------------------------------------------------------
Init ==
  /\ offered \in Offers /\ selected = NoFlow /\ scim = FALSE
  /\ current = 0 /\ subscribed = {} /\ shown = NotShown
  /\ executors = [e \in Executors |-> NewExecutor(NoFlow)]
  /\ runs = [r \in Runs |-> NewRun]
  /\ saved = 0 /\ bearer = "absent"
  /\ windows = [w \in Windows |-> [object |-> 0, page |-> "closed", param |-> 0]]
  /\ mail = <<>> /\ hearing = {} /\ rejecting = {} /\ server = {}

UserStep ==
  \/ \E f \in Flows : SelectFlow(f)
  \/ \E isScim \in BOOLEAN : SelectProtocol(isScim)
  \/ Abort \/ Reset
  \/ \E r \in Runs : Execute(r)
  \/ \E w \in Windows, ok \in BOOLEAN : CallbackPage(w, ok)
  \/ \E w \in Windows : WindowCloses(w)

\* What the browser does by itself: digests end, requests are answered or
\* fail, timers fire, posted messages and microtasks are run.
BrowserStep ==
  \/ Deliver
  \/ \E r \in Runs :
       \/ DigestDone(r) \/ AnswerOk(r) \/ AnswerBad(r) \/ AnswerThrows(r)
       \/ Reject(r) \/ Hear(r) \/ PollPopup(r)

Next == UserStep \/ BrowserStep \/ TokenArrives \/ TokenFails \/ StoreRefreshToken

\* Users need not do anything.
Fairness == WF_vars(BrowserStep)

Spec == Init /\ [][Next]_vars /\ Fairness

-----------------------------------------------------------------------------
(* Properties *)

States ==
  [status: {"idle", "executing", "awaiting_user", "completed", "error"},
   param: 0..MaxRuns, tokens: 0..MaxRuns, refresh: 0..MaxRuns]

TypeOK ==
  /\ offered \in Offers /\ selected \in offered \cup {NoFlow}
  /\ scim \in BOOLEAN /\ current \in 0..MaxExecutors /\ subscribed \subseteq Executors
  /\ executors \in [Executors ->
       [flow: Flows \cup {NoFlow}, state: States, signal: 0..MaxRuns,
        aborted: BOOLEAN, known: [Ids -> 0..MaxRuns]]]
  /\ runs \in [Runs ->
       [of: 0..MaxExecutors, pc: Nat,
        at: {"unused", "digest", "popup", "request", "fetch", "completed", "failed", "lost"},
        signal: 0..MaxRuns, login: 0..MaxRuns, popup: 0..MaxRuns, failed: BOOLEAN]]
  /\ shown \in [of: 0..MaxExecutors, state: States]
  /\ saved \in 0..MaxRuns /\ bearer \in {"absent", "asked", "there"}
  /\ windows \in [Windows ->
       [object: 0..MaxRuns, page: {"closed", "login", "callback"}, param: 0..MaxRuns]]
  /\ mail \in Seq([for: Windows, ok: BOOLEAN, param: 0..MaxRuns])
  /\ hearing \subseteq Runs /\ (hearing # {} => mail # <<>>)
  /\ rejecting \subseteq Runs
  /\ server \subseteq Ids \X Runs

\* The page shows the state of the executor of the selected flow, whatever
\* the runs of executors it dropped still do.
PageShowsCurrent ==
  shown = IF current = 0 THEN NotShown
          ELSE [of |-> current, state |-> executors[current].state]

\* The tokens an executor shows come from a login that a run of this executor
\* asked for: the message of another flow's window is refused.
TokensFromOwnLogin ==
  \A e \in Executors : LET t == executors[e].state.tokens IN
    t # 0 => runs[t].of = e

GivesTokens(f) == \E k \in 1..Len(Program[f]) : "tokens" \in Program[f][k].gives

\* The step a program ends with.  A run that is past an earlier step may have lost
\* what that step gave to an execute() that began after it.
ASSUME TokensComeLast ==
  \A f \in Flows : GivesTokens(f) =>
    LET last == Program[f][Len(Program[f])] IN
    /\ "tokens" \in last.gives /\ last.bad = "throw"
    /\ last.needs = {} \/ last.lacking = "throw"

\* A flow that is for tokens is never shown as completed without them, however
\* its runs were aborted, repeated and interleaved.
CompletedHasTokens ==
  \A e \in Executors : LET x == executors[e] IN
    x.state.status = "completed" /\ GivesTokens(x.flow) => x.state.tokens # 0

\* While the page says that a flow executes or waits for the user, a run is at
\* a place from which it goes on: the status is not left behind by a run that
\* has ended or that nothing will wake.
NeverStuck ==
  \A e \in Executors :
    /\ executors[e].state.status = "executing" =>
         \E r \in Runs : runs[r].of = e /\ runs[r].at \in {"digest", "request", "fetch"}
    /\ executors[e].state.status = "awaiting_user" =>
         \E r \in Runs : /\ runs[r].of = e
                         /\ runs[r].at \in {"digest", "popup", "request", "fetch"}

Creates(f) == \E k \in 1..Len(Program[f]) : Program[f][k].creates # {}

\* Programs that create something await requests only, all of them under the
\* abort signal, and leave the status "executing"; they keep the identifier of
\* what they create and delete it in a later step, which needs that one only.
ASSUME CreatorsDelete ==
  \A f \in Flows : Creates(f) =>
    \A k \in 1..Len(Program[f]) : LET step == Program[f][k] IN
      /\ step.await = "request" /\ step.status = "same"
      /\ \A i \in step.creates :
           i \in step.gives /\ \E j \in (k + 1)..Len(Program[f]) : i \in Program[f][j].deletes
      /\ \A i \in step.deletes : step.needs = {i}

\* A run that completes, and was refused nothing, has deleted the user and the
\* group it created.
CleansUp ==
  \A r \in Runs : runs[r].at = "completed" /\ ~runs[r].failed =>
    \A i \in Ids : <<i, r>> \notin server

\* An executor the page has dropped starts no request that its abort signal
\* governs: no code is redeemed for a flow that was left.
NoLateRequest ==
  [][\A r \in Runs :
       runs'[r].at = "request" /\ runs'[r] # runs[r] /\ r \notin rejecting' =>
         runs'[r].of = current]_vars

\* A flow that executes, or waits for a window that is no longer there, ends
\* or goes on to wait for the user, whatever was aborted before.
Waiting ==
  \/ Status = "executing"
  \/ Status = "awaiting_user" /\ \A w \in Windows : windows[w].page = "closed"
Settles == Waiting ~> ~Waiting

\* An idle flow, one that was aborted or reset among them, stays idle until
\* the user executes it.
IdleUntilExecuted ==
  [][\A e \in Executors :
       executors[e].state.status = "idle" /\ executors'[e].state.status # "idle" =>
         \E r \in Runs : runs[r].at = "unused" /\ runs'[r].at # "unused"]_vars

=============================================================================
