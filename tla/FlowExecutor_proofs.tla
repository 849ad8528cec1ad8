-------------------------- MODULE FlowExecutor_proofs --------------------------
(***************************************************************************)
(* The page shows the executor it has, and an executor shows tokens of its *)
(* own logins only; an executor that was dropped starts no request.  All   *)
(* for any flows and programs of steps, any offers, runs, executors,       *)
(* windows and messages.                                                   *)
(*                                                                         *)
(* How runs end: a status that waits has a run that is awaited, a flow for *)
(* tokens that completes has them, and what was created is deleted.  These *)
(* rest on what the programs' authors keep to: a program for tokens stores *)
(* them last (TokensComeLast), and one that creates something deletes it   *)
(* under the abort signal (CreatorsDelete).                                *)
(***************************************************************************)
EXTENDS FlowExecutor, TLAPS

Awaits == {"digest", "popup", "request", "fetch"}

ExecutorSet ==
  [flow: Flows \cup {NoFlow}, state: States, signal: 0..MaxRuns,
   aborted: BOOLEAN, known: [Ids -> 0..MaxRuns]]

RunSet ==
  [of: 0..MaxExecutors, pc: Nat,
   at: {"unused", "digest", "popup", "request", "fetch", "completed", "failed", "lost"},
   signal: 0..MaxRuns, login: 0..MaxRuns, popup: 0..MaxRuns, failed: BOOLEAN]

WindowSet ==
  [Windows -> [object: 0..MaxRuns, page: {"closed", "login", "callback"}, param: 0..MaxRuns]]

\* Run r, whose record was run, belongs to an executor that exists, stands at a
\* step of its program, and logged in for that executor.
RunLinked(r) ==
  IF runs[r].at = "unused" THEN runs[r].of = 0
  ELSE /\ runs[r].of \in Executors
       /\ executors[runs[r].of].flow \in Flows
       /\ runs[r].at \in Awaits =>
            runs[r].pc \in 1..Len(Program[executors[runs[r].of].flow])
       /\ runs[r].login # 0 => runs[runs[r].login].of = runs[r].of

Linked ==
  /\ subscribed = IF current = 0 THEN {} ELSE {current}
  /\ current # 0 => executors[current].flow \in Flows
  /\ \A r \in Runs : RunLinked(r)
  /\ \A r \in rejecting : runs[r].at = "request"
  /\ \A r \in hearing : runs[r].at = "popup"
  /\ \A e \in Executors : LET p == executors[e].state.param IN p # 0 => runs[p].of = e

\* The executor of a run has a controller, and one that the page has dropped has
\* aborted it.
Governed ==
  \A r \in Runs : runs[r].at # "unused" =>
    LET x == executors[runs[r].of] IN x.signal # 0 /\ (runs[r].of # current => x.aborted)

IInv == TypeOK /\ Linked /\ Governed /\ PageShowsCurrent /\ TokensFromOwnLogin

\* What NoLateRequest says of a step.
StartsCurrent ==
  \A r \in Runs :
    runs'[r].at = "request" /\ runs'[r] # runs[r] /\ r \notin rejecting' =>
      runs'[r].of = current

-----------------------------------------------------------------------------
(* One turn of a run *)

\* What a turn of run r may do, if its executor was x and its record run before:
\* publish a state with the same tokens, and with the same state parameter or a
\* new one of its own; go on to a step, or end.  A request whose signal is
\* aborted rejects at once.
Turn(r, run, x) ==
  /\ \E y \in ExecutorSet :
       /\ Publish(run.of, y)
       /\ y.flow = x.flow /\ y.state.tokens = x.state.tokens
       /\ y.state.param \in {x.state.param, r}
       /\ y.signal = x.signal /\ y.aborted = x.aborted
  /\ \E n \in RunSet :
       /\ Keeps(r, n)
       /\ n.of = run.of /\ n.login = run.login /\ n.at # "unused"
       /\ n.at \in Awaits => n.pc \in 1..Len(Program[x.flow])
       /\ r \in rejecting' => n.at = "request"
       /\ n.at = "request" /\ x.aborted => r \in rejecting'
  /\ windows' \in WindowSet
  /\ rejecting' \subseteq rejecting \cup {r}

\* The steps of a program are steps, and popups have windows.
LEMMA ProgramStep ==
  ASSUME NEW f \in Flows, NEW k \in 1..Len(Program[f])
  PROVE  /\ Program[f][k] \in Step
         /\ Program[f][k].await = "popup" => Program[f][k].window \in Windows
         /\ Len(Program[f]) \in Nat
BY ProgramAssumption

\* The catch block.
LEMMA FailTurn ==
  ASSUME NEW r \in Runs, NEW run \in RunSet, NEW x \in ExecutorSet, Fail(r, run, x),
         windows' \in WindowSet, rejecting' \subseteq rejecting \ {r}
  PROVE  Turn(r, run, x)
<1>. DEFINE y == [x EXCEPT !.state.status = "error"]
            n == [run EXCEPT !.at = "failed"]
<1>1. /\ y \in ExecutorSet /\ y.flow = x.flow /\ y.state.tokens = x.state.tokens
      /\ y.state.param = x.state.param /\ y.signal = x.signal /\ y.aborted = x.aborted
  BY DEF ExecutorSet, States
<1>2. n \in RunSet /\ n.of = run.of /\ n.login = run.login /\ n.at = "failed"
  BY DEF RunSet
<1>3. Publish(run.of, y) /\ Keeps(r, n)
  BY DEF Fail
<1>. HIDE DEF y, n
<1>. QED BY <1>1, <1>2, <1>3 DEF Turn, Awaits

LEMMA BeginTurn ==
  ASSUME NEW r \in Runs, NEW run \in RunSet, NEW x \in ExecutorSet, NEW step \in Step,
         step.await = "popup" => step.window \in Windows,
         run.pc \in 1..Len(Program[x.flow]),
         NEW opened \in WindowSet, rejecting = {}, Begin(r, run, x, step, opened)
  PROVE  Turn(r, run, x)
<1>. DEFINE y == [x EXCEPT
              !.state.status = IF step.status = "same" THEN x.state.status ELSE step.status,
              !.state.param = IF step.states THEN r ELSE x.state.param]
<1>0. r \in 0..MaxRuns
  BY ProgramAssumption DEF Runs
<1>1. /\ y \in ExecutorSet /\ y.flow = x.flow /\ y.state.tokens = x.state.tokens
      /\ y.state.param \in {x.state.param, r}
      /\ y.signal = x.signal /\ y.aborted = x.aborted
  BY <1>0 DEF ExecutorSet, States, Step
<1>2. \/ step.await = "popup" /\ OpenPopup(r, run, y, step.window, opened)
      \/ step.await = "popup" /\ PopupBlocked(r, run, y, opened)
      \/ step.await = "request" /\ MakeRequest(r, run, y, opened)
      \/ step.await \in {"digest", "fetch"} /\ AwaitOther(r, run, y, step.await, opened)
  BY DEF Begin
<1>. HIDE DEF y
<1>3. CASE step.await = "popup" /\ OpenPopup(r, run, y, step.window, opened)
  <2>. DEFINE object == IF opened[step.window].page = "closed" THEN r
                        ELSE opened[step.window].object
              n == [run EXCEPT !.at = "popup", !.popup = object]
  <2>1. object \in 0..MaxRuns /\ y.state.param \in 0..MaxRuns
    BY <1>0, <1>1, <1>3 DEF WindowSet, ExecutorSet, States
  <2>2. /\ windows' = [opened EXCEPT ![step.window] =
             [object |-> object, page |-> "login", param |-> y.state.param]]
        /\ Publish(run.of, y) /\ Keeps(r, n) /\ rejecting' = rejecting
    BY <1>3 DEF OpenPopup
  <2>. HIDE DEF object
  <2>3. windows' \in WindowSet
    BY <1>3, <2>1, <2>2 DEF WindowSet
  <2>4. n \in RunSet /\ n.of = run.of /\ n.login = run.login /\ n.at = "popup" /\ n.pc = run.pc
    BY <2>1 DEF RunSet
  <2>. HIDE DEF n
  <2>. QED BY <1>1, <2>2, <2>3, <2>4 DEF Turn
<1>4. CASE step.await = "popup" /\ PopupBlocked(r, run, y, opened)
  <2>1. Turn(r, run, y)
    BY <1>1, <1>4, FailTurn DEF PopupBlocked
  <2>. QED BY <1>1, <2>1 DEF Turn
<1>5. CASE step.await = "request" /\ MakeRequest(r, run, y, opened)
  <2>. DEFINE n == [run EXCEPT !.at = "request", !.signal = y.signal]
  <2>1. y.signal \in 0..MaxRuns
    BY <1>1 DEF ExecutorSet
  <2>2. /\ n \in RunSet /\ n.of = run.of /\ n.login = run.login /\ n.at = "request"
        /\ n.pc = run.pc
    BY <2>1 DEF RunSet
  <2>3. /\ Publish(run.of, y) /\ Keeps(r, n) /\ windows' \in WindowSet
        /\ rejecting' \subseteq {r} /\ (x.aborted => r \in rejecting')
    BY <1>1, <1>5 DEF MakeRequest
  <2>. HIDE DEF n
  <2>. QED BY <1>1, <2>2, <2>3 DEF Turn
<1>6. CASE step.await \in {"digest", "fetch"} /\ AwaitOther(r, run, y, step.await, opened)
  <2>. DEFINE n == [run EXCEPT !.at = step.await]
  <2>1. /\ n \in RunSet /\ n.of = run.of /\ n.login = run.login /\ n.at \in {"digest", "fetch"}
        /\ n.pc = run.pc
    BY <1>6 DEF RunSet
  <2>2. /\ Publish(run.of, y) /\ Keeps(r, n) /\ windows' \in WindowSet
        /\ rejecting' = {}
    BY <1>6 DEF AwaitOther
  <2>. HIDE DEF n
  <2>. QED BY <1>1, <2>1, <2>2 DEF Turn
<1>. QED BY <1>2, <1>3, <1>4, <1>5, <1>6

LEMMA ProceedTurn ==
  ASSUME NEW r \in Runs, NEW run \in RunSet, NEW x \in ExecutorSet, x.flow \in Flows,
         NEW k \in Nat \ {0}, NEW opened \in WindowSet, rejecting = {},
         Proceed(r, run, x, k, opened)
  PROVE  Turn(r, run, x)
<1>. DEFINE program == Program[x.flow]
<1>0. Len(program) \in Nat
  BY ProgramAssumption
<1>1. PICK j \in k..(Len(program) + 1) :
        LET here == [run EXCEPT !.pc = j] IN
        \/ /\ j > Len(program)
           /\ Complete(r, here, x)
           /\ windows' = opened /\ UNCHANGED rejecting
        \/ /\ j <= Len(program)
           /\ Fail(r, here, x)
           /\ windows' = opened /\ UNCHANGED rejecting
        \/ /\ j <= Len(program)
           /\ Begin(r, here, x, program[j], opened)
  BY DEF Proceed
<1>. DEFINE here == [run EXCEPT !.pc = j]
<1>2. j \in Nat \ {0}
  BY <1>0
<1>3. here \in RunSet /\ here.of = run.of /\ here.login = run.login /\ here.pc = j
  BY <1>2 DEF RunSet
<1>4. \/ Complete(r, here, x) /\ windows' = opened /\ UNCHANGED rejecting
      \/ Fail(r, here, x) /\ windows' = opened /\ UNCHANGED rejecting
      \/ j <= Len(program) /\ Begin(r, here, x, program[j], opened)
  BY <1>1
<1>. HIDE DEF here
<1>5. Turn(r, here, x)
  <2>1. CASE Complete(r, here, x) /\ windows' = opened /\ UNCHANGED rejecting
    <3>. DEFINE y == [x EXCEPT !.state.status = "completed"]
                n == [here EXCEPT !.at = "completed"]
    <3>1. /\ y \in ExecutorSet /\ y.flow = x.flow /\ y.state.tokens = x.state.tokens
          /\ y.state.param = x.state.param /\ y.signal = x.signal /\ y.aborted = x.aborted
      BY DEF ExecutorSet, States
    <3>2. n \in RunSet /\ n.of = here.of /\ n.login = here.login /\ n.at = "completed"
      BY <1>3 DEF RunSet
    <3>3. Publish(here.of, y) /\ Keeps(r, n)
      BY <2>1 DEF Complete
    <3>. HIDE DEF y, n
    <3>. QED BY <2>1, <3>1, <3>2, <3>3 DEF Turn, Awaits
  <2>2. CASE Fail(r, here, x) /\ windows' = opened /\ UNCHANGED rejecting
    BY <1>3, <2>2, FailTurn
  <2>3. CASE j <= Len(program) /\ Begin(r, here, x, program[j], opened)
    <3>1. j \in 1..Len(program)
      BY <1>0, <1>2, <2>3
    <3>2. program[j] \in Step /\ (program[j].await = "popup" => program[j].window \in Windows)
      BY <3>1, ProgramStep
    <3>. QED BY <1>3, <2>3, <3>1, <3>2, BeginTurn
  <2>. QED BY <1>4, <2>1, <2>2, <2>3
<1>. QED BY <1>3, <1>5 DEF Turn

\* What an answer leaves in the executor is well typed.  Its tokens are those
\* it had or the login's of the run, and it keeps its state parameter.
LEMMA Received ==
  ASSUME NEW r \in Runs, NEW run \in RunSet, NEW x \in ExecutorSet, NEW step \in Step
  PROVE  LET z == Receive(r, run, x, step) IN
         /\ z \in ExecutorSet /\ z.flow = x.flow /\ z.state.param = x.state.param
         /\ z.state.tokens \in {x.state.tokens, run.login}
         /\ z.signal = x.signal /\ z.aborted = x.aborted
<1>0. r \in 0..MaxRuns /\ 0 \in 0..MaxRuns
  BY ProgramAssumption DEF Runs
<1>. DEFINE tokens == IF "tokens" \in step.gives THEN run.login ELSE x.state.tokens
            refresh == IF "tokens" \notin step.gives \/ "merged" \in step.gives THEN x.state.refresh
                       ELSE IF "refresh" \in step.gives THEN r ELSE 0
            known == [i \in Ids |-> IF i \in step.gives THEN r ELSE x.known[i]]
            z == [x EXCEPT !.state.tokens = tokens, !.state.refresh = refresh, !.known = known]
<1>1. tokens \in 0..MaxRuns /\ tokens \in {x.state.tokens, run.login}
  BY DEF ExecutorSet, States, RunSet
<1>2. refresh \in 0..MaxRuns
  BY <1>0 DEF ExecutorSet, States
<1>3. known \in [Ids -> 0..MaxRuns]
  BY <1>0 DEF ExecutorSet
<1>4. Receive(r, run, x, step) = z
  BY DEF Receive
<1>. HIDE DEF tokens, refresh, known
<1>5. /\ z \in ExecutorSet /\ z.flow = x.flow /\ z.state.param = x.state.param
      /\ z.state.tokens = tokens /\ z.signal = x.signal /\ z.aborted = x.aborted
  BY <1>1, <1>2, <1>3 DEF ExecutorSet, States
<1>. QED BY <1>1, <1>4, <1>5

-----------------------------------------------------------------------------
(* Turns keep the invariant *)

\* A turn of run r of executor e, from a state where the microtasks of other
\* turns are done, with what the turn has received so far in x and run.
LEMMA TurnIInv ==
  ASSUME IInv, NEW r \in Runs, NEW run \in RunSet, NEW x \in ExecutorSet,
         Turn(r, run, x),
         run.of \in Executors, x.flow = executors[run.of].flow, x.flow \in Flows,
         runs[r].of \in {0, run.of}, x.signal # 0, run.of # current => x.aborted,
         run.login # 0 => run.login = r \/ runs[run.login].of = run.of,
         x.state.param # 0 => runs[x.state.param].of = run.of,
         x.state.tokens # 0 => x.state.tokens = r \/ runs[x.state.tokens].of = run.of,
         hearing' \subseteq hearing \ {r}, hearing' # {} => mail' # <<>>,
         mail' \in Seq([for: Windows, ok: BOOLEAN, param: 0..MaxRuns]),
         server' \subseteq Ids \X Runs, PageUnchanged
  PROVE  IInv' /\ StartsCurrent
<1>. DEFINE e == run.of
<1>1. PICK y \in ExecutorSet :
        /\ Publish(e, y)
        /\ y.flow = x.flow /\ y.state.tokens = x.state.tokens
        /\ y.state.param \in {x.state.param, r}
        /\ y.signal = x.signal /\ y.aborted = x.aborted
  BY DEF Turn
<1>2. PICK n \in RunSet :
        /\ Keeps(r, n)
        /\ n.of = e /\ n.login = run.login /\ n.at # "unused"
        /\ n.at \in Awaits => n.pc \in 1..Len(Program[x.flow])
        /\ r \in rejecting' => n.at = "request"
        /\ n.at = "request" /\ x.aborted => r \in rejecting'
  BY DEF Turn
<1>. HIDE DEF e
<1>3. windows' \in WindowSet /\ rejecting' \subseteq rejecting \cup {r}
  BY DEF Turn
<1>4. /\ executors \in [Executors -> ExecutorSet] /\ runs \in [Runs -> RunSet]
      /\ e \in Executors
  BY DEF IInv, TypeOK, ExecutorSet, RunSet, e
<1>5. /\ executors' \in [Executors -> ExecutorSet]
      /\ executors'[e] = y /\ \A f \in Executors \ {e} : executors'[f] = executors[f]
      /\ shown' = IF e \in subscribed THEN [of |-> e, state |-> y.state] ELSE shown
  BY <1>1, <1>4 DEF Publish
<1>6. /\ runs' \in [Runs -> RunSet]
      /\ runs'[r] = n /\ \A q \in Runs \ {r} : runs'[q] = runs[q]
  BY <1>2, <1>4 DEF Keeps
<1>7. UNCHANGED <<offered, selected, scim, current, subscribed, saved, bearer>>
  BY DEF PageUnchanged
<1>8. \A f \in Executors : executors'[f].flow = executors[f].flow
  BY <1>1, <1>5 DEF e
<1>9. TypeOK'
  <2>1. e \in 0..MaxExecutors /\ y.state \in States
    BY <1>4 DEF Executors, ExecutorSet
  <2>2. shown' \in [of: 0..MaxExecutors, state: States]
    BY <2>1, <1>5 DEF IInv, TypeOK
  <2>3. hearing' \subseteq Runs /\ rejecting' \subseteq Runs
    BY <1>3 DEF IInv, TypeOK
  <2>4. executors' \in [Executors ->
          [flow: Flows \cup {NoFlow}, state: States, signal: 0..MaxRuns,
           aborted: BOOLEAN, known: [Ids -> 0..MaxRuns]]]
    BY <1>5 DEF ExecutorSet
  <2>5. runs' \in [Runs ->
          [of: 0..MaxExecutors, pc: Nat,
           at: {"unused", "digest", "popup", "request", "fetch", "completed", "failed", "lost"},
           signal: 0..MaxRuns, login: 0..MaxRuns, popup: 0..MaxRuns, failed: BOOLEAN]]
    BY <1>6 DEF RunSet
  <2>. QED BY <1>3, <1>7, <2>2, <2>3, <2>4, <2>5 DEF IInv, TypeOK, WindowSet
\* No run changes its executor, except r, which may have had none.
<1>10. ASSUME NEW l \in 0..MaxRuns, l # 0, runs[l].of \in Executors
       PROVE  runs'[l].of = runs[l].of
  <2>1. l \in Runs
    BY <1>10, ProgramAssumption DEF Runs
  <2>2. CASE l = r
    <3>1. runs[l].of # 0
      BY <1>10, ProgramAssumption DEF Executors
    <3>. QED BY <1>2, <1>6, <2>2, <3>1 DEF e
  <2>3. CASE l # r
    BY <1>6, <2>1, <2>3
  <2>. QED BY <2>2, <2>3
<1>11. Linked'
  <2>1. subscribed' = IF current' = 0 THEN {} ELSE {current'}
    BY <1>7 DEF IInv, Linked
  <2>2. current' # 0 => executors'[current'].flow \in Flows
    <3>1. current # 0 => current \in Executors
      BY DEF IInv, TypeOK, Executors
    <3>. QED BY <1>7, <1>8, <3>1 DEF IInv, Linked
  <2>3. ASSUME NEW q \in Runs PROVE RunLinked(q)'
    <3>1. CASE q = r
      <4>1. n.login # 0 => runs'[n.login].of = e
        <5>1. n.login \in 0..MaxRuns
          BY DEF RunSet
        <5>. QED BY <1>2, <1>4, <1>6, <1>10, <5>1 DEF Runs, e
      <4>2. executors'[e].flow = x.flow
        BY <1>1, <1>5
      <4>. QED BY <1>2, <1>4, <1>6, <3>1, <4>1, <4>2 DEF RunLinked
    <3>2. CASE q # r
      <4>1. RunLinked(q) /\ runs'[q] = runs[q]
        BY <1>6, <3>2 DEF IInv, Linked
      <4>2. runs[q].login \in 0..MaxRuns
        BY <1>4 DEF RunSet
      <4>3. CASE runs[q].at = "unused"
        BY <4>1, <4>3 DEF RunLinked
      <4>4. CASE runs[q].at # "unused"
        <5>1. /\ runs[q].of \in Executors
              /\ executors'[runs[q].of].flow = executors[runs[q].of].flow
          BY <1>8, <4>1, <4>4 DEF RunLinked
        <5>2. runs[q].login # 0 => runs'[runs[q].login].of = runs[q].of
          BY <1>10, <4>1, <4>2, <4>4, <5>1 DEF RunLinked
        <5>. QED BY <4>1, <4>4, <5>1, <5>2 DEF RunLinked
      <4>. QED BY <4>3, <4>4
    <3>. QED BY <3>1, <3>2
  <2>4. \A q \in rejecting' : runs'[q].at = "request"
    <3>1. \A q \in rejecting : q \in Runs /\ runs[q].at = "request"
      BY DEF IInv, Linked, TypeOK
    <3>2. \A q \in rejecting' \ {r} : runs'[q].at = "request"
      BY <1>3, <1>6, <3>1
    <3>. QED BY <1>2, <1>6, <3>2
  <2>5. \A q \in hearing' : runs'[q].at = "popup"
    BY <1>6 DEF IInv, Linked, TypeOK
  <2>6. ASSUME NEW f \in Executors
        PROVE  executors'[f].state.param # 0 => runs'[executors'[f].state.param].of = f
    <3>1. CASE f = e
      <4>1. x.state.param \in 0..MaxRuns
        BY DEF ExecutorSet, States
      <4>2. CASE y.state.param = r
        BY <1>2, <1>5, <1>6, <3>1, <4>2
      <4>3. CASE y.state.param = x.state.param
        <5>1. x.state.param # 0 => runs'[x.state.param].of = e
          BY <1>4, <1>10, <4>1 DEF e
        <5>. QED BY <1>5, <3>1, <4>3, <5>1
      <4>. QED BY <1>1, <4>2, <4>3
    <3>2. CASE f # e
      <4>1. executors[f].state.param \in 0..MaxRuns
        BY <1>4 DEF ExecutorSet, States
      <4>2. executors[f].state.param # 0 => runs[executors[f].state.param].of = f
        BY DEF IInv, Linked
      <4>. QED BY <1>5, <1>10, <3>2, <4>1, <4>2
    <3>. QED BY <3>1, <3>2
  <2>. QED BY <2>1, <2>2, <2>3, <2>4, <2>5, <2>6 DEF Linked
<1>12. PageShowsCurrent'
  BY <1>5, <1>7, <1>4 DEF IInv, Linked, PageShowsCurrent, Executors, TypeOK
<1>13. TokensFromOwnLogin'
  <2>. SUFFICES ASSUME NEW f \in Executors, executors'[f].state.tokens # 0
                PROVE  runs'[executors'[f].state.tokens].of = f
    BY DEF TokensFromOwnLogin
  <2>1. CASE f = e
    <3>1. x.state.tokens \in 0..MaxRuns
      BY DEF ExecutorSet, States
    <3>2. y.state.tokens = x.state.tokens /\ executors'[f] = y
      BY <1>1, <1>5, <2>1
    <3>3. CASE x.state.tokens = r
      BY <1>2, <1>6, <2>1, <3>2, <3>3
    <3>4. CASE x.state.tokens # r
      <4>1. runs[x.state.tokens].of = e
        BY <3>2, <3>4 DEF e
      <4>. QED BY <1>4, <1>10, <2>1, <3>1, <3>2, <4>1
    <3>. QED BY <3>3, <3>4
  <2>2. CASE f # e
    <3>1. executors[f].state.tokens \in 0..MaxRuns
      BY <1>4 DEF ExecutorSet, States
    <3>2. executors'[f] = executors[f] /\ runs[executors[f].state.tokens].of = f
      BY <1>5, <2>2 DEF IInv, TokensFromOwnLogin
    <3>. QED BY <1>10, <3>1, <3>2
  <2>. QED BY <2>1, <2>2
<1>14. Governed'
  <2>. SUFFICES ASSUME NEW q \in Runs, runs'[q].at # "unused"
                PROVE  /\ executors'[runs'[q].of].signal # 0
                       /\ runs'[q].of # current => executors'[runs'[q].of].aborted
    BY <1>7 DEF Governed
  <2>1. CASE runs'[q].of = e
    BY <1>1, <1>5, <2>1 DEF e
  <2>2. CASE runs'[q].of # e
    <3>1. q # r /\ runs'[q] = runs[q]
      BY <1>2, <1>6, <2>2
    <3>2. runs[q].of \in Executors
      BY <3>1 DEF IInv, Linked, RunLinked
    <3>. QED BY <1>5, <2>2, <3>1, <3>2 DEF IInv, Governed
  <2>. QED BY <2>1, <2>2
<1>15. StartsCurrent
  BY <1>2, <1>6 DEF StartsCurrent, e
<1>. QED BY <1>9, <1>11, <1>12, <1>13, <1>14, <1>15 DEF IInv

\* The run and its executor, where a run stands at a step of its program.
LEMMA AtStep ==
  ASSUME IInv, NEW r \in Runs, runs[r].at \in Awaits
  PROVE  /\ runs[r] \in RunSet /\ runs[r].of \in Executors
         /\ executors[runs[r].of] \in ExecutorSet /\ executors[runs[r].of].flow \in Flows
         /\ runs[r].pc + 1 \in Nat \ {0}
         /\ StepOf(r) \in Step
         /\ StepOf(r).await = "popup" => StepOf(r).window \in Windows
         /\ LET x == executors[runs[r].of] IN
              /\ runs[r].login # 0 => runs[runs[r].login].of = runs[r].of
              /\ x.state.param # 0 => runs[x.state.param].of = runs[r].of
              /\ x.state.tokens # 0 => runs[x.state.tokens].of = runs[r].of
              /\ x.signal # 0 /\ (runs[r].of # current => x.aborted)
         /\ windows \in WindowSet
<1>1. /\ runs[r] \in RunSet /\ executors \in [Executors -> ExecutorSet]
      /\ windows \in WindowSet
  BY DEF IInv, TypeOK, RunSet, ExecutorSet, WindowSet
<1>2. /\ runs[r].of \in Executors /\ executors[runs[r].of].flow \in Flows
      /\ runs[r].pc \in 1..Len(Program[executors[runs[r].of].flow])
      /\ runs[r].login # 0 => runs[runs[r].login].of = runs[r].of
  BY DEF IInv, Linked, RunLinked, Awaits
<1>3. /\ StepOf(r) \in Step
      /\ StepOf(r).await = "popup" => StepOf(r).window \in Windows
  BY <1>2, ProgramStep DEF StepOf
<1>4. runs[r].pc + 1 \in Nat \ {0}
  BY <1>1 DEF RunSet
<1>5. LET x == executors[runs[r].of] IN
        /\ x.state.param # 0 => runs[x.state.param].of = runs[r].of
        /\ x.state.tokens # 0 => runs[x.state.tokens].of = runs[r].of
        /\ x.signal # 0 /\ (runs[r].of # current => x.aborted)
  BY <1>2 DEF IInv, Linked, TokensFromOwnLogin, Governed, Awaits
<1>. QED BY <1>1, <1>2, <1>3, <1>4, <1>5

LEMMA QuietTurn ==
  ASSUME IInv, Quiet
  PROVE  /\ hearing = {} /\ rejecting = {}
         /\ mail \in Seq([for: Windows, ok: BOOLEAN, param: 0..MaxRuns])
         /\ server \subseteq Ids \X Runs
BY DEF IInv, TypeOK, Quiet

\* The digest, and the answers to requests.
LEMMA AnswerIInv ==
  ASSUME IInv, NEW r \in Runs,
         DigestDone(r) \/ AnswerOk(r) \/ AnswerBad(r) \/ AnswerThrows(r)
  PROVE  IInv' /\ StartsCurrent
<1>. DEFINE x == executors[runs[r].of]
<1>1. Quiet /\ runs[r].at \in Awaits /\ PageUnchanged /\ UNCHANGED <<mail, hearing>>
  BY DEF DigestDone, AnswerOk, AnswerBad, AnswerThrows, Asking, Awaits
<1>2. /\ runs[r] \in RunSet /\ runs[r].of \in Executors
      /\ x \in ExecutorSet /\ x.flow \in Flows
      /\ runs[r].pc + 1 \in Nat \ {0}
      /\ StepOf(r) \in Step
      /\ runs[r].login # 0 => runs[runs[r].login].of = runs[r].of
      /\ x.state.param # 0 => runs[x.state.param].of = runs[r].of
      /\ x.state.tokens # 0 => runs[x.state.tokens].of = runs[r].of
      /\ x.signal # 0 /\ (runs[r].of # current => x.aborted)
      /\ windows \in WindowSet
  BY <1>1, AtStep
<1>3. /\ hearing = {} /\ rejecting = {} /\ server \subseteq Ids \X Runs
      /\ mail \in Seq([for: Windows, ok: BOOLEAN, param: 0..MaxRuns])
  BY <1>1, QuietTurn
<1>. HIDE DEF x
<1>4. CASE DigestDone(r) \/ AnswerOk(r)
  <2>. DEFINE z == Receive(r, runs[r], x, StepOf(r))
  <2>1. Proceed(r, runs[r], z, runs[r].pc + 1, windows)
    BY <1>4 DEF DigestDone, AnswerOk, Resume, x
  <2>2. /\ z \in ExecutorSet /\ z.flow = x.flow /\ z.state.param = x.state.param
        /\ z.state.tokens \in {x.state.tokens, runs[r].login}
        /\ z.signal = x.signal /\ z.aborted = x.aborted
    BY <1>2, Received
  <2>3. server' \subseteq Ids \X Runs
    <3>1. CASE DigestDone(r)
      BY <1>3, <3>1 DEF DigestDone
    <3>2. CASE AnswerOk(r)
      <4>1. StepOf(r).creates \subseteq Ids
        BY <1>2 DEF Step
      <4>. QED BY <1>3, <3>2, <4>1 DEF AnswerOk
    <3>. QED BY <1>4, <3>1, <3>2
  <2>. HIDE DEF z
  <2>4. Turn(r, runs[r], z)
    BY <1>2, <1>3, <2>1, <2>2, ProceedTurn
  <2>5. z.flow = executors[runs[r].of].flow
    BY <2>2 DEF x
  <2>. QED BY <1>1, <1>2, <1>3, <2>2, <2>3, <2>4, <2>5, TurnIInv
<1>5. CASE AnswerBad(r)
  <2>. DEFINE run == [runs[r] EXCEPT !.failed = TRUE]
  <2>1. Proceed(r, run, x, runs[r].pc + 1, windows) /\ UNCHANGED server
    BY <1>5 DEF AnswerBad, x
  <2>2. run \in RunSet /\ run.of = runs[r].of /\ run.login = runs[r].login
    BY <1>2 DEF RunSet
  <2>. HIDE DEF run
  <2>3. Turn(r, run, x)
    BY <1>2, <1>3, <2>1, <2>2, ProceedTurn
  <2>. QED BY <1>1, <1>2, <1>3, <2>1, <2>2, <2>3, TurnIInv DEF x
<1>6. CASE AnswerThrows(r)
  <2>1. Fail(r, runs[r], x) /\ UNCHANGED <<windows, rejecting, server>>
    BY <1>6 DEF AnswerThrows, x
  <2>2. Turn(r, runs[r], x)
    BY <1>2, <1>3, <2>1, FailTurn
  <2>. QED BY <1>1, <1>2, <1>3, <2>1, <2>2, TurnIInv DEF x
<1>. QED BY <1>4, <1>5, <1>6

\* A rejected promise: the run stood at a request, so it does not hear a message.
LEMMA RejectIInv ==
  ASSUME IInv, NEW r \in Runs, Reject(r)
  PROVE  IInv' /\ StartsCurrent
<1>. DEFINE x == executors[runs[r].of]
<1>1. /\ Fail(r, runs[r], x) /\ rejecting' = rejecting \ {r} /\ PageUnchanged
      /\ UNCHANGED <<windows, mail, hearing, server>> /\ r \in rejecting
  BY DEF Reject
<1>2. runs[r].at = "request" /\ r \notin hearing
  BY <1>1 DEF IInv, Linked
<1>3. /\ runs[r] \in RunSet /\ runs[r].of \in Executors
      /\ x \in ExecutorSet /\ x.flow \in Flows
      /\ runs[r].login # 0 => runs[runs[r].login].of = runs[r].of
      /\ x.state.param # 0 => runs[x.state.param].of = runs[r].of
      /\ x.state.tokens # 0 => runs[x.state.tokens].of = runs[r].of
      /\ x.signal # 0 /\ (runs[r].of # current => x.aborted)
      /\ windows \in WindowSet
  BY <1>2, AtStep DEF Awaits
<1>4. /\ server' \subseteq Ids \X Runs /\ (hearing' # {} => mail' # <<>>)
      /\ mail' \in Seq([for: Windows, ok: BOOLEAN, param: 0..MaxRuns])
      /\ hearing' \subseteq hearing \ {r}
  BY <1>1, <1>2 DEF IInv, TypeOK
<1>. HIDE DEF x
<1>5. Turn(r, runs[r], x)
  BY <1>1, <1>3, FailTurn
<1>. QED BY <1>1, <1>3, <1>4, <1>5, TurnIInv DEF x

\* popup.close() closes a window or none.
LEMMA ClosedWindows ==
  ASSUME NEW r \in Runs, windows \in WindowSet
  PROVE  Closed(r) \in WindowSet
<1>. DEFINE w == StepOf(r).window
            opened == [windows EXCEPT ![w].page = "closed"]
<1>1. CASE w \in Windows
  <2>1. opened \in WindowSet
    BY <1>1 DEF WindowSet
  <2>. QED BY <2>1 DEF Closed
<1>2. CASE w \notin Windows
  <2>1. opened = windows
    BY <1>2 DEF WindowSet
  <2>. QED BY <2>1 DEF Closed
<1>. QED BY <1>1, <1>2

LEMMA HeadTail ==
  ASSUME NEW S, NEW s \in Seq(S), s # <<>>
  PROVE  Head(s) \in S /\ Tail(s) \in Seq(S)
OBVIOUS

\* A message: its state parameter is the executor's, that is, of a run of this
\* executor, or the run fails.
LEMMA HearIInv ==
  ASSUME IInv, NEW r \in Runs, Hear(r)
  PROVE  IInv' /\ StartsCurrent
<1>. DEFINE x == executors[runs[r].of]
            message == Head(mail)
            run == [runs[r] EXCEPT !.login = message.param]
<1>1. /\ r \in hearing /\ rejecting = {} /\ hearing' = hearing \ {r}
      /\ mail' = IF hearing' = {} THEN Tail(mail) ELSE mail
      /\ UNCHANGED server /\ PageUnchanged
      /\ \/ /\ StateMatches(x, message)
            /\ Proceed(r, run, Receive(r, run, x, StepOf(r)), run.pc + 1, Closed(r))
         \/ /\ Fail(r, runs[r], x)
            /\ windows' = Closed(r) /\ UNCHANGED rejecting
  BY DEF Hear
<1>2. runs[r].at = "popup"
  BY <1>1 DEF IInv, Linked
<1>3. /\ runs[r] \in RunSet /\ runs[r].of \in Executors
      /\ x \in ExecutorSet /\ x.flow \in Flows
      /\ runs[r].pc + 1 \in Nat \ {0}
      /\ StepOf(r) \in Step
      /\ StepOf(r).await = "popup" => StepOf(r).window \in Windows
      /\ runs[r].login # 0 => runs[runs[r].login].of = runs[r].of
      /\ x.state.param # 0 => runs[x.state.param].of = runs[r].of
      /\ x.state.tokens # 0 => runs[x.state.tokens].of = runs[r].of
      /\ x.signal # 0 /\ (runs[r].of # current => x.aborted)
      /\ windows \in WindowSet
  BY <1>2, AtStep DEF Awaits
<1>4. /\ mail \in Seq([for: Windows, ok: BOOLEAN, param: 0..MaxRuns]) /\ mail # <<>>
      /\ server \subseteq Ids \X Runs
  BY <1>1 DEF IInv, TypeOK
<1>5. /\ message.param \in 0..MaxRuns
      /\ Tail(mail) \in Seq([for: Windows, ok: BOOLEAN, param: 0..MaxRuns])
  <2>1. /\ message \in [for: Windows, ok: BOOLEAN, param: 0..MaxRuns]
        /\ Tail(mail) \in Seq([for: Windows, ok: BOOLEAN, param: 0..MaxRuns])
    BY <1>4, HeadTail
  <2>. QED BY <2>1
<1>6. /\ mail' \in Seq([for: Windows, ok: BOOLEAN, param: 0..MaxRuns])
      /\ hearing' # {} => mail' # <<>>
  BY <1>1, <1>4, <1>5
<1>7. Closed(r) \in WindowSet
  BY <1>3, ClosedWindows
<1>8. run \in RunSet /\ run.of = runs[r].of /\ run.login = message.param /\ run.pc = runs[r].pc
  BY <1>3, <1>5 DEF RunSet
<1>. HIDE DEF x, message, run
<1>9. CASE /\ StateMatches(x, message)
           /\ Proceed(r, run, Receive(r, run, x, StepOf(r)), run.pc + 1, Closed(r))
  <2>. DEFINE z == Receive(r, run, x, StepOf(r))
  <2>1. run.login = x.state.param /\ run.login # 0
    BY <1>8, <1>9 DEF StateMatches
  <2>2. /\ z \in ExecutorSet /\ z.flow = x.flow /\ z.state.param = x.state.param
        /\ z.state.tokens \in {x.state.tokens, run.login}
        /\ z.signal = x.signal /\ z.aborted = x.aborted
    BY <1>3, <1>8, Received
  <2>3. Proceed(r, run, z, run.pc + 1, Closed(r))
    BY <1>9
  <2>. HIDE DEF z
  <2>4. Turn(r, run, z)
    BY <1>1, <1>3, <1>7, <1>8, <2>2, <2>3, ProceedTurn
  <2>5. /\ z.flow = executors[run.of].flow /\ z.flow \in Flows
        /\ run.of \in Executors /\ runs[r].of = run.of
        /\ runs[run.login].of = run.of
        /\ z.state.param # 0 => runs[z.state.param].of = run.of
        /\ z.state.tokens # 0 => runs[z.state.tokens].of = run.of
        /\ z.signal # 0 /\ (run.of # current => z.aborted)
    BY <1>3, <1>8, <2>1, <2>2 DEF x
  <2>. QED BY <1>1, <1>4, <1>6, <1>8, <2>2, <2>4, <2>5, TurnIInv
<1>10. CASE /\ Fail(r, runs[r], x)
            /\ windows' = Closed(r) /\ UNCHANGED rejecting
  <2>1. Turn(r, runs[r], x)
    BY <1>1, <1>3, <1>7, <1>10, FailTurn
  <2>. QED BY <1>1, <1>3, <1>4, <1>6, <2>1, TurnIInv DEF x
<1>. QED BY <1>1, <1>9, <1>10

\* The timer of a window: the run fails, or is lost and nothing else changes.
LEMMA PollPopupIInv ==
  ASSUME IInv, NEW r \in Runs, PollPopup(r)
  PROVE  IInv' /\ StartsCurrent
<1>. DEFINE x == executors[runs[r].of]
<1>1. /\ Quiet /\ runs[r].at = "popup" /\ PageUnchanged
      /\ UNCHANGED <<windows, mail, hearing, rejecting, server>>
      /\ \/ Fail(r, runs[r], x)
         \/ Keeps(r, [runs[r] EXCEPT !.at = "lost"]) /\ UNCHANGED <<executors, shown>>
  BY DEF PollPopup
<1>2. /\ runs[r] \in RunSet /\ runs[r].of \in Executors
      /\ x \in ExecutorSet /\ x.flow \in Flows
      /\ runs[r].login # 0 => runs[runs[r].login].of = runs[r].of
      /\ x.state.param # 0 => runs[x.state.param].of = runs[r].of
      /\ x.state.tokens # 0 => runs[x.state.tokens].of = runs[r].of
      /\ x.signal # 0 /\ (runs[r].of # current => x.aborted)
      /\ windows \in WindowSet
  BY <1>1, AtStep DEF Awaits
<1>3. /\ hearing = {} /\ rejecting = {} /\ server \subseteq Ids \X Runs
      /\ mail \in Seq([for: Windows, ok: BOOLEAN, param: 0..MaxRuns])
  BY <1>1, QuietTurn
<1>4. Turn(r, runs[r], x)
  <2>1. CASE Fail(r, runs[r], x)
    BY <1>1, <1>2, <1>3, <2>1, FailTurn
  <2>2. CASE Keeps(r, [runs[r] EXCEPT !.at = "lost"]) /\ UNCHANGED <<executors, shown>>
    <3>. DEFINE n == [runs[r] EXCEPT !.at = "lost"]
    <3>1. n \in RunSet /\ n.of = runs[r].of /\ n.login = runs[r].login /\ n.at = "lost"
      BY <1>2 DEF RunSet
    <3>2. executors' = [executors EXCEPT ![runs[r].of] = x]
      BY <2>2 DEF IInv, TypeOK
    <3>3. runs[r].of \in subscribed => shown = [of |-> runs[r].of, state |-> x.state]
      BY <1>2 DEF IInv, Linked, PageShowsCurrent
    <3>4. Publish(runs[r].of, x)
      BY <2>2, <3>2, <3>3 DEF Publish
    <3>5. Keeps(r, n)
      BY <2>2
    <3>. HIDE DEF n, x
    <3>. QED BY <1>1, <1>2, <1>3, <3>1, <3>4, <3>5 DEF Turn, Awaits
  <2>. QED BY <1>1, <2>1, <2>2
<1>. HIDE DEF x
<1>. QED BY <1>1, <1>2, <1>3, <1>4, TurnIInv DEF x

\* Windows and messages alone.
LEMMA WindowIInv ==
  ASSUME IInv,
         \/ \E w \in Windows, ok \in BOOLEAN : CallbackPage(w, ok)
         \/ \E w \in Windows : WindowCloses(w)
         \/ Deliver
  PROVE  IInv' /\ StartsCurrent
<1>1. UNCHANGED <<executors, runs, shown, rejecting, server, offered, selected, scim, current,
                  subscribed, saved, bearer>>
  BY DEF CallbackPage, WindowCloses, Deliver, PageUnchanged
<1>2. /\ windows \in WindowSet /\ hearing \subseteq Runs /\ (hearing # {} => mail # <<>>)
      /\ mail \in Seq([for: Windows, ok: BOOLEAN, param: 0..MaxRuns])
      /\ \A r \in hearing : runs[r].at = "popup"
  BY DEF IInv, TypeOK, Linked, WindowSet
<1>. DEFINE WindowsTyped ==
       /\ windows \in WindowSet /\ hearing \subseteq Runs /\ (hearing # {} => mail # <<>>)
       /\ mail \in Seq([for: Windows, ok: BOOLEAN, param: 0..MaxRuns])
       /\ \A r \in hearing : runs[r].at = "popup"
<1>3. WindowsTyped'
  <2>1. ASSUME NEW w \in Windows, NEW ok \in BOOLEAN, CallbackPage(w, ok)
        PROVE  WindowsTyped'
    <3>. DEFINE message == [for |-> IF ok THEN w ELSE ErrorWindow,
                            ok |-> ok, param |-> windows[w].param]
    <3>1. /\ windows' = [windows EXCEPT ![w].page = "callback"]
          /\ mail' = Append(mail, message) /\ UNCHANGED hearing /\ hearing = {}
      BY <2>1 DEF CallbackPage, Quiet
    <3>2. message \in [for: Windows, ok: BOOLEAN, param: 0..MaxRuns]
      BY <1>2, ProgramAssumption DEF WindowSet
    <3>3. windows' \in WindowSet
      BY <1>2, <3>1 DEF WindowSet
    <3>. HIDE DEF message
    <3>. QED BY <1>2, <3>1, <3>2, <3>3
  <2>2. ASSUME NEW w \in Windows, WindowCloses(w)
        PROVE  WindowsTyped'
    <3>1. windows' = [windows EXCEPT ![w].page = "closed"] /\ UNCHANGED <<mail, hearing>>
      BY <2>2 DEF WindowCloses
    <3>2. windows' \in WindowSet
      BY <1>2, <3>1 DEF WindowSet
    <3>. QED BY <1>1, <1>2, <3>1, <3>2
  <2>3. CASE Deliver
    <3>1. /\ mail # <<>> /\ UNCHANGED windows
          /\ hearing' = Listening(Head(mail).for)
          /\ mail' = IF hearing' = {} THEN Tail(mail) ELSE mail
      BY <2>3 DEF Deliver
    <3>2. hearing' \subseteq Runs /\ \A r \in hearing' : runs[r].at = "popup"
      BY <3>1 DEF Listening
    <3>3. mail' \in Seq([for: Windows, ok: BOOLEAN, param: 0..MaxRuns])
      BY <1>2, <3>1, HeadTail
    <3>. QED BY <1>1, <1>2, <3>1, <3>2, <3>3
  <2>. QED BY <2>1, <2>2, <2>3
<1>4. TypeOK'
  BY <1>1, <1>3 DEF IInv, TypeOK, WindowSet
<1>5. Linked'
  BY <1>1, <1>3 DEF IInv, Linked, RunLinked
<1>. QED BY <1>1, <1>4, <1>5 DEF IInv, StartsCurrent, Governed, PageShowsCurrent, TokensFromOwnLogin

-----------------------------------------------------------------------------
(* The page *)

\* What execute() begins with: nothing, or what the executor has.
LEMMA StartedState ==
  ASSUME NEW x \in ExecutorSet
  PROVE  LET z == Started(x) IN
         /\ z \in States /\ z.status = "executing"
         /\ z.param \in {0, x.state.param} /\ z.tokens \in {0, x.state.tokens}
<1>1. 0 \in 0..MaxRuns
  BY ProgramAssumption
<1>2. x.state \in States
  BY DEF ExecutorSet
<1>3. CASE x.flow \in FreshFlows
  BY <1>1, <1>3 DEF Started, InitialState, States
<1>4. CASE x.flow \notin FreshFlows
  BY <1>2, <1>4 DEF Started, States
<1>. QED BY <1>3, <1>4

\* execute() of the executor the page has: its first turn.
LEMMA ExecuteIInv ==
  ASSUME IInv, NEW r \in Runs, Execute(r)
  PROVE  IInv' /\ StartsCurrent
<1>. DEFINE y == [executors[current] EXCEPT !.signal = r, !.aborted = FALSE,
                    !.state = Started(executors[current])]
            run == [NewRun EXCEPT !.of = current, !.login = r]
<1>1. /\ Quiet /\ current # 0 /\ runs[r].at = "unused" /\ PageUnchanged
      /\ Proceed(r, run, y, 1, windows) /\ UNCHANGED <<mail, hearing, server>>
  BY DEF Execute, Runs
<1>2. /\ current \in Executors /\ current \in 0..MaxExecutors /\ r \in 0..MaxRuns
      /\ 0 \in 0..MaxRuns
  <2>1. current \in 0..MaxExecutors
    BY DEF IInv, TypeOK
  <2>. QED BY <1>1, <2>1, ProgramAssumption DEF Executors, Runs
<1>3. /\ executors[current] \in ExecutorSet /\ executors[current].flow \in Flows
      /\ windows \in WindowSet /\ runs[r].of = 0
  BY <1>1, <1>2 DEF IInv, TypeOK, Linked, RunLinked, ExecutorSet, WindowSet
<1>4. /\ y \in ExecutorSet /\ y.flow = executors[current].flow
      /\ y.state.param \in {0, executors[current].state.param}
      /\ y.state.tokens \in {0, executors[current].state.tokens}
      /\ y.signal = r /\ r # 0
  <2>1. r # 0
    BY DEF Runs
  <2>. DEFINE z == Started(executors[current])
  <2>2. /\ z \in States /\ z.param \in {0, executors[current].state.param}
        /\ z.tokens \in {0, executors[current].state.tokens}
    BY <1>3, StartedState
  <2>3. y = [executors[current] EXCEPT !.signal = r, !.aborted = FALSE, !.state = z]
    OBVIOUS
  <2>. HIDE DEF y, z
  <2>. QED BY <1>2, <1>3, <2>1, <2>2, <2>3 DEF ExecutorSet
<1>5. run \in RunSet /\ run.of = current /\ run.login = r
  BY <1>2 DEF RunSet, NewRun
<1>6. /\ hearing = {} /\ rejecting = {} /\ server \subseteq Ids \X Runs
      /\ mail \in Seq([for: Windows, ok: BOOLEAN, param: 0..MaxRuns])
  BY <1>1, QuietTurn
<1>. HIDE DEF y, run
<1>7. Turn(r, run, y)
  BY <1>1, <1>3, <1>4, <1>5, <1>6, ProceedTurn
<1>8. /\ y.state.param # 0 => runs[y.state.param].of = current
      /\ y.state.tokens # 0 => runs[y.state.tokens].of = current
  <2>1. /\ executors[current].state.param # 0 =>
             runs[executors[current].state.param].of = current
        /\ executors[current].state.tokens # 0 =>
             runs[executors[current].state.tokens].of = current
    BY <1>2 DEF IInv, Linked, TokensFromOwnLogin
  <2>. QED BY <1>4, <2>1
<1>. QED BY <1>1, <1>2, <1>3, <1>4, <1>5, <1>6, <1>7, <1>8, TurnIInv

\* What the page does between turns of the runs: executors keep or clear their
\* state parameters and tokens, only requests are rejected, and the page shows
\* the executor it has, which has a flow, and listens to no other.
LEMMA PageIInv ==
  ASSUME IInv, Quiet, UNCHANGED <<offered, runs>>, OthersUnchanged,
         executors' \in [Executors -> ExecutorSet],
         \A e \in Executors :
           /\ executors[e].flow \in Flows => /\ executors'[e].flow = executors[e].flow
                                            /\ executors'[e].signal = executors[e].signal
           /\ executors'[e].state.param \in {0, executors[e].state.param}
           /\ executors'[e].state.tokens \in {0, executors[e].state.tokens}
           /\ /\ executors[e].flow \in Flows /\ executors[e].signal # 0 /\ e # current'
              /\ executors[e].aborted \/ e = current
              => executors'[e].aborted,
         rejecting' \subseteq {r \in Runs : runs[r].at = "request"},
         current' \in 0..MaxExecutors,
         subscribed' = IF current' = 0 THEN {} ELSE {current'},
         current' # 0 => executors'[current'].flow \in Flows,
         shown' \in [of: 0..MaxExecutors, state: States], PageShowsCurrent',
         selected' \in offered \cup {NoFlow}, scim' \in BOOLEAN,
         saved' \in 0..MaxRuns, bearer' \in {"absent", "asked", "there"}
  PROVE  IInv' /\ StartsCurrent
<1>1. TypeOK'
  <2>1. subscribed' \subseteq Executors
    BY DEF Executors
  <2>2. executors' \in [Executors ->
          [flow: Flows \cup {NoFlow}, state: States, signal: 0..MaxRuns,
           aborted: BOOLEAN, known: [Ids -> 0..MaxRuns]]]
    BY DEF ExecutorSet
  <2>. QED BY <2>1, <2>2 DEF IInv, TypeOK, OthersUnchanged
<1>2. Linked'
  <2>1. ASSUME NEW r \in Runs PROVE RunLinked(r)'
    BY DEF IInv, Linked, RunLinked
  <2>2. hearing' = {}
    BY DEF Quiet, OthersUnchanged
  <2>3. \A e \in Executors : LET p == executors'[e].state.param IN p # 0 => runs'[p].of = e
    BY DEF IInv, Linked
  <2>. QED BY <2>1, <2>2, <2>3 DEF Linked
<1>3. TokensFromOwnLogin'
  BY DEF IInv, TokensFromOwnLogin
<1>4. Governed'
  BY DEF IInv, Linked, RunLinked, Governed
<1>. QED BY <1>1, <1>2, <1>3, <1>4 DEF IInv, StartsCurrent

\* The executor the page has, after abort() left it with a state.
LEMMA AbortedExecutor ==
  ASSUME IInv, current # 0, NEW state \in States,
         state.param \in {0, Present.param}, state.tokens \in {0, Present.tokens}
  PROVE  LET d == [executors EXCEPT ![current] = Aborted(executors[current], state)] IN
         /\ current \in Executors
         /\ d \in [Executors -> ExecutorSet] /\ d[current].state = state
         /\ \A e \in Executors :
              /\ d[e].flow = executors[e].flow
              /\ d[e].state.param \in {0, executors[e].state.param}
              /\ d[e].state.tokens \in {0, executors[e].state.tokens}
              /\ d[e].signal = executors[e].signal
              /\ executors[e].signal # 0 /\ (executors[e].aborted \/ e = current) =>
                   d[e].aborted
<1>. DEFINE x == executors[current]
            y == Aborted(x, state)
<1>1. current \in Executors /\ executors \in [Executors -> ExecutorSet]
  BY DEF IInv, TypeOK, Executors, ExecutorSet
<1>2. /\ y \in ExecutorSet /\ y.flow = x.flow /\ y.state = state
      /\ y.signal = x.signal /\ y.aborted = (x.signal # 0)
  BY <1>1 DEF Aborted, ExecutorSet
<1>. HIDE DEF y
<1>3. state.param \in {0, x.state.param} /\ state.tokens \in {0, x.state.tokens}
  BY DEF Present
<1>. QED BY <1>1, <1>2, <1>3 DEF y

\* The effect of useRealFlowExecutor.  The executor it creates is a new one,
\* so that no run belongs to it.
LEMMA RecreateIInv ==
  ASSUME IInv, Quiet, NEW f, NEW token, NEW state, Recreate(f, token, state),
         current # 0 => /\ state \in States
                        /\ state.param \in {0, Present.param}
                        /\ state.tokens \in {0, Present.tokens},
         UNCHANGED offered, selected' \in offered \cup {NoFlow}, scim' \in BOOLEAN,
         saved' \in 0..MaxRuns, bearer' \in {"absent", "asked", "there"}
  PROVE  IInv' /\ StartsCurrent
<1>. DEFINE d == IF current = 0 THEN executors
                 ELSE [executors EXCEPT ![current] = Aborted(executors[current], state)]
<1>1. /\ rejecting' = IF current = 0 THEN {} ELSE Interrupted(current)
      /\ UNCHANGED runs /\ OthersUnchanged
      /\ \/ /\ CreateFlowExecutor(f, token)
            /\ \E n \in 1..Limit[offered] :
                 /\ \A e \in Executors : executors[e].flow = NoFlow <=> n <= e
                 /\ executors' = [d EXCEPT ![n] = NewExecutor(f)]
                 /\ current' = n /\ subscribed' = Unsubscribed \cup {n}
                 /\ shown' = [of |-> n, state |-> InitialState]
         \/ /\ executors' = d
            /\ current' = 0 /\ subscribed' = Unsubscribed /\ shown' = NotShown
  BY DEF Recreate
<1>2. rejecting' \subseteq {r \in Runs : runs[r].at = "request"}
  BY <1>1 DEF Interrupted
<1>3. Unsubscribed = {}
  BY DEF IInv, Linked, Unsubscribed
<1>4. executors \in [Executors -> ExecutorSet] /\ 0 \in 0..MaxRuns /\ 0 \in 0..MaxExecutors
  BY ProgramAssumption DEF IInv, TypeOK, ExecutorSet
<1>5. /\ d \in [Executors -> ExecutorSet]
      /\ \A e \in Executors :
           /\ d[e].flow = executors[e].flow
           /\ d[e].state.param \in {0, executors[e].state.param}
           /\ d[e].state.tokens \in {0, executors[e].state.tokens}
           /\ d[e].signal = executors[e].signal
           /\ executors[e].signal # 0 /\ (executors[e].aborted \/ e = current) =>
                d[e].aborted
  BY <1>4, AbortedExecutor DEF Executors
<1>6. InitialState \in States /\ InitialState.param = 0 /\ InitialState.tokens = 0
  BY <1>4 DEF InitialState, States
<1>. HIDE DEF d
<1>7. CASE /\ executors' = d
           /\ current' = 0 /\ subscribed' = Unsubscribed /\ shown' = NotShown
  <2>1. shown' \in [of: 0..MaxExecutors, state: States] /\ PageShowsCurrent'
    BY <1>4, <1>6, <1>7 DEF NotShown, PageShowsCurrent
  <2>2. current' \in 0..MaxExecutors /\ subscribed' = {}
    BY <1>3, <1>4, <1>7
  <2>. QED BY <1>1, <1>2, <1>5, <1>7, <2>1, <2>2, PageIInv
<1>8. ASSUME CreateFlowExecutor(f, token), NEW n \in 1..Limit[offered],
             \A e \in Executors : executors[e].flow = NoFlow <=> n <= e,
             executors' = [d EXCEPT ![n] = NewExecutor(f)],
             current' = n, subscribed' = Unsubscribed \cup {n},
             shown' = [of |-> n, state |-> InitialState]
      PROVE  IInv' /\ StartsCurrent
  <2>1. f \in Flows
    BY <1>8, ProgramAssumption DEF CreateFlowExecutor
  <2>2. n \in Executors /\ n \in 0..MaxExecutors /\ n # 0
    <3>1. Limit[offered] \in Executors
      BY ProgramAssumption DEF IInv, TypeOK
    <3>. QED BY <3>1, ProgramAssumption DEF Executors
  <2>3. executors[n].flow = NoFlow
    BY <1>8, <2>2 DEF Executors
  <2>4. /\ NewExecutor(f) \in ExecutorSet /\ NewExecutor(f).flow = f
        /\ NewExecutor(f).state = InitialState
    BY <1>4, <1>6, <2>1 DEF NewExecutor, ExecutorSet
  <2>5. /\ executors' \in [Executors -> ExecutorSet]
        /\ executors'[n] = NewExecutor(f)
        /\ \A e \in Executors \ {n} : executors'[e] = d[e]
    BY <1>5, <1>8, <2>2, <2>4
  <2>6. \A e \in Executors :
          /\ executors[e].flow \in Flows => /\ executors'[e].flow = executors[e].flow
                                           /\ executors'[e].signal = executors[e].signal
          /\ executors'[e].state.param \in {0, executors[e].state.param}
          /\ executors'[e].state.tokens \in {0, executors[e].state.tokens}
          /\ /\ executors[e].flow \in Flows /\ executors[e].signal # 0
             /\ executors[e].aborted \/ e = current
             => executors'[e].aborted
    BY <1>5, <1>6, <2>3, <2>4, <2>5, ProgramAssumption
  <2>7. shown' \in [of: 0..MaxExecutors, state: States] /\ PageShowsCurrent'
    BY <1>6, <1>8, <2>2, <2>4, <2>5 DEF PageShowsCurrent
  <2>8. /\ current' \in 0..MaxExecutors /\ executors'[current'].flow \in Flows
        /\ subscribed' = IF current' = 0 THEN {} ELSE {current'}
    BY <1>3, <1>8, <2>1, <2>2, <2>4, <2>5
  <2>. QED BY <1>1, <1>2, <2>5, <2>6, <2>7, <2>8, PageIInv
<1>. QED BY <1>1, <1>7, <1>8

\* Abort and Reset.
LEMMA AbortIInv ==
  ASSUME IInv, Abort \/ Reset
  PROVE  IInv' /\ StartsCurrent
<1>1. PICK state \in {[Present EXCEPT !.status = "idle"], InitialState} :
        /\ Quiet /\ current # 0
        /\ Publish(current, Aborted(executors[current], state))
        /\ rejecting' = Interrupted(current)
        /\ UNCHANGED runs /\ OthersUnchanged /\ PageUnchanged
  BY DEF Abort, Reset, Present
<1>2. /\ 0 \in 0..MaxRuns /\ current \in Executors /\ current \in 0..MaxExecutors
      /\ Present \in States
  <2>1. current \in 0..MaxExecutors /\ executors \in [Executors -> ExecutorSet]
    BY DEF IInv, TypeOK, ExecutorSet
  <2>. QED BY <1>1, <2>1, ProgramAssumption DEF Executors, ExecutorSet, Present
<1>3. /\ state \in States /\ state.param \in {0, Present.param}
      /\ state.tokens \in {0, Present.tokens}
  BY <1>2 DEF States, InitialState
<1>. DEFINE d == [executors EXCEPT ![current] = Aborted(executors[current], state)]
<1>4. /\ d \in [Executors -> ExecutorSet] /\ d[current].state = state
      /\ \A e \in Executors :
           /\ d[e].flow = executors[e].flow
           /\ d[e].state.param \in {0, executors[e].state.param}
           /\ d[e].state.tokens \in {0, executors[e].state.tokens}
           /\ d[e].signal = executors[e].signal
           /\ executors[e].signal # 0 /\ (executors[e].aborted \/ e = current) =>
                d[e].aborted
  BY <1>1, <1>3, AbortedExecutor
<1>5. executors' = d
  BY <1>1 DEF Publish
<1>6. UNCHANGED <<offered, selected, scim, current, subscribed, saved, bearer>>
  BY <1>1 DEF PageUnchanged
<1>7. subscribed = {current} /\ executors[current].flow \in Flows
  BY <1>1 DEF IInv, Linked
<1>8. shown' = [of |-> current, state |-> Aborted(executors[current], state).state]
  BY <1>1, <1>7 DEF Publish
<1>9. Aborted(executors[current], state).state = state
  BY <1>2 DEF IInv, TypeOK, Aborted
<1>. HIDE DEF d
<1>10. shown' \in [of: 0..MaxExecutors, state: States] /\ PageShowsCurrent'
  BY <1>1, <1>2, <1>3, <1>4, <1>5, <1>6, <1>8, <1>9 DEF PageShowsCurrent
<1>11. rejecting' \subseteq {r \in Runs : runs[r].at = "request"}
  BY <1>1 DEF Interrupted
<1>12. /\ selected' \in offered \cup {NoFlow} /\ scim' \in BOOLEAN
       /\ saved' \in 0..MaxRuns /\ bearer' \in {"absent", "asked", "there"}
       /\ current' \in 0..MaxExecutors
       /\ subscribed' = IF current' = 0 THEN {} ELSE {current'}
       /\ executors'[current'].flow \in Flows
  BY <1>1, <1>2, <1>4, <1>5, <1>6, <1>7 DEF IInv, TypeOK
<1>. QED BY <1>1, <1>4, <1>5, <1>6, <1>10, <1>11, <1>12, PageIInv

\* The steps that select, and those that change what an executor is created
\* with; they create a new executor or leave the executors alone.
LEMMA SelectIInv ==
  ASSUME IInv,
         \/ \E f \in Flows : SelectFlow(f)
         \/ \E isScim \in BOOLEAN : SelectProtocol(isScim)
         \/ TokenArrives \/ TokenFails \/ StoreRefreshToken
  PROVE  IInv' /\ StartsCurrent
<1>0. /\ offered \in Offers /\ selected \in offered \cup {NoFlow} /\ scim \in BOOLEAN
      /\ saved \in 0..MaxRuns /\ bearer \in {"absent", "asked", "there"}
      /\ 0 \in 0..MaxRuns /\ executors \in [Executors -> ExecutorSet]
      /\ shown.state \in States
  BY ProgramAssumption DEF IInv, TypeOK, ExecutorSet
<1>1. /\ InitialState \in States /\ InitialState.param = 0 /\ InitialState.tokens = 0
      /\ current # 0 => /\ [Present EXCEPT !.status = "idle"] \in States
                        /\ [Present EXCEPT !.status = "idle"].param = Present.param
                        /\ [Present EXCEPT !.status = "idle"].tokens = Present.tokens
  <2>1. ASSUME current # 0 PROVE Present \in States
    <3>1. current \in Executors
      BY <2>1 DEF IInv, TypeOK, Executors
    <3>2. executors[current].state \in States
      BY <1>0, <3>1 DEF ExecutorSet
    <3>. QED BY <3>2 DEF Present
  <2>. QED BY <1>0, <2>1 DEF InitialState, States
\* Where there is no executor to create, only variables of the page change.
<1>2. ASSUME UNCHANGED <<offered, current, subscribed, executors, runs, shown, rejecting>>,
             OthersUnchanged, selected' = selected, scim' = scim, saved' \in 0..MaxRuns,
             bearer' \in {"absent", "asked", "there"}
      PROVE  IInv' /\ StartsCurrent
  <2>1. TypeOK'
    BY <1>0, <1>2 DEF IInv, TypeOK, OthersUnchanged
  <2>2. Linked'
    BY <1>2 DEF IInv, Linked, RunLinked, OthersUnchanged
  <2>. QED BY <1>2, <2>1, <2>2
         DEF IInv, StartsCurrent, Governed, PageShowsCurrent, TokensFromOwnLogin
<1>3. ASSUME NEW f \in Flows, SelectFlow(f) PROVE IInv' /\ StartsCurrent
  <2>1. /\ Quiet /\ Recreate(f, saved, InitialState) /\ UNCHANGED <<offered, saved>>
        /\ selected' \in offered \cup {NoFlow} /\ scim' = (f \in ScimFlows)
        /\ bearer' \in {"asked", bearer}
    BY <1>3 DEF SelectFlow, FetchScimToken
  <2>2. scim' \in BOOLEAN
    BY <2>1
  <2>. QED BY <1>0, <1>1, <2>1, <2>2, RecreateIInv
<1>4. ASSUME NEW isScim \in BOOLEAN, SelectProtocol(isScim) PROVE IInv' /\ StartsCurrent
  <2>1. /\ Quiet /\ Recreate(NoFlow, saved, InitialState) /\ UNCHANGED <<offered, saved>>
        /\ selected' = NoFlow /\ scim' \in BOOLEAN /\ bearer' \in {"asked", bearer}
    BY <1>4 DEF SelectProtocol, FetchScimToken
  <2>. QED BY <1>0, <1>1, <2>1, RecreateIInv
<1>5. CASE TokenArrives
  <2>1. /\ Quiet /\ bearer' = "there" /\ UNCHANGED <<offered, selected, scim, saved>>
        /\ \/ Recreate(selected, saved, [Present EXCEPT !.status = "idle"])
           \/ /\ UNCHANGED <<current, subscribed, executors, runs, shown, rejecting>>
              /\ OthersUnchanged
    BY <1>5 DEF TokenArrives
  <2>2. CASE Recreate(selected, saved, [Present EXCEPT !.status = "idle"])
    BY <1>0, <1>1, <2>1, <2>2, RecreateIInv
  <2>. QED BY <1>0, <1>2, <2>1, <2>2
<1>6. CASE TokenFails
  <2>1. /\ UNCHANGED <<offered, current, subscribed, executors, runs, shown, rejecting>>
        /\ OthersUnchanged /\ selected' = selected /\ scim' = scim /\ saved' = saved
        /\ bearer' = "absent"
    BY <1>6 DEF TokenFails
  <2>. QED BY <1>0, <1>2, <2>1
<1>7. CASE StoreRefreshToken
  <2>0. shown.state.refresh \in 0..MaxRuns
    BY <1>0 DEF States
  <2>1. /\ Quiet /\ saved' \in 0..MaxRuns
        /\ UNCHANGED <<offered, selected, scim, bearer>>
        /\ \/ Recreate(selected, saved', [Present EXCEPT !.status = "idle"])
           \/ /\ UNCHANGED <<current, subscribed, executors, runs, shown, rejecting>>
              /\ OthersUnchanged
    BY <1>7, <2>0 DEF StoreRefreshToken
  <2>2. CASE Recreate(selected, saved', [Present EXCEPT !.status = "idle"])
    BY <1>0, <1>1, <2>1, <2>2, RecreateIInv
  <2>. QED BY <1>0, <1>2, <2>1, <2>2
<1>. QED BY <1>3, <1>4, <1>5, <1>6, <1>7

-----------------------------------------------------------------------------
LEMMA InitIInv == Init => IInv
<1>. SUFFICES ASSUME Init PROVE IInv
  OBVIOUS
<1>0. 0 \in 0..MaxRuns /\ 0 \in 0..MaxExecutors /\ InitialState \in States
  BY ProgramAssumption DEF InitialState, States
<1>1. TypeOK
  <2>1. /\ executors \in [Executors -> ExecutorSet]
        /\ runs \in [Runs -> RunSet] /\ windows \in WindowSet
    <3>1. NewRun \in RunSet /\ NewExecutor(NoFlow) \in ExecutorSet
      BY <1>0 DEF NewRun, RunSet, NewExecutor, ExecutorSet
    <3>. QED BY <1>0, <3>1 DEF Init, WindowSet
  <2>2. shown \in [of: 0..MaxExecutors, state: States]
    BY <1>0 DEF Init, NotShown
  <2>3. /\ mail \in Seq([for: Windows, ok: BOOLEAN, param: 0..MaxRuns])
        /\ hearing = {} /\ rejecting = {} /\ server = {}
    BY DEF Init
  <2>4. /\ offered \in Offers /\ selected = NoFlow /\ scim \in BOOLEAN /\ subscribed = {}
        /\ current = 0 /\ saved = 0 /\ bearer = "absent"
    BY DEF Init
  <2>. QED BY <1>0, <2>1, <2>2, <2>3, <2>4 DEF TypeOK, RunSet, ExecutorSet, WindowSet
<1>2. Linked
  <2>1. \A r \in Runs : RunLinked(r)
    BY DEF Init, NewRun, RunLinked
  <2>2. \A e \in Executors : executors[e].state.param = 0
    BY DEF Init, NewExecutor, InitialState
  <2>. QED BY <2>1, <2>2 DEF Init, Linked
<1>3. PageShowsCurrent
  BY DEF Init, PageShowsCurrent
<1>4. TokensFromOwnLogin
  BY DEF Init, TokensFromOwnLogin, NewExecutor, InitialState
<1>5. Governed
  BY DEF Init, Governed, NewRun
<1>. QED BY <1>1, <1>2, <1>3, <1>4, <1>5 DEF IInv

LEMMA NextIInv == IInv /\ [Next]_vars => IInv' /\ StartsCurrent
<1>. SUFFICES ASSUME IInv, [Next]_vars PROVE IInv' /\ StartsCurrent
  OBVIOUS
<1>1. CASE UserStep
  BY <1>1, SelectIInv, AbortIInv, ExecuteIInv, WindowIInv DEF UserStep
<1>2. CASE BrowserStep
  BY <1>2, WindowIInv, AnswerIInv, RejectIInv, HearIInv, PollPopupIInv DEF BrowserStep
<1>3. CASE TokenArrives \/ TokenFails \/ StoreRefreshToken
  BY <1>3, SelectIInv
<1>4. CASE UNCHANGED vars
  <2>1. TypeOK'
    BY <1>4 DEF IInv, TypeOK, vars
  <2>2. Linked'
    BY <1>4 DEF IInv, Linked, RunLinked, vars
  <2>. QED BY <1>4, <2>1, <2>2
         DEF IInv, StartsCurrent, Governed, PageShowsCurrent, TokensFromOwnLogin, vars
<1>. QED BY <1>1, <1>2, <1>3, <1>4 DEF Next

LEMMA InductiveInvariant == Spec => []IInv
BY InitIInv, NextIInv, PTL DEF Spec

\* Executors, runs, windows and messages keep their shapes, whatever the user,
\* the browser and the server do.
THEOREM FlowTypes == Spec => []TypeOK
<1>1. IInv => TypeOK
  BY DEF IInv
<1>. QED BY <1>1, InductiveInvariant, PTL

\* useRealFlowExecutor: the page shows the state of the executor it has, and
\* never what a run of an executor it dropped writes.
THEOREM ShowsCurrent == Spec => []PageShowsCurrent
<1>1. IInv => PageShowsCurrent
  BY DEF IInv
<1>. QED BY <1>1, InductiveInvariant, PTL

\* handleMessage: an executor that has tokens has them from a login that one of
\* its own runs asked for, whatever windows and messages it shares with others.
THEOREM OwnLogins == Spec => []TokensFromOwnLogin
<1>1. IInv => TokensFromOwnLogin
  BY DEF IInv
<1>. QED BY <1>1, InductiveInvariant, PTL

\* makeRequest: an executor that the page has dropped has aborted its
\* controller, so a request that one of its runs goes on to make is rejected.
THEOREM NoLateRequests == Spec => NoLateRequest
<1>1. IInv /\ [Next]_vars => [StartsCurrent]_vars
  BY NextIInv
<1>2. [][StartsCurrent]_vars => NoLateRequest
  BY PTL DEF StartsCurrent, NoLateRequest
<1>. QED BY <1>1, <1>2, InductiveInvariant, PTL DEF Spec

-----------------------------------------------------------------------------
(* How runs end: the second inductive invariant, on top of the first.        *)

LoggedIn == \A r \in Runs : runs[r].at # "unused" => runs[r].login # 0

\* Run r waits for something, and is not about to be rejected.
Active(r) == runs[r].at \in Awaits /\ r \notin rejecting

RejectedAborted == \A r \in rejecting : executors[runs[r].of].aborted

\* A program that creates something is run by one run at a time, the last of its
\* executor, which has not been aborted.
CreatorAlone ==
  \A r \in Runs : Active(r) /\ Creates(executors[runs[r].of].flow) =>
    LET x == executors[runs[r].of] IN
    /\ runs[r].at = "request" /\ runs[r].signal = r /\ x.signal = r
    /\ ~x.aborted /\ x.state.status = "executing"

\* What a run created and was not refused to delete, it still knows and has yet to
\* delete.
Kept(r, i) ==
  LET x == executors[runs[r].of] IN
  /\ runs[r].at # "unused" /\ Creates(x.flow)
  /\ Active(r) =>
       \/ runs[r].failed
       \/ /\ x.known[i] = r
          /\ \E j \in runs[r].pc..Len(Program[x.flow]) : i \in Program[x.flow][j].deletes
  /\ runs[r].at = "completed" => runs[r].failed

KeepsTrack == \A r \in Runs, i \in Ids : <<i, r>> \in server => Kept(r, i)

EndInv ==
  NeverStuck /\ CompletedHasTokens /\ LoggedIn /\ RejectedAborted /\ CreatorAlone /\ KeepsTrack

\* A turn of run r of executor e, which leaves them as n and y.  It keeps EndInv
\* if what it leaves does, and no other run of a program that creates is active.
LEMMA RunStep ==
  ASSUME IInv, EndInv, NEW r \in Runs, NEW e \in Executors,
         NEW y \in ExecutorSet, NEW n \in RunSet,
         Publish(e, y), Keeps(r, n), n.of = e, n.at # "unused", n.login # 0,
         y.flow = executors[e].flow, runs[r].of \in {0, e},
         rejecting' \ {r} = rejecting \ {r}, r \in rejecting' => y.aborted,
         rejecting # {} => y.aborted = executors[e].aborted,
         y.state.status = "executing" => n.at \in {"digest", "request", "fetch"},
         y.state.status = "awaiting_user" => n.at \in Awaits,
         y.state.status = "completed" /\ GivesTokens(y.flow) => y.state.tokens # 0,
         Creates(y.flow) /\ n.at \in Awaits /\ r \notin rejecting' =>
           /\ n.at = "request" /\ n.signal = r /\ y.signal = r
           /\ ~y.aborted /\ y.state.status = "executing",
         Creates(y.flow) =>
           \A q \in Runs \ {r} : runs[q].of = e /\ runs[q].at \in Awaits => q \in rejecting,
         \A i \in Ids, q \in Runs \ {r} : <<i, q>> \in server' => <<i, q>> \in server,
         \A i \in Ids : <<i, r>> \in server' =>
           /\ Creates(y.flow)
           /\ n.at \in Awaits /\ r \notin rejecting' =>
                \/ n.failed
                \/ /\ y.known[i] = r
                   /\ \E j \in n.pc..Len(Program[y.flow]) : i \in Program[y.flow][j].deletes
           /\ n.at = "completed" => n.failed
  PROVE  EndInv'
<1>1. /\ executors' \in [Executors -> ExecutorSet] /\ executors'[e] = y
      /\ \A f \in Executors \ {e} : executors'[f] = executors[f]
  BY DEF IInv, TypeOK, ExecutorSet, Publish
<1>2. /\ runs' \in [Runs -> RunSet] /\ runs'[r] = n
      /\ \A q \in Runs \ {r} : runs'[q] = runs[q]
  BY DEF IInv, TypeOK, RunSet, Keeps
<1>3. \A q \in Runs : runs[q].at # "unused" => runs[q].of \in Executors
  BY DEF IInv, Linked, RunLinked
<1>4. \A q \in Runs : runs[q].at = "unused" => runs[q].of = 0
  BY DEF IInv, Linked, RunLinked
<1>5. 0 \notin Executors
  BY ProgramAssumption DEF Executors
<1>6. rejecting \subseteq Runs
  BY DEF IInv, TypeOK
<1>7. NeverStuck'
  <2>. SUFFICES ASSUME NEW f \in Executors
       PROVE  /\ executors'[f].state.status = "executing" =>
                   \E q \in Runs : /\ runs'[q].of = f
                                   /\ runs'[q].at \in {"digest", "request", "fetch"}
              /\ executors'[f].state.status = "awaiting_user" =>
                   \E q \in Runs : runs'[q].of = f /\ runs'[q].at \in Awaits
    BY DEF NeverStuck, Awaits
  <2>1. CASE f = e
    BY <1>1, <1>2, <2>1
  <2>2. CASE f # e
    <3>1. /\ executors[f].state.status = "executing" =>
               \E q \in Runs : runs[q].of = f /\ runs[q].at \in {"digest", "request", "fetch"}
          /\ executors[f].state.status = "awaiting_user" =>
               \E q \in Runs : runs[q].of = f /\ runs[q].at \in Awaits
      BY DEF EndInv, NeverStuck, Awaits
    <3>2. runs[r].of # f
      BY <1>5, <2>2
    <3>. QED BY <1>1, <1>2, <2>2, <3>1, <3>2
  <2>. QED BY <2>1, <2>2
<1>8. CompletedHasTokens'
  <2>. SUFFICES ASSUME NEW f \in Executors, executors'[f].state.status = "completed",
                       GivesTokens(executors'[f].flow)
                PROVE  executors'[f].state.tokens # 0
    BY DEF CompletedHasTokens, GivesTokens
  <2>1. CASE f = e
    BY <1>1, <2>1
  <2>2. CASE f # e
    BY <1>1, <2>2 DEF EndInv, CompletedHasTokens
  <2>. QED BY <2>1, <2>2
<1>9. LoggedIn'
  BY <1>2 DEF EndInv, LoggedIn
<1>10. RejectedAborted'
  <2>. SUFFICES ASSUME NEW q \in rejecting' PROVE executors'[runs'[q].of].aborted
    BY DEF RejectedAborted
  <2>1. CASE q = r
    BY <1>1, <1>2, <2>1
  <2>2. CASE q # r
    <3>1. q \in rejecting /\ q \in Runs /\ runs'[q] = runs[q]
      BY <1>2, <1>6, <2>2
    <3>2. runs[q].of \in Executors /\ executors[runs[q].of].aborted
      BY <1>3, <3>1 DEF EndInv, RejectedAborted, IInv, Linked
    <3>. QED BY <1>1, <3>1, <3>2
  <2>. QED BY <2>1, <2>2
\* Other runs that are active were so, and belong to other executors if their
\* program creates something.
<1>11. ASSUME NEW q \in Runs \ {r}, Active(q)', Creates(executors'[runs'[q].of].flow)
       PROVE  /\ runs'[q] = runs[q] /\ Active(q) /\ runs[q].of \in Executors \ {e}
              /\ executors'[runs[q].of] = executors[runs[q].of]
  <2>1. runs'[q] = runs[q] /\ Active(q)
    BY <1>2, <1>11 DEF Active
  <2>2. runs[q].of \in Executors
    BY <1>3, <2>1 DEF Active, Awaits
  <2>3. runs[q].of # e
    BY <1>1, <1>11, <2>1 DEF Active
  <2>. QED BY <1>1, <2>1, <2>2, <2>3
<1>12. CreatorAlone'
  <2>. SUFFICES ASSUME NEW q \in Runs, Active(q)', Creates(executors'[runs'[q].of].flow)
                PROVE  /\ runs'[q].at = "request" /\ runs'[q].signal = q
                       /\ executors'[runs'[q].of].signal = q
                       /\ ~executors'[runs'[q].of].aborted
                       /\ executors'[runs'[q].of].state.status = "executing"
    BY DEF CreatorAlone, Creates
  <2>1. CASE q = r
    BY <1>1, <1>2, <2>1 DEF Active
  <2>2. CASE q # r
    <3>1. /\ runs'[q] = runs[q] /\ Active(q)
          /\ executors'[runs[q].of] = executors[runs[q].of]
      BY <1>11, <2>2
    <3>. QED BY <3>1 DEF EndInv, CreatorAlone
  <2>. QED BY <2>1, <2>2
<1>13. KeepsTrack'
  <2>. SUFFICES ASSUME NEW q \in Runs, NEW i \in Ids, <<i, q>> \in server'
       PROVE  LET x == executors'[runs'[q].of] IN
              /\ runs'[q].at # "unused" /\ Creates(x.flow)
              /\ Active(q)' =>
                   \/ runs'[q].failed
                   \/ /\ x.known[i] = q
                      /\ \E j \in runs'[q].pc..Len(Program[x.flow]) :
                           i \in Program[x.flow][j].deletes
              /\ runs'[q].at = "completed" => runs'[q].failed
    BY DEF KeepsTrack, Kept, Creates
  <2>1. CASE q = r
    BY <1>1, <1>2, <2>1 DEF Active
  <2>2. CASE q # r
    <3>1. <<i, q>> \in server /\ runs'[q] = runs[q]
      BY <1>2, <2>2
    <3>2. /\ runs[q].at # "unused" /\ Creates(executors[runs[q].of].flow)
          /\ runs[q].at = "completed" => runs[q].failed
      BY <3>1 DEF EndInv, KeepsTrack, Kept
    <3>3. runs[q].of \in Executors
      BY <1>3, <3>2
    <3>4. executors'[runs[q].of].flow = executors[runs[q].of].flow
      BY <1>1, <3>3
    <3>5. ASSUME Active(q)'
          PROVE  Active(q) /\ executors'[runs[q].of] = executors[runs[q].of]
      BY <1>11, <2>2, <3>1, <3>2, <3>4, <3>5
    <3>6. Active(q) =>
            \/ runs[q].failed
            \/ /\ executors[runs[q].of].known[i] = q
               /\ \E j \in runs[q].pc..Len(Program[executors[runs[q].of].flow]) :
                    i \in Program[executors[runs[q].of].flow][j].deletes
      BY <3>1 DEF EndInv, KeepsTrack, Kept
    <3>. QED BY <3>1, <3>2, <3>4, <3>5, <3>6
  <2>. QED BY <2>1, <2>2
<1>. QED BY <1>7, <1>8, <1>9, <1>10, <1>12, <1>13 DEF EndInv

\* What a turn of run r writes, if its executor was x and its record run before:
\* the executor is left as y, the run as n.
Writes(r, run, x, y, n) ==
  /\ Publish(run.of, y) /\ Keeps(r, n)
  /\ n.of = run.of /\ n.login = run.login /\ n.failed = run.failed
  /\ y.flow = x.flow /\ y.known = x.known /\ y.state.tokens = x.state.tokens
  /\ y.signal = x.signal /\ y.aborted = x.aborted
  /\ rejecting' \subseteq {r} /\ (r \in rejecting' => x.aborted)

Failed(y, n) == n.at = "failed" /\ y.state.status = "error"

\* The run awaits the step it stands at.
AwaitsStep(x, y, n) ==
  LET step == Program[x.flow][n.pc] IN
  /\ n.at = step.await
  /\ y.state.status = IF step.status = "same" THEN x.state.status ELSE step.status
  /\ n.at = "request" => n.signal = x.signal

\* Where the turn leads that goes on from step k: the steps it passes are skipped.
Outcome(r, run, x, k) ==
  \E y \in ExecutorSet, n \in RunSet :
    /\ Writes(r, run, x, y, n)
    /\ \/ Failed(y, n)
       \/ /\ n.at = "completed" /\ y.state.status = "completed"
          /\ \A i \in k..Len(Program[x.flow]) : Skips(x, Program[x.flow][i])
       \/ /\ n.pc \in k..Len(Program[x.flow])
          /\ \A i \in k..(n.pc - 1) : Skips(x, Program[x.flow][i])
          /\ AwaitsStep(x, y, n)

LEMMA FailWrites ==
  ASSUME NEW r \in Runs, NEW run \in RunSet, NEW x \in ExecutorSet, Fail(r, run, x),
         rejecting' \subseteq {}
  PROVE  \E y \in ExecutorSet, n \in RunSet : Writes(r, run, x, y, n) /\ Failed(y, n)
<1>. DEFINE y == [x EXCEPT !.state.status = "error"]
            n == [run EXCEPT !.at = "failed"]
<1>1. /\ y \in ExecutorSet /\ y.flow = x.flow /\ y.state.tokens = x.state.tokens
      /\ y.known = x.known /\ y.signal = x.signal /\ y.aborted = x.aborted
      /\ y.state.status = "error"
  BY DEF ExecutorSet, States
<1>2. /\ n \in RunSet /\ n.of = run.of /\ n.login = run.login /\ n.at = "failed"
      /\ n.failed = run.failed
  BY DEF RunSet
<1>3. Publish(run.of, y) /\ Keeps(r, n)
  BY DEF Fail
<1>. HIDE DEF y, n
<1>. QED BY <1>1, <1>2, <1>3 DEF Writes, Failed

LEMMA BeginWrites ==
  ASSUME NEW r \in Runs, NEW run \in RunSet, NEW x \in ExecutorSet,
         NEW step \in Step, step = Program[x.flow][run.pc], NEW opened \in WindowSet,
         step.await = "popup" => step.window \in Windows,
         rejecting = {}, Begin(r, run, x, step, opened)
  PROVE  \E y \in ExecutorSet, n \in RunSet :
           /\ Writes(r, run, x, y, n)
           /\ Failed(y, n) \/ (n.pc = run.pc /\ AwaitsStep(x, y, n))
<1>. DEFINE y == [x EXCEPT
              !.state.status = IF step.status = "same" THEN x.state.status ELSE step.status,
              !.state.param = IF step.states THEN r ELSE x.state.param]
<1>0. r \in 0..MaxRuns
  BY ProgramAssumption DEF Runs
<1>1. /\ y \in ExecutorSet /\ y.flow = x.flow /\ y.state.tokens = x.state.tokens
      /\ y.known = x.known /\ y.signal = x.signal /\ y.aborted = x.aborted
      /\ y.state.status = IF step.status = "same" THEN x.state.status ELSE step.status
  BY <1>0 DEF ExecutorSet, States, Step
<1>2. \/ step.await = "popup" /\ OpenPopup(r, run, y, step.window, opened)
      \/ step.await = "popup" /\ PopupBlocked(r, run, y, opened)
      \/ step.await = "request" /\ MakeRequest(r, run, y, opened)
      \/ step.await \in {"digest", "fetch"} /\ AwaitOther(r, run, y, step.await, opened)
  BY DEF Begin
<1>. HIDE DEF y
<1>3. CASE step.await = "popup" /\ OpenPopup(r, run, y, step.window, opened)
  <2>. DEFINE object == IF opened[step.window].page = "closed" THEN r
                        ELSE opened[step.window].object
              n == [run EXCEPT !.at = "popup", !.popup = object]
  <2>1. object \in 0..MaxRuns
    BY <1>0, <1>3 DEF WindowSet
  <2>2. Publish(run.of, y) /\ Keeps(r, n) /\ rejecting' = {}
    BY <1>3 DEF OpenPopup
  <2>. HIDE DEF object
  <2>3. /\ n \in RunSet /\ n.of = run.of /\ n.login = run.login /\ n.at = "popup"
        /\ n.pc = run.pc /\ n.failed = run.failed
    BY <2>1 DEF RunSet
  <2>. HIDE DEF n
  <2>. QED BY <1>1, <1>3, <2>2, <2>3 DEF Writes, AwaitsStep
<1>4. CASE step.await = "popup" /\ PopupBlocked(r, run, y, opened)
  <2>1. PICK z \in ExecutorSet, n \in RunSet : Writes(r, run, y, z, n) /\ Failed(z, n)
    BY <1>1, <1>4, FailWrites DEF PopupBlocked
  <2>. QED BY <1>1, <2>1 DEF Writes
<1>5. CASE step.await = "request" /\ MakeRequest(r, run, y, opened)
  <2>. DEFINE n == [run EXCEPT !.at = "request", !.signal = y.signal]
  <2>1. y.signal \in 0..MaxRuns
    BY <1>1 DEF ExecutorSet
  <2>2. /\ n \in RunSet /\ n.of = run.of /\ n.login = run.login /\ n.at = "request"
        /\ n.pc = run.pc /\ n.failed = run.failed /\ n.signal = y.signal
    BY <2>1 DEF RunSet
  <2>3. /\ Publish(run.of, y) /\ Keeps(r, n)
        /\ rejecting' \subseteq {r} /\ (r \in rejecting' => x.aborted)
    BY <1>1, <1>5 DEF MakeRequest
  <2>. HIDE DEF n
  <2>. QED BY <1>1, <1>5, <2>2, <2>3 DEF Writes, AwaitsStep
<1>6. CASE step.await \in {"digest", "fetch"} /\ AwaitOther(r, run, y, step.await, opened)
  <2>. DEFINE n == [run EXCEPT !.at = step.await]
  <2>1. /\ n \in RunSet /\ n.of = run.of /\ n.login = run.login /\ n.at = step.await
        /\ n.at # "request" /\ n.pc = run.pc /\ n.failed = run.failed
    BY <1>6 DEF RunSet
  <2>2. Publish(run.of, y) /\ Keeps(r, n) /\ rejecting' = {}
    BY <1>6 DEF AwaitOther
  <2>. HIDE DEF n
  <2>. QED BY <1>1, <2>1, <2>2 DEF Writes, AwaitsStep
<1>. QED BY <1>2, <1>3, <1>4, <1>5, <1>6

LEMMA ProceedOutcome ==
  ASSUME NEW r \in Runs, NEW run \in RunSet, NEW x \in ExecutorSet, x.flow \in Flows,
         NEW k \in Nat \ {0}, NEW opened \in WindowSet, rejecting = {},
         Proceed(r, run, x, k, opened)
  PROVE  Outcome(r, run, x, k)
<1>. DEFINE program == Program[x.flow]
<1>0. Len(program) \in Nat
  BY ProgramAssumption
<1>1. PICK j \in k..(Len(program) + 1) :
        /\ \A i \in k..(j - 1) : Skips(x, program[i])
        /\ LET here == [run EXCEPT !.pc = j] IN
           \/ /\ j > Len(program)
              /\ Complete(r, here, x)
              /\ windows' = opened /\ UNCHANGED rejecting
           \/ /\ j <= Len(program)
              /\ Fail(r, here, x)
              /\ windows' = opened /\ UNCHANGED rejecting
           \/ /\ j <= Len(program)
              /\ Begin(r, here, x, program[j], opened)
  BY DEF Proceed
<1>. DEFINE here == [run EXCEPT !.pc = j]
<1>2. j \in Nat \ {0}
  BY <1>0
<1>3. /\ here \in RunSet /\ here.of = run.of /\ here.login = run.login /\ here.pc = j
      /\ here.failed = run.failed
  BY <1>2 DEF RunSet
<1>4. \/ j > Len(program) /\ Complete(r, here, x) /\ UNCHANGED rejecting
      \/ Fail(r, here, x) /\ UNCHANGED rejecting
      \/ j <= Len(program) /\ Begin(r, here, x, program[j], opened)
  BY <1>1
<1>. HIDE DEF here
<1>5. CASE j > Len(program) /\ Complete(r, here, x) /\ UNCHANGED rejecting
  <2>. DEFINE y == [x EXCEPT !.state.status = "completed"]
              n == [here EXCEPT !.at = "completed"]
  <2>1. /\ y \in ExecutorSet /\ y.flow = x.flow /\ y.state.tokens = x.state.tokens
        /\ y.known = x.known /\ y.signal = x.signal /\ y.aborted = x.aborted
        /\ y.state.status = "completed"
    BY DEF ExecutorSet, States
  <2>2. /\ n \in RunSet /\ n.of = run.of /\ n.login = run.login /\ n.at = "completed"
        /\ n.failed = run.failed
    BY <1>3 DEF RunSet
  <2>3. Publish(run.of, y) /\ Keeps(r, n)
    BY <1>3, <1>5 DEF Complete
  <2>4. \A i \in k..Len(program) : Skips(x, program[i])
    <3>1. j = Len(program) + 1
      BY <1>0, <1>2, <1>5
    <3>. QED BY <1>0, <1>1, <3>1
  <2>. HIDE DEF y, n
  <2>5. Writes(r, run, x, y, n)
    BY <1>5, <2>1, <2>2, <2>3 DEF Writes
  <2>. QED BY <2>1, <2>2, <2>4, <2>5 DEF Outcome
<1>6. CASE Fail(r, here, x) /\ UNCHANGED rejecting
  <2>1. PICK y \in ExecutorSet, n \in RunSet : Writes(r, here, x, y, n) /\ Failed(y, n)
    BY <1>3, <1>6, FailWrites
  <2>2. Writes(r, run, x, y, n)
    BY <1>3, <2>1 DEF Writes
  <2>. QED BY <2>1, <2>2 DEF Outcome
<1>7. CASE j <= Len(program) /\ Begin(r, here, x, program[j], opened)
  <2>1. j \in 1..Len(program) /\ j \in k..Len(program)
    BY <1>0, <1>2, <1>7
  <2>2. program[j] \in Step /\ (program[j].await = "popup" => program[j].window \in Windows)
    BY <2>1, ProgramStep
  <2>3. PICK y \in ExecutorSet, n \in RunSet :
          /\ Writes(r, here, x, y, n)
          /\ Failed(y, n) \/ (n.pc = here.pc /\ AwaitsStep(x, y, n))
    BY <1>3, <1>7, <2>1, <2>2, BeginWrites
  <2>4. Writes(r, run, x, y, n)
    BY <1>3, <2>3 DEF Writes
  <2>5. \A i \in k..(j - 1) : Skips(x, program[i])
    BY <1>1
  <2>. QED BY <1>3, <2>1, <2>3, <2>4, <2>5 DEF Outcome
<1>. QED BY <1>4, <1>5, <1>6, <1>7

\* A step that deletes what the run still knows is not skipped.
LEMMA DeletesNotSkipped ==
  ASSUME NEW f \in Flows, Creates(f), NEW j \in 1..Len(Program[f]), NEW i \in Ids,
         i \in Program[f][j].deletes, NEW x, x.known[i] # 0
  PROVE  ~Skips(x, Program[f][j])
<1>1. Program[f][j].needs = {i}
  BY CreatorsDelete DEF Creates
<1>. QED BY <1>1 DEF Skips, Has

\* The step that gives the tokens is not skipped.
LEMMA TokensNotSkipped ==
  ASSUME NEW f \in Flows, GivesTokens(f), NEW x
  PROVE  /\ Len(Program[f]) \in Nat \ {0}
         /\ ~Skips(x, Program[f][Len(Program[f])])
         /\ "tokens" \in Program[f][Len(Program[f])].gives
         /\ Program[f][Len(Program[f])].bad = "throw"
<1>1. Len(Program[f]) \in Nat \ {0}
  <2>1. Len(Program[f]) \in Nat
    BY ProgramAssumption
  <2>. QED BY <2>1 DEF GivesTokens
<1>. QED BY <1>1, TokensComeLast DEF GivesTokens, Skips, Has

\* A turn that goes on from step k, with what it has received so far in x and run.
LEMMA ProceedStep ==
  ASSUME IInv, EndInv, NEW r \in Runs, NEW run \in RunSet, NEW x \in ExecutorSet,
         NEW k \in Nat \ {0}, Outcome(r, run, x, k), rejecting = {},
         run.of \in Executors, x.flow = executors[run.of].flow, x.flow \in Flows,
         runs[r].of \in {0, run.of}, run.login # 0,
         /\ GivesTokens(x.flow)
         /\ \/ x.state.status = "completed"
            \/ \A i \in k..Len(Program[x.flow]) : Skips(x, Program[x.flow][i])
         => x.state.tokens # 0,
         Creates(x.flow) =>
           /\ x.state.status = "executing" /\ ~x.aborted /\ x.signal = r
           /\ \A q \in Runs \ {r} : runs[q].of = run.of => runs[q].at \notin Awaits,
         \A i \in Ids, q \in Runs \ {r} : <<i, q>> \in server' => <<i, q>> \in server,
         \A i \in Ids : <<i, r>> \in server' =>
           /\ Creates(x.flow)
           /\ \/ run.failed
              \/ /\ x.known[i] = r
                 /\ \E j \in k..Len(Program[x.flow]) : i \in Program[x.flow][j].deletes
  PROVE  EndInv'
<1>. DEFINE program == Program[x.flow]
<1>1. PICK y \in ExecutorSet, n \in RunSet :
        /\ Writes(r, run, x, y, n)
        /\ \/ Failed(y, n)
           \/ /\ n.at = "completed" /\ y.state.status = "completed"
              /\ \A i \in k..Len(program) : Skips(x, program[i])
           \/ /\ n.pc \in k..Len(program)
              /\ \A i \in k..(n.pc - 1) : Skips(x, program[i])
              /\ AwaitsStep(x, y, n)
  BY DEF Outcome
<1>2. Len(program) \in Nat /\ r # 0
  BY ProgramAssumption DEF Runs
<1>3. /\ Publish(run.of, y) /\ Keeps(r, n) /\ n.of = run.of /\ n.login # 0
      /\ n.failed = run.failed
      /\ y.flow = x.flow /\ y.known = x.known /\ y.state.tokens = x.state.tokens
      /\ y.signal = x.signal /\ y.aborted = x.aborted
      /\ rejecting' \subseteq {r} /\ (r \in rejecting' => y.aborted)
  BY <1>1 DEF Writes
<1>4. CASE Failed(y, n)
  <2>1. n.at = "failed" /\ y.state.status = "error"
    BY <1>4 DEF Failed
  <2>2. n.at \notin Awaits
    BY <2>1 DEF Awaits
  <2>. HIDE DEF program
  <2>. QED BY <1>3, <2>1, <2>2, RunStep
\* What the run has yet to delete comes in a step that it does not pass.
<1>5. ASSUME NEW i \in Ids, <<i, r>> \in server', ~run.failed
      PROVE  /\ x.known[i] = r
             /\ \E j \in k..Len(program) : i \in program[j].deletes /\ ~Skips(x, program[j])
  <2>1. PICK j \in k..Len(program) : i \in program[j].deletes
    BY <1>5
  <2>2. Creates(x.flow) /\ x.known[i] = r
    BY <1>5
  <2>3. j \in 1..Len(program)
    BY <1>2, <2>1
  <2>. QED BY <1>2, <2>1, <2>2, <2>3, DeletesNotSkipped
<1>6. CASE /\ n.at = "completed" /\ y.state.status = "completed"
           /\ \A i \in k..Len(program) : Skips(x, program[i])
  <2>1. n.at \notin Awaits
    BY <1>6 DEF Awaits
  <2>2. GivesTokens(y.flow) => y.state.tokens # 0
    BY <1>3, <1>6
  <2>3. \A i \in Ids : <<i, r>> \in server' => Creates(y.flow) /\ n.failed
    BY <1>3, <1>5, <1>6
  <2>. HIDE DEF program
  <2>. QED BY <1>3, <1>6, <2>1, <2>2, <2>3, RunStep
<1>7. CASE /\ n.pc \in k..Len(program)
           /\ \A i \in k..(n.pc - 1) : Skips(x, program[i])
           /\ AwaitsStep(x, y, n)
  <2>. DEFINE step == program[n.pc]
  <2>1. n.pc \in 1..Len(program)
    BY <1>2, <1>7
  <2>2. /\ step \in Step /\ (step.await = "popup" => step.status = "awaiting_user")
        /\ n.at = step.await
        /\ y.state.status = IF step.status = "same" THEN x.state.status ELSE step.status
        /\ n.at = "request" => n.signal = x.signal
    BY <1>7, <2>1, ProgramAssumption DEF AwaitsStep
  <2>3. n.at \in Awaits /\ n.at # "unused" /\ n.at # "completed"
    BY <2>2 DEF Step, Awaits
  <2>4. y.state.status = "executing" => n.at \in {"digest", "request", "fetch"}
    BY <2>2 DEF Step
  <2>5. y.state.status = "completed" /\ GivesTokens(y.flow) => y.state.tokens # 0
    BY <1>3, <2>2 DEF Step
  <2>6. Creates(y.flow) =>
          /\ n.at = "request" /\ n.signal = r /\ y.signal = r
          /\ ~y.aborted /\ y.state.status = "executing"
    <3>1. Creates(x.flow) => step.await = "request" /\ step.status = "same"
      BY <2>1, CreatorsDelete DEF Creates
    <3>. QED BY <1>3, <2>2, <3>1
  <2>7. \A i \in Ids : <<i, r>> \in server' =>
           /\ Creates(y.flow)
           /\ \/ n.failed
              \/ /\ y.known[i] = r
                 /\ \E j \in n.pc..Len(Program[y.flow]) : i \in Program[y.flow][j].deletes
    <3>. SUFFICES ASSUME NEW i \in Ids, <<i, r>> \in server', ~run.failed
         PROVE  /\ x.known[i] = r
                /\ \E j \in n.pc..Len(program) : i \in program[j].deletes
      BY <1>3
    <3>1. PICK j \in k..Len(program) : i \in program[j].deletes /\ ~Skips(x, program[j])
      BY <1>5
    <3>2. j \notin k..(n.pc - 1)
      BY <1>7, <3>1
    <3>3. j \in n.pc..Len(program)
      BY <1>2, <2>1, <3>1, <3>2
    <3>. QED BY <1>5, <3>1, <3>3
  <2>. HIDE DEF program, step
  <2>. QED BY <1>3, <2>3, <2>4, <2>5, <2>6, <2>7, RunStep
<1>. QED BY <1>1, <1>4, <1>6, <1>7

\* A run that is active under a program that creates something is the only one of
\* its executor.
LEMMA Alone ==
  ASSUME IInv, EndInv, NEW r \in Runs, Active(r), Creates(executors[runs[r].of].flow)
  PROVE  LET x == executors[runs[r].of] IN
         /\ runs[r].at = "request" /\ x.signal = r /\ ~x.aborted
         /\ x.state.status = "executing"
         /\ \A q \in Runs \ {r} :
              runs[q].of = runs[r].of /\ runs[q].at \in Awaits => q \in rejecting
BY DEF EndInv, CreatorAlone, Active

\* The catch block.
LEMMA FailStep ==
  ASSUME IInv, EndInv, NEW r \in Runs, runs[r].at \in Awaits,
         Fail(r, runs[r], executors[runs[r].of]),
         rejecting' = rejecting \ {r}, UNCHANGED server
  PROVE  EndInv'
<1>. DEFINE x == executors[runs[r].of]
            y == [x EXCEPT !.state.status = "error"]
            n == [runs[r] EXCEPT !.at = "failed"]
<1>1. /\ runs[r] \in RunSet /\ runs[r].of \in Executors /\ x \in ExecutorSet
  BY AtStep
<1>2. /\ y \in ExecutorSet /\ y.flow = x.flow /\ y.aborted = x.aborted
      /\ y.state.status = "error"
  BY <1>1 DEF ExecutorSet, States
<1>3. n \in RunSet /\ n.of = runs[r].of /\ n.login = runs[r].login /\ n.at = "failed"
  BY <1>1 DEF RunSet
<1>4. Publish(runs[r].of, y) /\ Keeps(r, n)
  BY DEF Fail
<1>5. n.login # 0
  BY <1>3 DEF EndInv, LoggedIn, Awaits
\* Others of the executor are rejected: r is alone, or its executor is aborted.
<1>6. ASSUME Creates(x.flow), NEW q \in Runs \ {r}, runs[q].of = runs[r].of,
             runs[q].at \in Awaits
      PROVE  q \in rejecting
  <2>1. CASE r \in rejecting
    <3>1. x.aborted
      BY <2>1 DEF EndInv, RejectedAborted
    <3>2. Active(q) => ~x.aborted
      BY <1>6 DEF EndInv, CreatorAlone
    <3>. QED BY <1>6, <3>1, <3>2 DEF Active
  <2>2. CASE r \notin rejecting
    BY <1>6, <2>2, Alone DEF Active
  <2>. QED BY <2>1, <2>2
<1>7. \A i \in Ids : <<i, r>> \in server' => Creates(x.flow)
  BY DEF EndInv, KeepsTrack, Kept
<1>8. n.at \notin Awaits
  BY <1>3 DEF Awaits
<1>9. y.flow = executors[runs[r].of].flow /\ y.aborted = executors[runs[r].of].aborted
  BY <1>2
<1>10. Creates(y.flow) =>
         \A q \in Runs \ {r} : runs[q].of = runs[r].of /\ runs[q].at \in Awaits => q \in rejecting
  BY <1>2, <1>6
<1>11. \A i \in Ids : <<i, r>> \in server' => Creates(y.flow)
  BY <1>2, <1>7
<1>. HIDE DEF x, y, n
<1>. QED BY <1>1, <1>2, <1>3, <1>4, <1>5, <1>8, <1>9, <1>10, <1>11, RunStep

\* What a good answer to the step run r stands at leaves in its executor.
LEMMA ReceivedAll ==
  ASSUME NEW r \in Runs, NEW run \in RunSet, NEW x \in ExecutorSet, NEW step \in Step
  PROVE  LET z == Receive(r, run, x, step) IN
         /\ \A i \in Ids : z.known[i] = IF i \in step.gives THEN r ELSE x.known[i]
         /\ z.state.status = x.state.status
         /\ z.state.tokens = IF "tokens" \in step.gives THEN run.login ELSE x.state.tokens
BY DEF Receive, ExecutorSet, States

\* A run that has passed the last step of a program for tokens has just received
\* them.
LEMMA PastTheLast ==
  ASSUME NEW f \in Flows, GivesTokens(f), NEW z, NEW pc \in 1..Len(Program[f]),
         \A i \in (pc + 1)..Len(Program[f]) : Skips(z, Program[f][i])
  PROVE  "tokens" \in Program[f][pc].gives /\ Program[f][pc].bad = "throw"
<1>1. /\ Len(Program[f]) \in Nat \ {0}
      /\ ~Skips(z, Program[f][Len(Program[f])])
      /\ "tokens" \in Program[f][Len(Program[f])].gives
      /\ Program[f][Len(Program[f])].bad = "throw"
  BY TokensNotSkipped
<1>2. Len(Program[f]) \notin (pc + 1)..Len(Program[f])
  BY <1>1
<1>3. pc = Len(Program[f])
  BY <1>1, <1>2
<1>. QED BY <1>1, <1>3

\* An executor that goes on after a good answer has tokens if it completes.
LEMMA TokensReceived ==
  ASSUME IInv, EndInv, NEW r \in Runs, runs[r].at \in Awaits, NEW run \in RunSet,
         run.login # 0, run.pc = runs[r].pc, NEW z,
         z = Receive(r, run, executors[runs[r].of], StepOf(r)), z.flow \in Flows,
         z.flow = executors[runs[r].of].flow, GivesTokens(z.flow),
         \/ z.state.status = "completed"
         \/ \A i \in (run.pc + 1)..Len(Program[z.flow]) : Skips(z, Program[z.flow][i])
  PROVE  z.state.tokens # 0
<1>. DEFINE x == executors[runs[r].of]
<1>1. /\ x \in ExecutorSet /\ runs[r].of \in Executors /\ StepOf(r) \in Step
      /\ runs[r].pc \in 1..Len(Program[x.flow])
  BY AtStep DEF IInv, Linked, RunLinked, Awaits
<1>2. /\ z.state.status = x.state.status
      /\ z.state.tokens = IF "tokens" \in StepOf(r).gives THEN run.login ELSE x.state.tokens
  <2>1. z = Receive(r, run, x, StepOf(r))
    OBVIOUS
  <2>. HIDE DEF x
  <2>. QED BY <1>1, <2>1, ReceivedAll
<1>3. CASE z.state.status = "completed"
  <2>1. x.state.tokens # 0
    BY <1>1, <1>2, <1>3 DEF EndInv, CompletedHasTokens
  <2>. QED BY <1>2, <2>1
<1>4. CASE \A i \in (run.pc + 1)..Len(Program[z.flow]) : Skips(z, Program[z.flow][i])
  <2>1. "tokens" \in Program[z.flow][runs[r].pc].gives
    BY <1>1, <1>4, PastTheLast
  <2>. QED BY <1>2, <2>1 DEF StepOf
<1>. QED BY <1>3, <1>4

\* The digest, and answers that are not thrown.
LEMMA AnswerEnds ==
  ASSUME IInv, EndInv, NEW r \in Runs,
         DigestDone(r) \/ AnswerOk(r) \/ AnswerBad(r) \/ AnswerThrows(r)
  PROVE  EndInv'
<1>. DEFINE x == executors[runs[r].of]
            step == StepOf(r)
            k == runs[r].pc + 1
<1>1. Quiet /\ runs[r].at \in Awaits /\ hearing = {} /\ rejecting = {}
  BY DEF DigestDone, AnswerOk, AnswerBad, AnswerThrows, Asking, Awaits, Quiet
<1>2. /\ runs[r] \in RunSet /\ runs[r].of \in Executors
      /\ x \in ExecutorSet /\ x.flow \in Flows
      /\ k \in Nat \ {0} /\ step \in Step /\ windows \in WindowSet
  BY <1>1, AtStep
<1>3. /\ runs[r].pc \in 1..Len(Program[x.flow]) /\ Len(Program[x.flow]) \in Nat
      /\ step = Program[x.flow][runs[r].pc]
  BY <1>1, <1>2, ProgramAssumption DEF IInv, Linked, RunLinked, Awaits, StepOf
<1>4. Active(r) /\ runs[r].login # 0 /\ r # 0
  BY <1>1, <1>2 DEF Active, EndInv, LoggedIn, Awaits, Runs
<1>5. Creates(x.flow) =>
        /\ x.state.status = "executing" /\ ~x.aborted /\ x.signal = r
        /\ runs[r].at = "request"
        /\ \A q \in Runs \ {r} : runs[q].of = runs[r].of => runs[q].at \notin Awaits
  BY <1>1, <1>4, Alone
<1>6. \A i \in Ids : <<i, r>> \in server =>
        /\ Creates(x.flow)
        /\ \/ runs[r].failed
           \/ /\ x.known[i] = r
              /\ \E j \in runs[r].pc..Len(Program[x.flow]) : i \in Program[x.flow][j].deletes
  BY <1>4 DEF EndInv, KeepsTrack, Kept
<1>. HIDE DEF x, step, k
<1>7. CASE DigestDone(r) \/ AnswerOk(r)
  <2>. DEFINE z == Receive(r, runs[r], x, step)
  <2>1. Proceed(r, runs[r], z, k, windows)
    BY <1>7 DEF DigestDone, AnswerOk, Resume, x, step, k
  <2>2. /\ z \in ExecutorSet /\ z.flow = x.flow
        /\ z.signal = x.signal /\ z.aborted = x.aborted
    BY <1>2, Received
  <2>3. /\ \A i \in Ids : z.known[i] = IF i \in step.gives THEN r ELSE x.known[i]
        /\ z.state.status = x.state.status
    BY <1>2, ReceivedAll
  <2>4. z = Receive(r, runs[r], executors[runs[r].of], StepOf(r))
    BY DEF x, step
  <2>. HIDE DEF z
  <2>5. Outcome(r, runs[r], z, k)
    BY <1>1, <1>2, <2>1, <2>2, ProceedOutcome
  <2>6. /\ GivesTokens(z.flow)
        /\ \/ z.state.status = "completed"
           \/ \A i \in k..Len(Program[z.flow]) : Skips(z, Program[z.flow][i])
        => z.state.tokens # 0
    BY <1>1, <1>2, <1>4, <2>2, <2>4, TokensReceived DEF x, k
  <2>7. \A i \in Ids, q \in Runs \ {r} : <<i, q>> \in server' => <<i, q>> \in server
    BY <1>7 DEF DigestDone, AnswerOk
  <2>8. ASSUME NEW i \in Ids, <<i, r>> \in server'
        PROVE  /\ Creates(z.flow)
               /\ \/ runs[r].failed
                  \/ /\ z.known[i] = r
                     /\ \E j \in k..Len(Program[z.flow]) : i \in Program[z.flow][j].deletes
    <3>1. CASE DigestDone(r)
      <4>1. <<i, r>> \in server /\ runs[r].at = "digest"
        BY <2>8, <3>1 DEF DigestDone
      <4>. QED BY <1>5, <1>6, <4>1
    <3>2. CASE AnswerOk(r)
      <4>1. server' = (server \cup {<<c, r>> : c \in step.creates})
                        \ {<<d, x.known[d]>> : d \in step.deletes}
        BY <3>2 DEF AnswerOk, x, step
\* It was there and was not deleted, or the step has created it.
      <4>2. CASE <<i, r>> \in server
        <5>1. Creates(x.flow)
          BY <1>6, <4>2
        <5>2. CASE ~runs[r].failed
          <6>1. PICK j \in runs[r].pc..Len(Program[x.flow]) : i \in Program[x.flow][j].deletes
            BY <1>6, <4>2, <5>2
          <6>2. x.known[i] = r
            BY <1>6, <4>2, <5>2
          <6>3. i \notin step.deletes
            BY <2>8, <4>1, <6>2
          <6>4. j \in k..Len(Program[x.flow])
            BY <1>3, <6>1, <6>3 DEF k
          <6>. QED BY <2>2, <2>3, <5>1, <6>1, <6>2, <6>4
        <5>. QED BY <2>2, <5>1, <5>2
      <4>3. CASE <<i, r>> \notin server
        <5>1. i \in step.creates
          BY <2>8, <4>1, <4>3
        <5>2. Creates(x.flow)
          BY <1>3, <5>1 DEF Creates
        <5>3. /\ i \in step.gives
              /\ \E j \in (runs[r].pc + 1)..Len(Program[x.flow]) :
                   i \in Program[x.flow][j].deletes
          BY <1>2, <1>3, <5>1, <5>2, CreatorsDelete
        <5>. QED BY <2>2, <2>3, <5>2, <5>3 DEF k
      <4>. QED BY <4>2, <4>3
    <3>. QED BY <1>7, <3>1, <3>2
  <2>9. /\ z.flow = executors[runs[r].of].flow
        /\ Creates(z.flow) =>
             /\ z.state.status = "executing" /\ ~z.aborted /\ z.signal = r
             /\ \A q \in Runs \ {r} : runs[q].of = runs[r].of => runs[q].at \notin Awaits
    BY <1>5, <2>2, <2>3 DEF x
  <2>. QED BY <1>1, <1>2, <1>4, <2>2, <2>5, <2>6, <2>7, <2>8, <2>9, ProceedStep
<1>8. CASE AnswerBad(r)
  <2>. DEFINE run == [runs[r] EXCEPT !.failed = TRUE]
  <2>1. Proceed(r, run, x, k, windows) /\ UNCHANGED server /\ step.bad = "go"
    BY <1>8 DEF AnswerBad, x, k, step
  <2>2. run \in RunSet /\ run.of = runs[r].of /\ run.login = runs[r].login /\ run.failed
    BY <1>2 DEF RunSet
  <2>. HIDE DEF run
  <2>3. Outcome(r, run, x, k)
    BY <1>1, <1>2, <2>1, <2>2, ProceedOutcome
  <2>4. /\ GivesTokens(x.flow)
        /\ \/ x.state.status = "completed"
           \/ \A i \in k..Len(Program[x.flow]) : Skips(x, Program[x.flow][i])
        => x.state.tokens # 0
    <3>1. x.state.status = "completed" /\ GivesTokens(x.flow) => x.state.tokens # 0
      BY <1>2 DEF EndInv, CompletedHasTokens, x
    <3>2. ASSUME GivesTokens(x.flow),
                 \A i \in k..Len(Program[x.flow]) : Skips(x, Program[x.flow][i])
          PROVE  FALSE
      <4>1. step.bad = "throw"
        BY <1>2, <1>3, <3>2, PastTheLast DEF k
      <4>. QED BY <2>1, <4>1
    <3>. QED BY <3>1, <3>2
  <2>5. \A i \in Ids : <<i, r>> \in server' => Creates(x.flow) /\ run.failed
    BY <1>6, <2>1, <2>2
  <2>6. x.flow = executors[run.of].flow
    BY <2>2 DEF x
  <2>. QED BY <1>1, <1>2, <1>4, <1>5, <2>1, <2>2, <2>3, <2>4, <2>5, <2>6, ProceedStep
<1>9. CASE AnswerThrows(r)
  BY <1>1, <1>9, FailStep DEF AnswerThrows
<1>. QED BY <1>7, <1>8, <1>9

\* A message: programs that create something open no window to hear one from.
LEMMA HearEnds ==
  ASSUME IInv, EndInv, NEW r \in Runs, Hear(r)
  PROVE  EndInv'
<1>. DEFINE x == executors[runs[r].of]
            message == Head(mail)
            run == [runs[r] EXCEPT !.login = message.param]
<1>1. /\ r \in hearing /\ rejecting = {} /\ UNCHANGED server
      /\ \/ /\ StateMatches(x, message)
            /\ Proceed(r, run, Receive(r, run, x, StepOf(r)), run.pc + 1, Closed(r))
         \/ /\ Fail(r, runs[r], x)
            /\ windows' = Closed(r) /\ UNCHANGED rejecting
  BY DEF Hear
<1>2. runs[r].at = "popup" /\ runs[r].at \in Awaits
  BY <1>1 DEF IInv, Linked, Awaits
<1>3. /\ runs[r] \in RunSet /\ runs[r].of \in Executors
      /\ x \in ExecutorSet /\ x.flow \in Flows
      /\ runs[r].pc + 1 \in Nat \ {0}
      /\ StepOf(r) \in Step /\ windows \in WindowSet
  BY <1>2, AtStep
<1>4. ~Creates(x.flow)
  BY <1>1, <1>2, Alone DEF Active
<1>5. CASE Fail(r, runs[r], x) /\ windows' = Closed(r) /\ UNCHANGED rejecting
  BY <1>1, <1>2, <1>5, FailStep
<1>6. CASE /\ StateMatches(x, message)
           /\ Proceed(r, run, Receive(r, run, x, StepOf(r)), run.pc + 1, Closed(r))
  <2>. DEFINE z == Receive(r, run, x, StepOf(r))
  <2>1. message.param \in 0..MaxRuns /\ message.param # 0
    <3>1. mail \in Seq([for: Windows, ok: BOOLEAN, param: 0..MaxRuns]) /\ mail # <<>>
      BY <1>1 DEF IInv, TypeOK
    <3>2. message \in [for: Windows, ok: BOOLEAN, param: 0..MaxRuns]
      BY <3>1, HeadTail
    <3>. QED BY <1>6, <3>2 DEF StateMatches
  <2>2. /\ run \in RunSet /\ run.of = runs[r].of /\ run.login # 0 /\ run.pc = runs[r].pc
        /\ run.failed = runs[r].failed
    BY <1>3, <2>1 DEF RunSet
  <2>3. Closed(r) \in WindowSet
    BY <1>3, ClosedWindows
  <2>4. Proceed(r, run, z, run.pc + 1, Closed(r))
    BY <1>6
  <2>. HIDE DEF run
  <2>5. /\ z \in ExecutorSet /\ z.flow = x.flow
        /\ z.signal = x.signal /\ z.aborted = x.aborted
    BY <1>3, <2>2, Received
  <2>6. z = Receive(r, run, executors[runs[r].of], StepOf(r))
    OBVIOUS
  <2>. HIDE DEF x, z
  <2>7. Outcome(r, run, z, run.pc + 1)
    BY <1>1, <1>3, <2>2, <2>3, <2>4, <2>5, ProceedOutcome
  <2>8. /\ GivesTokens(z.flow)
        /\ \/ z.state.status = "completed"
           \/ \A i \in (run.pc + 1)..Len(Program[z.flow]) : Skips(z, Program[z.flow][i])
        => z.state.tokens # 0
    BY <1>2, <1>3, <2>2, <2>5, <2>6, TokensReceived DEF x
  <2>9. /\ ~Creates(z.flow) /\ z.flow = executors[run.of].flow /\ z.flow \in Flows
        /\ run.pc + 1 \in Nat \ {0}
    BY <1>3, <1>4, <2>2, <2>5 DEF x
  <2>10. \A i \in Ids : <<i, r>> \notin server'
    BY <1>1, <1>4 DEF EndInv, KeepsTrack, Kept, x
  <2>. QED BY <1>1, <1>3, <2>2, <2>5, <2>7, <2>8, <2>9, <2>10, ProceedStep
<1>. QED BY <1>1, <1>5, <1>6

\* The timer of a window.  A run that is lost was not what the status was about.
LEMMA PollPopupEnds ==
  ASSUME IInv, EndInv, NEW r \in Runs, PollPopup(r)
  PROVE  EndInv'
<1>. DEFINE x == executors[runs[r].of]
            n == [runs[r] EXCEPT !.at = "lost"]
<1>1. /\ Quiet /\ runs[r].at = "popup" /\ runs[r].at \in Awaits
      /\ UNCHANGED <<rejecting, server>>
      /\ \/ Fail(r, runs[r], x)
         \/ x.state.status # "awaiting_user" /\ Keeps(r, n) /\ UNCHANGED executors
  BY DEF PollPopup, Awaits
<1>2. CASE Fail(r, runs[r], x)
  BY <1>1, <1>2, FailStep DEF Quiet
<1>3. CASE x.state.status # "awaiting_user" /\ Keeps(r, n) /\ UNCHANGED executors
  <2>1. n.at = "lost" /\ n.of = runs[r].of /\ n.login = runs[r].login
    <3>1. runs[r] \in RunSet
      BY <1>1, AtStep
    <3>. QED BY <3>1 DEF RunSet
  <2>. HIDE DEF n
  <2>2. runs'[r] = n /\ \A q \in Runs \ {r} : runs'[q] = runs[q]
    BY <1>3 DEF IInv, TypeOK, Keeps
  <2>3. NeverStuck'
    <3>1. \A e \in Executors :
            /\ executors[e].state.status = "executing" =>
                 \E q \in Runs \ {r} : runs[q].of = e
                                       /\ runs[q].at \in {"digest", "request", "fetch"}
            /\ executors[e].state.status = "awaiting_user" =>
                 \E q \in Runs : runs[q].of = e /\ runs[q].at \in Awaits
      BY <1>1 DEF EndInv, NeverStuck, Awaits
    <3>2. \A e \in Executors : executors[e].state.status = "awaiting_user" => runs[r].of # e
      BY <1>3
    <3>. QED BY <1>3, <2>2, <3>1, <3>2 DEF NeverStuck, Awaits
  <2>4. CompletedHasTokens'
    BY <1>3 DEF EndInv, CompletedHasTokens, GivesTokens
  <2>5. LoggedIn' /\ RejectedAborted'
    BY <1>1, <1>3, <2>1, <2>2 DEF EndInv, LoggedIn, RejectedAborted, Quiet
  <2>6. \A q \in Runs : Active(q)' => q # r
    BY <2>1, <2>2 DEF Active, Awaits
  <2>7. CreatorAlone'
    <3>. SUFFICES ASSUME NEW q \in Runs, Active(q)', Creates(executors[runs[q].of].flow)'
         PROVE  LET z == executors[runs[q].of] IN
                /\ runs[q].at = "request" /\ runs[q].signal = q /\ z.signal = q
                /\ ~z.aborted /\ z.state.status = "executing" /\ runs'[q] = runs[q]
      BY <1>3 DEF CreatorAlone
    <3>1. runs'[q] = runs[q] /\ executors'[runs[q].of] = executors[runs[q].of]
      BY <1>3, <2>2, <2>6
    <3>2. Active(q) /\ Creates(executors[runs[q].of].flow)
      BY <1>1, <1>3, <3>1 DEF Active, Creates
    <3>. QED BY <3>1, <3>2 DEF EndInv, CreatorAlone
  <2>8. KeepsTrack'
    <3>. SUFFICES ASSUME NEW q \in Runs, NEW i \in Ids, <<i, q>> \in server
         PROVE  Kept(q, i)'
      BY <1>1 DEF KeepsTrack
    <3>1. Kept(q, i) /\ executors' = executors
      BY <1>3 DEF EndInv, KeepsTrack
    <3>2. CASE q = r
      <4>1. ~Active(q)' /\ runs'[q].at = "lost" /\ runs'[q].of = runs[q].of
        BY <2>1, <2>2, <2>6, <3>2
      <4>. QED BY <3>1, <4>1 DEF Kept, Creates
    <3>3. CASE q # r
      <4>1. runs'[q] = runs[q] /\ (Active(q)' => Active(q))
        BY <1>1, <2>2, <3>3 DEF Active
      <4>. QED BY <3>1, <4>1 DEF Kept, Creates
    <3>. QED BY <3>2, <3>3
  <2>. QED BY <2>3, <2>4, <2>5, <2>7, <2>8 DEF EndInv
<1>. QED BY <1>1, <1>2, <1>3

\* execute(): the page shows that no run of its executor is active under a program
\* that creates something.
LEMMA ExecuteEnds ==
  ASSUME IInv, EndInv, NEW r \in Runs, Execute(r)
  PROVE  EndInv'
<1>. DEFINE y == [executors[current] EXCEPT !.signal = r, !.aborted = FALSE,
                    !.state = Started(executors[current])]
            run == [NewRun EXCEPT !.of = current, !.login = r]
<1>1. /\ Quiet /\ current # 0 /\ runs[r].at = "unused" /\ rejecting = {}
      /\ Proceed(r, run, y, 1, windows) /\ UNCHANGED server /\ Status \in {"idle", "error"}
  BY DEF Execute, Runs, Quiet
<1>2. current \in Executors /\ current \in 0..MaxExecutors /\ r \in 0..MaxRuns /\ r # 0
  <2>1. current \in 0..MaxExecutors
    BY DEF IInv, TypeOK
  <2>. QED BY <1>1, <2>1, ProgramAssumption DEF Executors, Runs
<1>3. /\ executors[current] \in ExecutorSet /\ executors[current].flow \in Flows
      /\ windows \in WindowSet /\ runs[r].of = 0
  BY <1>1, <1>2 DEF IInv, TypeOK, Linked, RunLinked, ExecutorSet, WindowSet
<1>4. /\ y \in ExecutorSet /\ y.flow = executors[current].flow /\ ~y.aborted
      /\ y.signal = r /\ y.state.status = "executing"
  <2>. DEFINE z == Started(executors[current])
  <2>1. z \in States /\ z.status = "executing"
    BY <1>3, StartedState
  <2>2. y = [executors[current] EXCEPT !.signal = r, !.aborted = FALSE, !.state = z]
    OBVIOUS
  <2>3. FALSE \in BOOLEAN
    OBVIOUS
  <2>. HIDE DEF y, z
  <2>. QED BY <1>2, <1>3, <2>1, <2>2, <2>3 DEF ExecutorSet
<1>5. run \in RunSet /\ run.of = current /\ run.login = r
  <2>1. 0 \in 0..MaxRuns
    BY ProgramAssumption
  <2>. QED BY <1>2, <2>1 DEF RunSet, NewRun
<1>. HIDE DEF y, run
<1>6. Outcome(r, run, y, 1)
  BY <1>1, <1>3, <1>4, <1>5, ProceedOutcome
<1>7. executors[current].state.status \in {"idle", "error"}
  <2>1. shown = [of |-> current, state |-> executors[current].state]
    BY <1>1 DEF IInv, PageShowsCurrent
  <2>. QED BY <1>1, <2>1 DEF Status, NotShown
<1>8. Creates(y.flow) =>
        \A q \in Runs \ {r} : runs[q].of = current => runs[q].at \notin Awaits
  BY <1>1, <1>4, <1>7 DEF EndInv, CreatorAlone, Active
<1>9. GivesTokens(y.flow) => ~\A i \in 1..Len(Program[y.flow]) : Skips(y, Program[y.flow][i])
  <2>1. SUFFICES ASSUME GivesTokens(y.flow)
                 PROVE  \E i \in 1..Len(Program[y.flow]) : ~Skips(y, Program[y.flow][i])
    OBVIOUS
  <2>2. y.flow \in Flows
    BY <1>3, <1>4
  <2>3. /\ Len(Program[y.flow]) \in Nat \ {0}
        /\ ~Skips(y, Program[y.flow][Len(Program[y.flow])])
    BY <2>1, <2>2, TokensNotSkipped
  <2>. QED BY <2>3
<1>10. \A i \in Ids : <<i, r>> \notin server'
  BY <1>1 DEF EndInv, KeepsTrack, Kept
<1>. QED BY <1>1, <1>2, <1>3, <1>4, <1>5, <1>6, <1>8, <1>9, <1>10, ProceedStep

\* abort() of an executor.
LEMMA AbortedFields ==
  ASSUME NEW x \in ExecutorSet, NEW state \in States
  PROVE  LET y == Aborted(x, state) IN
         /\ y.state = state /\ y.flow = x.flow /\ y.known = x.known /\ y.signal = x.signal
         /\ x.signal # 0 => y.aborted
BY DEF Aborted, ExecutorSet

\* What the page does between turns of the runs: the executor it has is aborted and
\* idle, and its requests are rejected; a new one is idle.
LEMMA PageEnds ==
  ASSUME IInv, EndInv, Quiet, UNCHANGED <<runs, server>>,
         \A e \in Executors :
           \/ e # current /\ executors'[e] = executors[e]
           \/ /\ e = current
              /\ \E state \in States :
                   state.status = "idle" /\ executors'[e] = Aborted(executors[e], state)
           \/ executors[e].flow = NoFlow /\ executors'[e].state.status = "idle",
         rejecting' = IF current = 0 THEN {} ELSE Interrupted(current)
  PROVE  EndInv'
<1>1. /\ executors \in [Executors -> ExecutorSet] /\ runs \in [Runs -> RunSet]
      /\ rejecting = {} /\ (current # 0 => current \in Executors)
  BY DEF IInv, TypeOK, ExecutorSet, RunSet, Quiet, Executors
<1>2. \A e \in Executors :
        \/ e # current /\ executors'[e] = executors[e]
        \/ executors'[e].state.status = "idle"
  <2>1. ASSUME NEW state \in States, NEW e \in Executors, state.status = "idle",
               executors'[e] = Aborted(executors[e], state)
        PROVE  executors'[e].state.status = "idle"
    BY <1>1, <2>1, AbortedFields
  <2>. QED BY <2>1
\* Executors with runs keep what these need.
<1>3. ASSUME NEW e \in Executors, executors[e].flow \in Flows
      PROVE  /\ executors'[e].flow = executors[e].flow
             /\ executors'[e].known = executors[e].known
             /\ e # current => executors'[e] = executors[e]
             /\ e = current /\ executors[e].signal # 0 => executors'[e].aborted
  <2>1. executors[e].flow # NoFlow
    BY <1>3, ProgramAssumption
  <2>2. CASE e # current
    BY <2>1, <2>2
  <2>3. CASE e = current
    <3>1. PICK state \in States : executors'[e] = Aborted(executors[e], state)
      BY <2>1, <2>3
    <3>. QED BY <1>1, <2>3, <3>1, AbortedFields
  <2>. QED BY <2>2, <2>3
<1>4. \A r \in Runs : runs[r].at # "unused" =>
        runs[r].of \in Executors /\ executors[runs[r].of].flow \in Flows
  BY DEF IInv, Linked, RunLinked
<1>5. NeverStuck' /\ CompletedHasTokens' /\ LoggedIn'
  <2>1. ASSUME NEW e \in Executors, executors'[e].state.status # "idle"
        PROVE  executors'[e] = executors[e]
    BY <1>2, <2>1
  <2>2. NeverStuck'
    <3>. SUFFICES ASSUME NEW e \in Executors
         PROVE  /\ executors'[e].state.status = "executing" =>
                     \E r \in Runs : runs[r].of = e
                                     /\ runs[r].at \in {"digest", "request", "fetch"}
                /\ executors'[e].state.status = "awaiting_user" =>
                     \E r \in Runs : /\ runs[r].of = e
                                     /\ runs[r].at \in {"digest", "popup", "request", "fetch"}
      BY DEF NeverStuck
    <3>. QED BY <2>1 DEF EndInv, NeverStuck
  <2>3. CompletedHasTokens'
    <3>. SUFFICES ASSUME NEW e \in Executors, executors'[e].state.status = "completed",
                         GivesTokens(executors'[e].flow)
         PROVE  executors'[e].state.tokens # 0
      BY DEF CompletedHasTokens, GivesTokens
    <3>. QED BY <2>1 DEF EndInv, CompletedHasTokens
  <2>4. LoggedIn'
    BY DEF EndInv, LoggedIn
  <2>. QED BY <2>2, <2>3, <2>4
<1>6. RejectedAborted'
  <2>. SUFFICES ASSUME NEW r \in rejecting' PROVE executors'[runs[r].of].aborted
    BY DEF RejectedAborted
  <2>1. r \in Runs /\ runs[r].of = current /\ runs[r].at = "request"
    BY DEF Interrupted
  <2>2. current \in Executors /\ executors[current].flow \in Flows
    BY <1>4, <2>1
  <2>3. executors[current].signal # 0
    BY <2>1 DEF IInv, Governed
  <2>. QED BY <1>3, <2>1, <2>2, <2>3
\* A run that is still active belongs to another executor, or to a program that
\* creates nothing.
<1>7. ASSUME NEW r \in Runs, Active(r)', Creates(executors[runs[r].of].flow)
      PROVE  Active(r) /\ executors'[runs[r].of] = executors[runs[r].of]
  <2>1. Active(r)
    BY <1>1, <1>7 DEF Active
  <2>2. runs[r].of \in Executors /\ executors[runs[r].of].flow \in Flows
    BY <1>4, <2>1 DEF Active, Awaits
  <2>3. runs[r].at = "request" /\ runs[r].signal = executors[runs[r].of].signal
    BY <1>7, <2>1 DEF EndInv, CreatorAlone
  <2>4. runs[r].of # current
    <3>. SUFFICES ASSUME runs[r].of = current PROVE FALSE
      OBVIOUS
    <3>1. r \in Interrupted(current) /\ current # 0
      BY <2>2, <2>3, ProgramAssumption DEF Interrupted, Executors
    <3>. QED BY <1>7, <3>1 DEF Active
  <2>. QED BY <1>3, <2>1, <2>2, <2>4
<1>8. CreatorAlone'
  <2>. SUFFICES ASSUME NEW r \in Runs, Active(r)', Creates(executors'[runs[r].of].flow)
       PROVE  LET x == executors'[runs[r].of] IN
              /\ runs[r].at = "request" /\ runs[r].signal = r /\ x.signal = r
              /\ ~x.aborted /\ x.state.status = "executing"
    BY DEF CreatorAlone, Creates
  <2>1. runs[r].at # "unused"
    BY DEF Active, Awaits
  <2>2. Active(r) /\ executors'[runs[r].of] = executors[runs[r].of]
    BY <1>3, <1>4, <1>7, <2>1
  <2>. QED BY <2>2 DEF EndInv, CreatorAlone
<1>9. KeepsTrack'
  <2>. SUFFICES ASSUME NEW r \in Runs, NEW i \in Ids, <<i, r>> \in server
       PROVE  Kept(r, i)'
    BY DEF KeepsTrack
  <2>1. Kept(r, i)
    BY DEF EndInv, KeepsTrack
  <2>2. Creates(executors'[runs[r].of].flow)
    BY <1>3, <1>4, <2>1 DEF Kept
  <2>3. Active(r)' => Active(r) /\ executors'[runs[r].of] = executors[runs[r].of]
    BY <1>7, <2>1 DEF Kept
  <2>. QED BY <2>1, <2>2, <2>3 DEF Kept, Creates
<1>. QED BY <1>5, <1>6, <1>8, <1>9 DEF EndInv

\* Abort, Reset, and the effect that drops the executor.
LEMMA AbortEnds ==
  ASSUME IInv, EndInv, Abort \/ Reset
  PROVE  EndInv'
<1>1. PICK state \in {[Present EXCEPT !.status = "idle"], InitialState} :
        /\ Quiet /\ current # 0
        /\ Publish(current, Aborted(executors[current], state))
        /\ rejecting' = Interrupted(current)
        /\ UNCHANGED runs /\ OthersUnchanged
  BY DEF Abort, Reset, Present
<1>2. current \in Executors /\ executors \in [Executors -> ExecutorSet] /\ 0 \in 0..MaxRuns
  BY <1>1, ProgramAssumption DEF IInv, TypeOK, ExecutorSet, Executors
<1>3. state \in States /\ state.status = "idle"
  BY <1>2 DEF Present, ExecutorSet, States, InitialState
<1>4. executors' = [executors EXCEPT ![current] = Aborted(executors[current], state)]
  BY <1>1 DEF Publish
<1>5. \A e \in Executors :
        \/ e # current /\ executors'[e] = executors[e]
        \/ /\ e = current
           /\ \E s \in States : s.status = "idle" /\ executors'[e] = Aborted(executors[e], s)
  BY <1>2, <1>3, <1>4
<1>. QED BY <1>1, <1>5, PageEnds DEF OthersUnchanged

LEMMA RecreateEnds ==
  ASSUME IInv, EndInv, Quiet, NEW f, NEW token, NEW state, Recreate(f, token, state),
         current # 0 => state \in States /\ state.status = "idle"
  PROVE  EndInv'
<1>. DEFINE d == IF current = 0 THEN executors
                 ELSE [executors EXCEPT ![current] = Aborted(executors[current], state)]
<1>1. /\ rejecting' = IF current = 0 THEN {} ELSE Interrupted(current)
      /\ UNCHANGED <<runs, server>>
      /\ \/ \E n \in 1..Limit[offered] :
              /\ \A e \in Executors : executors[e].flow = NoFlow <=> n <= e
              /\ executors' = [d EXCEPT ![n] = NewExecutor(f)]
         \/ executors' = d
  BY DEF Recreate, OthersUnchanged
<1>2. /\ executors \in [Executors -> ExecutorSet] /\ (current # 0 => current \in Executors)
      /\ Limit[offered] \in Executors /\ MaxExecutors \in Nat
  <2>1. executors \in [Executors -> ExecutorSet] /\ (current # 0 => current \in Executors)
    BY DEF IInv, TypeOK, ExecutorSet, Executors
  <2>2. Limit[offered] \in Executors /\ MaxExecutors \in Nat
    BY ProgramAssumption DEF IInv, TypeOK
  <2>. QED BY <2>1, <2>2
<1>3. \A e \in Executors :
        \/ e # current /\ d[e] = executors[e]
        \/ /\ e = current
           /\ \E s \in States : s.status = "idle" /\ d[e] = Aborted(executors[e], s)
  <2>1. CASE current = 0
    BY <2>1, ProgramAssumption DEF Executors
  <2>2. CASE current # 0
    BY <1>2, <2>2
  <2>. QED BY <2>1, <2>2
<1>4. DOMAIN d = Executors
  BY <1>2
<1>. HIDE DEF d
<1>5. ASSUME NEW n \in 1..Limit[offered],
             \A e \in Executors : executors[e].flow = NoFlow <=> n <= e,
             executors' = [d EXCEPT ![n] = NewExecutor(f)]
      PROVE  EndInv'
  <2>1. n \in Executors
    BY <1>2 DEF Executors
  <2>2. executors[n].flow = NoFlow
    BY <1>5, <2>1 DEF Executors
  <2>3. /\ executors'[n].state.status = "idle"
        /\ \A e \in Executors \ {n} : executors'[e] = d[e]
    BY <1>4, <1>5, <2>1 DEF NewExecutor, InitialState
  <2>4. \A e \in Executors :
           \/ e # current /\ executors'[e] = executors[e]
           \/ /\ e = current
              /\ \E s \in States :
                   s.status = "idle" /\ executors'[e] = Aborted(executors[e], s)
           \/ executors[e].flow = NoFlow /\ executors'[e].state.status = "idle"
    BY <1>3, <2>2, <2>3
  <2>. QED BY <1>1, <2>4, PageEnds
<1>6. CASE executors' = d
  BY <1>1, <1>3, <1>6, PageEnds
<1>. QED BY <1>1, <1>5, <1>6

\* Executors, runs and the server are left alone.
LEMMA NothingEnds ==
  ASSUME EndInv, UNCHANGED <<executors, runs, rejecting, server>>
  PROVE  EndInv'
<1>1. NeverStuck' /\ LoggedIn' /\ RejectedAborted'
  BY DEF EndInv, NeverStuck, LoggedIn, RejectedAborted
<1>2. CompletedHasTokens'
  BY DEF EndInv, CompletedHasTokens, GivesTokens
<1>3. CreatorAlone'
  BY DEF EndInv, CreatorAlone, Active, Creates
<1>4. KeepsTrack'
  <2>. SUFFICES ASSUME NEW r \in Runs, NEW i \in Ids, <<i, r>> \in server
       PROVE  Kept(r, i)'
    BY DEF KeepsTrack
  <2>1. Kept(r, i)
    BY DEF EndInv, KeepsTrack
  <2>2. Active(r)' => Active(r)
    BY DEF Active
  <2>. QED BY <2>1, <2>2 DEF Kept, Creates
<1>. QED BY <1>1, <1>2, <1>3, <1>4 DEF EndInv

LEMMA SelectEnds ==
  ASSUME IInv, EndInv,
         \/ \E f \in Flows : SelectFlow(f)
         \/ \E isScim \in BOOLEAN : SelectProtocol(isScim)
         \/ TokenArrives \/ TokenFails \/ StoreRefreshToken
  PROVE  EndInv'
<1>1. InitialState \in States /\ InitialState.status = "idle"
  BY ProgramAssumption DEF InitialState, States
<1>2. current # 0 => /\ [Present EXCEPT !.status = "idle"] \in States
                     /\ [Present EXCEPT !.status = "idle"].status = "idle"
  <2>. SUFFICES ASSUME current # 0
                PROVE  /\ [Present EXCEPT !.status = "idle"] \in States
                       /\ [Present EXCEPT !.status = "idle"].status = "idle"
    OBVIOUS
  <2>1. current \in Executors /\ executors \in [Executors -> ExecutorSet]
    BY DEF IInv, TypeOK, ExecutorSet, Executors
  <2>2. Present \in States
    BY <2>1 DEF Present, ExecutorSet
  <2>. QED BY <2>2 DEF States
<1>3. ASSUME NEW f, NEW token, Recreate(f, token, [Present EXCEPT !.status = "idle"]), Quiet
      PROVE  EndInv'
  BY <1>2, <1>3, RecreateEnds
<1>4. ASSUME NEW f, NEW token, Recreate(f, token, InitialState), Quiet
      PROVE  EndInv'
  BY <1>1, <1>4, RecreateEnds
<1>5. CASE \E f \in Flows : SelectFlow(f)
  BY <1>4, <1>5 DEF SelectFlow
<1>6. CASE \E isScim \in BOOLEAN : SelectProtocol(isScim)
  BY <1>4, <1>6 DEF SelectProtocol
<1>7. CASE TokenArrives \/ StoreRefreshToken
  BY <1>3, <1>7, NothingEnds DEF TokenArrives, StoreRefreshToken, OthersUnchanged
<1>8. CASE TokenFails
  BY <1>8, NothingEnds DEF TokenFails, OthersUnchanged
<1>. QED BY <1>5, <1>6, <1>7, <1>8

LEMMA InitEnds == Init => EndInv
<1>. SUFFICES ASSUME Init PROVE EndInv
  OBVIOUS
<1>1. \A r \in Runs : runs[r].at = "unused"
  BY DEF Init, NewRun
<1>2. \A e \in Executors : executors[e].state.status = "idle"
  BY DEF Init, NewExecutor, InitialState
<1>3. NeverStuck /\ CompletedHasTokens
  BY <1>2 DEF NeverStuck, CompletedHasTokens
<1>4. LoggedIn /\ RejectedAborted /\ CreatorAlone /\ KeepsTrack
  BY <1>1 DEF Init, LoggedIn, RejectedAborted, CreatorAlone, KeepsTrack, Kept, Active, Awaits
<1>. QED BY <1>3, <1>4 DEF EndInv

LEMMA NextEnds == IInv /\ EndInv /\ [Next]_vars => EndInv'
<1>. SUFFICES ASSUME IInv, EndInv, [Next]_vars PROVE EndInv'
  OBVIOUS
<1>1. ASSUME NEW r \in Runs, Reject(r) PROVE EndInv'
  <2>1. runs[r].at \in Awaits
    BY <1>1 DEF Reject, IInv, Linked, Awaits
  <2>. QED BY <1>1, <2>1, FailStep DEF Reject
<1>2. CASE \/ \E w \in Windows, ok \in BOOLEAN : CallbackPage(w, ok)
           \/ \E w \in Windows : WindowCloses(w)
           \/ Deliver
  BY <1>2, NothingEnds DEF CallbackPage, WindowCloses, Deliver
<1>3. CASE UserStep
  BY <1>2, <1>3, SelectEnds, AbortEnds, ExecuteEnds DEF UserStep
<1>4. CASE BrowserStep
  BY <1>1, <1>2, <1>4, AnswerEnds, HearEnds, PollPopupEnds DEF BrowserStep
<1>5. CASE TokenArrives \/ TokenFails \/ StoreRefreshToken
  BY <1>5, SelectEnds
<1>6. CASE UNCHANGED vars
  BY <1>6, NothingEnds DEF vars
<1>. QED BY <1>3, <1>4, <1>5, <1>6 DEF Next

LEMMA EndInvariant == Spec => []EndInv
BY InitEnds, NextEnds, InductiveInvariant, PTL DEF Spec

\* updateState: while an executor says that it executes, or that it waits for the
\* user, one of its runs waits for something that wakes it.
THEOREM StatusHasRun == Spec => []NeverStuck
<1>1. EndInv => NeverStuck
  BY DEF EndInv
<1>. QED BY <1>1, EndInvariant, PTL

\* execute() of the flows for tokens: "completed" is written in the turn that
\* stored the tokens, or later and the tokens are there.
THEOREM CompletesWithTokens == Spec => []CompletedHasTokens
<1>1. EndInv => CompletedHasTokens
  BY DEF EndInv
<1>. QED BY <1>1, EndInvariant, PTL

\* scim-provisioning.ts: the identifiers its programs keep are those of the run
\* that created them, since the abort signal ends every earlier run.
THEOREM DeletesWhatItCreated == Spec => []CleansUp
<1>1. EndInv => CleansUp
  BY DEF EndInv, KeepsTrack, Kept, CleansUp
<1>. QED BY <1>1, EndInvariant, PTL

=============================================================================
