----------------------------- MODULE LiveExecutor -----------------------------
(***************************************************************************)
(* The first executor of the Looking Glass (lookingglass/executor.ts): the *)
(* authorization code flow with the configuration of                       *)
(* DEFAULT_EXECUTOR_CONFIG (PKCE and OIDC), and its hook useFlowExecutor,  *)
(* which passes execute, abort and reset on as they are.  A call of        *)
(* execute is a run.  All runs write one state, and all open the window    *)
(* 'oauth_popup': a second run sends the window of the first elsewhere.    *)
(*                                                                         *)
(* One action is one turn of the event loop.                               *)
(***************************************************************************)
EXTENDS Naturals

CONSTANT MaxLogins  \* bound: calls of execute

Logins == 1..MaxLogins  \* a run, and the state, nonce and verifier it makes; 0: none

VARIABLES
  live,    \* this.state and this.abortController
  logins,  \* logins[r]: where run r is, the window it opened, the request it sent
  popup,   \* the window: which run's window.open made it, whose URL it is at
  inbox    \* the callback page's message on its way

liveVars == <<live, logins, popup, inbox>>

NoRequest == [code |-> 0, verifier |-> 0, signal |-> 0]

Fresh(status) ==
  [status |-> status, param |-> 0, verifier |-> 0, tokens |-> 0, valid |-> FALSE]

LiveInit ==
  /\ live = [state |-> Fresh("idle"), signal |-> 0, aborted |-> FALSE]
  /\ logins = [r \in Logins |-> [at |-> "unused", handle |-> 0, request |-> NoRequest]]
  /\ popup = [by |-> 0, at |-> 0]
  /\ inbox = [code |-> 0, ok |-> FALSE]

Start(r) ==
  /\ \A q \in Logins : logins[q].at = "unused" <=> r <= q
  /\ live' = [state |-> Fresh("started"), signal |-> r, aborted |-> FALSE]
  /\ logins' = [logins EXCEPT ![r].at = "digest"]
  /\ UNCHANGED <<popup, inbox>>

\* The challenge is there: the parameters are stored and the window is opened.
\* A blocked window rejects a promise that nobody catches.
Authorize(r) ==
  /\ logins[r].at = "digest"
  /\ live' = [live EXCEPT !.state.param = r, !.state.verifier = r,
                          !.state.status = "authorizing"]
  /\ \/ /\ popup' = [by |-> IF popup.by = 0 THEN r ELSE popup.by, at |-> r]
        /\ logins' = [logins EXCEPT ![r].at = "listening", ![r].handle = popup'.by]
     \/ /\ logins' = [logins EXCEPT ![r].at = "ended"]
        /\ UNCHANGED popup
  /\ UNCHANGED inbox

DigestFails(r) ==
  /\ logins[r].at = "digest"
  /\ live' = [live EXCEPT !.state.status = "error"]
  /\ logins' = [logins EXCEPT ![r].at = "ended"]
  /\ UNCHANGED <<popup, inbox>>

\* The callback page is shown in the window, with a code or an error.
\* One message is on its way at a time.
CallBack(ok) ==
  /\ popup.at # 0 /\ inbox.code = 0
  /\ inbox' = [code |-> popup.at, ok |-> ok]
  /\ UNCHANGED <<live, logins, popup>>

ClosePopup ==
  /\ popup.by # 0 /\ popup' = [by |-> 0, at |-> 0]
  /\ UNCHANGED <<live, logins, inbox>>

\* Mutant: the state is not compared.
Accepts_Anything == inbox.ok

Accepts == inbox.ok /\ inbox.code = live.state.param

\* handleMessage of every run that listens.  A request with an aborted signal
\* rejects at once, and that AbortError leaves the status "exchanging".
HandleMessage ==
  LET listening == {r \in Logins : logins[r].at = "listening"}
      heard(r) ==
        IF ~Accepts \/ live.aborted
          THEN [logins[r] EXCEPT !.at = "ended"]
          ELSE [logins[r] EXCEPT !.at = "exchanging",
                  !.request = [code |-> inbox.code, verifier |-> live.state.verifier,
                               signal |-> live.signal]]
  IN /\ inbox.code # 0 /\ inbox' = [code |-> 0, ok |-> FALSE]
     /\ logins' = [r \in Logins |-> IF r \in listening THEN heard(r) ELSE logins[r]]
     /\ live' = IF listening = {} THEN live
                ELSE [live EXCEPT !.state.status = IF Accepts THEN "exchanging" ELSE "error"]
     /\ popup' = IF \E r \in listening : logins[r].handle = popup.by
                   THEN [by |-> 0, at |-> 0] ELSE popup

\* The timer finds the window closed.
SeeClosed(r) ==
  /\ logins[r].at = "listening" /\ logins[r].handle # popup.by
  /\ logins' = [logins EXCEPT ![r].at = "ended"]
  /\ live' = IF live.state.status = "authorizing"
               THEN [live EXCEPT !.state.status = "idle"] ELSE live
  /\ UNCHANGED <<popup, inbox>>

\* decodeJwt: the ID token has the nonce of the login it comes from.
NonceMatches(code) == code = live.state.param

TokensReceived(code) ==
  live' = [live EXCEPT !.state.tokens = code, !.state.status = "completed",
                       !.state.valid = NonceMatches(code)]

\* Tokens; a refusal; or no answer, which rejects the promise that nobody catches.
Exchanged(r) ==
  /\ logins[r].at = "exchanging"
  /\ \/ TokensReceived(logins[r].request.code)
     \/ live' = [live EXCEPT !.state.status = "error"]
     \/ live' = live
  /\ logins' = [logins EXCEPT ![r].at = "ended", ![r].request = NoRequest]
  /\ UNCHANGED <<popup, inbox>>

\* abort(), also the effect's clean-up: the requests that have the controller's
\* signal reject, but listeners and timers stay.
Interrupts(state) ==
  /\ live' = [live EXCEPT !.state = state, !.aborted = (live.signal # 0)]
  /\ logins' = [r \in Logins |->
       IF logins[r].at = "exchanging" /\ logins[r].request.signal = live.signal
         THEN [logins[r] EXCEPT !.at = "ended", !.request = NoRequest] ELSE logins[r]]
  /\ UNCHANGED <<popup, inbox>>

AbortLive == Interrupts([live.state EXCEPT !.status = "idle"])

ResetLive == Interrupts(Fresh("idle"))

LiveNext ==
  \/ \E r \in Logins :
       Start(r) \/ Authorize(r) \/ DigestFails(r) \/ SeeClosed(r) \/ Exchanged(r)
  \/ \E ok \in BOOLEAN : CallBack(ok)
  \/ HandleMessage \/ ClosePopup \/ AbortLive \/ ResetLive

LiveSpec == LiveInit /\ [][LiveNext]_liveVars

-----------------------------------------------------------------------------
(* Properties *)

\* A code is sent with the verifier of the login it belongs to, although an
\* aborted run goes on listening, overwrites the parameters of the run after it,
\* and hears the messages of the window they share (handleMessage, executor.ts:392).
ExchangesOwnCode ==
  \A r \in Logins : logins[r].request.code = logins[r].request.verifier

=============================================================================
