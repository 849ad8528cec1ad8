# A verification development for ProtocolLens

ProtocolLens runs real authentication protocols against a mock identity
provider and streams what happens to the browser. This directory models its
stateful core in TLA+, checks the models with TLC and proves the main results
with TLAPS. Every definition is translated from the source; PROJECT.json maps
it to its lines.

## 1. The system

Paths are below `src/`; `lookingglass/` stands for `backend/internal/lookingglass/`
and so on. The server is one Go process (a goroutine per HTTP request and two
per WebSocket), the frontend one React page (callbacks on one thread, but
with network answers, timers and socket events between any two of them).

| Component | State it keeps | Operations | Hard behaviour |
|---|---|---|---|
| Looking Glass engine (`lookingglass/inspector.go`, `stream.go`) | sessions, event log, clients and their channels | CreateSession, DeleteSession, AddEvent/broadcast, HandleWebSocket, readPump, writePump | five kinds of goroutines around one lock and one bounded channel per client; channels closed while others send |
| Mock identity provider (`mockidp/provider.go`) with the OAuth2 and OIDC endpoints | authorization codes, refresh tokens | authorize, token (code, refresh), revoke | two endpoints race for single-use values; rotation in two critical sections; failures and lost answers between them |
| WebSocket hook (`frontend/src/hooks/useWebSocket.ts`) | socket, timer and attempt refs, `connected` | connect, disconnect, onopen, onclose, timer | callbacks of sockets that were replaced; timers that outlive the page |
| SCIM provider (`protocols/scim/`) | users, groups, memberships with versions in SQLite | create, replace, patch, delete, bulk | optimistic versions, read-modify-write, several writes per request |
| SAML provider (`protocols/saml/`) | SSO sessions, index by NameID, logout states | login, logout request and response | maps without a lock, index and sessions kept in step |
| SPIFFE workload client (`spiffe/workload.go`) | X.509 source, JWT source, client, enabled flag | Start, Close, GetJWTSVID | failure paths that lock again, shutdown during fetches |
| Plugins and server (`plugin/`, `core/server.go`, `cmd/server/main.go`) | registered plugins | register, initialise, shut down | order of initialisation and shutdown |
| Flow executors (`frontend/src/lookingglass/flows/`, `executor.ts`, `useRealFlowExecutor` in `hooks.ts`, `pages/LookingGlass.tsx`, `pages/Callback.tsx`) | per executor its state, abort controller, identifiers and poll timer; the page's executor, refresh token and shown state | select a flow, execute, abort, reset, log in or close a window, post a message, poll | callbacks on one thread that answer after abort, reset or a change of the flow; windows and messages shared by name |
| Protocol and flow registries (`frontend/src/lookingglass/registry.ts`, `hooks.ts`, `frontend/src/protocols/`) | the cache of protocols and flows, the loads under way, each hook's state | load one, load all, mount, change of what is wanted | loads shared by callers, effects that cancel nothing |
| Simulation and sessions of the page (`useFlowSimulation`, `useLookingGlassSession`) | a step counter and its timers; the last events received | start, stop, reset; receive | none that another part sees |
| Keys and JWTs, token decoder, metadata, filters, static documents | none that changes after start-up | pure functions | none |

Interaction: the protocol handlers emit events into the engine by
`EventBroadcaster.Emit` (AddEvent); the page's hook opens the WebSocket that
HandleWebSocket serves; the two token endpoints share one MockIdP. On the page the
flow executors send their requests to the same handlers, the login window's callback
page posts the answer to all executors that listen, and the registry tells the page
which flows it may select.

## 2. The models

### LookingGlass, with EventFeed

`LookingGlass.tla` has one process per call of AddEvent (`emit[e]`), and three
per client: the HTTP handler (`handler[c]`: upgrade, register, copy the log, send
it), readPump (`reader[c]`) and writePump (`writer[c]`). A critical section of
`Session.mu` is one action; broadcast keeps the read lock over its loop, so it
is one action per client (`CastTo`), and every action that needs the write
lock waits (`LockFree`). `send[c]` and `closed[c]` are the Go channel:
a blocking send for sendHistory, a select with default for broadcast, a receive
that drains before it reports the close. `delivered` and `skipped` are history
variables. The contents of events and the event's JSON are left out.

`EventFeed.tla` is the promise to a watcher, with no channels, pumps or locks:
an event of the followed log is owed, got or lost, and never silently forgotten.
`KeepsFeed` says that LookingGlass implements it, under the mapping at `Feed`.

### TokenGrants, with GrantLifecycle

`TokenGrants.tla` models the two stores of MockIdP and the requests on them. A
token request has two critical sections, as in the code: Validate... consumes
the code or the token; StoreRefreshToken stores the new one. Between and after
them it can fail or lose its answer. Users and clients are fixed at start-up, so
client authentication is a choice (`RefuseClient`). An expiry is an action
at any time. PKCE and the redirect URI are one boolean, `fits`.

`GrantLifecycle.tla` says where a grant may be: none, code, taken, token, ended.
`KeepsLifecycle` says that TokenGrants implements it.

### WebSocketHook

`WebSocketHook.tla` keeps one record per WebSocket object (`ready`, `to`,
`timer`), since the handlers are closures over the render that made them and
run whenever the browser gets to them. `Render` is the effect: cleanup, then
body. Ids of sockets that nothing refers to are used again.

### FlowPrograms, FlowCatalog, FlowExecutor

Every executor of FLOW_EXECUTOR_MAP is one method, `execute()`, that awaits one
promise after another. JavaScript runs from one await to the next without
interruption, so `FlowPrograms.tla` writes each as a sequence of steps, one for each
await: what is awaited (a digest that nothing can abort, a login window, a request
with or without the abort signal), what the code does before it (status, a new
state parameter), what it needs, and what the answer gives, creates or deletes.
`FlowCatalog.tla` is the way from an offered flow to its executor (`mapFlowId`,
FLOW_EXECUTOR_MAP, and the constructors that throw).

`FlowExecutor.tla` runs these sequences. One action is one turn of the event loop: a
promise that settles (`DigestDone`, `AnswerOk`, ...), a message delivered to the listeners
of all runs (`Deliver`, `Hear`), the timer that looks whether a window was closed
(`PollPopup`), or something the user does (select, execute, abort, reset, log in, close).
Microtasks, and the listeners that one message calls, run before the next
turn: `Quiet` says that none are left, and only then does the browser or the user act.
An executor has one state however many runs of `execute()` it has under way, as in the
code: the button aborts without waiting, and executes again. `shown` is the React
state; `server` has the SCIM resources that runs left behind. The page takes no user
name and password, without which the password executor throws. `Started` is the first
write of `execute()`: the flows of `FreshFlows` begin with a new state, while SCIM and SPIFFE
flows write only the status over what the state has. The order in which
several listeners hear one message is left open, since a run begins to listen
after a digest that may end later than another's; and a digest may fail as a request does.

### DevicePolling, LiveExecutor, FlowRegistry

`DevicePolling.tla` is the device flow, whose interval timer sends polls that may
overlap, be answered late, or start another interval (slow_down). `LiveExecutor.tla`
is the first executor (`executor.ts`), whose verifier and state are fields that a
second login overwrites. `FlowRegistry.tla` has the cache, the map of loads under way
and the promise of all protocols, with the hooks that share them and the hooks that
ask for themselves. `MC_FrontendHooks.tla` puts these three and WebSocketHook side by
side: they share no variable, and a behaviour runs one of them.

### ScimStore, with ScimResources

`ScimStore.tla` has the three tables, and per client the update it has under way
(`req`), the answer it holds (`view`, an ETag) and its bulk request (`bulk`).
Storage holds one mutex per method, so a method is one action; a handler that
calls two (PATCH: read, then save) is two, with everything else in between. A PUT
is two actions as well: it leaves the client with an ETag and arrives later. A
document is the number of the write that made it (`stamp`), so a lost update is
visible without its attributes; only userName (UNIQUE) and a group's members are
kept. `born` tells a row from one created later under the same id, which a body
may choose. A bulk request ends each operation well or not (`Finish`) and gives
up after FailOnErrors.

`ScimResources.tla` is what that amounts to for a client: resources with a content and
a life, whose updates replace one content by the next, and only the content the update
insists on, if it does. It has no versions, tables or bulk requests: ScimStore implements
it with version numbers, which start at 1 again in each life. The mapping forgets
versions, names and bulk requests; an update insists on its tag's content exactly if it
is `Guarded`, that is if it brings the version of the tag it was made from.

### SamlSessions

`SamlSessions.tla` runs the handlers of `Procs` requests on the two maps, which have
no lock: every read or write of `sessions` or `nameIDToSessions` is an action, and
`req[p]` holds what the handler has read. DeleteSession finds the index of its id in
the list and moves the rest of the list in place (`Unlink`): every other reader of that
list sees the move or not (`Moved`), and if the list has changed since the index was
found, it is another id of it, `at`, that is dropped. A list is
the set of its ids, since ids are given once and an id left behind has no effect.
`main.go` shuts the plugins down before the HTTP server, so requests still come
while Shutdown replaces the two maps, which are two actions (`Shutdown`,
`ShutdownIndex`), and after it; a Shutdown takes the place of a request.
AllSessionsFound speaks of a plugin that is not `closed`.
`overlapped` and `alone` are history: whether two requests have ever used
the maps at the same time, and whether this one had them to itself. SLOManager has a
lock, so StartSLO and CompleteSLO are one action each, but the response handler looks an
operation up first and completes it later. An operation is reduced to its NameID.
That Go may instead end the process when it notices concurrent writes is part
of `Restart`.

## 3. Runs

| Run | Module, configuration | Instance | Shows |
|---|---|---|---|
| lg_engine | MC_LookingGlass, LookingGlass_engine.cfg | 1 session, 1 client, 2 events, buffer 3 | TypeOK, NoGap, NoBroadcastOnClosedChannel, NoEarlyDrop, KeepsFeed, AddEventEnds, EventReachesWatcher, DeadClientIsReleased |
| lg_infofirst | LookingGlass_infofirst.cfg | 1 event, buffer 2 | violated: a live event can precede session.info |
| tg_safety | MC_TokenGrants, TokenGrants_safety.cfg | 2 clients, 2 codes, 3 refresh tokens, 4 requests | TypeOK, OnePlace, StaysWithClient, KeepsLifecycle, OthersAreHarmless |
| tg_revoke | TokenGrants_revoke.cfg | 2 clients, 1 code, 2 tokens, 3 requests | violated: a revoked token may stay usable |
| flow_page | MC_FlowExecutor, FlowExecutor_page.cfg | 17 offers of one or two flows, 2 runs, 2 or 3 executors, 1 message | TypeOK, PageShowsCurrent, TokensFromOwnLogin, CompletedHasTokens, NeverStuck, CleansUp, NoLateRequest, Settles |
| flow_abort | FlowExecutor_abort.cfg | the same with 1 run | violated: an aborted flow does not stay idle |
| frontend_hooks | MC_FrontendHooks, FrontendHooks.cfg | one of: 2 urls, 3 renders, 5 sockets; 2 runs, 3 intervals; 3 logins; 2 protocols, 2 hooks | TypeOK, ConnectedMeansOpen, RetriesBounded, GivesUp; NoPollAfterAbort, PollingStops; ExchangesOwnCode; LoadedOnce, LoadingEnds |
| ws_unmount | WebSocketHook_unmount.cfg | 1 url, 3 renders | violated: the page reconnects after unmount |
| scim_safety | MC_ScimStore, ScimStore_safety.cfg | 2 clients (1 sends bulks of up to 2), 2 users, 1 group, 2 names, 3 writes | TypeOK, TagNamesContent, MembershipSound, GuardedWrite, KeepsResources |
| scim_list | ScimStore_list.cfg | 1 client, 1 user, 1 group, 4 writes | violated: a group is listed with members it does not have |
| saml_safety | MC_SamlSessions, SamlSessions_safety.cfg | 2 requests, 2 sessions, 2 NameIDs, 2 LogoutRequests | TypeOK, IndexAgrees, NoForeignLogout, LogoutEndsAll, TrackedByName |
| saml_index | SamlSessions_index.cfg | 2 requests, 2 sessions, 1 NameID | violated: overlapping logins leave a session no logout finds |

Deadlock is not checked: each system may stop when its events, requests, renders
or writes are used up.

Mutants of mapped definitions, one per property of a passing run, stand next to
the definition they change ("Seeded fault" or "Mutant") and are used by no
specification.

## 4. Bounds

- **LookingGlass** (204 thousand states): two events are the least that
  two AddEvents can race with; a buffer of 3 holds session.info, one event of the
  history and one live event, so that the blocking send waits (the live events come
  first) and the drop happens. Two clients share nothing but Session.mu, which every
  client takes in the same way; the theorems cover any number.
- **TokenGrants** (29 thousand, up to symmetry): three refresh tokens are a chain
  of two rotations; four requests let both endpoints race for the code and for a
  token at the same time.
- **FlowExecutor** (280 thousand): two runs are the least that interleave on one
  executor (`MaxRuns`), and with two executors the least that share a window; the refresh
  flow gets a third executor, as its token comes from a run of another flow and its own
  answer replaces it (`Limit`). One message under way (`MaxMail`) reaches every listener; a
  second would be delivered in a later turn. An offer is cut to one or two flows, so
  that all executors are covered without all pairs of them: pairs that share a
  window, a token or an executor's identifiers are there.
- **frontend_hooks** (473 thousand for the four parts). DevicePolling: two runs,
  three intervals (the first, the one that slow_down starts, and the next run's), two
  polls of a run under way. LiveExecutor: three logins, so that one can
  overwrite what a second made before a third is answered. FlowRegistry: two protocols,
  one hook of each kind beside the list, three loads and three changes, so that a
  protocol is asked for again after a failure and while it loads.
- **WebSocketHook**: three renders are mount, change of url and a
  change back or an unmount; five sockets are the most that can be referred to
  then, as one fewer blocks a behaviour and one more is never used.
- **ScimStore** (1.2 million, up to symmetry): three writes are create, update and
  conflicting update, and also create, delete, create again and stale save.
  `MaxWrites` and `MaxBulk` are the bounds that stand in the specification's guards.
- **SamlSessions** (793 thousand, up to symmetry): two requests are the least that overlap, two
  sessions the least that a list can lose one of or a reader skip, two NameIDs
  the least that could be mixed up, two LogoutRequests the least that share a
  list. `MaxSent` bounds how often one is listed; at 1 a repeated request for another
  NameID is within it, while one repeated for the same NameID before its response is not:
  that case is the theorem's (`TrackedIsListed`). A shutdown takes one of the two
  requests. Three sessions with one LogoutRequest (2.1 million states) hold the same
  properties.

## 5. Fairness

Safety needs none. lg_engine runs under `EmitFairSpec`: weak fairness of the
steps of AddEvent, since its goroutine is never told to stop. What reaches a
browser needs more, so those properties are implications from `ClientFairness`:
the handler's and writePump's goroutines are scheduled, a write fails on a closed
connection, and readPump notices an ended one. Nothing is assumed of the browser
or the network, of new calls, or of failures while the connection is open.

flow_page assumes weak fairness of `BrowserStep`: as long as a promise can settle, a
message is under way, or a window's timer has something to find, the event loop takes
some such turn, and a request is answered, refused or failed. The user owes nothing:
no login, no click, no window closed. frontend_hooks assumes of each part that as long
as there is a timer, some timer fires (`SocketFairness`, `PollingFairness`), that a
close() completes, that an attempt on a server that is down fails, that device codes
expire, and that some unanswered request is answered in some way
(`RegistryFairness`, `PollingFairness`). The browser and the fetch API guarantee these;
a wait that would need one particular answer, render or return of the server is never
assumed to end.

## 6. Proofs

tlapm checks every obligation with SMT, Zenon and LS4. Each module of proofs has
an inductive invariant `IInv`, one lemma per action and `Spec => []IInv` by PTL.
The assumptions are those named in the modules: bounds are numbers, the null
values are not members of the sets, ids of users and groups differ. Theorems hold
for every value of the constants that meets them, the bounds included.

- **LookingGlass_proofs**. NoBroadcastOnClosedChannel is not inductive. `Locking` says
  that a broadcast under way has only registered clients left, which the read
  lock keeps true, and `Registration` that a registered client's channel is open;
  `Sited` and `Lifecycle` say what each goroutine may assume of the others. NoGap is
  strengthened to `NoGapInv`, which tells for each stage of the handler whether
  an event is still owed by the log, by the copied history, or by a broadcast.
  KeepsFeed (`ImplementsFeed`) adds `FeedInv`: a log has the events whose call appended
  them (`LogHolds`), and what travels to a client is from the log of its session
  (`QueuesHold`). NoEarlyDrop counts (`DropInv`): channel and pending history
  together hold no more than the history sent so far (`Sent`) and one message for
  each event a broadcast is done with (`Served`); neither exceeds the log.
  `NobodyLeftBehind` is the safety side of EventReachesWatcher and DeadClientIsReleased,
  from `PumpsInOrder` (writePump's end closes the connection, on which readPump ends, which
  closes the channel): a watched channel is read, sendHistory waits only for a pump that is
  there, and a client that lost its connection or its writePump has ended or has a
  goroutine whose turn it is.
- **TokenGrants_proofs**. OnePlace becomes `Apart`, its pairs of places; with `Given`
  (what is stored or consumed was given) and `Knows` (a request that stored a token
  knows which) it is inductive. KeepsLifecycle maps each action to an action of
  GrantLifecycle or a stutter. OthersAreHarmless needs only the types: of all steps, a
  refresh's alone takes a token without marking it, after comparing the client.
- **WebSocketHook_proofs**. ConnectedMeansOpen is inductive with the types: every
  action that closes an open socket, onclose or the cleanup of a render, also
  sets connected to false. RetriesBounded needs `RetryIInv`: there are no more chains
  of sockets and timers than renders, and attempts and pending timers together stay
  below the limit and the renders.
- **FlowExecutor_proofs**. `Linked` ties a run to an existing executor and its login to a run
  of the same executor; `Governed` says that the executor of a run has a controller, and
  has aborted it if the page has dropped the executor. With them PageShowsCurrent and TokensFromOwnLogin are
  inductive; a lemma on a turn of one run serves all actions that make it go on.
  NoLateRequest follows: a dropped executor's request is rejected as it is made.
  How runs end is a second invariant, `EndInv`, on top of the first, because NeverStuck,
  CompletedHasTokens and CleansUp say too little of the runs under way: every run has a
  login (`LoggedIn`), a request is being rejected only for an executor that is aborted
  (`RejectedAborted`), a program that creates something is under way once at most and
  unaborted (`CreatorAlone`), and what it created it either failed to delete, or still
  knows and has the deleting step ahead of it (`KeepsTrack`). Two assumptions on the
  programs are what their authors keep to: `TokensComeLast` (a program for tokens ends
  with the step that stores them, and that step throws when it cannot) and
  `CreatorsDelete`; TLC evaluates both for all programs of FlowPrograms.
  The theorems hold for any flows and any programs of steps that meet them, so also for
  executors that are yet to be written in this form.
- **FrontendHooks_proofs**. NoPollAfterAbort: a run in its polling phase either is the one
  that the controller belongs to, all of whose timers and polls an abort reaches (`Live`),
  or has none left (`Dead`): `RunGoverned`. ExchangesOwnCode: parameter and
  verifier of the shared state are always of one login, and the request copies both.
  `KeepsOneTimer` is what PollingStops rests on: as long as there was one run, there is at
  most one interval, also after a late slow_down, and pollTimer refers to it, so that the
  interval that finds its run expired clears itself.
- **FlowRegistry_proofs**. LoadedOnce: the entry of a protocol in the map of loads lives
  exactly as long as its load (`Entries`), also if one request fails before the other.
  `NobodyWaitsForNothing` is the safety side of LoadingEnds: a hook or a list that says it
  is loading will hear of a request that is still unanswered. Its invariant (`WaitIInv`)
  is that whatever is waited for is under way, since all who wait for a load hear of its
  end, and that the promise of all protocols waits exactly while it is loading.
- **ScimStore_proofs**. A tag outlives its row, so TagNamesContent needs `TagsArePast`
  and `RowsArePast`: a row created later is born later than every tag in
  anybody's hands. GuardedWrite follows: the version compared at the save equals
  the tag's, hence so does the content. The same step (`VersionsAreContents`) is the heart of
  KeepsResources, whose proof maps each action to one of ScimResources or a stutter; that
  a new group has no members left from an earlier life, which its Create asks
  for, is MembershipSound.
- **SamlSessions_proofs**. IndexAgrees says nothing while a request is under way;
  `InStep` says for each of its phases how the index differs (by the session
  just stored or about to go, or by all of them while the plugin shuts down), and `Solitude` that without an overlap there is one
  request only. LogoutEndsAll needs `Covers`: what a logout has not seen yet is still in
  its list or among what it has to delete. `Sound` (lists held have one NameID's
  sessions) needs none of this and holds through every race, hence NoForeignLogout.

## 7. Model-checked only

Liveness (AddEventEnds, EventReachesWatcher, DeadClientIsReleased, GivesUp, PollingStops,
LoadingEnds, Settles) is out of the prover's reach and stays with TLC. What can be said of
it without time is proved: that whoever waits has somebody who can still act for it
(NobodyLeftBehind, NobodyWaitsForNothing, KeepsOneTimer, StatusHasRun), and that the attempts
GivesUp is about are bounded (Retries). Every invariant
and every safety property of a step that a passing run checks has a theorem. The
violated runs are counterexamples and need no proof.

Some hazards are caught in part or not at all, and PROJECT.json says so at each: the session
that a logout skips while another request moves its list (LogoutEndsAll and IndexAgrees are
about requests that never overlap), the version of a row created again under its id, the user
that a failed or aborted SCIM run leaves, a socket other than the one in `wsRef`, the wrong
protocol on a page, and the order of the shutdown.

## 8. Findings

Each is a violated run with a quoted statement; PROJECT.json has the lines.

- lg_infofirst: a live event can overtake "session info first".
- tg_revoke: with token_type_hint=access_token a refresh token is reported revoked and still works.
- ws_unmount: onclose after unmount reconnects.
- flow_abort: abort() writes idle, and the catch block of the aborted request then writes error; a SAML flow goes on to completed.
- scim_list: listed members are those of the document, not of the table.
- saml_index: GetSessionsByNameID need not retrieve all sessions of a NameID.

The models also show behaviours that no statement of the repository rules out, so that
no property is about them:

- a bulk PATCH loses a concurrent change, and a stale If-Match or PATCH passes the check
  against a row created again under the same id (which is why GuardedWrite speaks of one
  row's life);
- a late answer to a device poll of an earlier run clears the timer of the next run,
  which then waits for ever, and a slow_down answered after the end starts an interval
  again, which polls until its code expires (hence PollingStops is about one run);
- two runs of one executor that hear the same message both send its code, and the one
  that is refused writes error over completed;
- a rejected promise of all protocols is kept, so the list never loads again;
- hooks that cancel nothing show the protocol whose answer came last;
- writePump joins messages that are queued at one time into one frame (`WriterDrain`), and
  the parser of `useLookingGlassSession`, which no page uses, takes a frame as one
  message and ignores it if it is not;
- storing a refresh token for the refresh flow makes the page create its executor anew,
  which clears the result just shown when the refresh flow itself is selected.

## 9. Not modelled

Signing, encodings, filters, schemas, metadata, rendering and deployment are pure or
static; `fallback-data.ts` and the inspectors' components are data and layout. The rate
limiter, key rotation, SyncUsers, AddGroupMember and the sessions of
MockIdP.CreateSession have no caller. `useFlowSimulation` is a
counter with timers over fixed texts, and no page uses `useLookingGlassSession`.
The SPIFFE workload client is a few fields behind one lock that Start and Close write
once; its one hard step (the failure path of Start calls Close, which takes the lock
Start holds, `workload.go:170`) needs the SPIFFE library to lose an SVID it has just waited
for. Plugins are registered, initialised and shut down one after the other by one
goroutine; what that does to a request under way is `Abandon` in ScimStore. The SCIM
provisioning log is a bounded list for display. DOM events other than those named, the
contents of events, and text typed into the page are abstracted away. The device,
password and hybrid executors and the first executor are in the code and
modelled, though the page as configured offers or mounts only some of them.

## 10. What is left

In order of weight:

- ScimStore: the provisioning log.
- SamlSessions: SLOState with several participants and its unlocked `Complete`; the
  table of operations that only a response empties.
- A composition of LookingGlass with WebSocketHook and the page's parser of frames, which
  takes one message of a frame that writePump may fill with several.
- SpiffeWorkload: the lock in the failure path of Start, if the library's contract
  is settled.
