--------------------------- MODULE MC_FrontendHooks ---------------------------
(***************************************************************************)
(* Four parts of the browser's side that share no state, side by side: the *)
(* sockets of useWebSocket, the polls of the device flow, the first        *)
(* executor, and the registry of flows with its hooks.  A behaviour runs   *)
(* the part it chooses first, since interleaving them would show nothing   *)
(* more.                                                                   *)
(***************************************************************************)
EXTENDS WebSocketHook, DevicePolling, LiveExecutor, FlowRegistry

VARIABLE part

Parts == {"sockets", "polling", "executor", "registry"}

AllInit == part \in Parts /\ Init /\ PollingInit /\ LiveInit /\ RegistryInit

AllNext ==
  \/ part = "sockets" /\ Next /\ UNCHANGED <<part, pollingVars, liveVars, registryVars>>
  \/ part = "polling" /\ PollingNext /\ UNCHANGED <<part, vars, liveVars, registryVars>>
  \/ part = "executor" /\ LiveNext /\ UNCHANGED <<part, vars, pollingVars, registryVars>>
  \/ part = "registry" /\ RegistryNext /\ UNCHANGED <<part, vars, pollingVars, liveVars>>

AllVars == <<part, vars, pollingVars, liveVars, registryVars>>

\* What is fair in a part is disabled as long as the part has not been started.
AllSpec ==
  /\ AllInit /\ [][AllNext]_AllVars
  /\ SocketFairness /\ PollingFairness /\ RegistryFairness

=============================================================================
