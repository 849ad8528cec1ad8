----------------------------- MODULE FlowRegistry -----------------------------
(***************************************************************************)
(* Where pages get protocols and flows from: the registry of the Looking   *)
(* Glass (lookingglass/registry.ts), which caches what it loads and shares *)
(* loads under way, the hooks that call it (lookingglass/hooks.ts), and    *)
(* the hooks of the other pages (protocols/hooks.ts), which fetch each for *)
(* itself.  No hook cancels what it asked for: an answer to what a hook no *)
(* longer wants is still stored in its state.                              *)
(***************************************************************************)
EXTENDS FiniteSets, Naturals

CONSTANTS
  Protocols,      \* ids the backend knows
  RegistryHooks,  \* uses of useProtocol, useFlows or useFlow of lookingglass/hooks.ts
  DirectHooks,    \* uses of useProtocol, useProtocolFlows or, wanting one thing once,
                  \* useProtocols of protocols/hooks.ts
  Nothing,        \* null or undefined
  MaxLoads,       \* bound: loads of a protocol
  MaxChanges      \* bound: changes of what is wanted, all hooks together

Loads == 1..MaxLoads
Hooks == RegistryHooks \cup DirectHooks

VARIABLES
  cached,   \* FlowRegistry.protocols
  pending,  \* FlowRegistry.loading: the load of each protocol; 0: none
  all,      \* where allProtocolsPromise is, and the loads it still waits for
  loads,    \* loads[l]: its protocol, the requests unanswered, where it is
  hooks,    \* the state of each hook, and the loads whose outcome it will hear
  asked,    \* asked[h][p]: fetches of a direct hook under way
  lists,    \* useProtocols: what it shows
  changes   \* changes so far

registryVars == <<cached, pending, all, loads, hooks, asked, lists, changes>>

RegistryInit ==
  /\ cached = {} /\ pending = [p \in Protocols |-> 0]
  /\ all = [is |-> "none", waits |-> {}]
  /\ loads = [l \in Loads |-> [of |-> Nothing, unanswered |-> {}, is |-> "unused"]]
  /\ hooks = [h \in Hooks |-> [id |-> Nothing, shown |-> Nothing, loading |-> FALSE,
                               error |-> FALSE, waits |-> {}]]
  /\ asked = [h \in DirectHooks |-> [p \in Protocols |-> 0]]
  /\ lists = "unmounted" /\ changes = 0

-----------------------------------------------------------------------------
(* The registry *)

\* loadProtocol for each of the protocols of P: what is cached is there, what is
\* being loaded is waited for, and a load is started for the others.
\* pending', loads' and the loads to wait for.
LoadProtocols(P, waits) ==
  LET missing == {p \in P : p \notin cached /\ pending[p] = 0}
      free == {l \in Loads : loads[l].is = "unused"}
  IN \E l \in [missing -> free] :
       /\ \A p, q \in missing : p # q => l[p] # l[q]
       /\ \A p \in missing : \A k \in free : k < l[p] => \E q \in missing : l[q] = k
       /\ pending' = [p \in Protocols |-> IF p \in missing THEN l[p] ELSE pending[p]]
       /\ loads' = [k \in Loads |->
            IF \E p \in missing : l[p] = k
              THEN [of |-> CHOOSE p \in missing : l[p] = k,
                    unanswered |-> {"info", "flows"}, is |-> "loading"]
              ELSE loads[k]]
       /\ waits = {pending'[p] : p \in P \ cached}

\* What hears of load l: hooks store the protocol, or the error, and whatever
\* they wait for else, they no longer say they are loading.
Told(hook, p, ok) ==
  [hook EXCEPT !.loading = FALSE, !.error = @ \/ ~ok, !.shown = IF ok THEN p ELSE @]

Hear(l, ok) ==
  hooks' = [h \in Hooks |->
    IF l \in hooks[h].waits
      THEN [Told(hooks[h], loads[l].of, ok) EXCEPT !.waits = hooks[h].waits \ {l}]
      ELSE hooks[h]]

\* Promise.all of _loadAllProtocols: the first failure rejects it, and the
\* rejected promise is kept.
HearAll(l, ok) ==
  all' = IF l \notin all.waits THEN all
         ELSE IF ~ok THEN [is |-> "failed", waits |-> {}]
         ELSE [is |-> IF all.waits = {l} THEN "loaded" ELSE "loading", waits |-> all.waits \ {l}]

\* useProtocols is told of the end of the promise it waits for.
Listed(is) == IF lists = "loading" /\ is \in {"loaded", "failed"} THEN is ELSE lists

\* Mutant: the entry is deleted when the first of the two requests is answered.
Deleted_Early(l, ok) == [pending EXCEPT ![loads[l].of] = 0]

\* loadProtocol's finally: when the load has ended.
Deleted(l, ok) ==
  IF loads[l].unanswered = {"info", "flows"} /\ ok THEN pending
                                                    ELSE [pending EXCEPT ![loads[l].of] = 0]

\* One of the two requests of _loadProtocol is answered.  The first failure ends
\* the load; an answer to the other request is then ignored.
AnswerLoad(l, request, ok) ==
  LET last == loads[l].unanswered = {request} IN
  /\ loads[l].is = "loading" /\ request \in loads[l].unanswered
  /\ loads' = [loads EXCEPT ![l].unanswered = loads[l].unanswered \ {request},
                            ![l].is = IF last \/ ~ok THEN "settled" ELSE "loading"]
  /\ pending' = Deleted(l, ok)
  /\ IF last \/ ~ok
       THEN /\ cached' = IF ok THEN cached \cup {loads[l].of} ELSE cached
            /\ Hear(l, ok) /\ HearAll(l, ok) /\ lists' = Listed(all'.is)
       ELSE UNCHANGED <<cached, hooks, all, lists>>
  /\ UNCHANGED <<asked, changes>>

\* loadAllProtocols, called when useProtocols mounts.
MountList ==
  /\ changes < MaxChanges /\ changes' = changes + 1 /\ lists = "unmounted"
  /\ all' = IF all.is = "none" THEN [all EXCEPT !.is = "listing"] ELSE all
  /\ lists' = IF all.is \in {"loaded", "failed"} THEN all.is ELSE "loading"
  /\ UNCHANGED <<cached, pending, loads, hooks, asked>>

UnmountList ==
  /\ lists # "unmounted" /\ lists' = "unmounted"
  /\ UNCHANGED <<cached, pending, all, loads, hooks, asked, changes>>

\* _loadAllProtocols after getProtocols.
ListProtocols(ok) ==
  /\ all.is = "listing"
  /\ \/ /\ ok
        /\ \E waits \in SUBSET Loads :
             /\ LoadProtocols(Protocols, waits)
             /\ all' = [is |-> IF waits = {} THEN "loaded" ELSE "loading", waits |-> waits]
     \/ /\ ~ok
        /\ all' = [is |-> "failed", waits |-> {}]
        /\ UNCHANGED <<pending, loads>>
  /\ lists' = Listed(all'.is)
  /\ UNCHANGED <<cached, hooks, asked, changes>>

-----------------------------------------------------------------------------
(* The hooks *)

\* The effect of a registry hook whose protocol changes.
WantFromRegistry(h, p) ==
  /\ changes < MaxChanges /\ changes' = changes + 1
  /\ p # hooks[h].id
  /\ \/ /\ p = Nothing
        /\ hooks' = [hooks EXCEPT ![h].id = p, ![h].shown = Nothing]
        /\ UNCHANGED <<pending, loads>>
     \/ /\ p # Nothing
        /\ \E waits \in SUBSET Loads :
             /\ LoadProtocols({p}, waits)
             /\ hooks' = [hooks EXCEPT ![h] =
                  IF p \in cached
                    THEN Told([hooks[h] EXCEPT !.id = p], p, TRUE)
                    ELSE [hooks[h] EXCEPT !.id = p, !.loading = TRUE,
                                          !.waits = hooks[h].waits \cup waits]]
  /\ UNCHANGED <<cached, all, asked, lists>>

\* The effect of a direct hook; refetch, without a change.
WantDirectly(h, p) ==
  /\ changes < MaxChanges /\ changes' = changes + 1
  /\ \/ /\ p = Nothing
        /\ hooks' = [hooks EXCEPT ![h].id = p, ![h].loading = FALSE]
        /\ UNCHANGED asked
     \/ /\ p # Nothing
        /\ hooks' = [hooks EXCEPT ![h].id = p, ![h].loading = TRUE]
        /\ asked' = [asked EXCEPT ![h][p] = asked[h][p] + 1]
  /\ UNCHANGED <<cached, pending, all, loads, lists>>

\* Mutant: loading is reset only when protocols or flows come.
AnswerDirect_KeepsLoading(h, p, ok) ==
  /\ asked[h][p] > 0
  /\ asked' = [asked EXCEPT ![h][p] = asked[h][p] - 1]
  /\ hooks' = [hooks EXCEPT ![h] =
       [Told(hooks[h], p, ok) EXCEPT !.loading = hooks[h].loading /\ ~ok]]
  /\ UNCHANGED <<cached, pending, all, loads, lists, changes>>

AnswerDirect(h, p, ok) ==
  /\ asked[h][p] > 0
  /\ asked' = [asked EXCEPT ![h][p] = asked[h][p] - 1]
  /\ hooks' = [hooks EXCEPT ![h] = Told(hooks[h], p, ok)]
  /\ UNCHANGED <<cached, pending, all, loads, lists, changes>>

Request(l, r) == \E ok \in BOOLEAN : AnswerLoad(l, r, ok)
Listing == \E ok \in BOOLEAN : ListProtocols(ok)
Direct(h, p) == \E ok \in BOOLEAN : AnswerDirect(h, p, ok)

RegistryNext ==
  \/ \E l \in Loads, r \in {"info", "flows"} : Request(l, r)
  \/ MountList \/ UnmountList \/ Listing
  \/ \E h \in RegistryHooks, p \in Protocols \cup {Nothing} : WantFromRegistry(h, p)
  \/ \E h \in DirectHooks, p \in Protocols \cup {Nothing} : WantDirectly(h, p)
  \/ \E h \in DirectHooks, p \in Protocols : Direct(h, p)

\* As long as a request is unanswered, the backend or the network answers some.
RegistryFairness ==
  WF_registryVars(\/ \E l \in Loads, r \in {"info", "flows"} : Request(l, r)
                  \/ Listing
                  \/ \E h \in DirectHooks, p \in Protocols : Direct(h, p))

RegistrySpec == RegistryInit /\ [][RegistryNext]_registryVars /\ RegistryFairness

-----------------------------------------------------------------------------
(* Properties *)

\* However hooks and the list ask for it, a protocol is loaded by one pair of
\* requests at a time, and not again once it is there (loadProtocol).
LoadedOnce ==
  \A p \in Protocols :
    LET underway == {l \in Loads : loads[l].is = "loading" /\ loads[l].of = p}
    IN Cardinality(underway) <= 1 /\ (p \in cached => underway = {})

\* No page waits for ever: a hook that says it is loading, and the list, come to
\* say they are not, although they wait for loads that others started, for a
\* promise that the first failure rejects, or for answers that came out of order.
LoadingEnds ==
  /\ \A h \in Hooks : []<>(~hooks[h].loading)
  /\ []<>(lists # "loading")

=============================================================================
