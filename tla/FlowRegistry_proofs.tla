-------------------------- MODULE FlowRegistry_proofs --------------------------
(***************************************************************************)
(* The registry of flows asks for a protocol once, and whoever waits for   *)
(* one will hear of a request that is still unanswered, for any protocols, *)
(* hooks, loads and changes.                                               *)
(***************************************************************************)
EXTENDS FlowRegistry, FiniteSetTheorems, TLAPS

LoadRecords ==
  [of: Protocols \cup {Nothing}, unanswered: SUBSET {"info", "flows"},
   is: {"unused", "loading", "settled"}]

RegistryTypes ==
  /\ cached \subseteq Protocols
  /\ pending \in [Protocols -> {0} \cup Loads]
  /\ loads \in [Loads -> LoadRecords]

\* The entry of a protocol is its load under way: there is one as long as the
\* other, and neither once the protocol is there.
Entries ==
  /\ \A l \in Loads : loads[l].is = "loading" =>
       loads[l].of \in Protocols /\ pending[loads[l].of] = l
  /\ \A p \in Protocols :
       /\ pending[p] # 0 => loads[pending[p]].is = "loading" /\ loads[pending[p]].of = p
       /\ p \in cached => pending[p] = 0

RegistryIInv == RegistryTypes /\ Entries

LEMMA NoLoadZero == 0 \notin Loads
BY DEF Loads

\* Loads are started for protocols that have none, under ids that are free.
LEMMA LoadProtocolsStep ==
  ASSUME RegistryIInv, NEW P \in SUBSET Protocols, NEW waits, LoadProtocols(P, waits),
         UNCHANGED cached
  PROVE  RegistryIInv'
<1>. DEFINE missing == {p \in P : p \notin cached /\ pending[p] = 0}
            free == {l \in Loads : loads[l].is = "unused"}
            new(p) == [of |-> p, unanswered |-> {"info", "flows"}, is |-> "loading"]
<1>1. PICK l \in [missing -> free] :
        /\ \A p, q \in missing : p # q => l[p] # l[q]
        /\ pending' = [p \in Protocols |-> IF p \in missing THEN l[p] ELSE pending[p]]
        /\ loads' = [k \in Loads |->
             IF \E p \in missing : l[p] = k
               THEN new(CHOOSE p \in missing : l[p] = k) ELSE loads[k]]
  BY DEF LoadProtocols
<1>2. \A p \in missing : p \in Protocols /\ p \notin cached /\ pending[p] = 0
  OBVIOUS
<1>3. \A k \in free : k \in Loads /\ loads[k].is = "unused"
  OBVIOUS
<1>. HIDE DEF missing, free
<1>4. \A p \in missing : l[p] \in Loads /\ loads[l[p]].is = "unused"
  BY <1>3
<1>5. \A p \in missing : loads'[l[p]] = new(p)
  <2>. TAKE p \in missing
  <2>1. (CHOOSE q \in missing : l[q] = l[p]) = p
    BY <1>1
  <2>. QED BY <1>1, <1>4, <2>1
<1>6. \A k \in Loads : (\A p \in missing : l[p] # k) => loads'[k] = loads[k]
  BY <1>1
<1>7. \A p \in missing : new(p) \in LoadRecords
  BY <1>2 DEF LoadRecords
<1>8. RegistryTypes'
  <2>1. \A k \in Loads : loads'[k] \in LoadRecords
    BY <1>5, <1>6, <1>7 DEF RegistryIInv, RegistryTypes
  <2>2. loads' \in [Loads -> LoadRecords]
    BY <1>1, <2>1
  <2>3. pending' \in [Protocols -> {0} \cup Loads]
    BY <1>1, <1>4 DEF RegistryIInv, RegistryTypes
  <2>. QED BY <2>2, <2>3 DEF RegistryIInv, RegistryTypes
<1>9. ASSUME NEW k \in Loads, loads'[k].is = "loading"
      PROVE  loads'[k].of \in Protocols /\ pending'[loads'[k].of] = k
  <2>1. CASE \E p \in missing : l[p] = k
    <3>1. PICK p \in missing : l[p] = k
      BY <2>1
    <3>2. loads'[k].of = p /\ pending'[p] = k
      BY <1>1, <1>2, <1>5, <3>1
    <3>. QED BY <1>2, <3>2
  <2>2. CASE \A p \in missing : l[p] # k
    <3>1. /\ loads'[k] = loads[k] /\ loads[k].of \in Protocols
          /\ pending[loads[k].of] = k /\ k # 0
      BY <1>6, <1>9, <2>2, NoLoadZero DEF RegistryIInv, Entries
    <3>. QED BY <1>1, <1>2, <3>1
  <2>. QED BY <2>1, <2>2
<1>10. ASSUME NEW p \in Protocols
       PROVE  /\ pending'[p] # 0 => /\ loads'[pending'[p]].is = "loading"
                                    /\ loads'[pending'[p]].of = p
              /\ p \in cached => pending'[p] = 0
  <2>1. CASE p \in missing
    <3>1. pending'[p] = l[p] /\ p \notin cached
      BY <1>1, <1>2, <2>1
    <3>2. loads'[l[p]] = new(p)
      BY <1>5, <2>1
    <3>. QED BY <3>1, <3>2
  <2>2. CASE p \notin missing
    <3>1. pending'[p] = pending[p]
      BY <1>1, <2>2
    <3>2. ASSUME pending[p] # 0 PROVE loads'[pending[p]] = loads[pending[p]]
      <4>1. pending[p] \in Loads /\ loads[pending[p]].is = "loading"
        BY <3>2 DEF RegistryIInv, RegistryTypes, Entries
      <4>. QED BY <1>4, <1>6, <4>1
    <3>. QED BY <3>1, <3>2 DEF RegistryIInv, Entries
  <2>. QED BY <2>1, <2>2
<1>. QED BY <1>8, <1>9, <1>10 DEF RegistryIInv, Entries

\* The answer to a request: the load goes on with its entry, or both are over.
LEMMA AnswerLoadStep ==
  ASSUME RegistryIInv, NEW l \in Loads, NEW request \in {"info", "flows"},
         NEW ok \in BOOLEAN, AnswerLoad(l, request, ok)
  PROVE  RegistryIInv'
<1>. DEFINE p == loads[l].of
            over == loads[l].unanswered = {request} \/ ~ok
<1>1. /\ loads[l].is = "loading" /\ p \in Protocols /\ pending[p] = l /\ p \notin cached
      /\ loads[l] \in LoadRecords /\ l # 0
  BY NoLoadZero DEF AnswerLoad, RegistryIInv, RegistryTypes, Entries
<1>2. loads' = [loads EXCEPT ![l].unanswered = loads[l].unanswered \ {request},
                             ![l].is = IF over THEN "settled" ELSE "loading"]
  BY DEF AnswerLoad
<1>3. pending' = IF over THEN [pending EXCEPT ![p] = 0] ELSE pending
  <2>1. request \in loads[l].unanswered /\ loads[l].unanswered \subseteq {"info", "flows"}
    BY <1>1 DEF AnswerLoad, LoadRecords
  <2>2. over <=> ~(loads[l].unanswered = {"info", "flows"} /\ ok)
    BY <2>1
  <2>. QED BY <2>2 DEF AnswerLoad, Deleted
<1>4. cached' \in {cached, IF over THEN cached \cup {p} ELSE cached}
  BY DEF AnswerLoad
<1>5. /\ loads' \in [Loads -> LoadRecords] /\ \A k \in Loads \ {l} : loads'[k] = loads[k]
      /\ loads'[l].of = p /\ loads'[l].is = IF over THEN "settled" ELSE "loading"
  <2>. DEFINE n == [loads[l] EXCEPT !.unanswered = loads[l].unanswered \ {request},
                                    !.is = IF over THEN "settled" ELSE "loading"]
  <2>1. n \in LoadRecords /\ n.of = p /\ n.is = IF over THEN "settled" ELSE "loading"
    BY <1>1 DEF LoadRecords
  <2>2. loads' = [loads EXCEPT ![l] = n] /\ loads \in [Loads -> LoadRecords]
    BY <1>2 DEF RegistryIInv, RegistryTypes
  <2>. HIDE DEF n
  <2>. QED BY <2>1, <2>2
<1>. HIDE DEF p, over
<1>6. RegistryTypes'
  BY <1>1, <1>3, <1>4, <1>5 DEF RegistryIInv, RegistryTypes
<1>7. \A q \in Protocols \ {p} : pending'[q] = pending[q] /\ pending[q] # l
  BY <1>1, <1>3 DEF RegistryIInv, RegistryTypes, Entries, p
<1>8. pending'[p] = IF over THEN 0 ELSE l
  BY <1>1, <1>3 DEF RegistryIInv, RegistryTypes
<1>9. ASSUME NEW k \in Loads, loads'[k].is = "loading"
      PROVE  loads'[k].of \in Protocols /\ pending'[loads'[k].of] = k
  <2>1. CASE k = l
    BY <1>1, <1>5, <1>8, <1>9, <2>1
  <2>2. CASE k # l
    <3>1. loads'[k] = loads[k] /\ loads[k].of \in Protocols /\ pending[loads[k].of] = k
      BY <1>5, <1>9, <2>2 DEF RegistryIInv, Entries
    <3>. QED BY <1>1, <1>7, <2>2, <3>1
  <2>. QED BY <2>1, <2>2
<1>10. ASSUME NEW q \in Protocols
       PROVE  /\ pending'[q] # 0 => /\ loads'[pending'[q]].is = "loading"
                                    /\ loads'[pending'[q]].of = q
              /\ q \in cached' => pending'[q] = 0
  <2>1. CASE q = p
    BY <1>1, <1>4, <1>5, <1>8, <2>1
  <2>2. CASE q # p
    <3>1. pending[q] # 0 => pending[q] \in Loads \ {l}
      BY <1>7, <2>2 DEF RegistryIInv, RegistryTypes
    <3>. QED BY <1>4, <1>5, <1>7, <2>2, <3>1 DEF RegistryIInv, Entries
  <2>. QED BY <2>1, <2>2
<1>. QED BY <1>6, <1>9, <1>10 DEF RegistryIInv, Entries

LEMMA RegistryStep == RegistryIInv /\ [RegistryNext]_registryVars => RegistryIInv'
<1>. SUFFICES ASSUME RegistryIInv, [RegistryNext]_registryVars PROVE RegistryIInv'
  OBVIOUS
<1>1. ASSUME UNCHANGED <<cached, pending, loads>> PROVE RegistryIInv'
  BY <1>1 DEF RegistryIInv, RegistryTypes, Entries
<1>2. CASE \E l \in Loads, r \in {"info", "flows"} : Request(l, r)
  BY <1>2, AnswerLoadStep DEF Request
<1>3. CASE Listing
  <2>1. PICK ok \in BOOLEAN : ListProtocols(ok)
    BY <1>3 DEF Listing
  <2>2. \/ \E waits \in SUBSET Loads : LoadProtocols(Protocols, waits) /\ UNCHANGED cached
        \/ UNCHANGED <<cached, pending, loads>>
    BY <2>1 DEF ListProtocols
  <2>. QED BY <1>1, <2>2, LoadProtocolsStep
<1>4. ASSUME NEW h \in RegistryHooks, NEW p \in Protocols \cup {Nothing}, WantFromRegistry(h, p)
      PROVE  RegistryIInv'
  <2>1. \/ p # Nothing /\ \E waits \in SUBSET Loads : LoadProtocols({p}, waits) /\ UNCHANGED cached
        \/ UNCHANGED <<cached, pending, loads>>
    BY <1>4 DEF WantFromRegistry
  <2>. QED BY <1>1, <2>1, LoadProtocolsStep
<1>5. CASE \/ MountList \/ UnmountList
           \/ \E h \in DirectHooks, p \in Protocols \cup {Nothing} : WantDirectly(h, p)
           \/ \E h \in DirectHooks, p \in Protocols : Direct(h, p)
           \/ UNCHANGED registryVars
  <2>1. UNCHANGED <<cached, pending, loads>>
    BY <1>5 DEF MountList, UnmountList, WantDirectly, Direct, AnswerDirect, registryVars
  <2>. QED BY <1>1, <2>1
<1>. QED BY <1>2, <1>3, <1>4, <1>5 DEF RegistryNext

\* loadProtocol: the entry in the map of loads lives exactly as long as the load,
\* so that hooks and the list of protocols share it and nobody asks again.
THEOREM LoadsOnce == RegistrySpec => []LoadedOnce
<1>1. RegistryInit => RegistryIInv
  BY DEF RegistryInit, RegistryIInv, RegistryTypes, LoadRecords, Entries
<1>2. RegistryIInv => LoadedOnce
  <2>. SUFFICES ASSUME RegistryIInv, NEW p \in Protocols,
                       NEW underway, underway = {l \in Loads : loads[l].is = "loading" /\ loads[l].of = p}
                PROVE  Cardinality(underway) <= 1 /\ (p \in cached => underway = {})
    BY DEF LoadedOnce
  <2>1. \A l \in underway : l = pending[p] /\ l # 0
    BY NoLoadZero DEF RegistryIInv, Entries
  <2>2. p \in cached => underway = {}
    BY <2>1 DEF RegistryIInv, Entries
  <2>3. underway = {} \/ underway = {pending[p]}
    BY <2>1
  <2>4. Cardinality(underway) \in {0, 1}
    BY <2>3, FS_EmptySet, FS_Singleton
  <2>. QED BY <2>2, <2>4
<1>. QED BY <1>1, <1>2, RegistryStep, PTL DEF RegistrySpec

-----------------------------------------------------------------------------
(* Nobody waits for nothing. *)

UnderWay(l) == loads[l].is = "loading" /\ loads[l].unanswered # {}

\* A hook that says it is loading will hear of a request that is still unanswered,
\* and so will the list.
LoadingIsAwaited ==
  /\ \A h \in Hooks : hooks[h].loading =>
       \/ \E l \in hooks[h].waits : UnderWay(l)
       \/ h \in DirectHooks /\ \E p \in Protocols : asked[h][p] > 0
  /\ lists = "loading" => all.is = "listing" \/ \E l \in all.waits : UnderWay(l)

HookRecords ==
  [id: Protocols \cup {Nothing}, shown: Protocols \cup {Nothing}, loading: BOOLEAN,
   error: BOOLEAN, waits: SUBSET Loads]

WaitTypes ==
  /\ hooks \in [Hooks -> HookRecords]
  /\ asked \in [DirectHooks -> [Protocols -> Nat]]
  /\ all \in [is: {"none", "listing", "loading", "loaded", "failed"}, waits: SUBSET Loads]

\* Loads that somebody waits for are under way, since all who wait for one hear of
\* its end; the promise of all protocols waits exactly while it is loading.
WaitIInv ==
  /\ WaitTypes
  /\ \A l \in Loads : loads[l].is = "loading" => loads[l].unanswered # {}
  /\ \A h \in Hooks : \A l \in hooks[h].waits : loads[l].is = "loading"
  /\ \A l \in all.waits : loads[l].is = "loading"
  /\ \A h \in Hooks : hooks[h].loading =>
       hooks[h].waits # {} \/ (h \in DirectHooks /\ \E p \in Protocols : asked[h][p] > 0)
  /\ all.waits # {} <=> all.is = "loading"
  /\ lists = "loading" => all.is \in {"listing", "loading"}

LEMMA InitWaits == RegistryInit => WaitIInv
BY NoLoadZero DEF RegistryInit, WaitIInv, WaitTypes, HookRecords

\* Whatever is waited for after a call of loadProtocol is under way, and what was
\* under way still is.
LEMMA LoadProtocolsWaits ==
  ASSUME RegistryIInv, NEW P \in SUBSET Protocols, NEW waits \in SUBSET Loads,
         LoadProtocols(P, waits), UNCHANGED cached
  PROVE  /\ \A k \in Loads : loads[k].is = "loading" => loads'[k] = loads[k]
         /\ \A k \in Loads : loads'[k] = loads[k] \/ loads'[k].unanswered = {"info", "flows"}
         /\ \A k \in waits : loads'[k].is = "loading"
         /\ ~(P \subseteq cached) => waits # {}
<1>. DEFINE missing == {p \in P : p \notin cached /\ pending[p] = 0}
            free == {l \in Loads : loads[l].is = "unused"}
            new(p) == [of |-> p, unanswered |-> {"info", "flows"}, is |-> "loading"]
<1>1. PICK l \in [missing -> free] :
        /\ pending' = [p \in Protocols |-> IF p \in missing THEN l[p] ELSE pending[p]]
        /\ loads' = [k \in Loads |->
             IF \E p \in missing : l[p] = k
               THEN new(CHOOSE p \in missing : l[p] = k) ELSE loads[k]]
        /\ waits = {pending'[p] : p \in P \ cached}
  BY DEF LoadProtocols
<1>2. RegistryIInv'
  BY LoadProtocolsStep
<1>3. \A k \in Loads : loads[k].is = "loading" => \A p \in missing : l[p] # k
  OBVIOUS
<1>4. \A p \in P \ cached : pending'[p] # 0
  BY <1>1, NoLoadZero
<1>5. \A p \in P \ cached : loads'[pending'[p]].is = "loading"
  BY <1>2, <1>4 DEF RegistryIInv, Entries
<1>6. \A k \in Loads : loads'[k] = loads[k] \/ \E p : loads'[k] = new(p)
  BY <1>1
<1>7. \A k \in Loads : loads[k].is = "loading" => loads'[k] = loads[k]
  BY <1>1, <1>3
<1>8. \A k \in Loads : loads'[k] = loads[k] \/ loads'[k].unanswered = {"info", "flows"}
  <2>1. \A p : new(p).unanswered = {"info", "flows"}
    OBVIOUS
  <2>. HIDE DEF missing, free, new
  <2>. QED BY <1>6, <2>1
<1>9. /\ \A k \in waits : \E p \in P \ cached : k = pending'[p]
      /\ \A p \in P \ cached : pending'[p] \in waits
  BY <1>1
<1>. HIDE DEF missing, free, new
<1>10. \A k \in waits : loads'[k].is = "loading"
  BY <1>5, <1>9
<1>11. ~(P \subseteq cached) => waits # {}
  BY <1>9
<1>. QED BY <1>7, <1>8, <1>10, <1>11

\* What is under way stays so in a step that ends no load and brings whole ones.
LEMMA StillUnderWay ==
  ASSUME WaitIInv, WaitTypes',
         \A k \in Loads : loads[k].is = "loading" => loads'[k] = loads[k],
         \A k \in Loads : loads'[k] = loads[k] \/ loads'[k].unanswered = {"info", "flows"},
         \A h \in Hooks : \A k \in hooks'[h].waits : k \in hooks[h].waits \/ loads'[k].is = "loading",
         \A k \in all'.waits : k \in all.waits \/ loads'[k].is = "loading"
  PROVE  /\ \A k \in Loads : loads'[k].is = "loading" => loads'[k].unanswered # {}
         /\ \A h \in Hooks : \A k \in hooks'[h].waits : loads'[k].is = "loading"
         /\ \A k \in all'.waits : loads'[k].is = "loading"
<1>1. \A h \in Hooks : hooks[h].waits \subseteq Loads
  BY DEF WaitIInv, WaitTypes, HookRecords
<1>2. all.waits \subseteq Loads
  BY DEF WaitIInv, WaitTypes
<1>. QED BY <1>1, <1>2 DEF WaitIInv

LEMMA AnswerLoadWaits ==
  ASSUME RegistryIInv, WaitIInv, NEW l \in Loads, NEW request \in {"info", "flows"},
         NEW ok \in BOOLEAN, AnswerLoad(l, request, ok)
  PROVE  WaitIInv'
<1>. DEFINE over == loads[l].unanswered = {request} \/ ~ok
<1>1. /\ loads \in [Loads -> LoadRecords] /\ loads[l].is = "loading" /\ loads[l].of \in Protocols
      /\ loads' = [loads EXCEPT ![l].unanswered = loads[l].unanswered \ {request},
                                ![l].is = IF over THEN "settled" ELSE "loading"]
  BY DEF AnswerLoad, RegistryIInv, RegistryTypes, Entries
<1>2. \A k \in Loads \ {l} : loads'[k] = loads[k]
  BY <1>1
<1>3. /\ loads'[l].is = IF over THEN "settled" ELSE "loading"
      /\ loads'[l].unanswered = loads[l].unanswered \ {request}
  BY <1>1 DEF LoadRecords
<1>4. \A k \in Loads : loads'[k].is = "loading" => loads'[k].unanswered # {}
  <2>1. request \in loads[l].unanswered
    BY DEF AnswerLoad
  <2>2. loads'[l].is = "loading" => loads'[l].unanswered # {}
    <3>1. SUFFICES ASSUME loads[l].unanswered # {request}
                   PROVE  loads[l].unanswered \ {request} # {}
      BY <1>3
    <3>. QED BY <2>1, <3>1
  <2>. QED BY <1>2, <2>2 DEF WaitIInv
<1>5. UNCHANGED asked
  BY DEF AnswerLoad
<1>6. CASE over
  <2>1. /\ Hear(l, ok) /\ HearAll(l, ok) /\ lists' = Listed(all'.is)
    BY <1>6 DEF AnswerLoad
  <2>2. \A h \in Hooks : l \notin hooks[h].waits => hooks'[h] = hooks[h]
    BY <2>1 DEF Hear
  <2>3. \A h \in Hooks : l \in hooks[h].waits =>
          /\ hooks'[h] \in HookRecords /\ ~hooks'[h].loading
          /\ hooks'[h].waits = hooks[h].waits \ {l}
    <3>. TAKE h \in Hooks
    <3>. HAVE l \in hooks[h].waits
    <3>. DEFINE hook == hooks[h]
    <3>1. /\ hooks'[h] = [Told(hook, loads[l].of, ok) EXCEPT !.waits = hook.waits \ {l}]
          /\ hook \in HookRecords /\ loads[l].of \in Protocols
      BY <1>1, <2>1 DEF Hear, WaitIInv, WaitTypes
    <3>. HIDE DEF hook
    <3>2. /\ Told(hook, loads[l].of, ok) \in HookRecords
          /\ ~Told(hook, loads[l].of, ok).loading
      BY <3>1 DEF Told, HookRecords
    <3>3. /\ hooks'[h] \in HookRecords /\ ~hooks'[h].loading
          /\ hooks'[h].waits = hook.waits \ {l}
      BY <3>1, <3>2 DEF HookRecords
    <3>. QED BY <3>3 DEF hook
  <2>4. hooks' \in [Hooks -> HookRecords]
    <3>1. \A h \in Hooks : hooks'[h] \in HookRecords
      BY <2>2, <2>3 DEF WaitIInv, WaitTypes
    <3>. QED BY <2>1, <3>1 DEF Hear
  <2>5. /\ all'.waits = (IF l \in all.waits /\ ~ok THEN {} ELSE all.waits \ {l})
        /\ WaitTypes'
    BY <1>5, <2>1, <2>4 DEF HearAll, WaitIInv, WaitTypes
  <2>6. /\ all'.waits # {} <=> all'.is = "loading"
        /\ all'.is \in {"listing", "loading", "loaded", "failed"} \/ all'.is = all.is
        /\ all.is = "listing" => all'.is = "listing"
    BY <2>1 DEF HearAll, WaitIInv, WaitTypes
  <2>7. lists' = "loading" => all'.is \in {"listing", "loading"}
    BY <2>1, <2>6 DEF Listed, WaitIInv
  <2>8. \A h \in Hooks : \A k \in hooks'[h].waits : loads'[k].is = "loading"
    <3>1. \A h \in Hooks : \A k \in hooks'[h].waits : k \in hooks[h].waits /\ k # l /\ k \in Loads
      BY <2>2, <2>3 DEF WaitIInv, WaitTypes, HookRecords
    <3>. QED BY <1>2, <3>1 DEF WaitIInv
  <2>9. \A k \in all'.waits : loads'[k].is = "loading"
    <3>1. \A k \in all'.waits : k \in all.waits /\ k # l /\ k \in Loads
      BY <2>5 DEF WaitIInv, WaitTypes
    <3>. QED BY <1>2, <3>1 DEF WaitIInv
  <2>10. \A h \in Hooks : hooks'[h].loading =>
           hooks'[h].waits # {} \/ (h \in DirectHooks /\ \E p \in Protocols : asked'[h][p] > 0)
    BY <1>5, <2>2, <2>3 DEF WaitIInv
  <2>. QED BY <1>4, <2>5, <2>6, <2>7, <2>8, <2>9, <2>10 DEF WaitIInv
<1>7. CASE ~over
  <2>1. UNCHANGED <<hooks, all, lists, asked>>
    BY <1>5, <1>7 DEF AnswerLoad
  <2>2. \A k \in Loads : loads[k].is = "loading" => loads'[k].is = "loading"
    BY <1>2, <1>3, <1>7
  <2>3. \A h \in Hooks : hooks[h].waits \subseteq Loads
    BY DEF WaitIInv, WaitTypes, HookRecords
  <2>4. all.waits \subseteq Loads
    BY DEF WaitIInv, WaitTypes
  <2>. QED BY <1>4, <2>1, <2>2, <2>3, <2>4 DEF WaitIInv, WaitTypes
<1>. QED BY <1>6, <1>7

LEMMA ListWaits ==
  ASSUME RegistryIInv, WaitIInv,
         MountList \/ UnmountList \/ \E ok \in BOOLEAN : ListProtocols(ok)
  PROVE  WaitIInv'
<1>1. CASE MountList \/ UnmountList
  <2>1. UNCHANGED <<loads, hooks, asked>> /\ all'.waits = all.waits
    BY <1>1 DEF MountList, UnmountList, WaitIInv, WaitTypes
  <2>2. /\ WaitTypes' /\ (all'.waits # {} <=> all'.is = "loading")
        /\ lists' = "loading" => all'.is \in {"listing", "loading"}
    BY <1>1 DEF MountList, UnmountList, WaitIInv, WaitTypes
  <2>. QED BY <2>1, <2>2 DEF WaitIInv
<1>2. ASSUME NEW ok \in BOOLEAN, ListProtocols(ok) PROVE WaitIInv'
  <2>1. /\ UNCHANGED <<cached, hooks, asked>> /\ all.is = "listing" /\ all.waits = {}
        /\ lists' = Listed(all'.is)
    BY <1>2 DEF ListProtocols, WaitIInv
  <2>2. CASE /\ ~ok /\ all' = [is |-> "failed", waits |-> {}]
             /\ UNCHANGED <<pending, loads>>
    <3>1. WaitTypes' /\ lists' # "loading"
      BY <2>1, <2>2 DEF WaitIInv, WaitTypes, Listed
    <3>. QED BY <2>1, <2>2, <3>1 DEF WaitIInv
  <2>3. ASSUME NEW waits \in SUBSET Loads, LoadProtocols(Protocols, waits),
               all' = [is |-> IF waits = {} THEN "loaded" ELSE "loading", waits |-> waits]
        PROVE  WaitIInv'
    <3>1. /\ \A k \in Loads : loads[k].is = "loading" => loads'[k] = loads[k]
          /\ \A k \in Loads : loads'[k] = loads[k] \/ loads'[k].unanswered = {"info", "flows"}
          /\ \A k \in waits : loads'[k].is = "loading"
      BY <2>1, <2>3, LoadProtocolsWaits
    <3>2. /\ WaitTypes' /\ all'.waits = waits /\ (all'.waits # {} <=> all'.is = "loading")
          /\ lists' = "loading" => all'.is = "loading"
      BY <2>1, <2>3 DEF WaitIInv, WaitTypes, Listed
    <3>3. /\ \A k \in Loads : loads'[k].is = "loading" => loads'[k].unanswered # {}
          /\ \A h \in Hooks : \A k \in hooks'[h].waits : loads'[k].is = "loading"
          /\ \A k \in all'.waits : loads'[k].is = "loading"
      BY <2>1, <3>1, <3>2, StillUnderWay
    <3>. QED BY <2>1, <3>2, <3>3 DEF WaitIInv
  <2>. QED BY <1>2, <2>2, <2>3 DEF ListProtocols
<1>. QED BY <1>1, <1>2

LEMMA RegistryHookWaits ==
  ASSUME RegistryIInv, WaitIInv, NEW h \in RegistryHooks, NEW p \in Protocols \cup {Nothing},
         WantFromRegistry(h, p)
  PROVE  WaitIInv'
<1>1. UNCHANGED <<cached, all, asked, lists>> /\ h \in Hooks /\ hooks[h] \in HookRecords
  BY DEF WantFromRegistry, Hooks, WaitIInv, WaitTypes
<1>2. CASE /\ hooks' = [hooks EXCEPT ![h].id = p, ![h].shown = Nothing]
           /\ p = Nothing /\ UNCHANGED <<pending, loads>>
  <2>1. \A g \in Hooks : hooks'[g].waits = hooks[g].waits /\ hooks'[g].loading = hooks[g].loading
    BY <1>1, <1>2 DEF WaitIInv, WaitTypes, HookRecords
  <2>2. WaitTypes'
    BY <1>1, <1>2 DEF WaitIInv, WaitTypes, HookRecords
  <2>. QED BY <1>1, <1>2, <2>1, <2>2 DEF WaitIInv
<1>3. ASSUME p # Nothing, NEW waits \in SUBSET Loads, LoadProtocols({p}, waits),
             hooks' = [hooks EXCEPT ![h] =
               IF p \in cached
                 THEN Told([hooks[h] EXCEPT !.id = p], p, TRUE)
                 ELSE [hooks[h] EXCEPT !.id = p, !.loading = TRUE,
                                       !.waits = hooks[h].waits \cup waits]]
      PROVE  WaitIInv'
  <2>1. /\ \A k \in Loads : loads[k].is = "loading" => loads'[k] = loads[k]
        /\ \A k \in Loads : loads'[k] = loads[k] \/ loads'[k].unanswered = {"info", "flows"}
        /\ \A k \in waits : loads'[k].is = "loading"
        /\ p \notin cached => waits # {}
    <3>1. {p} \in SUBSET Protocols
      BY <1>3
    <3>2. (p \notin cached) = ~({p} \subseteq cached)
      OBVIOUS
    <3>. QED BY <1>1, <1>3, <3>1, <3>2, LoadProtocolsWaits
  <2>2. PICK n \in HookRecords :
          /\ hooks' = [hooks EXCEPT ![h] = n]
          /\ p \in cached => ~n.loading /\ n.waits = hooks[h].waits
          /\ p \notin cached => n.waits = hooks[h].waits \cup waits
    <3>1. CASE p \in cached
      <4>. DEFINE n == Told([hooks[h] EXCEPT !.id = p], p, TRUE)
      <4>1. n \in HookRecords /\ ~n.loading /\ n.waits = hooks[h].waits
        BY <1>1, <1>3 DEF HookRecords, Told
      <4>. QED BY <1>3, <3>1, <4>1
    <3>2. CASE p \notin cached
      <4>. DEFINE n == [hooks[h] EXCEPT !.id = p, !.loading = TRUE,
                                        !.waits = hooks[h].waits \cup waits]
      <4>1. n \in HookRecords /\ n.waits = hooks[h].waits \cup waits
        BY <1>1, <1>3 DEF HookRecords
      <4>. QED BY <1>3, <3>2, <4>1
    <3>. QED BY <3>1, <3>2
  <2>3. hooks'[h] = n /\ \A g \in Hooks \ {h} : hooks'[g] = hooks[g]
    BY <1>1, <2>2 DEF WaitIInv, WaitTypes
  <2>4. WaitTypes'
    BY <1>1, <2>2 DEF WaitIInv, WaitTypes
  <2>5. \A g \in Hooks : \A k \in hooks'[g].waits : k \in hooks[g].waits \/ loads'[k].is = "loading"
    BY <2>1, <2>2, <2>3
  <2>6. \A g \in Hooks : hooks'[g].loading =>
          hooks'[g].waits # {} \/ (g \in DirectHooks /\ \E q \in Protocols : asked'[g][q] > 0)
    BY <1>1, <2>1, <2>2, <2>3 DEF WaitIInv
  <2>7. /\ \A k \in Loads : loads'[k].is = "loading" => loads'[k].unanswered # {}
        /\ \A g \in Hooks : \A k \in hooks'[g].waits : loads'[k].is = "loading"
        /\ \A k \in all'.waits : loads'[k].is = "loading"
    BY <1>1, <2>1, <2>4, <2>5, StillUnderWay
  <2>. QED BY <1>1, <2>4, <2>6, <2>7 DEF WaitIInv
<1>. QED BY <1>2, <1>3 DEF WantFromRegistry

LEMMA DirectHookWaits ==
  ASSUME WaitIInv, NEW h \in DirectHooks,
         \/ \E p \in Protocols \cup {Nothing} : WantDirectly(h, p)
         \/ \E p \in Protocols : Direct(h, p)
  PROVE  WaitIInv'
<1>1. UNCHANGED <<all, loads, lists>> /\ h \in Hooks /\ hooks[h] \in HookRecords
  BY DEF WantDirectly, Direct, AnswerDirect, Hooks, WaitIInv, WaitTypes
<1>2. PICK n \in HookRecords :
        /\ hooks' = [hooks EXCEPT ![h] = n] /\ n.waits = hooks[h].waits
        /\ asked' \in [DirectHooks -> [Protocols -> Nat]]
        /\ \A g \in DirectHooks \ {h} : asked'[g] = asked[g]
        /\ n.loading => \E p \in Protocols : asked'[h][p] > 0
  <2>1. ASSUME NEW p \in Protocols, p # Nothing,
               hooks' = [hooks EXCEPT ![h].id = p, ![h].loading = TRUE],
               asked' = [asked EXCEPT ![h][p] = asked[h][p] + 1]
        PROVE  \E n \in HookRecords :
                 /\ hooks' = [hooks EXCEPT ![h] = n] /\ n.waits = hooks[h].waits
                 /\ asked' \in [DirectHooks -> [Protocols -> Nat]]
                 /\ \A g \in DirectHooks \ {h} : asked'[g] = asked[g]
                 /\ n.loading => \E q \in Protocols : asked'[h][q] > 0
    <3>. DEFINE n == [hooks[h] EXCEPT !.id = p, !.loading = TRUE]
    <3>1. n \in HookRecords /\ n.waits = hooks[h].waits
      BY <1>1 DEF HookRecords
    <3>2. hooks' = [hooks EXCEPT ![h] = n]
      BY <2>1
    <3>3. /\ asked' \in [DirectHooks -> [Protocols -> Nat]]
          /\ \A g \in DirectHooks \ {h} : asked'[g] = asked[g]
          /\ asked'[h][p] > 0
      BY <2>1 DEF WaitIInv, WaitTypes
    <3>. QED BY <3>1, <3>2, <3>3
  <2>2. CASE hooks' = [hooks EXCEPT ![h].id = Nothing, ![h].loading = FALSE] /\ UNCHANGED asked
    <3>. DEFINE n == [hooks[h] EXCEPT !.id = Nothing, !.loading = FALSE]
    <3>1. n \in HookRecords /\ n.waits = hooks[h].waits /\ ~n.loading
      BY <1>1 DEF HookRecords
    <3>2. hooks' = [hooks EXCEPT ![h] = n]
      BY <2>2
    <3>. QED BY <2>2, <3>1, <3>2 DEF WaitIInv, WaitTypes
  <2>3. ASSUME NEW p \in Protocols, NEW ok \in BOOLEAN, AnswerDirect(h, p, ok)
        PROVE  \E n \in HookRecords :
                 /\ hooks' = [hooks EXCEPT ![h] = n] /\ n.waits = hooks[h].waits
                 /\ asked' \in [DirectHooks -> [Protocols -> Nat]]
                 /\ \A g \in DirectHooks \ {h} : asked'[g] = asked[g]
                 /\ n.loading => \E q \in Protocols : asked'[h][q] > 0
    <3>. DEFINE n == Told(hooks[h], p, ok)
    <3>1. n \in HookRecords /\ n.waits = hooks[h].waits /\ ~n.loading
      BY <1>1 DEF HookRecords, Told
    <3>2. /\ hooks' = [hooks EXCEPT ![h] = n] /\ asked[h][p] > 0
          /\ asked' = [asked EXCEPT ![h][p] = asked[h][p] - 1]
      BY <2>3 DEF AnswerDirect
    <3>3. /\ asked' \in [DirectHooks -> [Protocols -> Nat]]
          /\ \A g \in DirectHooks \ {h} : asked'[g] = asked[g]
      BY <3>2 DEF WaitIInv, WaitTypes
    <3>. HIDE DEF n
    <3>. QED BY <3>1, <3>2, <3>3
  <2>. QED BY <2>1, <2>2, <2>3 DEF WantDirectly, Direct
<1>3. hooks'[h] = n /\ \A g \in Hooks \ {h} : hooks'[g] = hooks[g]
  BY <1>1, <1>2 DEF WaitIInv, WaitTypes
<1>4. WaitTypes'
  BY <1>1, <1>2 DEF WaitIInv, WaitTypes
<1>5. \A g \in Hooks : hooks'[g].waits = hooks[g].waits
  BY <1>2, <1>3
<1>6. \A g \in Hooks : hooks'[g].loading =>
        hooks'[g].waits # {} \/ (g \in DirectHooks /\ \E q \in Protocols : asked'[g][q] > 0)
  BY <1>2, <1>3 DEF WaitIInv
<1>. QED BY <1>1, <1>4, <1>5, <1>6 DEF WaitIInv

LEMMA WaitStep == RegistryIInv /\ WaitIInv /\ [RegistryNext]_registryVars => WaitIInv'
<1>. SUFFICES ASSUME RegistryIInv, WaitIInv, [RegistryNext]_registryVars PROVE WaitIInv'
  OBVIOUS
<1>1. CASE \E l \in Loads, r \in {"info", "flows"} : Request(l, r)
  BY <1>1, AnswerLoadWaits DEF Request
<1>2. CASE MountList \/ UnmountList \/ Listing
  BY <1>2, ListWaits DEF Listing
<1>3. CASE \E h \in RegistryHooks, p \in Protocols \cup {Nothing} : WantFromRegistry(h, p)
  BY <1>3, RegistryHookWaits
<1>4. CASE \/ \E h \in DirectHooks, p \in Protocols \cup {Nothing} : WantDirectly(h, p)
           \/ \E h \in DirectHooks, p \in Protocols : Direct(h, p)
  BY <1>4, DirectHookWaits
<1>5. CASE UNCHANGED registryVars
  BY <1>5 DEF registryVars, WaitIInv, WaitTypes
<1>. QED BY <1>1, <1>2, <1>3, <1>4, <1>5 DEF RegistryNext

\* useProtocol, useProtocols: no hook and no list shows "loading" for a request that
\* is over, however it failed, was shared, or came out of order.  What is left to
\* fairness is that the backend or the network answers.
THEOREM NobodyWaitsForNothing == RegistrySpec => []LoadingIsAwaited
<1>1. RegistryInit => RegistryIInv /\ WaitIInv
  BY InitWaits DEF RegistryInit, RegistryIInv, RegistryTypes, LoadRecords, Entries
<1>2. RegistryIInv /\ WaitIInv /\ [RegistryNext]_registryVars => (RegistryIInv /\ WaitIInv)'
  BY RegistryStep, WaitStep
<1>3. WaitIInv => LoadingIsAwaited
  <2>. SUFFICES ASSUME WaitIInv PROVE LoadingIsAwaited
    OBVIOUS
  <2>1. \A h \in Hooks : \A l \in hooks[h].waits : UnderWay(l)
    BY DEF WaitIInv, WaitTypes, HookRecords, UnderWay
  <2>2. \A l \in all.waits : UnderWay(l)
    BY DEF WaitIInv, WaitTypes, UnderWay
  <2>. QED BY <2>1, <2>2 DEF WaitIInv, LoadingIsAwaited
<1>. QED BY <1>1, <1>2, <1>3, PTL DEF RegistrySpec

=============================================================================
