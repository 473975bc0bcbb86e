---------------------------- MODULE MappingSync ----------------------------
(***************************************************************************)
(* The mapping sync of chamicore-power (internal/sync/smd_sync.go and      *)
(* internal/store/postgres_mapping.go): a background loop, also triggered  *)
(* by POST /admin/mappings/sync, reads components and interfaces from SMD  *)
(* in separate calls, derives node -> BMC links and BMC endpoints, and     *)
(* replaces the cached tables in one transaction.  Tags of what was last   *)
(* applied let a cycle end early when nothing changed.                     *)
(*                                                                         *)
(* Only the goroutine of Run executes SyncOnce, so runMu is never waited   *)
(* for.  SMD changes, and operators bind credentials, between any two of   *)
(* its calls.                                                              *)
(***************************************************************************)
EXTENDS Integers, FiniteSets

CONSTANTS
    Nodes, BMCs,        \* component ids, in the order SMD lists them
    NoParent,           \* a node without a parent component
    ComponentLists,     \* contents SMD's component table may have
    InterfaceLists,     \* contents SMD's interface table may have
    PageSize,           \* maxSyncPageSize
    NoAddress,          \* no usable address is known
    Credentials, NoCredential, DefaultCredential,
    SyncOnStartup,      \* syncOnStartup
    Callers, NoCaller,  \* requests to /admin/mappings/sync
    None,               \* an empty tag, or a list that was not sent
    MaxChanges,         \* bound on changes of SMD's content
    MaxFaults,          \* bound on failed calls to SMD and the database
    MaxRestarts,        \* bound on crashes of the service
    MayBindDuringSync,  \* may credentials be bound while a cycle runs?
    MayShutdown         \* may the service be told to stop?

\* The one page a sync asks for: the first PageSize entries.
Page(list) ==
    [k \in {k \in DOMAIN list :
              Cardinality({j \in DOMAIN list : j < k}) < PageSize} |-> list[k]]

\* A component list gives every component's parent, an interface list the
\* usable address of every component that has one.  None is neither a list
\* nor a page of one: the tag of a list is never empty.
ASSUME SyncConstantsAssumption ==
    /\ Nodes \subseteq Nat /\ BMCs \subseteq Nat /\ Nodes \cap BMCs = {}
    /\ NoParent \notin BMCs
    /\ \A c \in ComponentLists :
          /\ DOMAIN c \subseteq Nodes \cup BMCs
          /\ c \in [DOMAIN c -> BMCs \cup {NoParent}]
    /\ \A i \in InterfaceLists :
          /\ DOMAIN i \subseteq Nodes \cup BMCs
          /\ \A b \in DOMAIN i : i[b] # NoAddress
    /\ PageSize \in Nat \ {0}
    /\ DefaultCredential \in Credentials \cup {NoCredential}
    /\ NoCredential \notin Credentials
    /\ NoCaller \notin Callers
    /\ \A l \in ComponentLists \cup InterfaceLists : None \notin {l, Page(l)}
    /\ MaxChanges \in Nat /\ MaxFaults \in Nat /\ MaxRestarts \in Nat
    /\ {SyncOnStartup, MayBindDuringSync, MayShutdown} \subseteq BOOLEAN

VARIABLES
    components, interfaces, changes,  \* SMD
    endpoints, links,                 \* power.bmc_endpoints, power.node_bmc_links
    loop,                             \* where Run is
    stopping,                         \* is Run's context cancelled?
    fast,                             \* does the ticker run at startupRetry?
    serving,                          \* whose result channel the loop answers
    result,                           \* what the cycle returns
    seenComponents, seenInterfaces,   \* what the cycle has read from SMD ...
    existing,                         \* ... and from the endpoint table
    componentETag, interfaceETag,     \* lastComponentETag, lastInterfaceETag
    ready,
    caller,                           \* Trigger calls
    faults, restarts,
    bound,                            \* history: credential bound to a BMC row
    unacked,                          \* history: is the last commit unacknowledged?
    fresh                             \* history: SMD contents since a trigger

smdVars    == <<components, interfaces, changes>>
tableVars  == <<endpoints, links>>
cycleVars  == <<seenComponents, seenInterfaces, existing>>
memoryVars == <<componentETag, interfaceETag, ready>>
loopVars   == <<loop, stopping, fast, serving, result>>
callerVars == <<caller, fresh>>
historyVars == <<bound, unacked>>
syncVars   == <<smdVars, tableVars, cycleVars, memoryVars, loopVars, callerVars,
                faults, restarts, historyVars>>

-----------------------------------------------------------------------------
(* SMD.                                                                    *)

\* Discovery or an operator changes what SMD holds.
SMDChanges(c, i) ==
    /\ changes < MaxChanges
    /\ <<c, i>> # <<components, interfaces>>
    /\ components' = c
    /\ interfaces' = i
    /\ changes' = changes + 1
    /\ fresh' = [k \in Callers |->
                   IF caller[k] \in {"sending", "waiting"}
                   THEN [components |-> fresh[k].components \cup {Page(c)},
                         interfaces |-> fresh[k].interfaces \cup {Page(i)}]
                   ELSE fresh[k]]
    /\ UNCHANGED <<tableVars, cycleVars, memoryVars, loopVars, caller, faults,
                   restarts, historyVars>>

\* An operator sets credential_id of a BMC's row.
BindCredential(b, cred) ==
    /\ b \in DOMAIN endpoints
    /\ endpoints[b].credential # cred
    /\ bound[b] = NoCredential
    /\ MayBindDuringSync \/ loop \in {"start", "select"}
    /\ endpoints' = [endpoints EXCEPT ![b].credential = cred]
    /\ bound' = [bound EXCEPT ![b] = cred]
    /\ UNCHANGED <<smdVars, links, cycleVars, memoryVars, loopVars, callerVars,
                   faults, restarts, unacked>>

-----------------------------------------------------------------------------
(* buildDesiredMappings.                                                   *)

LinkedNodes(c) == {n \in DOMAIN c \cap Nodes : c[n] # NoParent}

\* Faulty variant: a parent counts only if it is listed as a BMC itself.
BMCIdsListed(c) == DOMAIN c \cap BMCs

BMCIds(c) == (DOMAIN c \cap BMCs) \cup {c[n] : n \in LinkedNodes(c)}

DesiredLinks(c) == [n \in LinkedNodes(c) |-> c[n]]

\* The first usable address among a BMC's interfaces; interface lists stand
\* for what is left once unusable addresses are dropped.
EndpointFromIPAddrs(b, i) == IF b \in DOMAIN i THEN i[b] ELSE NoAddress

\* Faulty variant: the address known so far is forgotten.
DesiredEndpointForgets(b, i, old) == EndpointFromIPAddrs(b, i)

\* The address SMD gives, or else the one in the table.
DesiredEndpoint(b, i, old) ==
    IF EndpointFromIPAddrs(b, i) = NoAddress /\ b \in DOMAIN old
    THEN old[b].endpoint ELSE EndpointFromIPAddrs(b, i)

\* Faulty variant: the default always wins.
DesiredCredentialDefault(b, old) == DefaultCredential

\* The credential in the table, or else the default one.
DesiredCredential(b, old) ==
    IF b \in DOMAIN old /\ old[b].credential # NoCredential
    THEN old[b].credential ELSE DefaultCredential

DesiredEndpoints(c, i, old) ==
    [b \in BMCIds(c) |-> [endpoint   |-> DesiredEndpoint(b, i, old),
                          credential |-> DesiredCredential(b, old)]]

\* What StartTransition and GET /power-status resolve a node to.
ResolveNodeMappings(n) ==
    IF /\ n \in DOMAIN links
       /\ endpoints[links[n]].endpoint # NoAddress
       /\ endpoints[links[n]].credential # NoCredential
    THEN links[n] ELSE NoParent

-----------------------------------------------------------------------------
(* SyncOnce.                                                               *)

\* Outcomes of a call: none succeeds with a cancelled context.
Answers == IF stopping THEN {"error"}
           ELSE {"ok"} \cup (IF faults < MaxFaults THEN {"error"} ELSE {})

CountFailure(a) == faults' = IF a # "ok" /\ ~stopping THEN faults + 1 ELSE faults

\* Faulty variant: a failed cycle is tried again on the spot.
ReturnRetries(res) ==
    /\ loop' = IF res = "error" THEN "components"
               ELSE IF serving = NoCaller THEN "select" ELSE "reply"
    /\ result' = res
    /\ seenComponents' = None
    /\ seenInterfaces' = None
    /\ existing' = None

\* The cycle returns: to the select, or to the answer of a trigger.
Return(res) ==
    /\ loop' = IF serving = NoCaller THEN "select" ELSE "reply"
    /\ result' = res
    /\ seenComponents' = None
    /\ seenInterfaces' = None
    /\ existing' = None

\* adjustTickerInterval after a cycle, and the choice Run makes before its
\* loop: both only look at ready.  A trigger is answered first.
AdjustTicker == fast' = IF serving = NoCaller THEN SyncOnStartup /\ ~ready' ELSE fast

Fail ==
    /\ Return("error")
    /\ UNCHANGED <<tableVars, memoryVars, historyVars>>
    /\ AdjustTicker

\* The conditional request: SMD may answer 304 when the tag matches.
ListComponents(a) ==
    /\ loop = "components"
    /\ a \in Answers
    /\ CountFailure(a)
    /\ \/ a = "error" /\ Fail
       \/ /\ a = "ok"
          /\ \/ seenComponents' = Page(components)
             \/ componentETag = Page(components) /\ seenComponents' = None
          /\ loop' = "interfaces"
          /\ UNCHANGED <<tableVars, seenInterfaces, existing, memoryVars, fast, result,
                         historyVars>>
    /\ UNCHANGED <<smdVars, stopping, serving, callerVars, restarts>>

\* Faulty variant: unchanged components are taken for an unchanged topology.
ListInterfacesComponentsOnly(a) ==
    /\ loop = "interfaces"
    /\ a \in Answers
    /\ CountFailure(a)
    /\ \/ a = "error" /\ Fail
       \/ /\ a = "ok" /\ seenComponents = None
          /\ Return("ok")
          /\ UNCHANGED <<tableVars, memoryVars, historyVars>>
          /\ AdjustTicker
       \/ /\ a = "ok" /\ seenComponents # None
          /\ seenInterfaces' = Page(interfaces)
          /\ loop' = "existing"
          /\ UNCHANGED <<tableVars, seenComponents, existing, memoryVars, fast, result,
                         historyVars>>
    /\ UNCHANGED <<smdVars, stopping, serving, callerVars, restarts>>

\* Faulty variant: unchanged components are not fetched again.
ListInterfacesNoRefresh(a) ==
    /\ loop = "interfaces"
    /\ a \in Answers
    /\ CountFailure(a)
    /\ \/ a = "error" /\ Fail
       \/ /\ a = "ok"
          /\ seenInterfaces' = Page(interfaces)
          /\ loop' = "existing"
          /\ UNCHANGED <<tableVars, seenComponents, existing, memoryVars, fast, result,
                         historyVars>>
    /\ UNCHANGED <<smdVars, stopping, serving, callerVars, restarts>>

\* Interfaces are always fetched; when neither list has changed the cycle is
\* over, when only the interfaces have the components are fetched again.
ListInterfaces(a) ==
    /\ loop = "interfaces"
    /\ a \in Answers
    /\ CountFailure(a)
    /\ \/ a = "error" /\ Fail
       \/ /\ a = "ok"
          /\ seenComponents = None /\ Page(interfaces) = interfaceETag
          /\ Return("ok")
          /\ UNCHANGED <<tableVars, memoryVars, historyVars>>
          /\ AdjustTicker
       \/ /\ a = "ok"
          /\ seenComponents # None \/ Page(interfaces) # interfaceETag
          /\ seenInterfaces' = Page(interfaces)
          /\ loop' = IF seenComponents = None THEN "refresh" ELSE "existing"
          /\ UNCHANGED <<tableVars, seenComponents, existing, memoryVars, fast, result,
                         historyVars>>
    /\ UNCHANGED <<smdVars, stopping, serving, callerVars, restarts>>

RefreshComponents(a) ==
    /\ loop = "refresh"
    /\ a \in Answers
    /\ CountFailure(a)
    /\ \/ a = "error" /\ Fail
       \/ /\ a = "ok"
          /\ seenComponents' = Page(components)
          /\ loop' = "existing"
          /\ UNCHANGED <<tableVars, seenInterfaces, existing, memoryVars, fast, result,
                         historyVars>>
    /\ UNCHANGED <<smdVars, stopping, serving, callerVars, restarts>>

\* The endpoint table is read outside the transaction that replaces it.
ListBMCEndpoints(a) ==
    /\ loop = "existing"
    /\ a \in Answers
    /\ CountFailure(a)
    /\ \/ a = "error" /\ Fail
       \/ /\ a = "ok"
          /\ existing' = endpoints
          /\ loop' = "replace"
          /\ UNCHANGED <<tableVars, seenComponents, seenInterfaces, memoryVars, fast,
                         result, historyVars>>
    /\ UNCHANGED <<smdVars, stopping, serving, callerVars, restarts>>

\* The transaction: upsert what is desired, delete the rest.  A bound
\* credential is forgotten with its row.
Replace ==
    /\ endpoints' = DesiredEndpoints(seenComponents, seenInterfaces, existing)
    /\ links' = DesiredLinks(seenComponents)
    /\ bound' = [b \in BMCs |-> IF b \in BMCIds(seenComponents)
                                THEN bound[b] ELSE NoCredential]

\* Faulty variant: the tags are stored whatever becomes of the transaction.
ReplaceTopologyMappingsTagsFirst(a) ==
    /\ loop = "replace"
    /\ a \in Answers
    /\ CountFailure(a)
    /\ \/ a = "error" /\ UNCHANGED <<tableVars, historyVars>>
       \/ a = "ok" /\ Replace /\ unacked' = FALSE
    /\ Return(a)
    /\ componentETag' = seenComponents
    /\ interfaceETag' = seenInterfaces
    /\ ready' = (ready \/ a = "ok")
    /\ AdjustTicker
    /\ UNCHANGED <<smdVars, stopping, serving, callerVars, restarts>>

\* The tags and the ready flag follow the acknowledged commit.  A commit
\* whose acknowledgement is lost counts as a failure.
ReplaceTopologyMappings(a) ==
    /\ loop = "replace"
    /\ a \in Answers
    /\ CountFailure(a)
    /\ \/ a = "error" /\ Fail
       \/ /\ a = "error" /\ ~stopping
          /\ Replace
          /\ unacked' = TRUE
          /\ Return("error")
          /\ UNCHANGED memoryVars
          /\ AdjustTicker
       \/ /\ a = "ok"
          /\ Replace
          /\ unacked' = FALSE
          /\ Return("ok")
          /\ componentETag' = seenComponents
          /\ interfaceETag' = seenInterfaces
          /\ ready' = TRUE
          /\ AdjustTicker
    /\ UNCHANGED <<smdVars, stopping, serving, callerVars, restarts>>

-----------------------------------------------------------------------------
(* Run and Trigger.                                                        *)

\* Run's first cycle, if it is configured to have one.
Start ==
    /\ loop = "start"
    /\ loop' = IF SyncOnStartup THEN "components" ELSE "select"
    /\ UNCHANGED <<smdVars, tableVars, cycleVars, memoryVars, stopping, fast, serving,
                   result, callerVars, faults, restarts, historyVars>>

Tick ==
    /\ loop = "select"
    /\ loop' = "components"
    /\ UNCHANGED <<smdVars, tableVars, cycleVars, memoryVars, stopping, fast, serving,
                   result, callerVars, faults, restarts, historyVars>>

\* The unbuffered send of a trigger meets the select.
AcceptTrigger(k) ==
    /\ loop = "select"
    /\ caller[k] = "sending"
    /\ loop' = "components"
    /\ serving' = k
    /\ caller' = [caller EXCEPT ![k] = "waiting"]
    /\ UNCHANGED <<smdVars, tableVars, cycleVars, memoryVars, stopping, fast, result,
                   fresh, faults, restarts, historyVars>>

\* Faulty variant: without its buffer the result channel needs a receiver.
ReplyUnbuffered ==
    /\ loop = "reply"
    /\ caller[serving] = "waiting"
    /\ caller' = [caller EXCEPT ![serving] = result]
    /\ loop' = "select"
    /\ serving' = NoCaller
    /\ fast' = (SyncOnStartup /\ ~ready)
    /\ UNCHANGED <<smdVars, tableVars, cycleVars, memoryVars, stopping, result,
                   fresh, faults, restarts, historyVars>>

\* The result goes into the channel's buffer, whether or not the caller is
\* still there to take it.
Reply ==
    /\ loop = "reply"
    /\ caller' = [caller EXCEPT ![serving] = IF @ = "waiting" THEN result ELSE @]
    /\ loop' = "select"
    /\ serving' = NoCaller
    /\ fast' = (SyncOnStartup /\ ~ready)
    /\ UNCHANGED <<smdVars, tableVars, cycleVars, memoryVars, stopping, result,
                   fresh, faults, restarts, historyVars>>

LoopExit ==
    /\ loop = "select"
    /\ stopping
    /\ loop' = "stopped"
    /\ UNCHANGED <<smdVars, tableVars, cycleVars, memoryVars, stopping, fast, serving,
                   result, callerVars, faults, restarts, historyVars>>

\* handleAdminSyncMappings calls Trigger with a deadline of 60 seconds ...
Trigger(k) ==
    /\ caller[k] = "idle"
    /\ caller' = [caller EXCEPT ![k] = "sending"]
    /\ fresh' = [fresh EXCEPT ![k] = [components |-> {Page(components)},
                                      interfaces |-> {Page(interfaces)}]]
    /\ UNCHANGED <<smdVars, tableVars, cycleVars, memoryVars, loopVars, faults,
                   restarts, historyVars>>

\* ... which ends it before or after the loop has accepted it.
TriggerTimeout(k) ==
    /\ caller[k] \in {"sending", "waiting"}
    /\ caller' = [caller EXCEPT ![k] = "timeout"]
    /\ UNCHANGED <<smdVars, tableVars, cycleVars, memoryVars, loopVars, fresh, faults,
                   restarts, historyVars>>

Shutdown ==
    /\ MayShutdown
    /\ ~stopping
    /\ stopping' = TRUE
    /\ UNCHANGED <<smdVars, tableVars, cycleVars, memoryVars, loop, fast, serving,
                   result, callerVars, faults, restarts, historyVars>>

\* The process dies and starts again: only the tables survive.
Restart ==
    /\ restarts < MaxRestarts
    /\ restarts' = restarts + 1
    /\ loop' = "start"
    /\ stopping' = FALSE
    /\ fast' = SyncOnStartup
    /\ serving' = NoCaller
    /\ result' = "error"
    /\ seenComponents' = None /\ seenInterfaces' = None /\ existing' = None
    /\ componentETag' = None /\ interfaceETag' = None
    /\ ready' = FALSE
    /\ caller' = [k \in Callers |-> IF caller[k] \in {"sending", "waiting"}
                                    THEN "error" ELSE caller[k]]
    /\ unacked' = FALSE
    /\ UNCHANGED <<smdVars, tableVars, fresh, faults, bound>>

-----------------------------------------------------------------------------
(* The specification.  The service starts on empty tables.                 *)

SyncInit ==
    /\ components \in ComponentLists
    /\ interfaces \in InterfaceLists
    /\ changes = 0
    /\ endpoints = [b \in {} |-> None]
    /\ links = [n \in {} |-> None]
    /\ loop = "start"
    /\ stopping = FALSE
    /\ fast = SyncOnStartup
    /\ serving = NoCaller
    /\ result = "error"
    /\ seenComponents = None /\ seenInterfaces = None /\ existing = None
    /\ componentETag = None /\ interfaceETag = None
    /\ ready = FALSE
    /\ caller = [k \in Callers |-> "idle"]
    /\ faults = 0
    /\ restarts = 0
    /\ bound = [b \in BMCs |-> NoCredential]
    /\ unacked = FALSE
    /\ fresh = [k \in Callers |-> [components |-> {}, interfaces |-> {}]]

SyncResults == {"ok", "error"}

LoopStep ==
    \/ Start
    \/ Tick
    \/ \E k \in Callers : AcceptTrigger(k)
    \/ \E a \in SyncResults : ListComponents(a)
    \/ \E a \in SyncResults : ListInterfaces(a)
    \/ \E a \in SyncResults : RefreshComponents(a)
    \/ \E a \in SyncResults : ListBMCEndpoints(a)
    \/ \E a \in SyncResults : ReplaceTopologyMappings(a)
    \/ Reply
    \/ LoopExit

SyncNext ==
    \/ LoopStep
    \/ \E c \in ComponentLists, i \in InterfaceLists : SMDChanges(c, i)
    \/ \E b \in BMCs, cred \in Credentials : BindCredential(b, cred)
    \/ \E k \in Callers : Trigger(k)
    \/ \E k \in Callers : TriggerTimeout(k)
    \/ Shutdown
    \/ Restart

SyncSpec == SyncInit /\ [][SyncNext]_syncVars

\* The ticker keeps ticking, calls end, and a context that is done is
\* noticed by a select that is reached again and again.
FairSyncSpec ==
    /\ SyncSpec
    /\ WF_syncVars(LoopStep)
    /\ SF_syncVars(LoopExit)

-----------------------------------------------------------------------------
(* Properties.                                                             *)

Rows == [endpoint : {NoAddress} \cup UNION {{i[b] : b \in DOMAIN i} : i \in InterfaceLists},
         credential : Credentials \cup {NoCredential}]

\* Every variable holds values of its kind.
SyncTypeOK ==
    /\ DOMAIN endpoints \subseteq BMCs /\ \A b \in DOMAIN endpoints : endpoints[b] \in Rows
    /\ DOMAIN links \subseteq Nodes /\ \A n \in DOMAIN links : links[n] \in BMCs
    /\ loop \in {"start", "select", "components", "interfaces", "refresh", "existing",
                 "replace", "reply", "stopped"}
    /\ serving \in Callers \cup {NoCaller}
    /\ \A k \in Callers : caller[k] \in {"idle", "sending", "waiting", "ok", "error",
                                         "timeout"}
    /\ loop \in {"existing", "replace"} => seenComponents # None /\ seenInterfaces # None
    /\ loop = "reply" => serving # NoCaller
    /\ changes \in 0 .. MaxChanges
    /\ faults \in 0 .. MaxFaults
    /\ restarts \in 0 .. MaxRestarts

\* The tables are what the two lists describe: exactly their links, exactly
\* the BMCs they name, at the addresses they give.
TablesReflect(c, i) ==
    /\ links = DesiredLinks(c)
    /\ DOMAIN endpoints = BMCIds(c)
    /\ \A b \in DOMAIN endpoints \cap DOMAIN i : endpoints[b].endpoint = i[b]

\* The foreign key of node_bmc_links holds, so the transaction can commit:
\* every link leads to an endpoint row, whatever SMD lists.
LinksHaveEndpoints == \A n \in DOMAIN links : links[n] \in DOMAIN endpoints

\* The tags never lie: when they are set the tables hold what they stand
\* for, after failed cycles, changes of SMD in the middle of a cycle and
\* restarts, so a cycle that ends early because of them may.  (Not so after a
\* commit whose acknowledgement was lost, until the next replacement.)  The
\* service is ready exactly when they are set, and polls fast until then.
TagsDescribeTables ==
    /\ componentETag # None /\ ~unacked => TablesReflect(componentETag, interfaceETag)
    /\ ready <=> componentETag # None /\ interfaceETag # None
    /\ SyncOnStartup /\ loop = "select" => fast = ~ready

\* POST /admin/mappings/sync answers success only when the tables reflect
\* component and interface lists that SMD had after the request came, unless
\* an unacknowledged commit has put something else into them.
ForcedSyncIsFresh ==
    [][\A k \in Callers :
          caller[k] = "waiting" /\ caller'[k] = "ok" /\ ~unacked =>
              \E c \in fresh[k].components, i \in fresh[k].interfaces :
                  TablesReflect(c, i)]_syncVars

\* A node that can be power-controlled stays so while SMD keeps its parent:
\* a sync never unmaps it because an interface record or a credential is
\* missing from what SMD sends.
MappedNodesStayMapped ==
    [][\A n \in Nodes :
          /\ ResolveNodeMappings(n) # NoParent
          /\ tableVars' # tableVars
          /\ loop = "replace" => n \in DOMAIN seenComponents
                                 /\ seenComponents[n] = links[n]
          => ResolveNodeMappings(n)' = ResolveNodeMappings(n)]_syncVars

\* A credential that was bound to a BMC stays bound as long as the BMC's row
\* exists.
BoundCredentialKept ==
    \A b \in DOMAIN endpoints :
        bound[b] # NoCredential => endpoints[b].credential = bound[b]

\* Once SMD stops changing and calls stop failing, the tables come to
\* reflect its lists and stay so, unless the service stops or an
\* unacknowledged commit is the last: no timed out trigger, failed cycle or
\* crash wedges the loop.
TablesConverge ==
    <>[](TablesReflect(Page(components), Page(interfaces)) \/ stopping \/ unacked)

\* Run returns once its context is done.
LoopStops == stopping ~> (loop = "stopped" \/ ~stopping)

-----------------------------------------------------------------------------
(* A statement of the repository that the sync does not live up to.        *)

\* ADR-017: the cache is "synchronized from SMD" by polling with ETags.  So
\* whatever happened before, the tables should come to reflect SMD's lists.
CacheFollowsSMD ==
    <>[](TablesReflect(Page(components), Page(interfaces)) \/ stopping)

=============================================================================
