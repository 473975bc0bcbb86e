------------------------- MODULE MappingSyncProofs -------------------------
(***************************************************************************)
(* Proofs about MappingSync: type correctness, that the tags never lie     *)
(* about the tables, that a forced sync that reports success is fresh, and *)
(* that a sync neither breaks the foreign key nor unmaps a node nor drops  *)
(* a credential bound between cycles.                                      *)
(***************************************************************************)
EXTENDS MappingSync, TLAPS

ComponentPages == {Page(c) : c \in ComponentLists}

InterfacePages == {Page(i) : i \in InterfaceLists}

CallerStates == {"idle", "sending", "waiting", "ok", "error", "timeout"}

\* The types SyncTypeOK leaves out.
SyncShape ==
    /\ SyncTypeOK
    /\ components \in ComponentLists
    /\ interfaces \in InterfaceLists
    /\ seenComponents \in ComponentPages \cup {None}
    /\ seenInterfaces \in InterfacePages \cup {None}
    /\ result \in SyncResults
    /\ caller \in [Callers -> CallerStates]
    /\ fresh \in [Callers -> [components : SUBSET ComponentPages,
                              interfaces : SUBSET InterfacePages]]

\* What a cycle has read when it gets to a stage.  The copy of the endpoint
\* table is still the table, but for credentials bound in the meantime.
CycleStages ==
    /\ loop \notin {"interfaces", "refresh", "existing", "replace"} => seenComponents = None
    /\ loop \notin {"refresh", "existing", "replace"} => seenInterfaces = None
    /\ loop = "refresh" => seenInterfaces # None
    /\ loop = "interfaces" /\ seenComponents = None => componentETag # None
    /\ serving # NoCaller => loop \notin {"start", "select", "stopped"}
    /\ loop = "replace" =>
          /\ DOMAIN existing = DOMAIN endpoints
          /\ \A b \in DOMAIN endpoints :
                /\ existing[b].endpoint = endpoints[b].endpoint
                /\ existing[b].credential \in Credentials \cup {NoCredential}
          /\ ~MayBindDuringSync => existing = endpoints

\* What the cycle holds for its caller was SMD's content after the request.
HeldIsFresh ==
    /\ \A k \in Callers : caller[k] \in {"sending", "waiting"} =>
          /\ Page(components) \in fresh[k].components
          /\ Page(interfaces) \in fresh[k].interfaces
    /\ \A k \in Callers : caller[k] = "waiting" =>
          /\ serving = k
          /\ seenComponents # None => seenComponents \in fresh[k].components
          /\ seenInterfaces # None => seenInterfaces \in fresh[k].interfaces
          /\ loop = "interfaces" /\ seenComponents = None =>
                componentETag \in fresh[k].components
          /\ loop = "reply" /\ result = "ok" /\ ~unacked =>
                \E c \in fresh[k].components, i \in fresh[k].interfaces :
                    TablesReflect(c, i)

\* A credential is bound only to a BMC that has a row, and it is the row's
\* unless it was bound while a cycle ran.
BoundRows ==
    /\ bound \in [BMCs -> Credentials \cup {NoCredential}]
    /\ \A b \in BMCs : bound[b] # NoCredential => b \in DOMAIN endpoints
    /\ ~MayBindDuringSync => BoundCredentialKept

\* The inductive invariant.
SyncInv ==
    /\ SyncShape
    /\ CycleStages
    /\ TagsDescribeTables
    /\ LinksHaveEndpoints
    /\ HeldIsFresh
    /\ BoundRows

-----------------------------------------------------------------------------
(* Pages and tables.                                                       *)

LEMMA ComponentPage ==
    ASSUME NEW p \in ComponentPages
    PROVE  /\ p # None /\ DOMAIN p \subseteq Nodes \cup BMCs
           /\ \A x \in DOMAIN p : p[x] \in BMCs \cup {NoParent}
<1> PICK c \in ComponentLists : p = Page(c)
  BY DEF ComponentPages
<1>1. c \in [DOMAIN c -> BMCs \cup {NoParent}] /\ DOMAIN c \subseteq Nodes \cup BMCs
      /\ None # Page(c)
  BY SyncConstantsAssumption
<1>2. DOMAIN p \subseteq DOMAIN c /\ \A x \in DOMAIN p : p[x] = c[x]
  BY DEF Page
<1> QED
  BY <1>1, <1>2

Addresses == UNION {{i[b] : b \in DOMAIN i} : i \in InterfaceLists}

LEMMA InterfacePage ==
    ASSUME NEW p \in InterfacePages
    PROVE  p # None /\ \A x \in DOMAIN p : p[x] # NoAddress /\ p[x] \in Addresses
<1> PICK i \in InterfaceLists : p = Page(i)
  BY DEF InterfacePages
<1>1. None # Page(i) /\ \A b \in DOMAIN i : i[b] # NoAddress
  BY SyncConstantsAssumption
<1>2. DOMAIN p \subseteq DOMAIN i /\ \A x \in DOMAIN p : p[x] = i[x]
  BY DEF Page
<1> QED
  BY <1>1, <1>2 DEF Addresses

LEMMA CurrentPages ==
    ASSUME SyncInv
    PROVE  Page(components) \in ComponentPages /\ Page(interfaces) \in InterfacePages
BY DEF SyncInv, SyncShape, ComponentPages, InterfacePages

\* The BMCs and links a page of components asks for: every link leads to a
\* BMC that gets a row.
LEMMA DesiredShape ==
    ASSUME NEW c \in ComponentPages
    PROVE  /\ BMCIds(c) \subseteq BMCs
           /\ DOMAIN DesiredLinks(c) \subseteq Nodes
           /\ \A n \in DOMAIN DesiredLinks(c) :
                 DesiredLinks(c)[n] = c[n] /\ c[n] \in BMCIds(c)
BY ComponentPage DEF BMCIds, DesiredLinks, LinkedNodes

\* One row of what a sync writes: the address SMD gives if it gives one, no
\* address lost, no credential lost.
LEMMA DesiredRow ==
    ASSUME NEW i \in InterfacePages, NEW old, NEW b,
           b \in DOMAIN old => /\ old[b].endpoint \in Addresses \cup {NoAddress}
                               /\ old[b].credential \in Credentials \cup {NoCredential}
    PROVE  /\ DesiredEndpoint(b, i, old) \in Addresses \cup {NoAddress}
           /\ DesiredCredential(b, old) \in Credentials \cup {NoCredential}
           /\ b \in DOMAIN i => DesiredEndpoint(b, i, old) = i[b]
           /\ b \in DOMAIN old /\ old[b].endpoint # NoAddress =>
                 DesiredEndpoint(b, i, old) # NoAddress
           /\ b \in DOMAIN old /\ old[b].credential # NoCredential =>
                 DesiredCredential(b, old) = old[b].credential
<1>1. b \in DOMAIN i => i[b] # NoAddress /\ i[b] \in Addresses
  BY InterfacePage
<1>2. DefaultCredential \in Credentials \cup {NoCredential}
  BY SyncConstantsAssumption
<1> QED
  BY <1>1, <1>2 DEF DesiredEndpoint, DesiredCredential, EndpointFromIPAddrs

LEMMA RowsAre == Rows = [endpoint : Addresses \cup {NoAddress},
                         credential : Credentials \cup {NoCredential}]
BY DEF Rows, Addresses

\* What the table holds when a cycle has read it.
LEMMA ExistingRow ==
    ASSUME SyncInv, loop = "replace", NEW b, b \in DOMAIN existing
    PROVE  /\ b \in DOMAIN endpoints
           /\ existing[b].endpoint = endpoints[b].endpoint
           /\ existing[b].endpoint \in Addresses \cup {NoAddress}
           /\ existing[b].credential \in Credentials \cup {NoCredential}
<1>1. b \in DOMAIN endpoints /\ existing[b].endpoint = endpoints[b].endpoint
      /\ existing[b].credential \in Credentials \cup {NoCredential}
  BY DEF SyncInv, CycleStages
<1>2. endpoints[b] \in [endpoint : Addresses \cup {NoAddress},
                        credential : Credentials \cup {NoCredential}]
  BY <1>1, RowsAre DEF SyncInv, SyncShape, SyncTypeOK
<1> QED
  BY <1>1, <1>2

\* The effect of the transaction on the tables.
LEMMA ReplaceTables ==
    ASSUME SyncInv, loop = "replace", Replace,
           NEW c, c = seenComponents, NEW i, i = seenInterfaces
    PROVE  /\ DOMAIN endpoints' \subseteq BMCs
           /\ \A b \in DOMAIN endpoints' : endpoints'[b] \in Rows
           /\ DOMAIN links' \subseteq Nodes /\ \A n \in DOMAIN links' : links'[n] \in BMCs
           /\ LinksHaveEndpoints'
           /\ TablesReflect(c, i)'
           /\ BoundRows'
<1>a. c \in ComponentPages /\ i \in InterfacePages
  BY DEF SyncInv, SyncShape, SyncTypeOK
<1>b. /\ BMCIds(c) \subseteq BMCs
      /\ DOMAIN DesiredLinks(c) \subseteq Nodes
      /\ \A n \in DOMAIN DesiredLinks(c) :
            DesiredLinks(c)[n] = c[n] /\ c[n] \in BMCIds(c)
  BY <1>a, DesiredShape
<1>c. /\ endpoints' = [b \in BMCIds(c) |-> [endpoint   |-> DesiredEndpoint(b, i, existing),
                                            credential |-> DesiredCredential(b, existing)]]
      /\ links' = DesiredLinks(c)
      /\ bound' = [b \in BMCs |-> IF b \in BMCIds(c) THEN bound[b] ELSE NoCredential]
  BY DEF Replace, DesiredEndpoints
<1>d. ASSUME NEW b \in BMCIds(c)
      PROVE  /\ DesiredEndpoint(b, i, existing) \in Addresses \cup {NoAddress}
             /\ DesiredCredential(b, existing) \in Credentials \cup {NoCredential}
             /\ b \in DOMAIN i => DesiredEndpoint(b, i, existing) = i[b]
             /\ b \in DOMAIN existing /\ existing[b].credential # NoCredential =>
                   DesiredCredential(b, existing) = existing[b].credential
  BY <1>a, <1>d, ExistingRow, DesiredRow
<1>1. DOMAIN endpoints' = BMCIds(c)
  BY <1>c
<1>2. ASSUME NEW b \in BMCIds(c) PROVE endpoints'[b] \in Rows
  BY <1>2, <1>c, <1>d, RowsAre
<1>3. DOMAIN links' \subseteq Nodes /\ \A n \in DOMAIN links' : links'[n] \in BMCs
  BY <1>b, <1>c
<1>4. LinksHaveEndpoints'
  BY <1>b, <1>c, <1>1 DEF LinksHaveEndpoints
<1>5. \A b \in DOMAIN endpoints' \cap DOMAIN i : endpoints'[b].endpoint = i[b]
  BY <1>c, <1>d, <1>1
<1>7. bound' \in [BMCs -> Credentials \cup {NoCredential}]
      /\ \A b \in BMCs : bound'[b] # NoCredential => b \in DOMAIN endpoints'
  BY <1>b, <1>c, <1>1 DEF SyncInv, BoundRows
<1>8. ASSUME ~MayBindDuringSync, NEW b \in BMCIds(c), bound'[b] # NoCredential
      PROVE  endpoints'[b].credential = bound'[b]
  <2>1. bound'[b] = bound[b] /\ b \in BMCs
    BY <1>8, <1>b, <1>c
  <2>2. b \in DOMAIN endpoints /\ existing = endpoints /\ BoundCredentialKept
    BY <1>8, <2>1 DEF SyncInv, BoundRows, CycleStages
  <2>3. existing[b].credential = bound[b]
    BY <1>8, <2>1, <2>2 DEF BoundCredentialKept
  <2>4. DesiredCredential(b, existing) = bound[b]
    BY <1>8, <1>d, <2>1, <2>2, <2>3
  <2> QED
    BY <1>8, <1>c, <2>1, <2>4
<1>9. BoundRows'
  BY <1>1, <1>7, <1>8 DEF BoundRows, BoundCredentialKept
<1>10. TablesReflect(c, i)'
  BY <1>c, <1>1, <1>5 DEF TablesReflect
<1> QED
  BY <1>b, <1>1, <1>2, <1>3, <1>4, <1>9, <1>10

-----------------------------------------------------------------------------
(* Every step preserves the invariant.                                     *)

USE DEF smdVars, tableVars, cycleVars, memoryVars, loopVars, callerVars, historyVars

LEMMA StartInv ==
    ASSUME SyncInv, Start
    PROVE  SyncInv'
<1>1. SyncShape'
  BY DEF SyncInv, Start, SyncShape, SyncTypeOK, CallerStates, SyncResults
<1>2. CycleStages'
  BY DEF SyncInv, Start, SyncShape, SyncTypeOK, CycleStages
<1>3. TagsDescribeTables' /\ LinksHaveEndpoints' /\ BoundRows'
  BY DEF SyncInv, Start, SyncShape, SyncTypeOK, TagsDescribeTables, TablesReflect,
         LinksHaveEndpoints, BoundRows, BoundCredentialKept
<1>4. HeldIsFresh'
  BY DEF SyncInv, Start, SyncShape, SyncTypeOK, CycleStages, HeldIsFresh, TablesReflect
<1> QED
  BY <1>1, <1>2, <1>3, <1>4 DEF SyncInv

LEMMA TickInv ==
    ASSUME SyncInv, Tick
    PROVE  SyncInv'
<1>1. SyncShape'
  BY DEF SyncInv, Tick, SyncShape, SyncTypeOK, CallerStates, SyncResults
<1>2. CycleStages'
  BY DEF SyncInv, Tick, SyncShape, SyncTypeOK, CycleStages
<1>3. TagsDescribeTables' /\ LinksHaveEndpoints' /\ BoundRows'
  BY DEF SyncInv, Tick, SyncShape, SyncTypeOK, TagsDescribeTables, TablesReflect,
         LinksHaveEndpoints, BoundRows, BoundCredentialKept
<1>4. HeldIsFresh'
  BY DEF SyncInv, Tick, SyncShape, SyncTypeOK, CycleStages, HeldIsFresh, TablesReflect
<1> QED
  BY <1>1, <1>2, <1>3, <1>4 DEF SyncInv

LEMMA AcceptTriggerInv ==
    ASSUME SyncInv, NEW k \in Callers, AcceptTrigger(k)
    PROVE  SyncInv'
<1>1. SyncShape'
  BY DEF SyncInv, AcceptTrigger, SyncShape, SyncTypeOK, CallerStates, SyncResults
<1>2. CycleStages'
  BY DEF SyncInv, AcceptTrigger, SyncShape, SyncTypeOK, CycleStages
<1>3. TagsDescribeTables' /\ LinksHaveEndpoints' /\ BoundRows'
  BY DEF SyncInv, AcceptTrigger, SyncShape, SyncTypeOK, TagsDescribeTables, TablesReflect,
         LinksHaveEndpoints, BoundRows, BoundCredentialKept
<1>4. HeldIsFresh'
  <2>1. serving = NoCaller /\ \A j \in Callers : caller[j] # "waiting"
    BY SyncConstantsAssumption DEF SyncInv, AcceptTrigger, CycleStages, HeldIsFresh
  <2>2. /\ caller' = [caller EXCEPT ![k] = "waiting"] /\ caller[k] = "sending"
        /\ serving' = k /\ loop' = "components"
        /\ UNCHANGED <<smdVars, seenComponents, seenInterfaces, fresh>>
    BY DEF AcceptTrigger
  <2>3. seenComponents = None /\ seenInterfaces = None
    BY DEF SyncInv, AcceptTrigger, CycleStages
  <2> QED
    BY <2>1, <2>2, <2>3 DEF SyncInv, SyncShape, HeldIsFresh
<1> QED
  BY <1>1, <1>2, <1>3, <1>4 DEF SyncInv

LEMMA ReplyInv ==
    ASSUME SyncInv, Reply
    PROVE  SyncInv'
<1>1. SyncShape'
  BY DEF SyncInv, Reply, SyncShape, SyncTypeOK, CallerStates, SyncResults
<1>2. CycleStages'
  BY DEF SyncInv, Reply, SyncShape, SyncTypeOK, CycleStages
<1>3. TagsDescribeTables' /\ LinksHaveEndpoints' /\ BoundRows'
  BY DEF SyncInv, Reply, SyncShape, SyncTypeOK, TagsDescribeTables, TablesReflect,
         LinksHaveEndpoints, BoundRows, BoundCredentialKept
<1>4. HeldIsFresh'
  <2>1. /\ caller' = [caller EXCEPT ![serving] = IF @ = "waiting" THEN result ELSE @]
        /\ UNCHANGED <<smdVars, fresh>>
    BY DEF Reply
  <2>2. result \in {"ok", "error"} /\ caller \in [Callers -> CallerStates]
    BY DEF SyncInv, SyncShape, SyncResults
  <2>3. \A j \in Callers : caller'[j] # "waiting"
    BY <2>1, <2>2 DEF SyncInv, HeldIsFresh
  <2>4. \A j \in Callers : caller'[j] = "sending" => caller[j] = "sending"
    BY <2>1, <2>2
  <2> QED
    BY <2>1, <2>3, <2>4 DEF SyncInv, HeldIsFresh
<1> QED
  BY <1>1, <1>2, <1>3, <1>4 DEF SyncInv

LEMMA LoopExitInv ==
    ASSUME SyncInv, LoopExit
    PROVE  SyncInv'
<1>1. SyncShape'
  BY DEF SyncInv, LoopExit, SyncShape, SyncTypeOK, CallerStates, SyncResults
<1>2. CycleStages'
  BY DEF SyncInv, LoopExit, SyncShape, SyncTypeOK, CycleStages
<1>3. TagsDescribeTables' /\ LinksHaveEndpoints' /\ BoundRows'
  BY DEF SyncInv, LoopExit, SyncShape, SyncTypeOK, TagsDescribeTables, TablesReflect,
         LinksHaveEndpoints, BoundRows, BoundCredentialKept
<1>4. HeldIsFresh'
  BY DEF SyncInv, LoopExit, SyncShape, SyncTypeOK, CycleStages, HeldIsFresh, TablesReflect
<1> QED
  BY <1>1, <1>2, <1>3, <1>4 DEF SyncInv

LEMMA TriggerInv ==
    ASSUME SyncInv, NEW k \in Callers, Trigger(k)
    PROVE  SyncInv'
<1>1. SyncShape'
  <2>1. fresh' \in [Callers -> [components : SUBSET ComponentPages,
                                interfaces : SUBSET InterfacePages]]
    BY CurrentPages DEF SyncInv, Trigger, SyncShape
  <2>2. SyncTypeOK'
    BY DEF SyncInv, Trigger, SyncShape, SyncTypeOK, CallerStates
  <2>3. caller' \in [Callers -> CallerStates]
    BY DEF SyncInv, Trigger, SyncShape, CallerStates
  <2> QED
    BY <2>1, <2>2, <2>3 DEF SyncInv, Trigger, SyncShape
<1>2. CycleStages'
  BY DEF SyncInv, Trigger, SyncShape, SyncTypeOK, CycleStages
<1>3. TagsDescribeTables' /\ LinksHaveEndpoints' /\ BoundRows'
  BY DEF SyncInv, Trigger, SyncShape, SyncTypeOK, TagsDescribeTables, TablesReflect,
         LinksHaveEndpoints, BoundRows, BoundCredentialKept
<1>4. HeldIsFresh'
  BY DEF SyncInv, Trigger, SyncShape, SyncTypeOK, CycleStages, HeldIsFresh, TablesReflect
<1> QED
  BY <1>1, <1>2, <1>3, <1>4 DEF SyncInv

LEMMA TriggerTimeoutInv ==
    ASSUME SyncInv, NEW k \in Callers, TriggerTimeout(k)
    PROVE  SyncInv'
<1>1. SyncShape'
  BY DEF SyncInv, TriggerTimeout, SyncShape, SyncTypeOK, CallerStates, SyncResults
<1>2. CycleStages'
  BY DEF SyncInv, TriggerTimeout, SyncShape, SyncTypeOK, CycleStages
<1>3. TagsDescribeTables' /\ LinksHaveEndpoints' /\ BoundRows'
  BY DEF SyncInv, TriggerTimeout, SyncShape, SyncTypeOK, TagsDescribeTables, TablesReflect,
         LinksHaveEndpoints, BoundRows, BoundCredentialKept
<1>4. HeldIsFresh'
  BY DEF SyncInv, TriggerTimeout, SyncShape, SyncTypeOK, CycleStages, HeldIsFresh, TablesReflect
<1> QED
  BY <1>1, <1>2, <1>3, <1>4 DEF SyncInv

LEMMA ShutdownInv ==
    ASSUME SyncInv, Shutdown
    PROVE  SyncInv'
<1>1. SyncShape'
  BY DEF SyncInv, Shutdown, SyncShape, SyncTypeOK, CallerStates, SyncResults
<1>2. CycleStages'
  BY DEF SyncInv, Shutdown, SyncShape, SyncTypeOK, CycleStages
<1>3. TagsDescribeTables' /\ LinksHaveEndpoints' /\ BoundRows'
  BY DEF SyncInv, Shutdown, SyncShape, SyncTypeOK, TagsDescribeTables, TablesReflect,
         LinksHaveEndpoints, BoundRows, BoundCredentialKept
<1>4. HeldIsFresh'
  BY DEF SyncInv, Shutdown, SyncShape, SyncTypeOK, CycleStages, HeldIsFresh, TablesReflect
<1> QED
  BY <1>1, <1>2, <1>3, <1>4 DEF SyncInv

LEMMA RestartInv ==
    ASSUME SyncInv, Restart
    PROVE  SyncInv'
<1>1. SyncShape'
  <2>1. caller' \in [Callers -> CallerStates]
    BY DEF SyncInv, Restart, SyncShape, CallerStates
  <2>2. restarts' \in 0 .. MaxRestarts
    BY SyncConstantsAssumption DEF SyncInv, Restart, SyncShape, SyncTypeOK
  <2>3. SyncTypeOK'
    BY <2>1, <2>2 DEF SyncInv, Restart, SyncShape, SyncTypeOK, CallerStates
  <2> QED
    BY <2>1, <2>3 DEF SyncInv, Restart, SyncShape, SyncResults
<1>2. CycleStages'
  BY DEF SyncInv, Restart, SyncShape, SyncTypeOK, CycleStages
<1>3. TagsDescribeTables' /\ LinksHaveEndpoints' /\ BoundRows'
  BY DEF SyncInv, Restart, SyncShape, SyncTypeOK, TagsDescribeTables, TablesReflect,
         LinksHaveEndpoints, BoundRows, BoundCredentialKept
<1>4. HeldIsFresh'
  BY DEF SyncInv, Restart, SyncShape, SyncTypeOK, CycleStages, HeldIsFresh, TablesReflect
<1> QED
  BY <1>1, <1>2, <1>3, <1>4 DEF SyncInv

LEMMA SMDChangesInv ==
    ASSUME SyncInv, NEW c \in ComponentLists, NEW i \in InterfaceLists,
           SMDChanges(c, i)
    PROVE  SyncInv'
<1>1. SyncShape'
  <2>1. fresh' \in [Callers -> [components : SUBSET ComponentPages,
                                interfaces : SUBSET InterfacePages]]
    BY CurrentPages DEF SyncInv, SMDChanges, SyncShape, ComponentPages, InterfacePages
  <2>4. changes' \in 0 .. MaxChanges
    BY SyncConstantsAssumption DEF SyncInv, SMDChanges, SyncShape, SyncTypeOK
  <2>2. SyncTypeOK'
    BY <2>4 DEF SyncInv, SMDChanges, SyncShape, SyncTypeOK, CallerStates
  <2>3. caller' \in [Callers -> CallerStates]
    BY DEF SyncInv, SMDChanges, SyncShape, CallerStates
  <2> QED
    BY <2>1, <2>2, <2>3 DEF SyncInv, SMDChanges, SyncShape
<1>2. CycleStages'
  BY DEF SyncInv, SMDChanges, SyncShape, SyncTypeOK, CycleStages
<1>3. TagsDescribeTables' /\ LinksHaveEndpoints' /\ BoundRows'
  BY DEF SyncInv, SMDChanges, SyncShape, SyncTypeOK, TagsDescribeTables, TablesReflect,
         LinksHaveEndpoints, BoundRows, BoundCredentialKept
<1>4. HeldIsFresh'
  BY DEF SyncInv, SMDChanges, SyncShape, SyncTypeOK, CycleStages, HeldIsFresh, TablesReflect
<1> QED
  BY <1>1, <1>2, <1>3, <1>4 DEF SyncInv

LEMMA BindCredentialInv ==
    ASSUME SyncInv, NEW b \in BMCs, NEW cred \in Credentials,
           BindCredential(b, cred)
    PROVE  SyncInv'
<1>1. SyncShape'
  <2>1. \A d \in DOMAIN endpoints : endpoints'[d] \in Rows
    BY RowsAre DEF SyncInv, BindCredential, SyncShape, SyncTypeOK
  <2>2. DOMAIN endpoints' = DOMAIN endpoints
    BY DEF BindCredential
  <2>3. SyncTypeOK'
    BY <2>1, <2>2 DEF SyncInv, BindCredential, SyncShape, SyncTypeOK
  <2> QED
    BY <2>3 DEF SyncInv, BindCredential, SyncShape
<1>2. CycleStages'
  BY DEF SyncInv, BindCredential, SyncShape, SyncTypeOK, CycleStages
<1>3. TagsDescribeTables' /\ LinksHaveEndpoints' /\ BoundRows'
  BY DEF SyncInv, BindCredential, SyncShape, SyncTypeOK, TagsDescribeTables, TablesReflect,
         LinksHaveEndpoints, BoundRows, BoundCredentialKept
<1>4. HeldIsFresh'
  BY DEF SyncInv, BindCredential, SyncShape, SyncTypeOK, CycleStages, HeldIsFresh, TablesReflect
<1> QED
  BY <1>1, <1>2, <1>3, <1>4 DEF SyncInv

\* A failed call is counted, and only as many fail as may.
LEMMA FaultsBounded ==
    ASSUME SyncInv, NEW a \in Answers, CountFailure(a)
    PROVE  faults' \in 0 .. MaxFaults
BY SyncConstantsAssumption DEF SyncInv, SyncShape, SyncTypeOK, Answers, CountFailure

\* What a step of the loop leaves alone.
LoopFrame == UNCHANGED <<smdVars, stopping, serving, callerVars, restarts>>

\* A cycle that reads on: only what it has seen changes.
LEMMA ReadsOn ==
    ASSUME SyncInv, LoopFrame,
           UNCHANGED <<tableVars, memoryVars, fast, result, historyVars>>,
           faults' \in 0 .. MaxFaults,
           loop' \in {"interfaces", "refresh", "existing", "replace"},
           seenComponents' \in ComponentPages \cup {None},
           seenInterfaces' \in InterfacePages \cup {None},
           loop' \in {"existing", "replace"} => seenComponents' # None /\ seenInterfaces' # None,
           loop # "select", loop # "start", loop # "stopped",
           CycleStages',
           \A k \in Callers : caller[k] = "waiting" =>
              /\ seenComponents' # None => seenComponents' \in fresh[k].components
              /\ seenInterfaces' # None => seenInterfaces' \in fresh[k].interfaces
              /\ loop' = "interfaces" /\ seenComponents' = None =>
                    componentETag \in fresh[k].components
    PROVE  SyncInv'
<1>1. SyncShape'
  BY DEF SyncInv, LoopFrame, SyncShape, SyncTypeOK
<1>2. TagsDescribeTables' /\ LinksHaveEndpoints' /\ BoundRows'
  BY DEF SyncInv, LoopFrame, TagsDescribeTables, TablesReflect, LinksHaveEndpoints,
         BoundRows, BoundCredentialKept
<1>3. HeldIsFresh'
  BY DEF SyncInv, LoopFrame, HeldIsFresh
<1> QED
  BY <1>1, <1>2, <1>3 DEF SyncInv

\* A cycle that returns without touching the tables, with an error or with
\* the tables as its caller may expect them.
LEMMA ReturnsInv ==
    ASSUME SyncInv, LoopFrame, NEW res \in SyncResults, Return(res), AdjustTicker,
           UNCHANGED <<tableVars, memoryVars, historyVars>>,
           faults' \in 0 .. MaxFaults,
           \A k \in Callers : caller[k] = "waiting" /\ res = "ok" /\ ~unacked =>
              \E c \in fresh[k].components, i \in fresh[k].interfaces : TablesReflect(c, i)
    PROVE  SyncInv'
<1>1. SyncShape'
  BY DEF SyncInv, LoopFrame, Return, SyncShape, SyncTypeOK, SyncResults
<1>2. CycleStages'
  BY DEF SyncInv, LoopFrame, Return, CycleStages
<1>3. SyncOnStartup /\ loop' = "select" => fast' = ~ready'
  BY DEF Return, AdjustTicker, LoopFrame
<1>4. TagsDescribeTables'
  BY <1>3 DEF SyncInv, TagsDescribeTables, TablesReflect
<1>5. LinksHaveEndpoints' /\ BoundRows'
  BY DEF SyncInv, LinksHaveEndpoints, BoundRows, BoundCredentialKept
<1>6. HeldIsFresh'
  BY DEF SyncInv, LoopFrame, Return, HeldIsFresh, TablesReflect
<1> QED
  BY <1>1, <1>2, <1>4, <1>5, <1>6 DEF SyncInv

LEMMA FailInv ==
    ASSUME SyncInv, LoopFrame, Fail, faults' \in 0 .. MaxFaults
    PROVE  SyncInv'
BY ReturnsInv DEF Fail, SyncResults

LEMMA ListComponentsInv ==
    ASSUME SyncInv, NEW a \in SyncResults, ListComponents(a)
    PROVE  SyncInv'
<1>a. loop = "components" /\ LoopFrame /\ faults' \in 0 .. MaxFaults
  BY FaultsBounded DEF ListComponents, LoopFrame
<1>1. CASE a = "error" /\ Fail
  BY <1>a, <1>1, FailInv
<1>2. CASE /\ \/ seenComponents' = Page(components)
              \/ componentETag = Page(components) /\ seenComponents' = None
           /\ loop' = "interfaces"
           /\ UNCHANGED <<tableVars, seenInterfaces, existing, memoryVars, fast, result,
                          historyVars>>
  <2>1. Page(components) \in ComponentPages /\ Page(components) # None
    BY CurrentPages, ComponentPage
  <2>2. seenInterfaces' = None
    BY <1>a, <1>2 DEF SyncInv, CycleStages
  <2>3. CycleStages'
    BY <1>a, <1>2, <2>1, <2>2 DEF SyncInv, CycleStages, LoopFrame
  <2>4. \A k \in Callers : caller[k] = "waiting" => Page(components) \in fresh[k].components
    BY DEF SyncInv, HeldIsFresh
  <2> QED
    BY <1>a, <1>2, <2>1, <2>2, <2>3, <2>4, ReadsOn
<1> QED
  BY <1>1, <1>2, Zenon DEF ListComponents

LEMMA ListInterfacesInv ==
    ASSUME SyncInv, NEW a \in SyncResults, ListInterfaces(a)
    PROVE  SyncInv'
<1>a. loop = "interfaces" /\ LoopFrame /\ faults' \in 0 .. MaxFaults
  BY FaultsBounded DEF ListInterfaces, LoopFrame
<1>b. \A k \in Callers : caller[k] = "waiting" => Page(interfaces) \in fresh[k].interfaces
  BY DEF SyncInv, HeldIsFresh
<1>1. CASE a = "error" /\ Fail
  BY <1>a, <1>1, FailInv
<1>2. CASE /\ seenComponents = None /\ Page(interfaces) = interfaceETag
           /\ Return("ok")
           /\ UNCHANGED <<tableVars, memoryVars, historyVars>>
           /\ AdjustTicker
  <2>1. ~unacked => TablesReflect(componentETag, interfaceETag)
    BY <1>a, <1>2 DEF SyncInv, CycleStages, TagsDescribeTables
  <2>2. \A k \in Callers : caller[k] = "waiting" => componentETag \in fresh[k].components
    BY <1>a, <1>2 DEF SyncInv, HeldIsFresh
  <2>3. \A k \in Callers : caller[k] = "waiting" /\ ~unacked =>
           \E c \in fresh[k].components, i \in fresh[k].interfaces : TablesReflect(c, i)
    BY <1>2, <1>b, <2>1, <2>2
  <2> QED
    BY <1>a, <1>2, <2>3, ReturnsInv DEF SyncResults
<1>3. CASE /\ seenInterfaces' = Page(interfaces)
           /\ loop' = IF seenComponents = None THEN "refresh" ELSE "existing"
           /\ UNCHANGED <<tableVars, seenComponents, existing, memoryVars, fast, result,
                          historyVars>>
  <2>1. Page(interfaces) \in InterfacePages /\ Page(interfaces) # None
    BY CurrentPages, InterfacePage
  <2>2. CycleStages'
    BY <1>a, <1>3, <2>1 DEF SyncInv, CycleStages, LoopFrame
  <2>3. \A k \in Callers : caller[k] = "waiting" /\ seenComponents # None =>
           seenComponents \in fresh[k].components
    BY DEF SyncInv, HeldIsFresh
  <2>4. seenComponents \in ComponentPages \cup {None}
    BY DEF SyncInv, SyncShape
  <2> QED
    BY <1>a, <1>b, <1>3, <2>1, <2>2, <2>3, <2>4, ReadsOn
<1> QED
  BY <1>1, <1>2, <1>3 DEF ListInterfaces

LEMMA RefreshComponentsInv ==
    ASSUME SyncInv, NEW a \in SyncResults, RefreshComponents(a)
    PROVE  SyncInv'
<1>a. loop = "refresh" /\ LoopFrame /\ faults' \in 0 .. MaxFaults
  BY FaultsBounded DEF RefreshComponents, LoopFrame
<1>1. CASE a = "error" /\ Fail
  BY <1>a, <1>1, FailInv
<1>2. CASE /\ seenComponents' = Page(components)
           /\ loop' = "existing"
           /\ UNCHANGED <<tableVars, seenInterfaces, existing, memoryVars, fast, result,
                          historyVars>>
  <2>1. Page(components) \in ComponentPages /\ Page(components) # None
    BY CurrentPages, ComponentPage
  <2>2. seenInterfaces \in InterfacePages /\ seenInterfaces # None
    BY <1>a DEF SyncInv, SyncShape, CycleStages
  <2>3. CycleStages'
    BY <1>a, <1>2 DEF SyncInv, CycleStages, LoopFrame
  <2>4. \A k \in Callers : caller[k] = "waiting" =>
           Page(components) \in fresh[k].components /\ seenInterfaces \in fresh[k].interfaces
    BY <2>2 DEF SyncInv, HeldIsFresh
  <2> QED
    BY <1>a, <1>2, <2>1, <2>2, <2>3, <2>4, ReadsOn
<1> QED
  BY <1>1, <1>2 DEF RefreshComponents

LEMMA ListBMCEndpointsInv ==
    ASSUME SyncInv, NEW a \in SyncResults, ListBMCEndpoints(a)
    PROVE  SyncInv'
<1>a. loop = "existing" /\ LoopFrame /\ faults' \in 0 .. MaxFaults
  BY FaultsBounded DEF ListBMCEndpoints, LoopFrame
<1>1. CASE a = "error" /\ Fail
  BY <1>a, <1>1, FailInv
<1>2. CASE /\ existing' = endpoints
           /\ loop' = "replace"
           /\ UNCHANGED <<tableVars, seenComponents, seenInterfaces, memoryVars, fast,
                          result, historyVars>>
  <2>1. \A b \in DOMAIN endpoints :
           endpoints[b].credential \in Credentials \cup {NoCredential}
    BY RowsAre DEF SyncInv, SyncShape, SyncTypeOK
  <2>2. CycleStages'
    BY <1>a, <1>2, <2>1 DEF SyncInv, CycleStages, LoopFrame
  <2>3. /\ seenComponents \in ComponentPages /\ seenComponents # None
        /\ seenInterfaces \in InterfacePages /\ seenInterfaces # None
    BY <1>a DEF SyncInv, SyncShape, SyncTypeOK
  <2>4. \A k \in Callers : caller[k] = "waiting" =>
           seenComponents \in fresh[k].components /\ seenInterfaces \in fresh[k].interfaces
    BY <2>3 DEF SyncInv, HeldIsFresh
  <2> QED
    BY <1>a, <1>2, <2>2, <2>3, <2>4, ReadsOn
<1> QED
  BY <1>1, <1>2 DEF ListBMCEndpoints

\* The transaction has committed: the tables are new, and the cycle returns.
LEMMA ReplaceReturns ==
    ASSUME SyncInv, loop = "replace", LoopFrame, Replace, NEW res \in SyncResults,
           Return(res), AdjustTicker, faults' \in 0 .. MaxFaults,
           NEW c, c = seenComponents, NEW i, i = seenInterfaces
    PROVE  /\ SyncShape' /\ CycleStages' /\ LinksHaveEndpoints' /\ BoundRows'
           /\ TablesReflect(c, i)' /\ HeldIsFresh'
           /\ c # None /\ i # None
           /\ SyncOnStartup /\ loop' = "select" => fast' = ~ready'
<1>1. /\ DOMAIN endpoints' \subseteq BMCs
      /\ \A b \in DOMAIN endpoints' : endpoints'[b] \in Rows
      /\ DOMAIN links' \subseteq Nodes /\ \A n \in DOMAIN links' : links'[n] \in BMCs
      /\ LinksHaveEndpoints'
      /\ TablesReflect(c, i)'
      /\ BoundRows'
  BY ReplaceTables
<1>2. SyncShape'
  BY <1>1 DEF SyncInv, LoopFrame, Return, SyncShape, SyncTypeOK, SyncResults
<1>3. CycleStages'
  BY DEF SyncInv, LoopFrame, Return, CycleStages
<1>4. c # None /\ i # None
  BY DEF SyncInv, SyncShape, SyncTypeOK
<1>5. \A k \in Callers : caller[k] = "waiting" =>
         serving = k /\ c \in fresh[k].components /\ i \in fresh[k].interfaces
  BY <1>4 DEF SyncInv, HeldIsFresh
<1>6. HeldIsFresh'
  BY <1>1, <1>5 DEF SyncInv, LoopFrame, Return, HeldIsFresh
<1>7. SyncOnStartup /\ loop' = "select" => fast' = ~ready'
  BY DEF Return, AdjustTicker, LoopFrame
<1> QED
  BY <1>1, <1>2, <1>3, <1>4, <1>6, <1>7

LEMMA ReplaceTopologyMappingsInv ==
    ASSUME SyncInv, NEW a \in SyncResults, ReplaceTopologyMappings(a)
    PROVE  SyncInv'
<1>a. loop = "replace" /\ LoopFrame /\ faults' \in 0 .. MaxFaults
  BY FaultsBounded DEF ReplaceTopologyMappings, LoopFrame
<1>1. CASE a = "error" /\ Fail
  BY <1>a, <1>1, FailInv
<1>2. CASE /\ Replace
           /\ unacked' = TRUE
           /\ Return("error")
           /\ UNCHANGED memoryVars
           /\ AdjustTicker
  <2> PICK c, i : c = seenComponents /\ i = seenInterfaces
    OBVIOUS
  <2>1. /\ SyncShape' /\ CycleStages' /\ LinksHaveEndpoints' /\ BoundRows' /\ HeldIsFresh'
        /\ SyncOnStartup /\ loop' = "select" => fast' = ~ready'
    BY <1>a, <1>2, ReplaceReturns DEF SyncResults
  <2>2. TagsDescribeTables'
    BY <1>2, <2>1 DEF SyncInv, TagsDescribeTables
  <2> QED
    BY <2>1, <2>2 DEF SyncInv
<1>3. CASE /\ Replace
           /\ unacked' = FALSE
           /\ Return("ok")
           /\ componentETag' = seenComponents
           /\ interfaceETag' = seenInterfaces
           /\ ready' = TRUE
           /\ AdjustTicker
  <2> PICK c, i : c = seenComponents /\ i = seenInterfaces
    OBVIOUS
  <2>1. /\ SyncShape' /\ CycleStages' /\ LinksHaveEndpoints' /\ BoundRows' /\ HeldIsFresh'
        /\ TablesReflect(c, i)'
        /\ c # None /\ i # None
        /\ SyncOnStartup /\ loop' = "select" => fast' = ~ready'
    BY <1>a, <1>3, ReplaceReturns DEF SyncResults
  <2>2. componentETag' = c /\ interfaceETag' = i
    BY <1>3
  <2>3. TagsDescribeTables'
    BY <1>3, <2>1, <2>2 DEF TagsDescribeTables, TablesReflect
  <2> QED
    BY <2>1, <2>3 DEF SyncInv
<1> QED
  BY <1>1, <1>2, <1>3 DEF ReplaceTopologyMappings

-----------------------------------------------------------------------------
(* The theorems.                                                           *)

LEMMA SyncInvInit == SyncInit => SyncInv
<1> SUFFICES ASSUME SyncInit PROVE SyncInv
  OBVIOUS
<1>1. SyncShape
  BY SyncConstantsAssumption DEF SyncInit, SyncShape, SyncTypeOK, SyncResults, CallerStates
<1>2. CycleStages
  BY DEF SyncInit, CycleStages
<1>3. TagsDescribeTables /\ LinksHaveEndpoints
  BY DEF SyncInit, TagsDescribeTables, LinksHaveEndpoints
<1>4. HeldIsFresh /\ BoundRows
  BY DEF SyncInit, HeldIsFresh, BoundRows, BoundCredentialKept
<1> QED
  BY <1>1, <1>2, <1>3, <1>4 DEF SyncInv

LEMMA SyncInvStep == SyncInv /\ [SyncNext]_syncVars => SyncInv'
<1> SUFFICES ASSUME SyncInv, [SyncNext]_syncVars PROVE SyncInv'
  OBVIOUS
<1>1. CASE LoopStep
  BY <1>1, StartInv, TickInv, AcceptTriggerInv, ListComponentsInv, ListInterfacesInv,
     RefreshComponentsInv, ListBMCEndpointsInv, ReplaceTopologyMappingsInv, ReplyInv,
     LoopExitInv DEF LoopStep
<1>2. CASE \E c \in ComponentLists, i \in InterfaceLists : SMDChanges(c, i)
  BY <1>2, SMDChangesInv
<1>3. CASE \E b \in BMCs, cred \in Credentials : BindCredential(b, cred)
  BY <1>3, BindCredentialInv
<1>4. CASE \/ \E k \in Callers : Trigger(k) \/ TriggerTimeout(k)
           \/ Shutdown
           \/ Restart
  BY <1>4, TriggerInv, TriggerTimeoutInv, ShutdownInv, RestartInv
<1>5. CASE UNCHANGED syncVars
  BY <1>5 DEF syncVars, SyncInv, SyncShape, SyncTypeOK, CycleStages, TagsDescribeTables,
              TablesReflect, LinksHaveEndpoints, HeldIsFresh, BoundRows, BoundCredentialKept
<1> QED
  BY <1>1, <1>2, <1>3, <1>4, <1>5 DEF SyncNext

LEMMA SyncInvHolds == SyncSpec => []SyncInv
BY SyncInvInit, SyncInvStep, PTL DEF SyncSpec

\* SyncTypeOK: every variable of the sync, its tables and its callers keeps
\* its type, and a cycle gets to the transaction only with both lists read.
THEOREM SyncTypeCorrect == SyncSpec => []SyncTypeOK
<1>1. SyncInv => SyncTypeOK
  BY DEF SyncInv, SyncShape
<1> QED
  BY <1>1, SyncInvHolds, PTL

\* TagsDescribeTables: whatever fails, changes or crashes in between, the
\* tags a cycle compares with stand for what is in the tables (unless a commit
\* went unacknowledged), and the service is ready exactly when they are set.
THEOREM TagsNeverLie == SyncSpec => []TagsDescribeTables
<1>1. SyncInv => TagsDescribeTables
  BY DEF SyncInv
<1> QED
  BY <1>1, SyncInvHolds, PTL

\* LinksHaveEndpoints: the foreign key of node_bmc_links holds after every
\* replacement, for every topology SMD may list and every page size.
THEOREM ForeignKeyHolds == SyncSpec => []LinksHaveEndpoints
<1>1. SyncInv => LinksHaveEndpoints
  BY DEF SyncInv
<1> QED
  BY <1>1, SyncInvHolds, PTL

\* BoundCredentialKept: a credential bound between two cycles is never lost
\* while its row exists.  (Bound during a cycle it may be.)
THEOREM CredentialsAreKept ==
    ASSUME ~MayBindDuringSync PROVE SyncSpec => []BoundCredentialKept
<1>1. SyncInv => BoundCredentialKept
  BY DEF SyncInv, BoundRows
<1> QED
  BY <1>1, SyncInvHolds, PTL

\* ForcedSyncIsFresh: when a forced sync reports success, the tables reflect
\* lists SMD had after the request came, whether the cycle replaced them or
\* ended early because of its tags.
THEOREM ForcedSyncsAreFresh == SyncSpec => ForcedSyncIsFresh
<1>1. SyncInv /\ [SyncNext]_syncVars =>
        [\A k \in Callers :
            caller[k] = "waiting" /\ caller'[k] = "ok" /\ ~unacked =>
                \E c \in fresh[k].components, i \in fresh[k].interfaces :
                    TablesReflect(c, i)]_syncVars
  <2> SUFFICES ASSUME SyncInv, SyncNext, NEW k \in Callers,
                      caller[k] = "waiting", caller'[k] = "ok", ~unacked
               PROVE  \E c \in fresh[k].components, i \in fresh[k].interfaces :
                          TablesReflect(c, i)
    OBVIOUS
  <2>1. caller \in [Callers -> CallerStates]
    BY DEF SyncInv, SyncShape
  <2>2. Reply
    BY <2>1 DEF SyncNext, LoopStep, Start, Tick, AcceptTrigger, ListComponents, ListInterfaces,
         RefreshComponents, ListBMCEndpoints, ReplaceTopologyMappings, LoopExit, SMDChanges,
         BindCredential, Trigger, TriggerTimeout, Shutdown, Restart
  <2>3. loop = "reply" /\ result = "ok"
    BY <2>1, <2>2 DEF Reply, SyncInv, HeldIsFresh
  <2> QED
    BY <2>3 DEF SyncInv, HeldIsFresh
<1> QED
  BY <1>1, SyncInvHolds, PTL DEF SyncSpec, ForcedSyncIsFresh

\* Binding a credential unmaps no node.
LEMMA BindKeepsMapped ==
    ASSUME SyncInv, NEW b \in BMCs, NEW cred \in Credentials, BindCredential(b, cred),
           NEW n \in DOMAIN links,
           endpoints[links[n]].endpoint # NoAddress,
           endpoints[links[n]].credential # NoCredential
    PROVE  /\ n \in DOMAIN links' /\ links'[n] = links[n]
           /\ endpoints'[links[n]].endpoint # NoAddress
           /\ endpoints'[links[n]].credential # NoCredential
<1>1. links[n] \in DOMAIN endpoints /\ endpoints[links[n]] \in Rows
  BY DEF SyncInv, SyncShape, SyncTypeOK, LinksHaveEndpoints
<1>2. cred # NoCredential
  BY SyncConstantsAssumption
<1> QED
  BY <1>1, <1>2, RowsAre DEF BindCredential

\* Nor does a replacement that keeps its parent.
LEMMA ReplaceKeepsMapped ==
    ASSUME SyncInv, loop = "replace", Replace,
           MayBindDuringSync => DefaultCredential # NoCredential,
           NEW n \in DOMAIN links,
           endpoints[links[n]].endpoint # NoAddress,
           endpoints[links[n]].credential # NoCredential,
           n \in DOMAIN seenComponents, seenComponents[n] = links[n]
    PROVE  /\ n \in DOMAIN links' /\ links'[n] = links[n]
           /\ endpoints'[links[n]].endpoint # NoAddress
           /\ endpoints'[links[n]].credential # NoCredential
<1> PICK b : b = links[n]
  OBVIOUS
<1>1. n \in Nodes /\ b \in BMCs /\ b \in DOMAIN endpoints
  BY DEF SyncInv, SyncShape, SyncTypeOK, LinksHaveEndpoints
<1>2. n \in LinkedNodes(seenComponents) /\ b \in BMCIds(seenComponents)
  BY <1>1, SyncConstantsAssumption DEF LinkedNodes, BMCIds
<1>3. n \in DOMAIN links' /\ links'[n] = b
  BY <1>2 DEF Replace, DesiredLinks
<1>4. /\ b \in DOMAIN existing /\ existing[b].endpoint = endpoints[b].endpoint
      /\ ~MayBindDuringSync => existing = endpoints
  BY <1>1 DEF SyncInv, CycleStages
<1>5. /\ existing[b].endpoint \in Addresses \cup {NoAddress}
      /\ existing[b].credential \in Credentials \cup {NoCredential}
  BY <1>4, ExistingRow
<1>6. seenInterfaces \in InterfacePages
  BY DEF SyncInv, SyncShape, SyncTypeOK
<1>7. DesiredEndpoint(b, seenInterfaces, existing) # NoAddress
  BY <1>4, <1>5, <1>6, DesiredRow
<1>8. DesiredCredential(b, existing) # NoCredential
  BY <1>4 DEF DesiredCredential
<1>9. /\ endpoints'[b].endpoint = DesiredEndpoint(b, seenInterfaces, existing)
      /\ endpoints'[b].credential = DesiredCredential(b, existing)
  BY <1>2 DEF Replace, DesiredEndpoints
<1> QED
  BY <1>3, <1>7, <1>8, <1>9

\* MappedNodesStayMapped: no sync unmaps a node whose parent SMD keeps, if
\* credentials are bound between cycles or there is a default credential.
THEOREM MappedNodesAreKept ==
    ASSUME MayBindDuringSync => DefaultCredential # NoCredential
    PROVE  SyncSpec => MappedNodesStayMapped
<1>1. SyncInv /\ [SyncNext]_syncVars =>
        [\A n \in Nodes :
            /\ ResolveNodeMappings(n) # NoParent
            /\ tableVars' # tableVars
            /\ loop = "replace" => n \in DOMAIN seenComponents
                                   /\ seenComponents[n] = links[n]
            => ResolveNodeMappings(n)' = ResolveNodeMappings(n)]_syncVars
  <2> SUFFICES ASSUME SyncInv, SyncNext, NEW n \in Nodes,
                      ResolveNodeMappings(n) # NoParent,
                      tableVars' # tableVars,
                      loop = "replace" => n \in DOMAIN seenComponents
                                          /\ seenComponents[n] = links[n]
               PROVE  ResolveNodeMappings(n)' = ResolveNodeMappings(n)
    OBVIOUS
  <2>1. /\ n \in DOMAIN links
        /\ endpoints[links[n]].endpoint # NoAddress
        /\ endpoints[links[n]].credential # NoCredential
        /\ ResolveNodeMappings(n) = links[n]
    BY DEF ResolveNodeMappings
  <2>2. \/ \E b \in BMCs, cred \in Credentials : BindCredential(b, cred)
        \/ loop = "replace" /\ Replace
    BY DEF SyncNext, LoopStep, Start, Tick, AcceptTrigger, ListComponents, ListInterfaces,
         RefreshComponents, ListBMCEndpoints, ReplaceTopologyMappings, Fail, Reply, LoopExit,
         SMDChanges, Trigger, TriggerTimeout, Shutdown, Restart
  <2>3. /\ n \in DOMAIN links' /\ links'[n] = links[n]
        /\ endpoints'[links[n]].endpoint # NoAddress
        /\ endpoints'[links[n]].credential # NoCredential
    BY <2>1, <2>2, BindKeepsMapped, ReplaceKeepsMapped
  <2> QED
    BY <2>1, <2>3 DEF ResolveNodeMappings
<1> QED
  BY <1>1, SyncInvHolds, PTL DEF SyncSpec, MappedNodesStayMapped

=============================================================================
