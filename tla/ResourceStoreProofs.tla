-------------------------- MODULE ResourceStoreProofs --------------------------
(***************************************************************************)
(* Proofs about ResourceStore for any number of rows, clients and updates. *)
(*                                                                         *)
(* That a matching tag means matching content is inductive only together   *)
(* with the fact that no tag in use has a stamp that is still to be given: *)
(* otherwise an update could make a row match a tag of other content.      *)
(***************************************************************************)
EXTENDS ResourceStore, TLAPS

\* Every stamp of a row or of a copy was given by an earlier write.
StampsPast ==
    /\ \A id \in Ids : table[id] # NoRow => table[id].updatedAt < writes
    /\ \A c \in Clients : copy[c] # NoCopy => copy[c].etag[2] < writes

TagInv == TypeOK /\ StampsPast /\ TagIdentifiesContent

\* The invariant holds at the start: the rows have stamp 0 and nobody has a
\* copy (the table as the handlers find it).
LEMMA InitTagInv == Init => TagInv
<1> SUFFICES ASSUME Init PROVE TagInv
    OBVIOUS
<1> USE DEF Init
<1>1. TypeOK
    <2>1. table \in [Ids -> Rows \cup {NoRow}]
        <3>1. [name : Names, description : Descriptions, updatedAt : {0}]
                \subseteq Rows
            BY DEF Rows, AnyName
        <3> QED BY <3>1
    <2>2. /\ writes \in Nat
          /\ pending \in [Clients -> Pendings \cup {Idle}]
          /\ copy \in [Clients -> Resources \cup {NoCopy}]
          /\ lost \in BOOLEAN
        OBVIOUS
    <2> QED BY <2>1, <2>2 DEF TypeOK
<1>2. StampsPast
    BY DEF StampsPast
<1>3. TagIdentifiesContent
    BY DEF TagIdentifiesContent
<1> QED BY <1>1, <1>2, <1>3 DEF TagInv

\* What a handler answers with is a resource.
LEMMA ResourceType ==
    ASSUME NEW id \in Ids, NEW row \in Rows
    PROVE  /\ Resource(id, row) \in Resources
           /\ Resource(id, row).id = id
           /\ Resource(id, row).etag = <<id, row.updatedAt>>
    BY DEF Resource, Resources, Rows, computeETag

\* Reading a row gives a client a copy of it (handleGet).
LEMMA GetKeeps ==
    ASSUME TagInv, NEW c \in Clients, NEW id \in Ids, GetResource(c, id)
    PROVE  TagInv'
<1> USE DEF GetResource
<1>1. table[id] \in Rows
    BY DEF TagInv, TypeOK
<1>2. Resource(id, table[id]) \in Resources
    BY <1>1, ResourceType
<1>3. TypeOK'
    BY <1>2 DEF TagInv, TypeOK
<1>4. StampsPast'
    <2>1. Resource(id, table[id]).etag[2] = table[id].updatedAt
        BY <1>1, ResourceType
    <2> QED BY <2>1 DEF TagInv, TypeOK, StampsPast
<1>5. TagIdentifiesContent'
    <2> SUFFICES ASSUME NEW d \in Clients, copy'[d] # NoCopy,
                        table'[copy'[d].id] # NoRow,
                        copy'[d].etag = computeETag(copy'[d].id,
                                            table'[copy'[d].id].updatedAt)
                 PROVE  copy'[d] = Resource(copy'[d].id, table'[copy'[d].id])
        BY DEF TagIdentifiesContent, Resource, computeETag
    <2>1. CASE d = c
        <3>1. copy'[d] = Resource(id, table[id])
            BY <2>1 DEF TagInv, TypeOK
        <3>2. copy'[d].id = id
            BY <3>1, <1>1, ResourceType
        <3> QED BY <3>1, <3>2
    <2>2. CASE d # c
        BY <2>2 DEF TagInv, TypeOK, TagIdentifiesContent
    <2> QED BY <2>1, <2>2
<1> QED BY <1>3, <1>4, <1>5 DEF TagInv

\* The fetches of PUT and PATCH, and a failed write, touch the pending write
\* only (handleUpdate, handlePatch).
LEMMA FetchKeeps ==
    ASSUME TagInv, NEW c \in Clients,
           \/ \E name \in AnyName, d \in Descriptions : UpdateFetch(c, name, d)
           \/ \E id \in Ids, fields \in SUBSET {"name", "description"},
                 name \in AnyName, d \in Descriptions :
                   PatchFetch(c, id, fields, name, d)
           \/ UpdateFails(c)
    PROVE  TagInv'
<1>1. /\ UNCHANGED <<table, writes, copy, lost>>
      /\ \E p \in Pendings \cup {Idle} :
            pending' = [pending EXCEPT ![c] = p]
    <2>1. CASE \E name \in AnyName, d \in Descriptions : UpdateFetch(c, name, d)
        <3>1. PICK name \in AnyName, d \in Descriptions : UpdateFetch(c, name, d)
            BY <2>1
        <3> DEFINE p == [method |-> "put", id |-> copy[c].id,
                         fetched |-> table[copy[c].id],
                         name |-> name, description |-> d]
        <3>2. copy[c] # NoCopy /\ copy[c] \in Resources /\ copy[c].id \in Ids
            BY <3>1 DEF UpdateFetch, TagInv, TypeOK, Resources
        <3>3. p \in Pendings
            BY <3>1, <3>2
               DEF UpdateFetch, TagInv, TypeOK, Pendings, Methods
        <3> QED BY <3>1, <3>3 DEF UpdateFetch
    <2>2. CASE \E id \in Ids, fields \in SUBSET {"name", "description"},
                  name \in AnyName, d \in Descriptions :
                    PatchFetch(c, id, fields, name, d)
        <3>1. PICK id \in Ids, fields \in SUBSET {"name", "description"},
                   name \in AnyName, d \in Descriptions :
                     PatchFetch(c, id, fields, name, d)
            BY <2>2
        <3> DEFINE p == [method |-> "patch", id |-> id, fetched |-> table[id],
                name |-> IF "name" \in fields THEN name ELSE table[id].name,
                description |-> IF "description" \in fields
                                THEN d ELSE table[id].description]
        <3>2. table[id] \in Rows
            BY <3>1 DEF PatchFetch, TagInv, TypeOK
        <3>3. p \in Pendings
            BY <3>2 DEF Rows, Pendings, Methods
        <3> QED BY <3>1, <3>3 DEF PatchFetch
    <2>3. CASE UpdateFails(c)
        BY <2>3 DEF UpdateFails
    <2> QED BY <2>1, <2>2, <2>3
<1>2. TypeOK'
    BY <1>1 DEF TagInv, TypeOK
<1>3. StampsPast' /\ TagIdentifiesContent'
    BY <1>1 DEF TagInv, StampsPast, TagIdentifiesContent
<1> QED BY <1>2, <1>3 DEF TagInv

\* An update gives its row a stamp no copy has, except the copy it hands out
\* with the new content (Update__RESOURCE__).
LEMMA UpdateKeeps ==
    ASSUME TagInv, NEW c \in Clients, NEW answered \in BOOLEAN,
           UpdateResource(c, answered)
    PROVE  TagInv'
<1> DEFINE p == pending[c]
           new == [name |-> p.name, description |-> p.description,
                   updatedAt |-> writes]
<1>1. /\ p \in Pendings
      /\ p.id \in Ids
      /\ writes \in Nat
    BY DEF UpdateResource, TagInv, TypeOK, Pendings
<1>2. new \in Rows
    BY <1>1 DEF Pendings, Rows
<1>3. /\ table' = [table EXCEPT ![p.id] = new]
      /\ writes' = writes + 1
      /\ pending' = [pending EXCEPT ![c] = Idle]
      /\ table[p.id] # NoRow
      /\ copy' = IF answered THEN [copy EXCEPT ![c] = Resource(p.id, new)]
                 ELSE copy
      /\ lost' \in BOOLEAN
    BY DEF UpdateResource, TagInv, TypeOK
<1>4. /\ Resource(p.id, new) \in Resources
      /\ Resource(p.id, new).id = p.id
      /\ Resource(p.id, new).etag = <<p.id, writes>>
    BY <1>1, <1>2, ResourceType
<1> HIDE DEF p, new
<1>5. TypeOK'
    BY <1>1, <1>2, <1>3, <1>4 DEF TagInv, TypeOK
<1>n. new.updatedAt = writes
    BY DEF new
<1>6. StampsPast'
    <2>1. ASSUME NEW id \in Ids, table'[id] # NoRow
          PROVE  table'[id].updatedAt < writes'
        <3>1. CASE id = p.id
            BY <3>1, <1>1, <1>3, <1>n DEF TagInv, TypeOK
        <3>2. CASE id # p.id
            <4>1. table'[id] = table[id] /\ table[id] \in Rows
                BY <3>2, <2>1, <1>3 DEF TagInv, TypeOK
            <4>2. table[id].updatedAt < writes /\ table[id].updatedAt \in Nat
                BY <4>1, <2>1 DEF TagInv, StampsPast, Rows
            <4> QED BY <4>1, <4>2, <1>1, <1>3
        <3> QED BY <3>1, <3>2
    <2>2. ASSUME NEW d \in Clients, copy'[d] # NoCopy
          PROVE  copy'[d].etag[2] < writes'
        <3>1. CASE copy'[d] = Resource(p.id, new)
            BY <3>1, <1>1, <1>3, <1>4
        <3>2. CASE copy'[d] = copy[d]
            <4>1. copy[d] \in Resources
                BY <2>2, <3>2 DEF TagInv, TypeOK
            <4>2. copy[d].etag[2] < writes /\ copy[d].etag[2] \in Nat
                BY <2>2, <3>2, <4>1 DEF TagInv, StampsPast, Resources
            <4> QED BY <3>2, <4>2, <1>1, <1>3
        <3> QED BY <3>1, <3>2, <1>3 DEF TagInv, TypeOK
    <2> QED BY <2>1, <2>2 DEF StampsPast
<1>7. TagIdentifiesContent'
    <2> SUFFICES ASSUME NEW d \in Clients, copy'[d] # NoCopy,
                        table'[copy'[d].id] # NoRow,
                        copy'[d].etag = computeETag(copy'[d].id,
                                            table'[copy'[d].id].updatedAt)
                 PROVE  copy'[d] = Resource(copy'[d].id, table'[copy'[d].id])
        BY DEF TagIdentifiesContent, Resource, computeETag
    <2>1. CASE copy'[d] = Resource(p.id, new)
        BY <2>1, <1>1, <1>3, <1>4 DEF TagInv, TypeOK
    <2>2. CASE copy'[d] = copy[d]
        <3>1. copy[d] \in Resources /\ copy[d].id \in Ids
            BY <2>2 DEF TagInv, TypeOK, Resources
        <3>2. CASE copy[d].id = p.id
            <4>1. copy[d].etag[2] < writes /\ copy[d].etag[2] \in Nat
                BY <2>2, <3>1 DEF TagInv, StampsPast, Resources
            <4>2. table'[p.id] = new
                BY <1>1, <1>3 DEF TagInv, TypeOK
            <4>3. copy[d].etag[2] = writes
                BY <2>2, <3>2, <4>2, <1>n DEF computeETag
            <4> QED BY <4>1, <4>3, <1>1
        <3>3. CASE copy[d].id # p.id
            <4>1. table'[copy[d].id] = table[copy[d].id]
                BY <3>1, <3>3, <1>3 DEF TagInv, TypeOK
            <4> QED BY <2>2, <4>1 DEF TagInv, TagIdentifiesContent
        <3> QED BY <3>2, <3>3
    <2> QED BY <2>1, <2>2, <1>3 DEF TagInv, TypeOK
<1> QED BY <1>5, <1>6, <1>7 DEF TagInv

\* A deleted row matches no tag (handleDelete).
LEMMA DeleteKeeps ==
    ASSUME TagInv, NEW id \in Ids, DeleteResource(id)
    PROVE  TagInv'
<1> USE DEF DeleteResource
<1>1. TypeOK'
    BY DEF TagInv, TypeOK
<1>2. StampsPast'
    BY DEF TagInv, TypeOK, StampsPast
<1>3. TagIdentifiesContent'
    <2> SUFFICES ASSUME NEW d \in Clients, copy'[d] # NoCopy,
                        table'[copy'[d].id] # NoRow,
                        copy'[d].etag = computeETag(copy'[d].id,
                                            table'[copy'[d].id].updatedAt)
                 PROVE  copy'[d] = Resource(copy'[d].id, table'[copy'[d].id])
        BY DEF TagIdentifiesContent, Resource, computeETag
    <2>1. copy[d] # NoCopy /\ copy'[d] = copy[d] /\ copy[d].id \in Ids
        BY DEF TagInv, TypeOK, Resources
    <2>2. table'[copy[d].id] = table[copy[d].id]
        BY <2>1 DEF TagInv, TypeOK
    <2> QED BY <2>1, <2>2 DEF TagInv, TagIdentifiesContent
<1> QED BY <1>1, <1>2, <1>3 DEF TagInv

LEMMA TagInvHolds == Spec => []TagInv
<1>1. TagInv /\ [Next]_vars => TagInv'
    <2> SUFFICES ASSUME TagInv, [Next]_vars PROVE TagInv'
        OBVIOUS
    <2>1. CASE \E id \in Ids : DeleteResource(id)
        BY <2>1, DeleteKeeps
    <2>2. CASE \E c \in Clients :
                 \/ \E id \in Ids : GetResource(c, id)
                 \/ \E name \in AnyName, d \in Descriptions :
                      UpdateFetch(c, name, d)
                 \/ \E id \in Ids, fields \in SUBSET {"name", "description"},
                       name \in AnyName, d \in Descriptions :
                         PatchFetch(c, id, fields, name, d)
                 \/ \E answered \in BOOLEAN : UpdateResource(c, answered)
                 \/ UpdateFails(c)
        BY <2>2, GetKeeps, FetchKeeps, UpdateKeeps
    <2>3. CASE UNCHANGED vars
        BY <2>3 DEF vars, TagInv, TypeOK, StampsPast, TagIdentifiesContent
    <2> QED BY <2>1, <2>2, <2>3 DEF Next
<1> QED BY <1>1, InitTagInv, PTL DEF Spec

\* Every variable keeps its type: a prepared write and a client's copy are
\* always of a row the service knows.
THEOREM ResourceTypeCorrect == Spec => []TypeOK
<1>1. TagInv => TypeOK
    BY DEF TagInv
<1> QED BY <1>1, TagInvHolds, PTL

\* A client whose tag matches the row has the row's content, in every
\* reachable state (handleGet answers 304, handleUpdate accepts If-Match).
THEOREM TagsAreSound == Spec => []TagIdentifiesContent
<1>1. TagInv => TagIdentifiesContent
    BY DEF TagInv
<1> QED BY <1>1, TagInvHolds, PTL

\* No step brings a deleted row back (the update statement of
\* Update__RESOURCE__ inserts nothing).
THEOREM DeletedRowsStayAway == Spec => DeletedStaysDeleted
<1>1. TypeOK /\ [Next]_vars =>
        [\A id \in Ids : table[id] = NoRow => table'[id] = NoRow]_vars
    <2> SUFFICES ASSUME TypeOK, Next, NEW id \in Ids, table[id] = NoRow
                 PROVE  table'[id] = NoRow
        BY DEF vars
    <2>1. CASE \E d \in Ids : DeleteResource(d)
        BY <2>1 DEF DeleteResource, TypeOK
    <2>2. CASE \E c \in Clients, answered \in BOOLEAN :
                  UpdateResource(c, answered)
        BY <2>2 DEF UpdateResource, TypeOK, Pendings
    <2>3. CASE table' = table
        BY <2>3
    <2> QED BY <2>1, <2>2, <2>3
            DEF Next, GetResource, UpdateFetch, PatchFetch, UpdateFails
<1> QED BY <1>1, ResourceTypeCorrect, PTL DEF Spec, DeletedStaysDeleted
================================================================================
