----------------------------- MODULE ResourceStore -----------------------------
(***************************************************************************)
(* The resource table of a service made from templates/service and the     *)
(* HTTP handlers on it.  PUT and PATCH read the row in one statement and   *)
(* write it in another, with no transaction around both; PUT compares the  *)
(* If-Match tag with what it has read.                                     *)
(*                                                                         *)
(* A tag is made of the id and updated_at.  Two writes are assumed to get  *)
(* different time stamps (the column keeps microseconds), so a stamp is    *)
(* the number of the write.  created_at orders lists only, and lists write *)
(* nothing: both are left out, and so are requests that are refused before *)
(* they reach the database.                                                *)
(***************************************************************************)
EXTENDS Naturals

CONSTANTS
    Ids,            \* identifiers a row may have
    Names,          \* names that are not blank
    Blank,          \* a blank name
    Descriptions,
    Clients,        \* callers, one request each at a time
    MaxWrites       \* bound on the number of updates

ASSUME ConstantsAssumption ==
    /\ Blank \notin Names
    /\ MaxWrites \in Nat

VARIABLES
    table,      \* the rows by id
    writes,     \* the time stamp of the next write
    pending,    \* per client, the write its handler is about to do
    copy,       \* per client, the resource it got last, with its tag
    lost        \* history: a PUT replaced a row it had not compared

vars == <<table, writes, pending, copy, lost>>

--------------------------------------------------------------------------------
AnyName == Names \cup {Blank}

Rows == [name : AnyName, description : Descriptions, updatedAt : Nat]
NoRow == [name |-> Blank]

Methods == {"put", "patch"}

Pendings == [method : Methods, id : Ids, fetched : Rows,
             name : AnyName, description : Descriptions]
Idle == [method |-> "none"]

\* Faulty variant: a tag that does not follow the updates.
ConstantETag(id, updatedAt) == <<id, 0>>

computeETag(id, updatedAt) == <<id, updatedAt>>

Resources == [id : Ids, etag : Ids \X Nat, name : AnyName,
              description : Descriptions]
NoCopy == [id |-> "none"]

\* Faulty variant: the envelope of an item of a list, which has no tag.
ListItem(id, row) ==
    [id |-> id, name |-> row.name, description |-> row.description]

\* The envelope a handler answers with.
Resource(id, row) ==
    [id |-> id, etag |-> computeETag(id, row.updatedAt),
     name |-> row.name, description |-> row.description]

Valid(name) == name # Blank

\* The unique index on name.
NameFree(id, name) ==
    \A other \in Ids \ {id} :
        table[other] # NoRow => table[other].name # name

--------------------------------------------------------------------------------
(***************************************************************************)
(* The rows are there from the start.  The POST handler passes the insert  *)
(* an empty id, which the UUID column refuses: it answers 500 and changes  *)
(* nothing, so rows enter the table only from outside the service.         *)
(***************************************************************************)
Init ==
    /\ table \in [Ids -> [name : Names, description : Descriptions,
                          updatedAt : {0}] \cup {NoRow}]
    /\ \A id \in Ids : table[id] # NoRow => NameFree(id, table[id].name)
    /\ writes = 1
    /\ pending = [c \in Clients |-> Idle]
    /\ copy = [c \in Clients |-> NoCopy]
    /\ lost = FALSE

\* GET.  A client that sends the tag of its copy may be told 304 instead,
\* and then keeps the copy: that changes nothing.
GetResource(c, id) ==
    /\ pending[c] = Idle
    /\ table[id] # NoRow
    /\ copy' = [copy EXCEPT ![c] = Resource(id, table[id])]
    /\ UNCHANGED <<table, writes, pending, lost>>

(***************************************************************************)
(* PUT up to the write: the row exists, its tag is the one in If-Match,    *)
(* and the body is valid.                                                  *)
(***************************************************************************)
UpdateFetch(c, name, description) ==
    /\ pending[c] = Idle
    /\ copy[c] # NoCopy
    /\ LET id == copy[c].id
       IN  /\ table[id] # NoRow
           /\ copy[c].etag = computeETag(id, table[id].updatedAt)
           /\ Valid(name)
           /\ pending' = [pending EXCEPT ![c] =
                [method |-> "put", id |-> id, fetched |-> table[id],
                 name |-> name, description |-> description]]
    /\ UNCHANGED <<table, writes, copy, lost>>

(***************************************************************************)
(* PATCH up to the write: the fields that are not given keep the value     *)
(* they had when the row was read.  The body is not validated.             *)
(***************************************************************************)
PatchFetch(c, id, fields, name, description) ==
    /\ pending[c] = Idle
    /\ table[id] # NoRow
    /\ pending' = [pending EXCEPT ![c] =
         [method |-> "patch", id |-> id, fetched |-> table[id],
          name |-> IF "name" \in fields THEN name ELSE table[id].name,
          description |-> IF "description" \in fields
                          THEN description ELSE table[id].description]]
    /\ UNCHANGED <<table, writes, copy, lost>>

\* Faulty variant: the statement inserts the row if it is gone.
UpsertResource(c, answered) ==
    /\ pending[c] # Idle
    /\ writes <= MaxWrites
    /\ LET p == pending[c]
           new == [name |-> p.name, description |-> p.description,
                   updatedAt |-> writes]
       IN  /\ NameFree(p.id, p.name)
           /\ table' = [table EXCEPT ![p.id] = new]
           /\ copy' = IF answered
                      THEN [copy EXCEPT ![c] = Resource(p.id, new)]
                      ELSE copy
    /\ writes' = writes + 1
    /\ pending' = [pending EXCEPT ![c] = Idle]
    /\ UNCHANGED lost

(***************************************************************************)
(* The update statement of PUT and PATCH and the answer, which may not     *)
(* reach the client.  It finds the row by id alone.                        *)
(***************************************************************************)
UpdateResource(c, answered) ==
    /\ pending[c] # Idle
    /\ writes <= MaxWrites
    /\ LET p == pending[c]
           new == [name |-> p.name, description |-> p.description,
                   updatedAt |-> writes]
       IN  /\ table[p.id] # NoRow
           /\ NameFree(p.id, p.name)
           /\ table' = [table EXCEPT ![p.id] = new]
           /\ copy' = IF answered
                      THEN [copy EXCEPT ![c] = Resource(p.id, new)]
                      ELSE copy
           /\ lost' = (lost \/ (p.method = "put" /\ table[p.id] # p.fetched))
    /\ writes' = writes + 1
    /\ pending' = [pending EXCEPT ![c] = Idle]

\* The row is gone, the name is taken, or the database failed: the handler
\* answers 404 or 500.
UpdateFails(c) ==
    /\ pending[c] # Idle
    /\ pending' = [pending EXCEPT ![c] = Idle]
    /\ UNCHANGED <<table, writes, copy, lost>>

DeleteResource(id) ==
    /\ table[id] # NoRow
    /\ table' = [table EXCEPT ![id] = NoRow]
    /\ UNCHANGED <<writes, pending, copy, lost>>

Next ==
    \/ \E id \in Ids : DeleteResource(id)
    \/ \E c \in Clients :
        \/ \E id \in Ids : GetResource(c, id)
        \/ \E name \in AnyName, d \in Descriptions : UpdateFetch(c, name, d)
        \/ \E id \in Ids, fields \in SUBSET {"name", "description"},
              name \in AnyName, d \in Descriptions :
                PatchFetch(c, id, fields, name, d)
        \/ \E answered \in BOOLEAN : UpdateResource(c, answered)
        \/ UpdateFails(c)

Spec == Init /\ [][Next]_vars

--------------------------------------------------------------------------------
\* Every variable has its type; a pending write and a copy name an id.
TypeOK ==
    /\ table \in [Ids -> Rows \cup {NoRow}]
    /\ writes \in Nat
    /\ pending \in [Clients -> Pendings \cup {Idle}]
    /\ copy \in [Clients -> Resources \cup {NoCopy}]
    /\ lost \in BOOLEAN

(***************************************************************************)
(* A client whose tag still matches has the current content: a 304 to its  *)
(* If-None-Match is true, and its If-Match speaks of what it has seen.     *)
(* Whatever was updated or deleted in between, by whom ever, and also if   *)
(* the answer to its own write was lost (handleGet, computeETag).          *)
(***************************************************************************)
TagIdentifiesContent ==
    \A c \in Clients :
        copy[c] # NoCopy =>
            LET id == copy[c].id
            IN  (/\ table[id] # NoRow
                 /\ copy[c].etag = computeETag(id, table[id].updatedAt))
                => copy[c] = Resource(id, table[id])

(***************************************************************************)
(* A row that was deleted stays away: the late write of a PUT or PATCH     *)
(* that had read it earlier does not revive it.                            *)
(***************************************************************************)
DeletedStaysDeleted ==
    [][\A id \in Ids :
          table[id] = NoRow => table'[id] = NoRow]_vars

(***************************************************************************)
(* What the tags are for: a PUT that is accepted replaces the version the  *)
(* client has seen.  The code does not keep it: the row may change between *)
(* the comparison and the update.                                          *)
(***************************************************************************)
NoLostUpdate == ~lost
================================================================================
