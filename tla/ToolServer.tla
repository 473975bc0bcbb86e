------------------------------ MODULE ToolServer ------------------------------
(***************************************************************************)
(* The control server for agents (services/chamicore-mcp): tool calls that *)
(* arrive over HTTP, HTTP with an event stream, or stdin, pass the policy  *)
(* checks, are executed by calls to other services, and leave an audit     *)
(* record.                                                                 *)
(*                                                                         *)
(* A handler runs in the context of its request: when the client goes away *)
(* the calls that are still to be made fail.  The other services are       *)
(* external: a call to one succeeds, is refused, or takes effect although  *)
(* its caller gets an error.                                               *)
(*                                                                         *)
(* A tool may stand for several: bootparams.get for every read,            *)
(* targets.create and targets.delete for the writes of discovery, which    *)
(* are one call each.  What the resources contain is left out.             *)
(***************************************************************************)
EXTENDS Naturals, Sequences

CONSTANTS
    Calls,          \* tool calls that may be made
    Environments,   \* configurations the service may be started with
    Requests,       \* per call, what its caller may send
    JWTs,           \* session tokens that are JWTs
    Claims,         \* per JWT, the scopes and roles it claims
    RowIds,         \* rows that the upsert and delete tools may touch
    Members         \* group members of a removal

NoRow == "none"
Tokens == {"none", "opaque"} \cup JWTs

\* What the argument "operation" asks for.
Operations == {"none", "harmless", "destructive"}

Upserts == {"bootparams.upsert", "payloads.upsert"}
Deletes == {"bootparams.delete", "payloads.delete"}
Tools == Upserts \cup Deletes
    \cup {"health_summary", "bootparams.get", "members.add",
          "members.remove", "transitions.create", "transitions.abort",
          "transitions.wait", "targets.create", "targets.delete"}

ASSUME ConstantsAssumption ==
    /\ RowIds # {} /\ NoRow \notin RowIds
    /\ \A e \in Environments :
        /\ e.transport \in {"http", "stdio"}
        /\ e.mode \in {"read-only", "read-write"}
        /\ e.enableWrite \in BOOLEAN /\ e.allowCLI \in BOOLEAN
        /\ {e.mcpToken, e.sharedToken, e.cliToken} \subseteq Tokens
    /\ {"none", "opaque"} \cap JWTs = {}
    /\ \A c \in Calls : Requests[c] \subseteq
        [tool : Tools \cup {"unknown"}, token : {"session", "other", "none"},
         body : {"strict", "loose", "bad", "unframed"},
         args : {"valid", "invalid"}, confirm : BOOLEAN,
         operation : Operations, folded : Operations]

VARIABLES
    config,     \* transport, mode and session token
    process,    \* "up", "stopping" or "exited"
    pc,         \* per call, where its handler is
    request,    \* per call, what was sent
    channel,    \* per call, the endpoint it came in by
    gone,       \* calls whose client has disconnected
    found,      \* per call, the row the handler has looked up
    result,     \* per call, what the execution returned
    audit,      \* per call, its audit records
    effect,     \* per call, the writes it has made in other services
    rows,       \* other services: boot parameters and payloads of a component
    settled     \* other services: the transition waited for is terminal

upstream == <<rows, settled>>
vars == <<config, process, pc, request, channel, gone, found, result, audit,
          effect, upstream>>

-----------------------------------------------------------------------------
\* api/tools.yaml.  Every tool asks for the scope admin.
Contract ==
    [t \in Tools |->
        [capability |-> IF t \in {"health_summary", "bootparams.get"}
                        THEN "read" ELSE "write",
         confirmationRequired |->
            t \in Deletes \cup {"targets.delete", "transitions.abort"},
         requiredScopes |-> {"admin"}]]

NoRequest == [tool |-> "none"]

\* Cloud-init has at most one payload per component; boot parameters are
\* unique by another key.
Stores == {"bss", "cloudinit"}
StoreOf(tool) ==
    IF tool \in {"payloads.upsert", "payloads.delete"}
    THEN "cloudinit" ELSE "bss"
UniqueComponent(store) == store = "cloudinit"

\* Starting.

ResolveToken(e) ==
    CASE e.mcpToken # "none" -> e.mcpToken
      [] e.mcpToken = "none" /\ e.sharedToken # "none" -> e.sharedToken
      [] OTHER -> IF e.allowCLI THEN e.cliToken ELSE "none"

\* The service refuses to start otherwise.
NewGuard(e) == e.mode = "read-write" => e.enableWrite

\* The first claim that lists any scope counts, and the role admin is a scope.
ParseJWTPrincipal(token) ==
    LET claims == Claims[token]
        listed == CASE claims.scope # {} -> claims.scope
                    [] claims.scope = {} /\ claims.scopes # {} -> claims.scopes
                    [] OTHER -> claims.scp
    IN  listed \cup (claims.roles \cap {"admin"})

\* Scopes of the session: a token that is no JWT has them all.
DeriveSessionPrincipal(token) ==
    IF token \in JWTs THEN ParseJWTPrincipal(token) ELSE {"admin"}

-----------------------------------------------------------------------------
\* The checks before a tool runs.

AuthenticateHTTP(r) == config.token # "none" /\ r.token = "session"
AuthenticateStdio == config.token # "none"

\* Faulty variant: any known capability will do.
AuthorizeToolLax(tool) == Contract[tool].capability \in {"read", "write"}

AuthorizeTool(tool) ==
    \/ Contract[tool].capability = "read"
    \/ Contract[tool].capability = "write" /\ config.mode = "read-write"

(***************************************************************************)
(* The arguments of a call are a map.  The check looks up the keys         *)
(* "operation" and "confirm" as they are spelled here (r.operation,        *)
(* r.confirm); without a string under "operation" it asks for nothing.     *)
(***************************************************************************)
RequireConfirmation(r) ==
    (\/ Contract[r.tool].confirmationRequired
     \/ r.tool = "transitions.create" /\ r.operation = "destructive")
    => r.confirm

(***************************************************************************)
(* The tool decodes the map into a struct, and encoding/json matches the   *)
(* names of fields in any capitalisation (r.folded is the value under      *)
(* another one).  The map is encoded with sorted keys, in which            *)
(* "operation" follows its other capitalisations, and the last one counts. *)
(***************************************************************************)
DecodedOperation(r) == IF r.operation # "none" THEN r.operation ELSE r.folded

RequireScopes(tool) ==
    LET required == Contract[tool].requiredScopes
        granted == DeriveSessionPrincipal(config.token)
    IN  required = {} \/ "admin" \in granted \/ required \subseteq granted

ParseCallToolRequest(r) ==
    /\ AuthenticateHTTP(r)
    /\ r.body = "strict"
    /\ r.tool \in Tools
    /\ AuthorizeTool(r.tool)
    /\ RequireConfirmation(r)
    /\ RequireScopes(r.tool)

\* Faulty variant: the scopes are checked for HTTP only.
HandleRPCRequestNoScopes(r) ==
    /\ r.body \in {"strict", "loose"}
    /\ r.tool \in Tools
    /\ AuthorizeTool(r.tool)
    /\ AuthenticateStdio
    /\ RequireConfirmation(r)

HandleRPCRequest(r) ==
    /\ r.body \in {"strict", "loose"}
    /\ r.tool \in Tools
    /\ AuthorizeTool(r.tool)
    /\ AuthenticateStdio
    /\ RequireConfirmation(r)
    /\ RequireScopes(r.tool)

Accepts(ch, r) ==
    IF ch = "stdio" THEN HandleRPCRequest(r) ELSE ParseCallToolRequest(r)

-----------------------------------------------------------------------------
Active(c) == pc[c] \notin {"idle", "done"}

Init ==
    /\ \E e \in Environments :
        /\ NewGuard(e)
        /\ config = [transport |-> e.transport, mode |-> e.mode,
                     token |-> ResolveToken(e)]
    /\ process = "up"
    /\ pc = [c \in Calls |-> "idle"]
    /\ request = [c \in Calls |-> NoRequest]
    /\ channel = [c \in Calls |-> "none"]
    /\ gone = {}
    /\ found = [c \in Calls |-> NoRow]
    /\ result = [c \in Calls |-> "none"]
    /\ audit = [c \in Calls |-> <<>>]
    /\ effect = [c \in Calls |-> {}]
    /\ rows \in [Stores -> {{}, {CHOOSE id \in RowIds : TRUE}}]
    /\ settled = FALSE

\* The handler returns; its locals and its context are gone.
Leave(c) ==
    /\ pc' = [pc EXCEPT ![c] = "done"]
    /\ found' = [found EXCEPT ![c] = NoRow]
    /\ result' = [result EXCEPT ![c] = "none"]
    /\ gone' = gone \ {c}

locals == <<gone, found, result>>

\* The result of a call that ends with an error and is still to be recorded.
Fail(c) ==
    /\ pc' = [pc EXCEPT ![c] = "record"]
    /\ result' = [result EXCEPT ![c] = "error"]
    /\ UNCHANGED <<gone, found>>

Entry(ch) == IF ch = "sse" THEN "accepted" ELSE "run"

(***************************************************************************)
(* A line that is no JSON-RPC 2.0 request is answered with an error before *)
(* the loop has looked for a tool call in it, and before the record of one *)
(* is deferred.                                                            *)
(***************************************************************************)
Unframed(ch, r) == ch = "stdio" /\ r.body = "unframed"

(***************************************************************************)
(* A call arrives and passes the checks or is refused.  Over HTTP the      *)
(* refusal has been sent when its record is deferred; on stdin it is sent  *)
(* after it is recorded.  The stdio loop reads the next line only when it  *)
(* has answered the last one; an HTTP server that is shutting down takes   *)
(* no new call.                                                            *)
(***************************************************************************)
ReceiveCall(c, ch, r) ==
    /\ process = "up"
    /\ pc[c] = "idle"
    /\ IF config.transport = "stdio"
       THEN ch = "stdio" /\ \A d \in Calls : ~Active(d)
       ELSE ch \in {"http", "sse"}
    /\ request' = [request EXCEPT ![c] = r]
    /\ channel' = [channel EXCEPT ![c] = ch]
    /\ \/ /\ Accepts(ch, r)
          /\ pc' = [pc EXCEPT ![c] = Entry(ch)]
          /\ UNCHANGED locals
       \/ /\ Unframed(ch, r)
          /\ pc' = [pc EXCEPT ![c] = "reply"]
          /\ UNCHANGED locals
       \/ ~Accepts(ch, r) /\ ~Unframed(ch, r) /\ Fail(c)
    /\ UNCHANGED <<config, process, audit, effect, upstream>>

\* Faulty variant: the record is deferred only after the accepted event.
WriteAcceptedFirst(c, written) ==
    /\ pc[c] = "accepted"
    /\ written => c \notin gone
    /\ IF written
       THEN pc' = [pc EXCEPT ![c] = "run"] /\ UNCHANGED locals
       ELSE Leave(c)
    /\ UNCHANGED <<config, process, request, channel, audit, effect, upstream>>

\* The accepted event of a stream.  Without it nothing is executed.
WriteAccepted(c, written) ==
    /\ pc[c] = "accepted"
    /\ written => c \notin gone
    /\ IF written
       THEN pc' = [pc EXCEPT ![c] = "run"] /\ UNCHANGED locals
       ELSE Fail(c)
    /\ UNCHANGED <<config, process, request, channel, audit, effect, upstream>>

-----------------------------------------------------------------------------
\* Execution (Runner.Call).

\* How a call to another service ends.  With its context cancelled it is not
\* sent.
Outcomes == {"ok", "refused", "lost"}
Reaches(c, outcome) == outcome # "refused" => c \notin gone

\* HTTP handlers answer and then record, the stdio handler records first.
Return(c, res) ==
    /\ result' = [result EXCEPT ![c] = res]
    /\ pc' = [pc EXCEPT ![c] =
                IF channel[c] = "stdio" THEN "record" ELSE "answer"]

\* Faulty variant: the error of the call is dropped.
ResultOfDropped(outcome) == "success"

ResultOf(outcome) == IF outcome = "ok" THEN "success" ELSE "error"

Effect(c, outcome, w) ==
    effect' = IF outcome = "refused" THEN effect
              ELSE [effect EXCEPT ![c] = @ \cup {w}]

ValidArgs(r) ==
    /\ r.args = "valid"
    /\ r.tool = "transitions.create" => DecodedOperation(r) # "none"

Running(c, tools) ==
    /\ pc[c] = "run"
    /\ request[c].tool \in tools
    /\ ValidArgs(request[c])

frame == <<config, process, request, channel, gone, audit>>

\* decodeArgsStrict and the checks of required arguments.
DecodeArgsFails(c) ==
    /\ pc[c] = "run"
    /\ ~ValidArgs(request[c])
    /\ Return(c, "error")
    /\ UNCHANGED <<frame, found, effect, upstream>>

\* The summary reports services that do not answer; it does not fail.
ClusterHealthSummary(c) ==
    /\ Running(c, {"health_summary"})
    /\ Return(c, "success")
    /\ UNCHANGED <<frame, found, effect, upstream>>

\* The first row of the component, if the list can be had.
Listed(c, outcome, row) ==
    /\ outcome # "lost"
    /\ Reaches(c, outcome)
    /\ LET have == rows[StoreOf(request[c].tool)]
       IN  row \in IF have = {} THEN {NoRow} ELSE have

BootParamsGet(c, outcome, row) ==
    /\ Running(c, {"bootparams.get"})
    /\ Listed(c, outcome, row)
    /\ Return(c, IF outcome = "ok" /\ row # NoRow THEN "success" ELSE "error")
    /\ UNCHANGED <<frame, found, effect, upstream>>

\* Upsert and delete look for the row before they write.  A delete ends when
\* there is none.
LoadExisting(c, tool, outcome, row) ==
    /\ Running(c, {tool})
    /\ Listed(c, outcome, row)
    /\ IF outcome # "ok" \/ (tool \in Deletes /\ row = NoRow)
       THEN Return(c, "error") /\ UNCHANGED found
       ELSE /\ found' = [found EXCEPT ![c] = row]
            /\ pc' = [pc EXCEPT ![c] = "write"]
            /\ UNCHANGED result
    /\ UNCHANGED <<frame, effect, upstream>>

(***************************************************************************)
(* The write: a new row if none was found, otherwise a patch or a delete   *)
(* of the one found, which may be gone by now.                             *)
(***************************************************************************)
WriteRow(c, tool, outcome, id) ==
    LET store == StoreOf(tool)
        have == rows[store]
    IN  /\ pc[c] = "write"
        /\ request[c].tool = tool
        /\ id \in RowIds
        /\ Reaches(c, outcome)
        /\ found[c] # NoRow => id = found[c]
        /\ \/ outcome = "refused"
           \/ found[c] # NoRow /\ id \in have
           \/ /\ found[c] = NoRow /\ id \notin have
              /\ UniqueComponent(store) => have = {}
        /\ rows' = [rows EXCEPT ![store] =
                CASE outcome = "refused" -> have
                  [] outcome # "refused" /\ tool \in Deletes -> have \ {id}
                  [] OTHER -> have \cup {id}]
        /\ Effect(c, outcome, "row")
        /\ Return(c, ResultOf(outcome))
        /\ UNCHANGED <<frame, found, settled>>

LookUpAndWrite(c, tool, outcome, row) ==
    LoadExisting(c, tool, outcome, row) \/ WriteRow(c, tool, outcome, row)

BssBootParamsUpsert(c, outcome, row) ==
    LookUpAndWrite(c, "bootparams.upsert", outcome, row)
BssBootParamsDelete(c, outcome, row) ==
    LookUpAndWrite(c, "bootparams.delete", outcome, row)
CloudInitPayloadsUpsert(c, outcome, row) ==
    LookUpAndWrite(c, "payloads.upsert", outcome, row)
CloudInitPayloadsDelete(c, outcome, row) ==
    LookUpAndWrite(c, "payloads.delete", outcome, row)

\* Tools that make one call.
SubmitOnce(c, tools, outcome) ==
    /\ Running(c, tools)
    /\ Reaches(c, outcome)
    /\ Effect(c, outcome, "sent")
    /\ Return(c, ResultOf(outcome))
    /\ UNCHANGED <<frame, found, upstream>>

TransitionsCreate(c, outcome) ==
    SubmitOnce(c, {"transitions.create"}, outcome)
TransitionsAbort(c, outcome) ==
    SubmitOnce(c, {"transitions.abort"}, outcome)
TargetsCreate(c, outcome) == SubmitOnce(c, {"targets.create"}, outcome)
TargetsDelete(c, outcome) == SubmitOnce(c, {"targets.delete"}, outcome)

\* All members are added by one call; the group is loaded afterwards.
GroupsMembersAdd(c, outcome) ==
    /\ Running(c, {"members.add"})
    /\ Reaches(c, outcome)
    /\ effect' = IF outcome = "refused" THEN effect
                 ELSE [effect EXCEPT ![c] = Members]
    /\ IF outcome = "ok"
       THEN pc' = [pc EXCEPT ![c] = "group"] /\ UNCHANGED result
       ELSE Return(c, "error")
    /\ UNCHANGED <<frame, found, upstream>>

(***************************************************************************)
(* Members are removed one by one, in the order given.  The first error    *)
(* ends the loop and leaves the earlier removals in place.                 *)
(***************************************************************************)
GroupsMembersRemove(c, outcome, m) ==
    /\ Running(c, {"members.remove"})
    /\ Reaches(c, outcome)
    /\ m \in Members \ effect[c]
    /\ Effect(c, outcome, m)
    /\ IF outcome = "ok"
       THEN /\ pc' = [pc EXCEPT ![c] =
                        IF Members \subseteq effect[c] \cup {m} THEN "group"
                        ELSE "run"]
            /\ UNCHANGED result
       ELSE Return(c, "error")
    /\ UNCHANGED <<frame, found, upstream>>

GetGroup(c, outcome) ==
    /\ pc[c] = "group"
    /\ Reaches(c, outcome)
    /\ outcome # "lost"
    /\ Return(c, ResultOf(outcome))
    /\ UNCHANGED <<frame, found, effect, upstream>>

\* A poll that finds the transition terminal.  One that finds it running
\* changes nothing.
TransitionsWait(c) ==
    /\ Running(c, {"transitions.wait"})
    /\ c \notin gone
    /\ settled
    /\ Return(c, "success")
    /\ UNCHANGED <<frame, found, effect, upstream>>

PollFails(c) ==
    /\ Running(c, {"transitions.wait"})
    /\ Return(c, "error")
    /\ UNCHANGED <<frame, found, effect, upstream>>

\* Faulty variant: the tool sets no deadline of its own.
WaitNoTimeout(c) ==
    /\ Running(c, {"transitions.wait"})
    /\ c \in gone
    /\ Return(c, "error")
    /\ UNCHANGED <<frame, found, effect, upstream>>

\* The deadline of the wait, by default 90 s, or the client is gone.
WaitTimeout(c) ==
    /\ Running(c, {"transitions.wait"})
    /\ Return(c, "error")
    /\ UNCHANGED <<frame, found, effect, upstream>>

-----------------------------------------------------------------------------
\* The answer over HTTP.  A stream that cannot take the result is recorded as
\* an error whatever was executed.
Answer(c, written) ==
    /\ pc[c] = "answer"
    /\ channel[c] = "sse" /\ written => c \notin gone
    /\ pc' = [pc EXCEPT ![c] = "record"]
    /\ result' = [result EXCEPT ![c] =
                    IF channel[c] = "sse" /\ ~written THEN "error" ELSE @]
    /\ UNCHANGED <<config, process, request, channel, gone, found, audit,
                   effect, upstream>>

\* Faulty variant: a result that is not a success is recorded empty.
CompleteNoDefault(c) ==
    audit' = [audit EXCEPT ![c] =
                Append(@, IF result[c] = "success" THEN "success" ELSE "")]

\* auditLogger.Complete writes the record.
Complete(c) == audit' = [audit EXCEPT ![c] = Append(@, result[c])]

\* The deferred call.  It ends a handler of HTTP; the answer on stdin follows.
Record(c) ==
    /\ pc[c] = "record"
    /\ Complete(c)
    /\ IF channel[c] = "stdio"
       THEN /\ pc' = [pc EXCEPT ![c] = "reply"]
            /\ result' = [result EXCEPT ![c] = "none"]
            /\ UNCHANGED <<gone, found>>
       ELSE Leave(c)
    /\ UNCHANGED <<config, process, request, channel, effect, upstream>>

\* The answer on stdin.  A failure to write it ends the service.
WriteRPC(c, written) ==
    /\ pc[c] = "reply"
    /\ Leave(c)
    /\ process' = IF written THEN process ELSE "exited"
    /\ UNCHANGED <<config, request, channel, audit, effect, upstream>>

-----------------------------------------------------------------------------
\* The client of an HTTP call goes away.
Disconnect(c) ==
    /\ Active(c)
    /\ channel[c] # "stdio"
    /\ gone' = gone \cup {c}
    /\ UNCHANGED <<config, process, pc, request, channel, found, result,
                   audit, effect, upstream>>

\* External: the transition somebody waits for ends.
TransitionSettles ==
    /\ ~settled
    /\ settled' = TRUE
    /\ UNCHANGED <<config, process, pc, request, channel, gone, found, result,
                   audit, effect, rows>>

others == <<config, pc, request, channel, gone, found, result, audit, effect,
            upstream>>

\* A signal.  The HTTP server waits for its handlers; the stdio service has
\* no handler for signals and dies.
Shutdown ==
    /\ process = "up"
    /\ process' = IF config.transport = "http" THEN "stopping" ELSE "exited"
    /\ UNCHANGED others

\* srv.Shutdown returns: no handler is left.
Stopped ==
    /\ process = "stopping"
    /\ \A c \in Calls : ~Active(c)
    /\ process' = "exited"
    /\ UNCHANGED others

\* The 15 s of srv.Shutdown are over and the process exits with its handlers.
ShutdownTimeout ==
    /\ process = "stopping"
    /\ process' = "exited"
    /\ UNCHANGED others

\* End of input.
StdioEnd ==
    /\ process = "up"
    /\ config.transport = "stdio"
    /\ \A c \in Calls : ~Active(c)
    /\ process' = "exited"
    /\ UNCHANGED others

Exec(c) ==
    \/ DecodeArgsFails(c)
    \/ ClusterHealthSummary(c)
    \/ TransitionsWait(c)
    \/ WaitTimeout(c)
    \/ \E outcome \in Outcomes :
        \/ \E row \in RowIds \cup {NoRow} :
            \/ BootParamsGet(c, outcome, row)
            \/ BssBootParamsUpsert(c, outcome, row)
            \/ BssBootParamsDelete(c, outcome, row)
            \/ CloudInitPayloadsUpsert(c, outcome, row)
            \/ CloudInitPayloadsDelete(c, outcome, row)
        \/ \E m \in Members : GroupsMembersRemove(c, outcome, m)
        \/ TransitionsCreate(c, outcome)
        \/ TransitionsAbort(c, outcome)
        \/ TargetsCreate(c, outcome)
        \/ TargetsDelete(c, outcome)
        \/ GroupsMembersAdd(c, outcome)
        \/ GetGroup(c, outcome)

HandlerStep(c) ==
    /\ process # "exited"
    /\ Active(c)
    /\ \/ Exec(c)
       \/ \E written \in BOOLEAN : WriteAccepted(c, written)
       \/ \E written \in BOOLEAN : Answer(c, written)
       \/ Record(c)
       \/ \E written \in BOOLEAN : WriteRPC(c, written)

Next ==
    \/ process # "exited" /\ \E c \in Calls : Disconnect(c)
    \/ \E c \in Calls, ch \in {"http", "sse", "stdio"} :
        \E r \in Requests[c] : ReceiveCall(c, ch, r)
    \/ \E c \in Calls : HandlerStep(c)
    \/ process # "exited" /\ \E c \in Calls : PollFails(c)
    \/ process # "exited" /\ TransitionSettles
    \/ Shutdown
    \/ Stopped
    \/ ShutdownTimeout
    \/ StdioEnd

Spec == Init /\ [][Next]_vars

\* Handlers are goroutines, the calls they make return, and the wait has a
\* deadline.  That a poll fails is not to be counted on, nor a shutdown.
FairSpec == Spec /\ \A c \in Calls : WF_vars(HandlerStep(c))

-----------------------------------------------------------------------------
TypeOK ==
    /\ config \in [transport : {"http", "stdio"},
                   mode : {"read-only", "read-write"}, token : Tokens]
    /\ process \in {"up", "stopping", "exited"}
    /\ pc \in [Calls -> {"idle", "accepted", "run", "write", "group",
                         "answer", "record", "reply", "done"}]
    /\ DOMAIN request = Calls
    /\ \A c \in Calls : request[c] \in Requests[c] \cup {NoRequest}
    /\ channel \in [Calls -> {"none", "http", "sse", "stdio"}]
    /\ gone \subseteq Calls
    /\ found \in [Calls -> RowIds \cup {NoRow}]
    /\ result \in [Calls -> {"none", "success", "error"}]
    /\ audit \in [Calls -> Seq({"success", "error"})]
    /\ effect \in [Calls -> SUBSET (Members \cup {"row", "sent"})]
    /\ rows \in [Stores -> SUBSET RowIds]
    /\ settled \in BOOLEAN

\* Tools that always need a confirmation (ADR-018, section 4).
AlwaysConfirmed == {"bootparams.delete", "payloads.delete", "targets.delete",
                    "transitions.abort"}

(***************************************************************************)
(* Nothing is written in another service unless the service runs in        *)
(* read-write mode, the session has a token with the scope admin and the   *)
(* call named it (over HTTP), a delete or an abort was confirmed, and so   *)
(* was a transition whose argument "operation" is destructive: by every    *)
(* transport and at every step of every tool (parseCallToolRequest,        *)
(* handleRPCRequest).  An operation under another capitalisation of that   *)
(* key is not covered: DestructiveIsConfirmed is about it.                 *)
(***************************************************************************)
OnlyAllowedEffects ==
    \A c \in Calls : effect[c] # {} =>
        LET r == request[c]
        IN  /\ config.mode = "read-write"
            /\ config.token # "none"
            /\ "admin" \in DeriveSessionPrincipal(config.token)
            /\ channel[c] # "stdio" => r.token = "session"
            /\ r.tool \in AlwaysConfirmed => r.confirm
            /\ r.tool = "transitions.create" /\ r.operation = "destructive"
                => r.confirm

(***************************************************************************)
(* The policy as it is documented: whatever the tool executes, it was      *)
(* confirmed if it is destructive.  The code does not keep it: the check   *)
(* and the decoder of the tool do not read the same key (RequireConfirma-  *)
(* tion, decodeArgsStrict).                                                *)
(***************************************************************************)
DestructiveIsConfirmed ==
    \A c \in Calls : effect[c] # {} =>
        LET r == request[c]
        IN  (\/ r.tool \in AlwaysConfirmed
             \/ /\ r.tool = "transitions.create"
                /\ DecodedOperation(r) = "destructive") => r.confirm

(***************************************************************************)
(* The two transports have separate copies of the checks, in different     *)
(* orders; a well-formed call of the session that arrives over one of them *)
(* would have met the same verdict over the other (parseCallToolRequest,   *)
(* handleRPCRequest).                                                      *)
(***************************************************************************)
TransportsAgree ==
    \A c \in Calls : LET r == request[c] IN
        r # NoRequest /\ r.token = "session" /\ r.body = "strict" =>
            (ParseCallToolRequest(r) <=> HandleRPCRequest(r))

(***************************************************************************)
(* No call has two records, and none is left without one when its handler  *)
(* has ended, or on stdin when its answer is sent: whichever check refused *)
(* it, whatever the stream could not take.  The exception is a line that   *)
(* is no JSON-RPC 2.0 request, which has done nothing (the Complete that   *)
(* three handlers defer, each at its own place).                           *)
(***************************************************************************)
AuditedOnce ==
    \A c \in Calls :
        /\ Len(audit[c]) <= 1
        /\ pc[c] \in {"reply", "done"} =>
              \/ Len(audit[c]) = 1
              \/ Unframed(channel[c], request[c]) /\ effect[c] = {}

\* All that the tool is to do has been done.
Achieved(c) ==
    CASE request[c].tool \in Upserts \cup Deletes -> effect[c] = {"row"}
      [] request[c].tool \in {"members.add", "members.remove"} ->
            effect[c] = Members
      [] request[c].tool = "transitions.wait" -> settled
      [] request[c].tool \in {"transitions.create", "transitions.abort",
                              "targets.create", "targets.delete"} ->
            effect[c] = {"sent"}
      [] OTHER -> TRUE

(***************************************************************************)
(* A record that says success is true: the call did everything it was to   *)
(* do, although others changed the same rows, the client left, or one of   *)
(* several calls to other services failed (Runner.Call).                   *)
(***************************************************************************)
SuccessRecordIsTrue ==
    \A c \in Calls : "success" \in {audit[c][i] : i \in DOMAIN audit[c]} =>
        Achieved(c)

\* Every call ends, also a wait for a transition that never does, unless the
\* process does (powerTransitionsWait).
CallEnds ==
    \A c \in Calls : Active(c) ~> (pc[c] = "done" \/ process = "exited")
=============================================================================
