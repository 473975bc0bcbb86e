-------------------------- MODULE ToolServerProofs --------------------------
(***************************************************************************)
(* What the control server promises of every tool call, for any number of  *)
(* concurrent calls, of rows and of group members, any configurations and  *)
(* any requests: nothing is written without permission, no call that got   *)
(* past the framing of a line ends without its audit record, and a record  *)
(* of success is true.                                                     *)
(*                                                                         *)
(* CallInv is the inductive invariant.  The properties speak of writes and *)
(* records, which come last; the invariant says what the call has passed   *)
(* and done before: the checks when it is under way, which writes are      *)
(* still to come at each point of the handler, that whatever leaves the    *)
(* execution or is refused has a result to be recorded, and that this      *)
(* result is true.                                                         *)
(***************************************************************************)
EXTENDS ToolServer, TLAPS

Reads == {"health_summary", "bootparams.get"}

\* Where a handler is only after the checks.
Admitted == {"accepted", "run", "write", "group", "answer"}

\* What is true of one call.
CallTrue(c) ==
    /\ pc[c] \in Admitted => Accepts(channel[c], request[c])
    /\ effect[c] # {} => Accepts(channel[c], request[c]) /\ request[c].tool \notin Reads
    /\ pc[c] \in {"idle", "accepted"} => effect[c] = {}
    /\ pc[c] = "run" =>
          \/ effect[c] = {}
          \/ request[c].tool = "members.remove" /\ effect[c] \subseteq Members
    /\ pc[c] = "write" => request[c].tool \in Upserts \cup Deletes /\ effect[c] = {}
    /\ pc[c] = "group" =>
          request[c].tool \in {"members.add", "members.remove"} /\ effect[c] = Members
    /\ result[c] # "none" <=> pc[c] \in {"answer", "record"}
    /\ result[c] = "success" => Achieved(c)
    /\ pc[c] \notin {"reply", "done"} => audit[c] = <<>>
    /\ pc[c] \in {"reply", "done"} =>
          \/ Len(audit[c]) = 1 /\ (audit[c][1] = "success" => Achieved(c))
          \/ audit[c] = <<>> /\ Unframed(channel[c], request[c]) /\ effect[c] = {}

CallsTrue == \A c \in Calls : CallTrue(c)

CallInv == TypeOK /\ CallsTrue

-----------------------------------------------------------------------------
(* Steps.                                                                  *)

\* Nothing changes that is true of the call.
SameCall(c) ==
    /\ pc'[c] = pc[c] /\ request'[c] = request[c] /\ channel'[c] = channel[c]
    /\ result'[c] = result[c] /\ audit'[c] = audit[c] /\ effect'[c] = effect[c]

\* The configuration is read once, and a transition stays settled.
World == config' = config /\ (settled => settled')

LEMMA SameCallTrue ==
    ASSUME NEW c \in Calls, CallTrue(c), SameCall(c), World
    PROVE  CallTrue(c)'
<1>1. Unframed(channel[c], request[c])' <=> Unframed(channel[c], request[c])
  BY DEF SameCall, Unframed
<1>2. Accepts(channel[c], request[c])' <=> Accepts(channel[c], request[c])
  BY DEF SameCall, World, Accepts, HandleRPCRequest, ParseCallToolRequest, AuthenticateHTTP,
         AuthenticateStdio, AuthorizeTool, RequireConfirmation, RequireScopes
<1>3. Achieved(c) => Achieved(c)'
  BY DEF SameCall, World, Achieved
<1> QED
  BY <1>1, <1>2, <1>3 DEF SameCall, CallTrue

LEMMA OneCallConcerned ==
    ASSUME CallsTrue, NEW c \in Calls, World, \A d \in Calls \ {c} : SameCall(d), CallTrue(c)'
    PROVE  CallsTrue'
BY SameCallTrue DEF CallsTrue

\* The checks do not depend on anything that changes while a call runs.
LEMMA StillAccepted ==
    ASSUME NEW c \in Calls, World, request'[c] = request[c], channel'[c] = channel[c]
    PROVE  Accepts(channel[c], request[c])' <=> Accepts(channel[c], request[c])
BY DEF World, Accepts, HandleRPCRequest, ParseCallToolRequest, AuthenticateHTTP,
       AuthenticateStdio, AuthorizeTool, RequireConfirmation, RequireScopes

LEMMA InitCallInv == Init => CallInv
<1> SUFFICES ASSUME Init PROVE CallInv
  OBVIOUS
<1>1. PICK e \in Environments : config = [transport |-> e.transport, mode |-> e.mode,
                                          token |-> ResolveToken(e)]
  BY DEF Init
<1>2. ResolveToken(e) \in Tokens
  BY ConstantsAssumption DEF ResolveToken, Tokens
<1>3. config \in [transport : {"http", "stdio"}, mode : {"read-only", "read-write"}, token : Tokens]
  BY <1>1, <1>2, ConstantsAssumption
<1>4. (CHOOSE id \in RowIds : TRUE) \in RowIds
  BY ConstantsAssumption
<1>5. rows \in [Stores -> SUBSET RowIds]
  BY <1>4 DEF Init
<1>6. TypeOK
  <2>1. audit \in [Calls -> Seq({"success", "error"})] /\ settled \in BOOLEAN
    <3>1. audit \in [Calls -> Seq({"success", "error"})]
      BY DEF Init
    <3>2. settled \in BOOLEAN
      BY Zenon DEF Init
    <3> QED
      BY <3>1, <3>2
  <2>2. DOMAIN request = Calls /\ \A c \in Calls : request[c] \in Requests[c] \cup {NoRequest}
    BY DEF Init
  <2>3. /\ process \in {"up", "stopping", "exited"}
        /\ pc \in [Calls -> {"idle", "accepted", "run", "write", "group", "answer", "record",
                             "reply", "done"}]
        /\ channel \in [Calls -> {"none", "http", "sse", "stdio"}]
        /\ gone \subseteq Calls
        /\ found \in [Calls -> RowIds \cup {NoRow}]
        /\ result \in [Calls -> {"none", "success", "error"}]
        /\ effect \in [Calls -> SUBSET (Members \cup {"row", "sent"})]
    BY DEF Init
  <2> QED
    BY <1>3, <1>5, <2>1, <2>2, <2>3 DEF TypeOK
<1>7. CallsTrue
  BY DEF Init, CallsTrue, CallTrue, Admitted
<1> QED
  BY <1>6, <1>7 DEF CallInv

\* A call that ends with an error goes on to its record.
LEMMA FailRecords ==
    ASSUME CallInv, NEW c \in Calls, Fail(c)
    PROVE  /\ pc'[c] = "record" /\ result'[c] = "error"
           /\ \A d \in Calls \ {c} : pc'[d] = pc[d] /\ result'[d] = result[d]
           /\ UNCHANGED <<gone, found>>
           /\ pc' \in [Calls -> {"idle", "accepted", "run", "write", "group", "answer", "record",
                                 "reply", "done"}]
           /\ result' \in [Calls -> {"none", "success", "error"}]
BY DEF Fail, CallInv, TypeOK

\* The handler ends.
LEMMA LeaveEnds ==
    ASSUME CallInv, NEW c \in Calls, Leave(c)
    PROVE  /\ pc'[c] = "done" /\ result'[c] = "none"
           /\ \A d \in Calls \ {c} : pc'[d] = pc[d] /\ result'[d] = result[d]
           /\ pc' \in [Calls -> {"idle", "accepted", "run", "write", "group", "answer", "record",
                                 "reply", "done"}]
           /\ gone' \subseteq Calls
           /\ found' \in [Calls -> RowIds \cup {NoRow}]
           /\ result' \in [Calls -> {"none", "success", "error"}]
BY DEF Leave, CallInv, TypeOK

LEMMA RecordIsLast ==
    ASSUME NEW c \in Calls, NEW res, audit'[c] = <<res>>
    PROVE  Len(audit'[c]) = 1 /\ audit'[c][1] = res
OBVIOUS

\* A call arrives.
LEMMA ReceiveCallInv ==
    ASSUME CallInv, NEW c \in Calls, NEW ch \in {"http", "sse", "stdio"}, NEW r \in Requests[c],
           ReceiveCall(c, ch, r)
    PROVE  CallInv'
<1>a. /\ pc[c] = "idle" /\ UNCHANGED <<config, process, effect, rows, settled>>
      /\ request' = [request EXCEPT ![c] = r] /\ channel' = [channel EXCEPT ![c] = ch]
  BY DEF ReceiveCall, upstream
<1>b. /\ request'[c] = r /\ channel'[c] = ch
      /\ \A d \in Calls \ {c} : request'[d] = request[d] /\ channel'[d] = channel[d]
  BY <1>a DEF CallInv, TypeOK
<1>c. CallTrue(c)
  BY DEF CallInv, CallsTrue
<1>d. effect[c] = {} /\ effect'[c] = {} /\ audit[c] = <<>> /\ result[c] = "none"
  BY <1>a, <1>c DEF CallTrue
<1>e. World
  BY <1>a DEF World
<1>f. Accepts(channel[c], request[c])' <=> Accepts(ch, r)
  BY <1>a, <1>b DEF Accepts, HandleRPCRequest, ParseCallToolRequest, AuthenticateHTTP,
     AuthenticateStdio, AuthorizeTool, RequireConfirmation, RequireScopes
<1>g. DOMAIN request' = Calls /\ \A d \in Calls : request'[d] \in Requests[d] \cup {NoRequest}
  BY <1>a, <1>b DEF CallInv, TypeOK
<1>h. audit' = audit
  BY DEF ReceiveCall
<1>1. CASE Accepts(ch, r) /\ pc' = [pc EXCEPT ![c] = Entry(ch)] /\ UNCHANGED locals
  <2>1. pc'[c] \in {"accepted", "run"} /\ \A d \in Calls \ {c} : pc'[d] = pc[d]
    BY <1>1 DEF Entry, CallInv, TypeOK
  <2>2. UNCHANGED <<gone, found, result>>
    BY <1>1 DEF locals
  <2>3. CallTrue(c)'
    BY <1>1, <1>d, <1>f, <1>h, <2>1, <2>2 DEF CallTrue, Admitted
  <2>4. \A d \in Calls \ {c} : SameCall(d)
    BY <1>a, <1>b, <1>h, <2>1, <2>2 DEF SameCall
  <2>5. TypeOK'
    BY <1>a, <1>g, <1>h, <1>1, <2>2 DEF CallInv, TypeOK, Entry
  <2> QED
    BY <1>e, <2>3, <2>4, <2>5, OneCallConcerned DEF CallInv
<1>2. CASE Unframed(ch, r) /\ pc' = [pc EXCEPT ![c] = "reply"] /\ UNCHANGED locals
  <2>1. pc'[c] = "reply" /\ \A d \in Calls \ {c} : pc'[d] = pc[d]
    BY <1>2 DEF CallInv, TypeOK
  <2>2. UNCHANGED <<gone, found, result>> /\ Unframed(channel'[c], request'[c])
    BY <1>2, <1>b DEF locals
  <2>3. CallTrue(c)'
    BY <1>d, <1>h, <2>1, <2>2 DEF CallTrue, Admitted
  <2>4. \A d \in Calls \ {c} : SameCall(d)
    BY <1>a, <1>b, <1>h, <2>1, <2>2 DEF SameCall
  <2>5. TypeOK'
    BY <1>a, <1>g, <1>h, <1>2, <2>2 DEF CallInv, TypeOK
  <2> QED
    BY <1>e, <2>3, <2>4, <2>5, OneCallConcerned DEF CallInv
<1>3. CASE Fail(c)
  <2>1. /\ pc'[c] = "record" /\ result'[c] = "error"
        /\ \A d \in Calls \ {c} : pc'[d] = pc[d] /\ result'[d] = result[d]
    BY <1>3, FailRecords
  <2>2. CallTrue(c)'
    BY <1>d, <1>h, <2>1 DEF CallTrue, Admitted
  <2>3. \A d \in Calls \ {c} : SameCall(d)
    BY <1>a, <1>b, <1>h, <2>1 DEF SameCall
  <2>4. TypeOK'
    BY <1>a, <1>g, <1>h, <1>3, FailRecords DEF CallInv, TypeOK
  <2> QED
    BY <1>e, <2>2, <2>3, <2>4, OneCallConcerned DEF CallInv
<1> QED
  BY <1>1, <1>2, <1>3 DEF ReceiveCall

LEMMA WriteAcceptedInv ==
    ASSUME CallInv, NEW c \in Calls, NEW written \in BOOLEAN, WriteAccepted(c, written)
    PROVE  CallInv'
<1>a. /\ pc[c] = "accepted"
      /\ UNCHANGED <<config, process, request, channel, audit, effect, rows, settled>>
  BY DEF WriteAccepted, upstream
<1>c. CallTrue(c)
  BY DEF CallInv, CallsTrue
<1>d. effect[c] = {} /\ audit[c] = <<>> /\ result[c] = "none" /\ Accepts(channel[c], request[c])
  BY <1>a, <1>c DEF CallTrue, Admitted
<1>e. World
  BY <1>a DEF World
<1>f. Accepts(channel[c], request[c])'
  BY <1>a, <1>d, <1>e, StillAccepted
<1>1. CASE written
  <2>1. pc' = [pc EXCEPT ![c] = "run"] /\ UNCHANGED <<gone, found, result>>
    BY <1>1 DEF WriteAccepted, locals
  <2>2. pc'[c] = "run" /\ \A d \in Calls \ {c} : pc'[d] = pc[d]
    BY <2>1 DEF CallInv, TypeOK
  <2>3. CallTrue(c)'
    BY <1>a, <1>d, <1>f, <2>1, <2>2 DEF CallTrue, Admitted
  <2>4. \A d \in Calls \ {c} : SameCall(d)
    BY <1>a, <2>1, <2>2 DEF SameCall
  <2>5. TypeOK'
    BY <1>a, <2>1 DEF CallInv, TypeOK
  <2> QED
    BY <1>e, <2>3, <2>4, <2>5, OneCallConcerned DEF CallInv
<1>2. CASE ~written
  <2>1. Fail(c)
    BY <1>2 DEF WriteAccepted
  <2>2. /\ pc'[c] = "record" /\ result'[c] = "error"
        /\ \A d \in Calls \ {c} : pc'[d] = pc[d] /\ result'[d] = result[d]
    BY <2>1, FailRecords
  <2>3. CallTrue(c)'
    BY <1>a, <1>d, <2>2 DEF CallTrue, Admitted
  <2>4. \A d \in Calls \ {c} : SameCall(d)
    BY <1>a, <2>2 DEF SameCall
  <2>5. TypeOK'
    BY <1>a, <2>1, FailRecords DEF CallInv, TypeOK
  <2> QED
    BY <1>e, <2>3, <2>4, <2>5, OneCallConcerned DEF CallInv
<1> QED
  BY <1>1, <1>2

\* The answer leaves the result as it is, or makes it an error.
LEMMA AnswerInv ==
    ASSUME CallInv, NEW c \in Calls, NEW written \in BOOLEAN, Answer(c, written)
    PROVE  CallInv'
<1>a. /\ pc[c] = "answer" /\ pc' = [pc EXCEPT ![c] = "record"]
      /\ UNCHANGED <<config, process, request, channel, gone, found, audit, effect, rows, settled>>
  BY DEF Answer, upstream
<1>b. CallTrue(c)
  BY DEF CallInv, CallsTrue
<1>c. /\ Accepts(channel[c], request[c]) /\ audit[c] = <<>>
      /\ result[c] \in {"success", "error"} /\ (result[c] = "success" => Achieved(c))
      /\ effect[c] # {} => request[c].tool \notin Reads
  BY <1>a, <1>b DEF CallTrue, Admitted, CallInv, TypeOK
<1>d. World
  BY <1>a DEF World
<1>e. Accepts(channel[c], request[c])'
  BY <1>a, <1>c, <1>d, StillAccepted
<1>f. Achieved(c)' <=> Achieved(c)
  BY <1>a DEF Achieved
<1>1. /\ pc'[c] = "record" /\ result'[c] \in {result[c], "error"}
      /\ \A d \in Calls \ {c} : pc'[d] = pc[d] /\ result'[d] = result[d]
      /\ result' \in [Calls -> {"none", "success", "error"}]
  BY <1>a DEF Answer, CallInv, TypeOK
<1>2. CallTrue(c)'
  BY <1>a, <1>c, <1>e, <1>f, <1>1 DEF CallTrue, Admitted
<1>3. \A d \in Calls \ {c} : SameCall(d)
  BY <1>a, <1>1 DEF SameCall
<1>4. TypeOK'
  BY <1>a, <1>1 DEF CallInv, TypeOK
<1> QED
  BY <1>d, <1>2, <1>3, <1>4, OneCallConcerned DEF CallInv

\* The record repeats the result.
LEMMA RecordInv ==
    ASSUME CallInv, NEW c \in Calls, Record(c)
    PROVE  CallInv'
<1>a. /\ pc[c] = "record" /\ Complete(c)
      /\ UNCHANGED <<config, process, request, channel, effect, rows, settled>>
  BY DEF Record, upstream
<1>b. CallTrue(c)
  BY DEF CallInv, CallsTrue
<1>c. /\ audit[c] = <<>> /\ result[c] \in {"success", "error"}
      /\ result[c] = "success" => Achieved(c)
      /\ effect[c] # {} => Accepts(channel[c], request[c]) /\ request[c].tool \notin Reads
  BY <1>a, <1>b DEF CallTrue, CallInv, TypeOK
<1>d. World
  BY <1>a DEF World
<1>e. Accepts(channel[c], request[c])' <=> Accepts(channel[c], request[c])
  BY <1>a, <1>d, StillAccepted
<1>f. Achieved(c)' <=> Achieved(c)
  BY <1>a DEF Achieved
<1>1. audit'[c] = <<result[c]>> /\ \A d \in Calls \ {c} : audit'[d] = audit[d]
  BY <1>a, <1>c DEF Complete, CallInv, TypeOK
<1>2. audit' \in [Calls -> Seq({"success", "error"})]
  BY <1>a, <1>c DEF Complete, CallInv, TypeOK
<1>3. Len(audit'[c]) = 1 /\ audit'[c][1] = result[c]
  BY <1>1, RecordIsLast
<1>4. /\ pc'[c] \in {"reply", "done"} /\ result'[c] = "none"
      /\ \A d \in Calls \ {c} : pc'[d] = pc[d] /\ result'[d] = result[d]
      /\ pc' \in [Calls -> {"idle", "accepted", "run", "write", "group", "answer", "record",
                            "reply", "done"}]
      /\ gone' \subseteq Calls
      /\ found' \in [Calls -> RowIds \cup {NoRow}]
      /\ result' \in [Calls -> {"none", "success", "error"}]
  <2>1. CASE channel[c] = "stdio"
    BY <2>1 DEF Record, CallInv, TypeOK
  <2>2. CASE channel[c] # "stdio"
    <3>1. Leave(c)
      BY <2>2 DEF Record
    <3> QED
      BY <3>1, LeaveEnds
  <2> QED
    BY <2>1, <2>2
<1>5. CallTrue(c)'
  BY <1>a, <1>c, <1>e, <1>f, <1>3, <1>4 DEF CallTrue, Admitted
<1>6. \A d \in Calls \ {c} : SameCall(d)
  BY <1>a, <1>1, <1>4 DEF SameCall
<1>7. TypeOK'
  BY <1>a, <1>2, <1>4 DEF CallInv, TypeOK
<1> QED
  BY <1>d, <1>5, <1>6, <1>7, OneCallConcerned DEF CallInv

\* The answer on stdin changes nothing of what has been recorded.
LEMMA WriteRPCInv ==
    ASSUME CallInv, NEW c \in Calls, NEW written \in BOOLEAN, WriteRPC(c, written)
    PROVE  CallInv'
<1>a. /\ pc[c] = "reply" /\ Leave(c) /\ process' \in {process, "exited"}
      /\ UNCHANGED <<config, request, channel, audit, effect, rows, settled>>
  BY DEF WriteRPC, upstream
<1>b. CallTrue(c)
  BY DEF CallInv, CallsTrue
<1>c. /\ \/ Len(audit[c]) = 1 /\ (audit[c][1] = "success" => Achieved(c))
         \/ audit[c] = <<>> /\ Unframed(channel[c], request[c]) /\ effect[c] = {}
      /\ effect[c] # {} => Accepts(channel[c], request[c]) /\ request[c].tool \notin Reads
  BY <1>a, <1>b DEF CallTrue
<1>d. World
  BY <1>a DEF World
<1>e. Accepts(channel[c], request[c])' <=> Accepts(channel[c], request[c])
  BY <1>a, <1>d, StillAccepted
<1>f. Achieved(c)' <=> Achieved(c)
  BY <1>a DEF Achieved
<1>1. /\ pc'[c] = "done" /\ result'[c] = "none"
      /\ \A d \in Calls \ {c} : pc'[d] = pc[d] /\ result'[d] = result[d]
  BY <1>a, LeaveEnds
<1>2. CallTrue(c)'
  BY <1>a, <1>c, <1>e, <1>f, <1>1 DEF CallTrue, Admitted, Unframed
<1>3. \A d \in Calls \ {c} : SameCall(d)
  BY <1>a, <1>1 DEF SameCall
<1>4. TypeOK'
  BY <1>a, LeaveEnds DEF CallInv, TypeOK
<1> QED
  BY <1>d, <1>2, <1>3, <1>4, OneCallConcerned DEF CallInv

-----------------------------------------------------------------------------
(* Execution.                                                              *)

\* What a step of an execution leaves alone.
Executes(c) ==
    /\ pc[c] \in {"run", "write", "group"}
    /\ UNCHANGED <<config, process, request, channel, gone, audit, settled>>
    /\ \A d \in Calls \ {c} : pc'[d] = pc[d] /\ result'[d] = result[d] /\ effect'[d] = effect[d]

\* How it ends: with an error, with a success, or further on.
LEMMA ExecutesInv ==
    ASSUME CallInv, NEW c \in Calls, Executes(c), TypeOK',
           effect'[c] # {} => effect[c] # {} \/ request[c].tool \notin Reads,
           \/ pc'[c] \in {"answer", "record"} /\ result'[c] = "error"
           \/ pc'[c] \in {"answer", "record"} /\ result'[c] = "success" /\ Achieved(c)'
           \/ /\ result'[c] = result[c]
              /\ \/ /\ pc'[c] = "run" /\ request[c].tool = "members.remove"
                    /\ effect'[c] \subseteq Members
                 \/ /\ pc'[c] = "write" /\ request[c].tool \in Upserts \cup Deletes
                    /\ effect'[c] = {}
                 \/ /\ pc'[c] = "group" /\ request[c].tool \in {"members.add", "members.remove"}
                    /\ effect'[c] = Members
    PROVE  CallInv'
<1>a. /\ pc[c] \in {"run", "write", "group"}
      /\ UNCHANGED <<config, process, request, channel, gone, audit, settled>>
      /\ \A d \in Calls \ {c} : pc'[d] = pc[d] /\ result'[d] = result[d] /\ effect'[d] = effect[d]
  BY DEF Executes
<1>c. CallTrue(c)
  BY DEF CallInv, CallsTrue
<1>d. /\ Accepts(channel[c], request[c]) /\ audit[c] = <<>> /\ result[c] = "none"
      /\ effect[c] # {} => request[c].tool \notin Reads
  BY <1>a, <1>c DEF CallTrue, Admitted, CallInv, TypeOK
<1>e. World
  BY <1>a DEF World
<1>f. Accepts(channel[c], request[c])'
  BY <1>a, <1>d, <1>e, StillAccepted
<1>g. audit'[c] = <<>> /\ (effect'[c] # {} => request'[c].tool \notin Reads)
  BY <1>a, <1>d
<1>3. CallTrue(c)'
  <2>1. CASE pc'[c] \in {"answer", "record"} /\ result'[c] \in {"success", "error"}
             /\ (result'[c] = "success" => Achieved(c)')
    BY <1>f, <1>g, <2>1 DEF CallTrue, Admitted
  <2>2. CASE pc'[c] \in {"run", "write", "group"} /\ result'[c] = result[c]
    BY <1>a, <1>d, <1>f, <1>g, <2>2 DEF CallTrue, Admitted
  <2> QED
    BY <2>1, <2>2
<1>4. \A d \in Calls \ {c} : SameCall(d)
  BY <1>a DEF SameCall
<1> QED
  BY <1>3, <1>4, <1>e, OneCallConcerned DEF CallInv

\* Steps that write nothing and return.
LEMMA ReturnInv ==
    ASSUME CallInv, NEW c \in Calls, NEW res \in {"success", "error"}, Return(c, res),
           pc[c] \in {"run", "write", "group"}, UNCHANGED <<frame, found, effect, upstream>>,
           res = "success" => Achieved(c)
    PROVE  CallInv'
<1>1. TypeOK'
  BY DEF Return, CallInv, TypeOK, frame, upstream
<1>2. Executes(c) /\ pc'[c] \in {"answer", "record"} /\ result'[c] = res
      /\ effect'[c] = effect[c]
  BY DEF Return, Executes, CallInv, TypeOK, frame, upstream
<1>3. Achieved(c)' <=> Achieved(c)
  BY DEF Achieved, frame, upstream
<1> QED
  BY <1>1, <1>2, <1>3, ExecutesInv

LEMMA ReadsInv ==
    ASSUME CallInv, NEW c \in Calls,
           \/ DecodeArgsFails(c) \/ ClusterHealthSummary(c) \/ TransitionsWait(c)
           \/ WaitTimeout(c) \/ PollFails(c)
           \/ \E outcome \in Outcomes, row \in RowIds \cup {NoRow} : BootParamsGet(c, outcome, row)
           \/ \E outcome \in Outcomes : GetGroup(c, outcome)
    PROVE  CallInv'
<1>1. CASE DecodeArgsFails(c) \/ WaitTimeout(c) \/ PollFails(c)
  BY <1>1, ReturnInv DEF DecodeArgsFails, WaitTimeout, PollFails, Running
<1>2. CASE ClusterHealthSummary(c) \/ TransitionsWait(c)
  <2>1. Achieved(c) /\ pc[c] = "run" /\ Return(c, "success")
        /\ UNCHANGED <<frame, found, effect, upstream>>
    BY <1>2 DEF ClusterHealthSummary, TransitionsWait, Running, Achieved, Upserts, Deletes
  <2> QED
    BY <2>1, ReturnInv
<1>3. ASSUME NEW outcome \in Outcomes, NEW row \in RowIds \cup {NoRow}, BootParamsGet(c, outcome, row)
      PROVE  CallInv'
  <2>1. Achieved(c) /\ pc[c] = "run" /\ UNCHANGED <<frame, found, effect, upstream>>
        /\ (Return(c, "success") \/ Return(c, "error"))
    BY <1>3 DEF BootParamsGet, Running, Achieved, Upserts, Deletes
  <2> QED
    BY <2>1, ReturnInv
<1>4. ASSUME NEW outcome \in Outcomes, GetGroup(c, outcome)
      PROVE  CallInv'
  <2>1. pc[c] = "group" /\ UNCHANGED <<frame, found, effect, upstream>>
        /\ (Return(c, "success") \/ Return(c, "error"))
    BY <1>4 DEF GetGroup, ResultOf
  <2>2. request[c].tool \in {"members.add", "members.remove"} /\ effect[c] = Members
    BY <2>1 DEF CallInv, CallsTrue, CallTrue
  <2>3. Achieved(c)
    BY <2>2 DEF Achieved, Upserts, Deletes
  <2> QED
    BY <2>1, <2>3, ReturnInv
<1> QED
  BY <1>1, <1>2, <1>3, <1>4

\* The lookup writes nothing.
LEMMA LoadExistingInv ==
    ASSUME CallInv, NEW c \in Calls, NEW tool \in Upserts \cup Deletes, NEW outcome \in Outcomes,
           NEW row \in RowIds \cup {NoRow}, LoadExisting(c, tool, outcome, row)
    PROVE  CallInv'
<1>a. /\ pc[c] = "run" /\ request[c].tool \in Upserts \cup Deletes
      /\ UNCHANGED <<frame, effect, upstream>>
  BY DEF LoadExisting, Running
<1>1. CASE Return(c, "error") /\ UNCHANGED found
  BY <1>1, <1>a, ReturnInv
<1>2. CASE /\ found' = [found EXCEPT ![c] = row]
           /\ pc' = [pc EXCEPT ![c] = "write"]
           /\ UNCHANGED result
  <2>1. effect[c] = {}
    BY <1>a DEF CallInv, CallsTrue, CallTrue, Upserts, Deletes
  <2>2. TypeOK'
    BY <1>2, <1>a DEF CallInv, TypeOK, frame, upstream
  <2>3. Executes(c) /\ pc'[c] = "write"
    BY <1>2, <1>a DEF CallInv, TypeOK, frame, upstream, Executes
  <2> QED
    BY <1>2, <1>a, <2>1, <2>2, <2>3, ExecutesInv
<1> QED
  BY <1>1, <1>2 DEF LoadExisting

\* One write, then the result: a write that took effect and was acknowledged
\* is a success.
LEMMA EffectReturns ==
    ASSUME CallInv, NEW c \in Calls, NEW outcome \in Outcomes, NEW w,
           Effect(c, outcome, w), Return(c, ResultOf(outcome)), effect[c] = {}
    PROVE  /\ effect'[c] = IF outcome = "refused" THEN {} ELSE {w}
           /\ \A d \in Calls \ {c} :
                 pc'[d] = pc[d] /\ result'[d] = result[d] /\ effect'[d] = effect[d]
           /\ pc'[c] \in {"answer", "record"}
           /\ result'[c] = (IF outcome = "ok" THEN "success" ELSE "error")
           /\ w \in Members \cup {"row", "sent"} =>
                 effect' \in [Calls -> SUBSET (Members \cup {"row", "sent"})]
BY DEF Effect, Return, ResultOf, CallInv, TypeOK

LEMMA WriteRowInv ==
    ASSUME CallInv, NEW c \in Calls, NEW tool \in Upserts \cup Deletes, NEW outcome \in Outcomes,
           NEW id, WriteRow(c, tool, outcome, id)
    PROVE  CallInv'
<1>a. /\ pc[c] = "write" /\ UNCHANGED <<frame, found, settled>>
      /\ Effect(c, outcome, "row") /\ Return(c, ResultOf(outcome))
  BY DEF WriteRow
<1>b. request[c].tool \in Upserts \cup Deletes /\ effect[c] = {}
  BY <1>a DEF CallInv, CallsTrue, CallTrue
<1>c. /\ effect'[c] = IF outcome = "refused" THEN {} ELSE {"row"}
      /\ \A d \in Calls \ {c} : pc'[d] = pc[d] /\ result'[d] = result[d] /\ effect'[d] = effect[d]
      /\ pc'[c] \in {"answer", "record"}
      /\ result'[c] = (IF outcome = "ok" THEN "success" ELSE "error")
      /\ effect' \in [Calls -> SUBSET (Members \cup {"row", "sent"})]
  BY <1>a, <1>b, EffectReturns
<1>1. rows' \in [Stores -> SUBSET RowIds]
  <2>1. StoreOf(tool) \in Stores /\ id \in RowIds
    BY DEF WriteRow, StoreOf, Stores
  <2>2. /\ rows'[StoreOf(tool)] \subseteq RowIds
        /\ rows' = [rows EXCEPT ![StoreOf(tool)] = rows'[StoreOf(tool)]]
    BY <2>1 DEF WriteRow, CallInv, TypeOK
  <2> QED
    BY <2>1, <2>2 DEF CallInv, TypeOK
<1>2. TypeOK'
  BY <1>1, <1>a, <1>c DEF CallInv, TypeOK, Return, ResultOf, frame
<1>3. Executes(c)
  BY <1>a, <1>c DEF Executes, frame
<1>4. outcome = "ok" => Achieved(c)'
  <2>1. request'[c].tool \in Upserts \cup Deletes
    BY <1>a, <1>b DEF frame
  <2>2. outcome = "ok" => effect'[c] = {"row"}
    BY <1>c
  <2>3. request'[c].tool \notin {"members.add", "members.remove", "transitions.wait",
                                 "transitions.create", "transitions.abort",
                                 "targets.create", "targets.delete"}
    BY <2>1 DEF Upserts, Deletes
  <2> QED
    BY <2>1, <2>2, <2>3, Zenon DEF Achieved
<1>5. request[c].tool \notin Reads
  BY <1>b DEF Upserts, Deletes, Reads
<1> QED
  BY <1>2, <1>3, <1>4, <1>5, <1>c, ExecutesInv

Submits == {"transitions.create", "transitions.abort", "targets.create", "targets.delete"}

LEMMA SubmitOnceInv ==
    ASSUME CallInv, NEW c \in Calls, NEW outcome \in Outcomes, NEW tool \in Submits,
           SubmitOnce(c, {tool}, outcome)
    PROVE  CallInv'
<1>a. /\ pc[c] = "run" /\ request[c].tool = tool /\ UNCHANGED <<frame, found, upstream>>
      /\ Effect(c, outcome, "sent") /\ Return(c, ResultOf(outcome))
  BY DEF SubmitOnce, Running
<1>b. effect[c] = {}
  BY <1>a DEF CallInv, CallsTrue, CallTrue, Submits
<1>c. /\ effect'[c] = IF outcome = "refused" THEN {} ELSE {"sent"}
      /\ \A d \in Calls \ {c} : pc'[d] = pc[d] /\ result'[d] = result[d] /\ effect'[d] = effect[d]
      /\ pc'[c] \in {"answer", "record"}
      /\ result'[c] = (IF outcome = "ok" THEN "success" ELSE "error")
      /\ effect' \in [Calls -> SUBSET (Members \cup {"row", "sent"})]
  BY <1>a, <1>b, EffectReturns
<1>2. TypeOK'
  BY <1>a, <1>c DEF CallInv, TypeOK, Return, ResultOf, frame, upstream
<1>3. Executes(c)
  BY <1>a, <1>c DEF Executes, frame, upstream
<1>4. outcome = "ok" => Achieved(c)'
  <2>1. request'[c].tool = tool /\ (outcome = "ok" => effect'[c] = {"sent"})
    BY <1>a, <1>c DEF frame
  <2>2. /\ tool \notin Upserts \cup Deletes /\ tool \notin {"members.add", "members.remove"}
        /\ tool # "transitions.wait"
    BY DEF Submits, Upserts, Deletes
  <2> QED
    BY <2>1, <2>2 DEF Achieved, Submits
<1>5. request[c].tool \notin Reads
  BY <1>a DEF Submits, Reads
<1> QED
  BY <1>2, <1>3, <1>4, <1>5, <1>c, ExecutesInv

\* The group is loaded only when every member has been added or removed.
LEMMA MembersInv ==
    ASSUME CallInv, NEW c \in Calls, NEW outcome \in Outcomes,
           \/ GroupsMembersAdd(c, outcome)
           \/ \E m \in Members : GroupsMembersRemove(c, outcome, m)
    PROVE  CallInv'
<1>a. /\ pc[c] = "run" /\ request[c].tool \in {"members.add", "members.remove"}
      /\ UNCHANGED <<frame, found, upstream>>
  BY DEF GroupsMembersAdd, GroupsMembersRemove, Running
<1>b. request[c].tool = "members.remove" => effect[c] \subseteq Members
  BY <1>a DEF CallInv, CallsTrue, CallTrue
<1>c. /\ effect'[c] \subseteq effect[c] \cup Members
      /\ \A d \in Calls \ {c} : effect'[d] = effect[d]
      /\ effect' \in [Calls -> SUBSET (Members \cup {"row", "sent"})]
  <2>1. CASE GroupsMembersAdd(c, outcome)
    BY <2>1 DEF GroupsMembersAdd, CallInv, TypeOK
  <2>2. ASSUME NEW m \in Members, Effect(c, outcome, m) PROVE <1>c!:
    BY <2>2 DEF Effect, CallInv, TypeOK
  <2> QED
    BY <2>1, <2>2 DEF GroupsMembersRemove
<1>d. \/ Return(c, "error")
      \/ /\ UNCHANGED result
         /\ \/ pc' = [pc EXCEPT ![c] = "group"] /\ effect'[c] = Members
            \/ /\ pc' = [pc EXCEPT ![c] = "run"] /\ request[c].tool = "members.remove"
               /\ effect'[c] \subseteq Members
  <2>1. CASE GroupsMembersAdd(c, outcome)
    BY <2>1 DEF GroupsMembersAdd, CallInv, TypeOK
  <2>2. ASSUME NEW m \in Members, GroupsMembersRemove(c, outcome, m)
        PROVE  <1>d!:
    <3>1. request[c].tool = "members.remove"
      BY <2>2 DEF GroupsMembersRemove, Running
    <3>2. CASE outcome = "ok"
      <4>1. effect'[c] = effect[c] \cup {m}
        BY <2>2, <3>2 DEF GroupsMembersRemove, Effect, CallInv, TypeOK
      <4> QED
        BY <1>b, <2>2, <3>1, <3>2, <4>1 DEF GroupsMembersRemove
    <3>3. CASE outcome # "ok"
      BY <2>2, <3>3 DEF GroupsMembersRemove
    <3> QED
      BY <3>2, <3>3
  <2> QED
    BY <2>1, <2>2
<1>1. TypeOK'
  BY <1>a, <1>c, <1>d DEF CallInv, TypeOK, Return, frame, upstream
<1>2. Executes(c)
  BY <1>a, <1>c, <1>d DEF Executes, Return, frame, upstream, CallInv, TypeOK
<1>3. \/ pc'[c] \in {"answer", "record"} /\ result'[c] = "error"
      \/ /\ result'[c] = result[c]
         /\ \/ pc'[c] = "group" /\ effect'[c] = Members
            \/ pc'[c] = "run" /\ request[c].tool = "members.remove" /\ effect'[c] \subseteq Members
  BY <1>d DEF Return, CallInv, TypeOK
<1>4. request[c].tool \notin Reads
  BY <1>a DEF Reads
<1> QED
  BY <1>1, <1>2, <1>3, <1>4, <1>a, ExecutesInv

-----------------------------------------------------------------------------
(* The process, and the whole.                                             *)

LEMMA ProcessInv ==
    ASSUME CallInv,
           \/ Shutdown \/ Stopped \/ ShutdownTimeout \/ StdioEnd \/ TransitionSettles
           \/ UNCHANGED vars
           \/ \E c \in Calls : Disconnect(c)
    PROVE  CallInv'
<1>1. /\ UNCHANGED <<config, pc, request, channel, found, result, audit, effect, rows>>
      /\ settled' \in {settled, TRUE}
      /\ gone' \subseteq Calls /\ process' \in {"up", "stopping", "exited"}
  BY DEF Shutdown, Stopped, ShutdownTimeout, StdioEnd, TransitionSettles, vars, upstream, others,
         Disconnect, CallInv, TypeOK
<1>2. TypeOK'
  BY <1>1 DEF CallInv, TypeOK
<1>3. settled => settled'
  BY <1>1, Zenon
<1>4. World
  BY <1>1, <1>3 DEF World
<1>5. \A c \in Calls : SameCall(c)
  BY <1>1 DEF SameCall
<1>6. CallsTrue'
  BY <1>4, <1>5, SameCallTrue DEF CallInv, CallsTrue
<1> QED
  BY <1>2, <1>6 DEF CallInv

LEMMA ExecInv ==
    ASSUME CallInv, NEW c \in Calls, Exec(c)
    PROVE  CallInv'
<1>1. ASSUME NEW outcome \in Outcomes,
             \/ TransitionsCreate(c, outcome) \/ TransitionsAbort(c, outcome)
             \/ TargetsCreate(c, outcome) \/ TargetsDelete(c, outcome)
      PROVE  CallInv'
  <2>1. \E tool \in Submits : SubmitOnce(c, {tool}, outcome)
    BY <1>1 DEF TransitionsCreate, TransitionsAbort, TargetsCreate, TargetsDelete, Submits
  <2> QED
    BY <2>1, SubmitOnceInv
<1>2. ASSUME NEW outcome \in Outcomes, NEW row \in RowIds \cup {NoRow},
             \/ BssBootParamsUpsert(c, outcome, row) \/ BssBootParamsDelete(c, outcome, row)
             \/ CloudInitPayloadsUpsert(c, outcome, row) \/ CloudInitPayloadsDelete(c, outcome, row)
      PROVE  CallInv'
  <2>1. \E tool \in Upserts \cup Deletes :
           LoadExisting(c, tool, outcome, row) \/ WriteRow(c, tool, outcome, row)
    BY <1>2 DEF BssBootParamsUpsert, BssBootParamsDelete, CloudInitPayloadsUpsert,
                CloudInitPayloadsDelete, LookUpAndWrite, Upserts, Deletes
  <2> QED
    BY <2>1, LoadExistingInv, WriteRowInv
<1> QED
  BY <1>1, <1>2, ReadsInv, MembersInv DEF Exec

LEMMA NextCallInv == CallInv /\ [Next]_vars => CallInv'
<1> SUFFICES ASSUME CallInv, [Next]_vars PROVE CallInv'
  OBVIOUS
<1>1. ASSUME NEW c \in Calls, HandlerStep(c) PROVE CallInv'
  BY <1>1, ExecInv, WriteAcceptedInv, AnswerInv, RecordInv, WriteRPCInv DEF HandlerStep
<1> QED
  BY <1>1, ReceiveCallInv, ReadsInv, ProcessInv DEF Next

LEMMA CallInvariant == Spec => []CallInv
BY InitCallInv, NextCallInv, PTL DEF Spec

\* Every variable holds values of its kind.
THEOREM ToolTypeCorrect == Spec => []TypeOK
<1>1. CallInv => TypeOK
  BY DEF CallInv
<1> QED
  BY <1>1, CallInvariant, PTL

\* Nothing is written in another service without read-write mode, a session
\* token that has the scope admin (whichever claim or role gives it) and that
\* the call named, the confirmation of a delete or an abort, and that of an
\* operation which the argument "operation" calls destructive: over every
\* transport and for any number of calls.
THEOREM EffectsAreAllowed == Spec => []OnlyAllowedEffects
<1>1. CallInv => OnlyAllowedEffects
  <2> SUFFICES ASSUME CallInv, NEW c \in Calls, effect[c] # {}
               PROVE  /\ config.mode = "read-write"
                      /\ config.token # "none"
                      /\ "admin" \in DeriveSessionPrincipal(config.token)
                      /\ channel[c] # "stdio" => request[c].token = "session"
                      /\ request[c].tool \in AlwaysConfirmed => request[c].confirm
                      /\ request[c].tool = "transitions.create"
                           /\ request[c].operation = "destructive" => request[c].confirm
    BY Zenon DEF OnlyAllowedEffects
  <2> DEFINE tool == request[c].tool
  <2>1. Accepts(channel[c], request[c]) /\ tool \notin Reads
    BY DEF CallInv, CallsTrue, CallTrue
  <2>2. /\ tool \in Tools /\ AuthorizeTool(tool) /\ RequireConfirmation(request[c])
        /\ RequireScopes(tool) /\ config.token # "none"
        /\ channel[c] # "stdio" => request[c].token = "session"
    BY <2>1 DEF Accepts, HandleRPCRequest, ParseCallToolRequest, AuthenticateHTTP, AuthenticateStdio
  <2>3. /\ Contract[tool].capability = "write" /\ Contract[tool].requiredScopes = {"admin"}
        /\ Contract[tool].confirmationRequired
             = (tool \in Deletes \cup {"targets.delete", "transitions.abort"})
    BY <2>1, <2>2 DEF Contract, Reads
  <2>4. config.mode = "read-write"
    BY <2>2, <2>3 DEF AuthorizeTool
  <2>5. "admin" \in DeriveSessionPrincipal(config.token)
    BY <2>2, <2>3 DEF RequireScopes
  <2>6. tool \in AlwaysConfirmed => request[c].confirm
    <3>1. tool \in AlwaysConfirmed => tool \in Deletes \cup {"targets.delete", "transitions.abort"}
      BY DEF Deletes, AlwaysConfirmed
    <3>2. tool \in Deletes \cup {"targets.delete", "transitions.abort"}
            => Contract[tool].confirmationRequired
      BY <2>3, Zenon
    <3> QED
      BY <2>2, <3>1, <3>2, Zenon DEF RequireConfirmation
  <2>7. tool = "transitions.create" /\ request[c].operation = "destructive" => request[c].confirm
    BY <2>2, Zenon DEF RequireConfirmation
  <2> QED
    BY <2>2, <2>4, <2>5, <2>6, <2>7
<1> QED
  BY <1>1, CallInvariant, PTL

\* No call has two audit records, and none ends without one, or is answered on
\* stdin before it is recorded, unless its line was no JSON-RPC 2.0 request;
\* such a call has written nothing.
THEOREM CallsAreAuditedOnce == Spec => []AuditedOnce
<1>1. CallInv => AuditedOnce
  <2> SUFFICES ASSUME CallInv, NEW c \in Calls
               PROVE  /\ Len(audit[c]) <= 1
                      /\ pc[c] \in {"reply", "done"} =>
                            \/ Len(audit[c]) = 1
                            \/ Unframed(channel[c], request[c]) /\ effect[c] = {}
    BY DEF AuditedOnce
  <2>1. CallTrue(c)
    BY DEF CallInv, CallsTrue
  <2>2. CASE audit[c] = <<>>
    <3>1. Len(audit[c]) = 0
      BY <2>2
    <3> QED
      BY <2>1, <3>1 DEF CallTrue
  <2>3. CASE Len(audit[c]) = 1
    BY <2>3
  <2> QED
    BY <2>1, <2>2, <2>3 DEF CallTrue
<1> QED
  BY <1>1, CallInvariant, PTL

\* An audit record of success is true: everything the tool was to write has
\* been written, although calls interleave, clients leave and other services
\* fail.
THEOREM SuccessRecordsAreTrue == Spec => []SuccessRecordIsTrue
<1>1. CallInv => SuccessRecordIsTrue
  <2> SUFFICES ASSUME CallInv, NEW c \in Calls, NEW i \in DOMAIN audit[c], audit[c][i] = "success"
               PROVE  Achieved(c)
    BY DEF SuccessRecordIsTrue
  <2>1. CallTrue(c) /\ audit[c] \in Seq({"success", "error"})
    BY DEF CallInv, CallsTrue, TypeOK
  <2>2. pc[c] \in {"reply", "done"} /\ Len(audit[c]) = 1 /\ i = 1
    BY <2>1 DEF CallTrue
  <2> QED
    BY <2>1, <2>2 DEF CallTrue
<1> QED
  BY <1>1, CallInvariant, PTL

\* The HTTP and the stdio copy of the checks come to the same verdict on a
\* well-formed call of the session, in every configuration.
THEOREM TransportsCheckAlike == Spec => []TransportsAgree
<1>1. CallInv => TransportsAgree
  BY DEF TransportsAgree, ParseCallToolRequest, HandleRPCRequest, AuthenticateHTTP, AuthenticateStdio
<1> QED
  BY <1>1, CallInvariant, PTL

=============================================================================
