----------------------------- MODULE MCToolServer -----------------------------
(***************************************************************************)
(* One good call of every tool and calls with one thing wrong, in every    *)
(* configuration of the service; where a call writes a payload, next to a  *)
(* second one that shares its rows.                                        *)
(***************************************************************************)
EXTENDS ToolServer

\* A JWT with the role admin, and one that lists admin where it is not read:
\* the claim scope comes before scp.
MCClaims ==
    [roleJWT |-> [scope |-> {"read"}, scopes |-> {}, scp |-> {},
                  roles |-> {"admin", "user"}],
     scpJWT |-> [scope |-> {"read"}, scopes |-> {}, scp |-> {"admin"},
                 roles |-> {}]]

AllEnvironments ==
    [transport : {"http", "stdio"}, mode : {"read-only", "read-write"},
     enableWrite : BOOLEAN, allowCLI : BOOLEAN,
     mcpToken : Tokens, sharedToken : Tokens, cliToken : Tokens]

Good(t) == [tool |-> t, token |-> "session", body |-> "strict",
            args |-> "valid", confirm |-> TRUE,
            operation |-> "harmless", folded |-> "none"]

GoodRequests == {Good(t) : t \in Tools}

\* The operation under another capitalisation of its key, or under none.
OtherSpellings ==
    {[Good("transitions.create")
        EXCEPT !.operation = "none", !.folded = o, !.confirm = FALSE] :
            o \in Operations}

FlawedRequests ==
    {[Good("bootparams.upsert") EXCEPT !.token = k] : k \in {"other", "none"}}
    \cup {[Good(t) EXCEPT !.confirm = FALSE] :
            t \in {"bootparams.delete", "transitions.abort"}}
    \cup {[Good("transitions.create")
            EXCEPT !.operation = "destructive", !.confirm = b] : b \in BOOLEAN}
    \cup {[Good("transitions.create") EXCEPT !.body = b] :
            b \in {"loose", "bad", "unframed"}}
    \cup OtherSpellings
    \cup {[Good("bootparams.upsert") EXCEPT !.args = "invalid"],
          [Good("bootparams.get") EXCEPT !.tool = "unknown"]}

\* The first call may be anything, the second writes a row that the first may
\* read, write or delete.
MCRequests ==
    <<GoodRequests \cup FlawedRequests, {Good("payloads.upsert")}>>

\* Both calls are made only where they meet in a row and nothing refuses them.
CallsMeet ==
    NoRequest \notin {request[c] : c \in Calls} =>
        /\ request[1] \in {Good("payloads.upsert"), Good("payloads.delete")}
        /\ config.mode = "read-write" /\ config.token = "opaque"

\* One call, for the run that looks for a disagreement.
OneRequest == <<GoodRequests \cup FlawedRequests>>
===============================================================================
