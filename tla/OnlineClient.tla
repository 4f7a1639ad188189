----------------------------- MODULE OnlineClient -----------------------------
(***************************************************************************)
(* Building an OnlineClient and using its Rpc handle (client/online_client  *)
(* .rs, rpc/rpc.rs) over one connection to a node.                         *)
(*                                                                         *)
(* from_url connects; from_rpc_client runs Rpc::runtime_version and        *)
(* Rpc::metadata under future::join, so both requests are outstanding at   *)
(* once and their answers come back in either order; only when both have  *)
(* completed does it apply ? to runtime_version and then to metadata.      *)
(* Rpc::metadata decodes the bytes and hands them to try_from, which is    *)
(* MetadataParse's TryFrom.  Afterwards concurrent tasks issue the typed   *)
(* calls storage, block_hash and subscribe_blocks through the same client. *)
(*                                                                         *)
(* Faults: any outstanding request may time out (jsonrpsee's default       *)
(* request timeout of the client ws_client builds), and the connection    *)
(* may close, after which every outstanding and every later request fails. *)
(***************************************************************************)
EXTENDS Naturals, Sequences

CONSTANTS
    MetaReserved, Prefix, Version, TypeId, Index, NoEvent,  \* as in MetadataParse
    Tasks,          \* tasks holding clones of the client after construction
    Decode(_),      \* RuntimeMetadataPrefixed::decode of a byte blob
    Answers(_),     \* the well-formed answers the node may give to a method
    Malformed,      \* an answer that does not deserialize as the result type
    NoAnswer        \* no answer: the request failed

(* Neither the absence of an answer nor a malformed one is a well-formed  *)
(* answer to any method the client sends.                                   *)
ASSUME ReplyAssumption ==
    /\ NoAnswer # Malformed
    /\ \A m \in {"state_getRuntimeVersion", "state_getMetadata", "state_getStorage",
                  "chain_getBlockHash", "chain_subscribeNewHeads"} :
          NoAnswer \notin Answers(m) /\ Malformed \notin Answers(m)

Parse == INSTANCE MetadataParse
             WITH Blobs <- {}, md <- NoEvent, parsed <- NoEvent, looked <- NoEvent

VARIABLES
    stage,   \* "connect", "join", "built" or "failed": where construction is
    open,    \* the connection is up
    fut,     \* the two joined fetches: state, the node's answer, result
    client,  \* the Inner {runtime_version, metadata} cell, once built
    call,    \* per task: the typed call it is in and its last result
    view     \* per task: the runtime version and metadata it last read

vars == <<stage, open, fut, client, call, view>>

Fetch == {"rv", "md"}

(* The RPC method each request sends.                                      *)
Method == [rv |-> "state_getRuntimeVersion", md |-> "state_getMetadata",
           storage |-> "state_getStorage", block_hash |-> "chain_getBlockHash",
           subscribe_blocks |-> "chain_subscribeNewHeads"]

Ops == {"storage", "block_hash", "subscribe_blocks"}

Ok(v) == [ok |-> TRUE, val |-> v]
Err(e) == [ok |-> FALSE, val |-> e]
Nothing == Err(<<"none">>)

(* An answer the node may give to method m.                                *)
Reply(m) == Answers(m) \cup {Malformed}

(* A failed request, timed out or on a closed connection: RpcError.        *)
RpcFailure == Err(<<"Rpc">>)

(* client.request(method, ..): the answer deserialized as the method's    *)
(* result type, Serialization error when it does not.                      *)
Request(ans) == IF ans = Malformed THEN Err(<<"Serialization">>) ELSE Ok(ans)

(* Mutant: try_into's error converted as a decode error.                   *)
MetadataOfParseAsCodec(r) ==
    IF ~r.ok THEN r
    ELSE LET d == Decode(r.val) IN
         IF ~d.ok THEN Err(<<"Codec">>)
         ELSE LET p == Parse!TryFrom(d.val) IN
              IF p.ok THEN Ok(p.val) ELSE Err(<<"Codec">>)

(* Rpc::metadata after its request returned bytes: decode, then try_into.  *)
MetadataOf(r) ==
    IF ~r.ok THEN r
    ELSE LET d == Decode(r.val) IN
         IF ~d.ok THEN Err(<<"Codec">>)
         ELSE LET p == Parse!TryFrom(d.val) IN
              IF p.ok THEN Ok(p.val) ELSE Err(<<"InvalidMetadata", p.val>>)

(* What a fetch returns once its request is answered with ans.             *)
Complete(f, ans) ==
    IF f = "rv" THEN Request(ans) ELSE MetadataOf(Request(ans))

CallAnswers == UNION {Reply(Method[o]) : o \in Ops}

TypeOK ==
    /\ stage \in {"connect", "join", "built", "failed"}
    /\ open \in BOOLEAN
    /\ \A f \in Fetch :
          /\ fut[f].st \in {"idle", "wait", "done"}
          /\ fut[f].ans \in Reply(Method[f]) \cup {NoAnswer}
          /\ fut[f].res \in {Nothing, RpcFailure} \cup {Complete(f, a) : a \in Reply(Method[f])}
    /\ client \in {Nothing, RpcFailure} \cup {fut[f].res : f \in {f \in Fetch : ~fut[f].res.ok}}
                  \cup {Ok([rv |-> r, md |-> m.val]) :
                           r \in Answers(Method["rv"]),
                           m \in {m \in {Complete("md", a) : a \in Reply(Method["md"])} : m.ok}}
    /\ call \in [Tasks -> [pc : {"idle", "wait"}, op : Ops \cup {"none"},
                           res : {Nothing, RpcFailure} \cup {Request(a) : a \in CallAnswers}]]
    /\ view \in [Tasks -> {Nothing} \cup {c \in {client} : c.ok}]

Init ==
    /\ stage = "connect"
    /\ open = TRUE
    /\ fut = [f \in Fetch |-> [st |-> "idle", ans |-> NoAnswer, res |-> Nothing]]
    /\ client = Nothing
    /\ call = [t \in Tasks |-> [pc |-> "idle", op |-> "none", res |-> Nothing]]
    /\ view = [t \in Tasks |-> Nothing]

(* from_url: ws_client connects, and from_rpc_client starts.               *)
Connect ==
    /\ stage = "connect"
    /\ stage' = "join"
    /\ UNCHANGED <<open, fut, client, call, view>>

(* from_url: ws_transport fails; the error, as RpcError, is the result.   *)
ConnectFail ==
    /\ stage = "connect"
    /\ stage' = "failed"
    /\ client' = RpcFailure
    /\ UNCHANGED <<open, fut, call, view>>

(* The first poll of the join: each future sends its request.              *)
PollJoin ==
    /\ stage = "join"
    /\ \A f \in Fetch : fut[f].st = "idle"
    /\ fut' = [f \in Fetch |-> [fut[f] EXCEPT !.st = "wait"]]
    /\ UNCHANGED <<stage, open, client, call, view>>

(* The node answers one outstanding fetch; the future completes.           *)
AnswerFetch(f, ans) ==
    /\ open
    /\ fut[f].st = "wait"
    /\ fut' = [fut EXCEPT ![f] = [st |-> "done", ans |-> ans, res |-> Complete(f, ans)]]
    /\ UNCHANGED <<stage, open, client, call, view>>

(* An outstanding fetch times out, or finds the connection closed.         *)
FailFetch(f) ==
    /\ fut[f].st = "wait"
    /\ fut' = [fut EXCEPT ![f] = [st |-> "done", ans |-> NoAnswer, res |-> RpcFailure]]
    /\ UNCHANGED <<stage, open, client, call, view>>

(* Mutant: ? applied to runtime_version only.                              *)
BuildIgnoringMetadata ==
    /\ stage = "join"
    /\ \A f \in Fetch : fut[f].st = "done"
    /\ IF ~fut["rv"].res.ok
       THEN stage' = "failed" /\ client' = fut["rv"].res
       ELSE stage' = "built" /\ client' = Ok([rv |-> fut["rv"].res.val, md |-> fut["md"].res.val])
    /\ UNCHANGED <<open, fut, call, view>>

(* Mutant: the join waits until both fetches have succeeded.               *)
BuildWaitingForSuccess ==
    /\ stage = "join"
    /\ \A f \in Fetch : fut[f].st = "done" /\ fut[f].res.ok
    /\ stage' = "built"
    /\ client' = Ok([rv |-> fut["rv"].res.val, md |-> fut["md"].res.val])
    /\ UNCHANGED <<open, fut, call, view>>

(* join resolves when both are done; runtime_version? then metadata?, and  *)
(* only then the Inner cell holding both.                                  *)
Build ==
    /\ stage = "join"
    /\ \A f \in Fetch : fut[f].st = "done"
    /\ IF ~fut["rv"].res.ok THEN stage' = "failed" /\ client' = fut["rv"].res
       ELSE IF ~fut["md"].res.ok THEN stage' = "failed" /\ client' = fut["md"].res
       ELSE stage' = "built" /\ client' = Ok([rv |-> fut["rv"].res.val, md |-> fut["md"].res.val])
    /\ UNCHANGED <<open, fut, call, view>>

(* A task calls rpc().storage / block_hash / subscribe_blocks.            *)
Call(t, op) ==
    /\ stage = "built"
    /\ call[t].pc = "idle"
    /\ call' = [call EXCEPT ![t] = [pc |-> "wait", op |-> op, res |-> Nothing]]
    /\ UNCHANGED <<stage, open, fut, client, view>>

(* The node answers a task's request; the typed call returns it decoded.  *)
AnswerCall(t, ans) ==
    /\ open
    /\ call[t].pc = "wait"
    /\ ans \in Reply(Method[call[t].op])
    /\ call' = [call EXCEPT ![t] = [@ EXCEPT !.pc = "idle", !.res = Request(ans)]]
    /\ UNCHANGED <<stage, open, fut, client, view>>

(* A task's request times out or finds the connection closed.              *)
FailCall(t) ==
    /\ call[t].pc = "wait"
    /\ call' = [call EXCEPT ![t] = [@ EXCEPT !.pc = "idle", !.res = RpcFailure]]
    /\ UNCHANGED <<stage, open, fut, client, view>>

(* A task calls runtime_version() and then metadata() on its clone: two   *)
(* separate read locks on the Inner cell, each cloning one field.          *)
Read(t) ==
    /\ stage = "built"
    /\ view' = [view EXCEPT ![t] = Ok([rv |-> client.val.rv, md |-> client.val.md])]
    /\ UNCHANGED <<stage, open, fut, client, call>>

(* The connection closes; jsonrpsee's background task ends.                *)
Disconnect ==
    /\ open
    /\ open' = FALSE
    /\ UNCHANGED <<stage, fut, client, call, view>>

Next ==
    \/ Connect
    \/ ConnectFail
    \/ PollJoin
    \/ \E f \in Fetch :
          \/ \E ans \in Reply(Method[f]) : AnswerFetch(f, ans)
          \/ FailFetch(f)
    \/ Build
    \/ \E t \in Tasks :
          \/ \E op \in Ops : Call(t, op)
          \/ \E ans \in CallAnswers : AnswerCall(t, ans)
          \/ FailCall(t)
          \/ Read(t)
    \/ Disconnect

(* The tokio executor polls the connecting and the joined futures when     *)
(* woken, and every request ends, answered or failed: the client ws_client *)
(* builds keeps jsonrpsee's default request timeout, so settling a pending *)
(* request stays enabled until it happens.  Tasks are not obliged to call. *)
Fairness ==
    /\ WF_vars(Connect \/ ConnectFail)
    /\ WF_vars(PollJoin)
    /\ WF_vars(Build)
    /\ \A f \in Fetch : WF_vars(FailFetch(f) \/ \E ans \in Reply(Method[f]) : AnswerFetch(f, ans))
    /\ \A t \in Tasks : WF_vars(FailCall(t) \/ \E ans \in CallAnswers : AnswerCall(t, ans))

Spec == Init /\ [][Next]_vars /\ Fairness

-----------------------------------------------------------------------------
(* Design 4.5 and 7: construction is all or nothing.  A built client holds *)
(* the runtime version the node sent and the Metadata try_from builds from *)
(* the metadata blob the node sent, which must be a valid one; a failed    *)
(* construction returns the error of a request that failed, and when only *)
(* the metadata was rejected by try_from, that error is InvalidMetadata.   *)
(* The answers arrive in either order and either may fail, so this relates *)
(* the joined results, the ? order and the parse pipeline.                 *)
ConstructionAllOrNothing ==
    /\ stage = "built" =>
          LET blob == Decode(fut["md"].ans).val IN
          /\ \A f \in Fetch : fut[f].ans \notin {NoAnswer, Malformed}
          /\ Decode(fut["md"].ans).ok /\ Parse!Valid(blob)
          /\ client = Ok([rv |-> fut["rv"].ans, md |-> Parse!TryFrom(blob).val])
    /\ stage = "failed" =>
          /\ ~client.ok
          /\ client \in {RpcFailure} \cup {fut[f].res : f \in Fetch}
          /\ fut["rv"].res.ok /\ fut["md"].ans \notin {NoAnswer, Malformed}
             /\ Decode(fut["md"].ans).ok /\ ~Parse!Valid(Decode(fut["md"].ans).val)
                 => client.val[1] = "InvalidMetadata"

(* Construction returns: from_url resolves to a client or an error, even   *)
(* when a fetch hangs until its timeout or the connection drops halfway.   *)
ConstructionReturns == <>(stage \in {"built", "failed"})

=============================================================================
