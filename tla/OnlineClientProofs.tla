-------------------------- MODULE OnlineClientProofs --------------------------
(***************************************************************************)
(* Proof that client construction is all or nothing, for every set of     *)
(* tasks, every decoder and every node's answers.  The inductive invariant *)
(* says what each joined future holds once done (a failure, or the fetch   *)
(* pipeline applied to the node's answer) and what the cell holds in each *)
(* stage of construction; the property then follows from the one fact     *)
(* about try_from it needs: it succeeds only on a valid blob.              *)
(***************************************************************************)
EXTENDS OnlineClient, TLAPS

(* try_from returns a Metadata only for a valid blob.                      *)
LEMMA TryFromOkValid ==
    ASSUME NEW m, Parse!TryFrom(m).ok
    PROVE  Parse!Valid(m)
<1>1. m.prefix = MetaReserved /\ m.version = "V14" /\ Parse!BadPallets(m) = {}
    BY DEF Parse!TryFrom
<1>2. \A i \in DOMAIN m.pallets :
          m.pallets[i].event # NoEvent =>
              Parse!EventTypeError(m, m.pallets[i].event) = <<"none">>
    BY <1>1 DEF Parse!BadPallets
<1>3. QED
    BY <1>1, <1>2 DEF Parse!Valid, Parse!EventTypeError

(* A joined future: not yet done, failed, or the fetch's result for the   *)
(* answer the node gave.                                                   *)
FutOK(f) ==
    \/ /\ fut[f].st \in {"idle", "wait"}
       /\ fut[f].ans = NoAnswer /\ fut[f].res = Nothing
    \/ /\ fut[f].st = "done"
       /\ fut[f].ans = NoAnswer /\ fut[f].res = RpcFailure
    \/ /\ fut[f].st = "done"
       /\ fut[f].ans \in Reply(Method[f]) /\ fut[f].res = Complete(f, fut[f].ans)

(* The cell in each stage: empty while connecting and joining; the pair   *)
(* of results once built; the connect error, or the first failed result  *)
(* in the ? order, once failed.                                            *)
CellOK ==
    /\ stage \in {"connect", "join"} => client = Nothing
    /\ stage = "connect" => \A f \in Fetch : fut[f].st = "idle"
    /\ stage = "built" =>
          /\ \A f \in Fetch : fut[f].st = "done"
          /\ fut["rv"].res.ok /\ fut["md"].res.ok
          /\ client = Ok([rv |-> fut["rv"].res.val, md |-> fut["md"].res.val])
    /\ stage = "failed" =>
          \/ client = RpcFailure /\ \A f \in Fetch : fut[f].st = "idle"
          \/ /\ \A f \in Fetch : fut[f].st = "done"
             /\ \/ ~fut["rv"].res.ok /\ client = fut["rv"].res
                \/ fut["rv"].res.ok /\ ~fut["md"].res.ok /\ client = fut["md"].res

IInv ==
    /\ stage \in {"connect", "join", "built", "failed"}
    /\ DOMAIN fut = Fetch
    /\ \A f \in Fetch : DOMAIN fut[f] = {"st", "ans", "res"} /\ FutOK(f)
    /\ CellOK

LEMMA IInvInit == Init => IInv
BY DEF Init, IInv, FutOK, CellOK, Fetch

(* The steps that leave construction alone.                                *)
LEMMA IInvFrame ==
    ASSUME IInv, UNCHANGED <<stage, fut, client>>
    PROVE  IInv'
BY DEF IInv, FutOK, CellOK

LEMMA IInvStep == IInv /\ [Next]_vars => IInv'
<1> SUFFICES ASSUME IInv, [Next]_vars PROVE IInv'
    OBVIOUS
<1>1. CASE Connect
    BY <1>1 DEF Connect, IInv, FutOK, CellOK
<1>2. CASE ConnectFail
    BY <1>2 DEF ConnectFail, IInv, FutOK, CellOK
<1>3. CASE PollJoin
    <2>1. \A f \in Fetch : fut'[f] = [st |-> "wait", ans |-> NoAnswer, res |-> Nothing]
        BY <1>3 DEF PollJoin, IInv, FutOK
    <2>2. QED
        BY <1>3, <2>1 DEF PollJoin, IInv, FutOK, CellOK
<1>4. ASSUME NEW f \in Fetch, NEW ans \in Reply(Method[f]), AnswerFetch(f, ans)
      PROVE  IInv'
    <2>1. stage = "join"
        BY <1>4 DEF AnswerFetch, IInv, FutOK, CellOK
    <2>2. fut' = [fut EXCEPT ![f] = [st |-> "done", ans |-> ans, res |-> Complete(f, ans)]]
        BY <1>4 DEF AnswerFetch
    <2>3. ASSUME NEW g \in Fetch
          PROVE  DOMAIN fut'[g] = {"st", "ans", "res"} /\ FutOK(g)'
        <3>1. CASE g = f
            BY <2>2, <3>1 DEF IInv, FutOK
        <3>2. CASE g # f
            BY <2>2, <3>2 DEF IInv, FutOK
        <3>3. QED
            BY <3>1, <3>2
    <2>4. QED
        BY <1>4, <2>1, <2>2, <2>3 DEF AnswerFetch, IInv, CellOK
<1>5. ASSUME NEW f \in Fetch, FailFetch(f)
      PROVE  IInv'
    <2>1. stage = "join"
        BY <1>5 DEF FailFetch, IInv, FutOK, CellOK
    <2>2. fut' = [fut EXCEPT ![f] = [st |-> "done", ans |-> NoAnswer, res |-> RpcFailure]]
        BY <1>5 DEF FailFetch
    <2>3. ASSUME NEW g \in Fetch
          PROVE  DOMAIN fut'[g] = {"st", "ans", "res"} /\ FutOK(g)'
        <3>1. CASE g = f
            BY <2>2, <3>1 DEF IInv, FutOK
        <3>2. CASE g # f
            BY <2>2, <3>2 DEF IInv, FutOK
        <3>3. QED
            BY <3>1, <3>2
    <2>4. QED
        BY <1>5, <2>1, <2>2, <2>3 DEF FailFetch, IInv, CellOK
<1>6. CASE Build
    BY <1>6 DEF Build, IInv, FutOK, CellOK
<1>7. ASSUME NEW t \in Tasks, NEW op \in Ops, Call(t, op)
      PROVE  IInv'
    BY <1>7, IInvFrame DEF Call
<1>8. ASSUME NEW t \in Tasks, NEW ans \in CallAnswers, AnswerCall(t, ans)
      PROVE  IInv'
    BY <1>8, IInvFrame DEF AnswerCall
<1>9. ASSUME NEW t \in Tasks, FailCall(t)
      PROVE  IInv'
    BY <1>9, IInvFrame DEF FailCall
<1>13. ASSUME NEW t \in Tasks, Read(t)
      PROVE  IInv'
    BY <1>13, IInvFrame DEF Read
<1>10. CASE Disconnect
    BY <1>10, IInvFrame DEF Disconnect
<1>11. CASE UNCHANGED vars
    BY <1>11, IInvFrame DEF vars
<1>12. QED
    BY <1>1, <1>2, <1>3, <1>4, <1>5, <1>6, <1>7, <1>8, <1>9, <1>10, <1>11, <1>13 DEF Next

(* A successful metadata fetch: the node sent bytes that decode to a valid *)
(* blob, and the result is try_from's Metadata of it.                      *)
LEMMA MetadataFetchOk ==
    ASSUME IInv, fut["md"].res.ok
    PROVE  LET a == fut["md"].ans IN
           /\ a \notin {NoAnswer, Malformed}
           /\ Decode(a).ok /\ Parse!Valid(Decode(a).val)
           /\ fut["md"].res.val = Parse!TryFrom(Decode(a).val).val
<1> DEFINE a == fut["md"].ans
<1>1. a \in Reply(Method["md"]) /\ fut["md"].res = Complete("md", a)
    BY DEF IInv, FutOK, Fetch, Nothing, RpcFailure, Err
<1>2. a \notin {NoAnswer, Malformed}
    <2>1. a # Malformed
        BY <1>1 DEF Complete, MetadataOf, Request, Err
    <2>2. a # NoAnswer
        BY <1>1, ReplyAssumption DEF Reply, Method
    <2>3. QED
        BY <2>1, <2>2
<1>3. fut["md"].res = MetadataOf(Ok(a))
    BY <1>1, <1>2 DEF Complete, Request
<1>4. Decode(a).ok
    BY <1>3 DEF MetadataOf, Ok, Err
<1>5. Parse!TryFrom(Decode(a).val).ok /\ fut["md"].res.val = Parse!TryFrom(Decode(a).val).val
    BY <1>3, <1>4 DEF MetadataOf, Ok, Err
<1>6. QED
    BY <1>2, <1>4, <1>5, TryFromOkValid

(* A successful runtime-version fetch holds the node's answer.             *)
LEMMA VersionFetchOk ==
    ASSUME IInv, fut["rv"].res.ok
    PROVE  fut["rv"].ans \notin {NoAnswer, Malformed} /\ fut["rv"].res.val = fut["rv"].ans
<1> DEFINE a == fut["rv"].ans
<1>1. a \in Reply(Method["rv"]) /\ fut["rv"].res = Complete("rv", a)
    BY DEF IInv, FutOK, Fetch, Nothing, RpcFailure, Err
<1>2. a # Malformed
    BY <1>1 DEF Complete, Request, Err
<1>3. a # NoAnswer
    BY <1>1, ReplyAssumption DEF Reply, Method
<1>4. QED
    BY <1>1, <1>2, <1>3 DEF Complete, Request, Ok

(* A metadata fetch whose bytes decode to an invalid blob fails with       *)
(* InvalidMetadata.                                                        *)
LEMMA MetadataFetchInvalid ==
    ASSUME IInv, fut["md"].ans \notin {NoAnswer, Malformed},
           Decode(fut["md"].ans).ok, ~Parse!Valid(Decode(fut["md"].ans).val)
    PROVE  fut["md"].res.val[1] = "InvalidMetadata"
<1> DEFINE a == fut["md"].ans
<1>1. fut["md"].res = Complete("md", a)
    BY DEF IInv, FutOK, Fetch
<1>2. ~Parse!TryFrom(Decode(a).val).ok
    BY TryFromOkValid
<1>3. QED
    BY <1>1, <1>2 DEF Complete, MetadataOf, Request, Ok, Err

LEMMA IInvAllOrNothing == IInv => ConstructionAllOrNothing
<1> SUFFICES ASSUME IInv PROVE ConstructionAllOrNothing
    OBVIOUS
<1>1. stage = "built" =>
          LET blob == Decode(fut["md"].ans).val IN
          /\ \A f \in Fetch : fut[f].ans \notin {NoAnswer, Malformed}
          /\ Decode(fut["md"].ans).ok /\ Parse!Valid(blob)
          /\ client = Ok([rv |-> fut["rv"].ans, md |-> Parse!TryFrom(blob).val])
    <2> SUFFICES ASSUME stage = "built" PROVE
          LET blob == Decode(fut["md"].ans).val IN
          /\ \A f \in Fetch : fut[f].ans \notin {NoAnswer, Malformed}
          /\ Decode(fut["md"].ans).ok /\ Parse!Valid(blob)
          /\ client = Ok([rv |-> fut["rv"].ans, md |-> Parse!TryFrom(blob).val])
        OBVIOUS
    <2>1. fut["rv"].res.ok /\ fut["md"].res.ok
          /\ client = Ok([rv |-> fut["rv"].res.val, md |-> fut["md"].res.val])
        BY DEF IInv, CellOK
    <2>2. QED
        BY <2>1, MetadataFetchOk, VersionFetchOk DEF Fetch
<1>2. stage = "failed" =>
          /\ ~client.ok
          /\ client \in {RpcFailure} \cup {fut[f].res : f \in Fetch}
          /\ fut["rv"].res.ok /\ fut["md"].ans \notin {NoAnswer, Malformed}
             /\ Decode(fut["md"].ans).ok /\ ~Parse!Valid(Decode(fut["md"].ans).val)
                 => client.val[1] = "InvalidMetadata"
    <2> SUFFICES ASSUME stage = "failed" PROVE
          /\ ~client.ok
          /\ client \in {RpcFailure} \cup {fut[f].res : f \in Fetch}
          /\ fut["rv"].res.ok /\ fut["md"].ans \notin {NoAnswer, Malformed}
             /\ Decode(fut["md"].ans).ok /\ ~Parse!Valid(Decode(fut["md"].ans).val)
                 => client.val[1] = "InvalidMetadata"
        OBVIOUS
    <2>1. CASE client = RpcFailure /\ \A f \in Fetch : fut[f].st = "idle"
        <3>1. fut["rv"].res = Nothing
            BY <2>1 DEF IInv, FutOK, Fetch
        <3>2. QED
            BY <2>1, <3>1 DEF RpcFailure, Nothing, Err
    <2>2. CASE ~fut["rv"].res.ok /\ client = fut["rv"].res
        BY <2>2 DEF Fetch
    <2>3. CASE fut["rv"].res.ok /\ ~fut["md"].res.ok /\ client = fut["md"].res
        BY <2>3, MetadataFetchInvalid DEF Fetch
    <2>4. QED
        BY <2>1, <2>2, <2>3 DEF IInv, CellOK
<1>3. QED
    BY <1>1, <1>2 DEF ConstructionAllOrNothing

(* Design 4.5 and 7, for every set of tasks and every node: from_url       *)
(* returns a client only when both fetches succeeded, holding exactly the *)
(* node's runtime version and try_from's Metadata of a valid blob, and    *)
(* otherwise an error of a failed request, InvalidMetadata when only the  *)
(* metadata was rejected, whatever order the answers arrived in.           *)
THEOREM ConstructionCorrect == Spec => []ConstructionAllOrNothing
BY IInvInit, IInvStep, IInvAllOrNothing, PTL DEF Spec
-----------------------------------------------------------------------------
(* The tasks' side: the typed calls and the reads of the cell.  A task    *)
(* has read something only once the client is built, and then what it    *)
(* read is the cell itself.                                                *)
TasksOK ==
    /\ open \in BOOLEAN
    /\ call \in [Tasks -> [pc : {"idle", "wait"}, op : Ops \cup {"none"},
                           res : {Nothing, RpcFailure} \cup {Request(a) : a \in CallAnswers}]]
    /\ view \in [Tasks -> {Nothing, client}]
    /\ \A t \in Tasks : view[t] # Nothing => stage = "built"

LEMMA TasksInit == Init => TasksOK
BY DEF Init, TasksOK

LEMMA TasksStep == IInv /\ TasksOK /\ [Next]_vars => TasksOK'
<1> SUFFICES ASSUME IInv, TasksOK, [Next]_vars PROVE TasksOK'
    OBVIOUS
<1>1. CASE Connect
    BY <1>1 DEF Connect, TasksOK, IInv, CellOK
<1>2. CASE ConnectFail
    BY <1>2 DEF ConnectFail, TasksOK, IInv, CellOK
<1>3. CASE PollJoin
    BY <1>3 DEF PollJoin, TasksOK
<1>4. ASSUME NEW f \in Fetch, NEW ans \in Reply(Method[f]), AnswerFetch(f, ans)
      PROVE  TasksOK'
    BY <1>4 DEF AnswerFetch, TasksOK
<1>5. ASSUME NEW f \in Fetch, FailFetch(f)
      PROVE  TasksOK'
    BY <1>5 DEF FailFetch, TasksOK
<1>6. CASE Build
    <2>1. \A t \in Tasks : view[t] = Nothing
        BY <1>6 DEF Build, TasksOK
    <2>2. QED
        BY <1>6, <2>1 DEF Build, TasksOK
<1>7. ASSUME NEW t \in Tasks, NEW op \in Ops, Call(t, op)
      PROVE  TasksOK'
    BY <1>7 DEF Call, TasksOK
<1>8. ASSUME NEW t \in Tasks, NEW ans \in CallAnswers, AnswerCall(t, ans)
      PROVE  TasksOK'
    BY <1>8 DEF AnswerCall, TasksOK
<1>9. ASSUME NEW t \in Tasks, FailCall(t)
      PROVE  TasksOK'
    BY <1>9 DEF FailCall, TasksOK
<1>10. ASSUME NEW t \in Tasks, Read(t)
       PROVE  TasksOK'
    <2>1. client = Ok([rv |-> fut["rv"].res.val, md |-> fut["md"].res.val])
        BY <1>10 DEF Read, IInv, CellOK
    <2>2. Ok([rv |-> client.val.rv, md |-> client.val.md]) = client
        BY <2>1 DEF Ok
    <2>3. QED
        BY <1>10, <2>2 DEF Read, TasksOK
<1>11. CASE Disconnect
    BY <1>11 DEF Disconnect, TasksOK
<1>12. CASE UNCHANGED vars
    BY <1>12 DEF vars, TasksOK
<1>13. QED
    BY <1>1, <1>2, <1>3, <1>4, <1>5, <1>6, <1>7, <1>8, <1>9, <1>10, <1>11, <1>12 DEF Next

(* A done future's result is one TypeOK allows.                            *)
LEMMA FutTyped ==
    ASSUME IInv, NEW f \in Fetch
    PROVE  /\ fut[f].st \in {"idle", "wait", "done"}
           /\ fut[f].ans \in Reply(Method[f]) \cup {NoAnswer}
           /\ fut[f].res \in {Nothing, RpcFailure} \cup {Complete(f, a) : a \in Reply(Method[f])}
BY DEF IInv, FutOK

(* What a built cell holds is a pair TypeOK allows.                        *)
LEMMA BuiltTyped ==
    ASSUME IInv, stage = "built"
    PROVE  client \in {Ok([rv |-> r, md |-> m.val]) :
                           r \in Answers(Method["rv"]),
                           m \in {m \in {Complete("md", a) : a \in Reply(Method["md"])} : m.ok}}
<1>1. fut["rv"].res.ok /\ fut["md"].res.ok
      /\ client = Ok([rv |-> fut["rv"].res.val, md |-> fut["md"].res.val])
    BY DEF IInv, CellOK
<1>2. fut["rv"].res.val \in Answers(Method["rv"])
    <2>1. fut["rv"].ans \in Reply(Method["rv"]) /\ fut["rv"].ans \notin {NoAnswer, Malformed}
          /\ fut["rv"].res.val = fut["rv"].ans
        BY <1>1, VersionFetchOk DEF IInv, FutOK, Fetch
    <2>2. QED
        BY <2>1 DEF Reply
<1>3. fut["md"].res \in {m \in {Complete("md", a) : a \in Reply(Method["md"])} : m.ok}
    <2>1. fut["md"].ans \in Reply(Method["md"]) /\ fut["md"].res = Complete("md", fut["md"].ans)
        BY <1>1, MetadataFetchOk DEF IInv, FutOK, Fetch, Nothing, RpcFailure, Err
    <2>2. QED
        BY <1>1, <2>1
<1>4. QED
    BY <1>1, <1>2, <1>3

LEMMA TypeFromInv == IInv /\ TasksOK => TypeOK
<1> SUFFICES ASSUME IInv, TasksOK PROVE TypeOK
    OBVIOUS
<1>1. \A f \in Fetch :
          /\ fut[f].st \in {"idle", "wait", "done"}
          /\ fut[f].ans \in Reply(Method[f]) \cup {NoAnswer}
          /\ fut[f].res \in {Nothing, RpcFailure} \cup {Complete(f, a) : a \in Reply(Method[f])}
    BY FutTyped
<1>2. client \in {Nothing, RpcFailure} \cup {fut[f].res : f \in {f \in Fetch : ~fut[f].res.ok}}
                  \cup {Ok([rv |-> r, md |-> m.val]) :
                           r \in Answers(Method["rv"]),
                           m \in {m \in {Complete("md", a) : a \in Reply(Method["md"])} : m.ok}}
    <2>1. CASE stage = "built"
        BY <2>1, BuiltTyped
    <2>2. CASE stage # "built"
        BY <2>2 DEF IInv, CellOK, Fetch
    <2>3. QED
        BY <2>1, <2>2
<1>3. view \in [Tasks -> {Nothing} \cup {c \in {client} : c.ok}]
    <2>1. stage = "built" => client.ok
        BY DEF IInv, CellOK, Ok
    <2>2. QED
        BY <2>1 DEF TasksOK
<1>4. QED
    BY <1>1, <1>2, <1>3 DEF TypeOK, IInv, TasksOK

(* Every reachable state of client construction and use is well typed:    *)
(* the cell holds a runtime version the node sent and a Metadata a fetch  *)
(* completed with, or an error of a failed fetch, and what a task reads   *)
(* through metadata() and runtime_version() is the built cell.             *)
THEOREM OnlineTypeCorrect == Spec => []TypeOK
<1>1. Init => IInv /\ TasksOK
    BY IInvInit, TasksInit
<1>2. IInv /\ TasksOK /\ [Next]_vars => (IInv /\ TasksOK)'
    BY IInvStep, TasksStep
<1>3. QED
    BY <1>1, <1>2, TypeFromInv, PTL DEF Spec

=============================================================================
