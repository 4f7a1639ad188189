----------------------------- MODULE AtomicMemo ------------------------------
(***************************************************************************)
(* What a memoising cache promises its concurrent callers (design 4.3 and *)
(* 6): each call returns F of its key; the first result computed for a key *)
(* is remembered and every later call on that key gets it back; and a     *)
(* call takes effect at one instant between its invocation and its return,*)
(* with no torn or mixed value ever stored.                                *)
(***************************************************************************)
CONSTANTS
    Callers,   \* concurrent callers
    Key,       \* the keys they ask for
    F(_),      \* the pure function the cache memoises
    NoResult   \* a caller's return slot before its call has returned

VARIABLES
    memo,   \* the remembered results: a function on the keys seen so far
    mpc,    \* per caller: "idle" or "busy" inside a call
    marg,   \* per caller: the key of its current or last call
    mret    \* per caller: what its last call returned

mvars == <<memo, mpc, marg, mret>>

Init ==
    /\ memo = [k \in {} |-> NoResult]
    /\ mpc = [c \in Callers |-> "idle"]
    /\ marg \in [Callers -> Key]
    /\ mret = [c \in Callers |-> NoResult]

(* A caller invokes get_or_insert on key k.                                *)
Invoke(c, k) ==
    /\ mpc[c] = "idle"
    /\ mpc' = [mpc EXCEPT ![c] = "busy"]
    /\ marg' = [marg EXCEPT ![c] = k]
    /\ mret' = [mret EXCEPT ![c] = NoResult]
    /\ UNCHANGED memo

(* The call takes effect and returns: the remembered result, or F of the   *)
(* key, remembered from now on.                                            *)
Respond(c) ==
    LET k == marg[c] IN
    /\ mpc[c] = "busy"
    /\ IF k \in DOMAIN memo
       THEN /\ mret' = [mret EXCEPT ![c] = memo[k]]
            /\ UNCHANGED memo
       ELSE /\ memo' = [x \in DOMAIN memo \cup {k} |-> IF x = k THEN F(k) ELSE memo[x]]
            /\ mret' = [mret EXCEPT ![c] = F(k)]
    /\ mpc' = [mpc EXCEPT ![c] = "idle"]
    /\ UNCHANGED marg

Next ==
    \E c \in Callers :
        \/ \E k \in Key : Invoke(c, k)
        \/ Respond(c)

Spec == Init /\ [][Next]_mvars

=============================================================================
