---------------------------- MODULE CacheContract ----------------------------
(***************************************************************************)
(* What the control plane may rely on when it asks the result cache: an     *)
(* answer is a miss, or a value that was put under exactly the key asked    *)
(* for.  The cache may forget anything at any time, so a miss is always     *)
(* allowed; it may not invent, mix, or hand out another key's value.        *)
(***************************************************************************)
CONSTANTS Client, Key, Value

VARIABLES
    stored,   \* pairs <<key, value>> put so far
    answer    \* [Client -> the last answer given to it]

NoAnswer == [kind |-> "none"]
Miss(k) == [kind |-> "miss", key |-> k]
Hit(k, v) == [kind |-> "hit", key |-> k, value |-> v]

Init == stored = {} /\ answer = [c \in Client |-> NoAnswer]

Put(k, v) == stored' = stored \cup {<<k, v>>} /\ UNCHANGED answer

AnswerMiss(c, k) == answer' = [answer EXCEPT ![c] = Miss(k)] /\ UNCHANGED stored

AnswerHit(c, k, v) ==
    /\ <<k, v>> \in stored
    /\ answer' = [answer EXCEPT ![c] = Hit(k, v)]
    /\ UNCHANGED stored

Next ==
    \/ \E k \in Key, v \in Value : Put(k, v)
    \/ \E c \in Client, k \in Key : AnswerMiss(c, k) \/ \E v \in Value : AnswerHit(c, k, v)

Spec == Init /\ [][Next]_<<stored, answer>>
=============================================================================
