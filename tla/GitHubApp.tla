------------------------------ MODULE GitHubApp ------------------------------
(***************************************************************************)
(* The GitHub App webhook service: deliveries are checked, claimed by their *)
(* id and dispatched to the partition of their installation; installation   *)
(* tokens are exchanged on demand and cached in memory.  Translated from    *)
(* integrations/github-app/ovk_github_app.                                  *)
(*                                                                         *)
(* The webhook endpoint handles a request without suspending, so a handler  *)
(* is one action; get_token suspends in its HTTP exchange and is two.  Any  *)
(* request may arrive at any time and any number of times: GitHub redelivers*)
(* and the ingress that stamps requests has a clock of its own.             *)
(***************************************************************************)
EXTENDS Integers, Sequences

CONSTANTS
    Delivery,      \* delivery ids
    EventOf,       \* [Delivery -> what its payload is]
    ForOf,         \* [Delivery -> the installation it names]
    Installation,
    Client,        \* threads that ask for tokens
    RequireTimestamp, \* OVK_WEBHOOK_REQUIRE_TIMESTAMP
    TTL,           \* ttl_seconds of the dedupe store; 0 never evicts
    MaxSkew,       \* max_skew_seconds
    TokenProvider, \* is the processor given the token provider that get_token uses?
    TokenSkew,     \* skew_seconds of is_expired
    MaxLifetime,   \* MAX_INSTALLATION_TOKEN_LIFETIME_SECONDS
    MaxClock, MaxLog, MaxLives  \* bounds

\* What the dispatcher tells apart: a repository event of a kind that leaves a
\* receipt, any other event of an installation, its removal, an event without
\* installation, and a body or id that does not parse.
RepositoryEvent == {"check_suite", "pull_request", "push"}
Events == RepositoryEvent \cup {"other", "deleted", "plain", "malformed"}

ASSUME AppAssumption ==
    /\ EventOf \in [Delivery -> Events]
    /\ ForOf \in [Delivery -> Installation]
    /\ {RequireTimestamp, TokenProvider} \subseteq BOOLEAN
    /\ TTL \in Nat /\ MaxSkew \in Nat /\ TokenSkew \in Nat /\ MaxLifetime \in Nat
    /\ MaxClock \in Nat /\ MaxLog \in Nat /\ MaxLives \in Nat \ {0}

\* The service's values: 24 hours against twice five minutes.
ASSUME WindowAssumption == TTL = 0 \/ TTL >= 2 * MaxSkew

NoStamp == -1
NotSeen == -1
NoData == [present |-> FALSE, files |-> {}]
NoToken == [kind |-> "none"]
Idle == [step |-> "idle"]

VARIABLES
    clock,
    seen,       \* [Delivery -> seen_at of its claim, or NotSeen]
    partition,  \* [Installation -> its directory on disk]
    tokens,     \* [Installation -> cached token, or NoToken]
    caller,     \* [Client -> where its get_token is]
    life,       \* number of the running process
    log         \* history: the deliveries accepted in all lives, and whether they were
                \* answered with 200

vars == <<clock, seen, partition, tokens, caller, life, log>>

Init ==
    /\ clock = 0
    /\ seen = [d \in Delivery |-> NotSeen]
    /\ partition = [i \in Installation |-> NoData]
    /\ tokens = [i \in Installation |-> NoToken]
    /\ caller = [c \in Client |-> Idle]
    /\ life = 1
    /\ log = << >>
-----------------------------------------------------------------------------
(* Replay protection *)

\* assert_timestamp_fresh: a request without stamp counts as stamped now, or is
\* refused.
Fresh(stamp) ==
    IF stamp = NoStamp THEN ~RequireTimestamp
    ELSE clock - stamp <= MaxSkew /\ stamp - clock <= MaxSkew

\* Mutant: a claim is evicted when it is exactly as old as the TTL.
Expired_AtTTL(at) == TTL > 0 /\ clock - at >= TTL
\* _evict
Expired(at) == TTL > 0 /\ clock - at > TTL

Evicted == [d \in Delivery |->
    IF seen[d] # NotSeen /\ Expired(seen[d]) THEN NotSeen ELSE seen[d]]

\* try_claim of a delivery not yet seen.
Claim(d) ==
    /\ Evicted[d] = NotSeen
    /\ seen' = [Evicted EXCEPT ![d] = clock]

Accepted(d, stamp, ok) ==
    /\ Len(log) < MaxLog
    /\ log' = Append(log, [delivery |-> d, stamp |-> stamp, at |-> clock, life |-> life, ok |-> ok])

\* A duplicate is refused; the eviction has happened.
RefuseDuplicate(d, stamp) ==
    /\ Fresh(stamp) /\ Evicted[d] # NotSeen
    /\ seen' = Evicted
    /\ UNCHANGED <<clock, partition, tokens, caller, life, log>>

\* The id stays claimed when the payload is refused.
RefusePayload(d, stamp) ==
    /\ Fresh(stamp) /\ EventOf[d] = "malformed"
    /\ Claim(d) /\ Accepted(d, stamp, FALSE)
    /\ UNCHANGED <<clock, partition, tokens, caller, life>>
-----------------------------------------------------------------------------
(* Dispatch *)

\* Mutant: receipts of a kind share one file.
Receipt_Undated(d) == [event |-> EventOf[d], second |-> 0, delivery |-> d, whole |-> TRUE]
\* events/{event}-{now}.json
Receipt(d) == [event |-> EventOf[d], second |-> clock, delivery |-> d, whole |-> TRUE]

SameName(f, g) == f.event = g.event /\ f.second = g.second

\* Mutant: the directories are not made first.
Store_Bare(data, f) ==
    [data EXCEPT !.files = {g \in @ : ~SameName(f, g)} \cup {f}]
\* write_json replaces the file of that name.
Store(data, f) == [present |-> TRUE, files |-> {g \in data.files : ~SameName(f, g)} \cup {f}]

\* write_text truncates the file before it writes: what it leaves when the write fails.
Torn(f) == [f EXCEPT !.whole = FALSE]

\* partition() makes the directories if they are missing.
Ensured(data) == [data EXCEPT !.present = TRUE]

HandleEvent(d, stamp) ==
    /\ EventOf[d] \in RepositoryEvent
    /\ Fresh(stamp) /\ Claim(d) /\ Accepted(d, stamp, TRUE)
    /\ partition' = [partition EXCEPT ![ForOf[d]] = Store(@, Receipt(d))]
    /\ UNCHANGED <<clock, tokens, caller, life>>

HandleOther(d, stamp) ==
    /\ EventOf[d] \in {"other", "plain"}
    /\ Fresh(stamp) /\ Claim(d) /\ Accepted(d, stamp, TRUE)
    /\ partition' = IF EventOf[d] = "plain" THEN partition
                    ELSE [partition EXCEPT ![ForOf[d]] = Ensured(@)]
    /\ UNCHANGED <<clock, tokens, caller, life>>

\* Mutant: clear_cache is not called.
ClearCache_Skipped(i) == tokens
ClearCache(i) == IF TokenProvider THEN [tokens EXCEPT ![i] = NoToken] ELSE tokens

\* handle_installation_deleted
HandleDeleted(d, stamp) ==
    /\ EventOf[d] = "deleted"
    /\ Fresh(stamp) /\ Claim(d) /\ Accepted(d, stamp, TRUE)
    /\ partition' = [partition EXCEPT ![ForOf[d]] = NoData]
    /\ tokens' = ClearCache(ForOf[d])
    /\ UNCHANGED <<clock, caller, life>>

\* What a dispatch leaves of a partition when it does not end: nothing new,
\* directories, a receipt without its text in the place of an earlier one of its
\* name, part of the tree that was to be removed.
LeftBehind(d) ==
    LET data == partition[ForOf[d]] IN
    CASE EventOf[d] = "other" -> {data, Ensured(data)}
      [] EventOf[d] \in RepositoryEvent -> {data, Ensured(data), Store(data, Torn(Receipt(d)))}
      [] EventOf[d] = "deleted" /\ data.present -> [present : {data.present}, files : SUBSET data.files]
      [] OTHER -> {}

\* The file system refuses a step of the dispatch and the exception leaves the
\* handler, or the process is about to die: nothing is undone and the id stays claimed.
DispatchFails(d, stamp) ==
    /\ Fresh(stamp) /\ Claim(d) /\ Accepted(d, stamp, FALSE)
    /\ \E left \in LeftBehind(d) : partition' = [partition EXCEPT ![ForOf[d]] = left]
    /\ UNCHANGED <<clock, tokens, caller, life>>

\* A request with a valid signature arrives; those without change nothing.
Receive(d, stamp) ==
    \/ RefuseDuplicate(d, stamp)
    \/ RefusePayload(d, stamp)
    \/ HandleEvent(d, stamp)
    \/ HandleOther(d, stamp)
    \/ HandleDeleted(d, stamp)
    \/ DispatchFails(d, stamp)
-----------------------------------------------------------------------------
(* Installation tokens *)

IsExpired(t) == t.expires - clock <= TokenSkew

Usable(i) == tokens[i] # NoToken /\ ~IsExpired(tokens[i])

\* get_token returns a usable token of the cache and changes nothing.
\* Without one, or told to refresh, it reads the time and starts the exchange.
AskForToken(c, i, force) ==
    /\ caller[c] = Idle
    /\ ~Usable(i) \/ force
    /\ caller' = [caller EXCEPT ![c] = [step |-> "exchanging", for |-> i, now |-> clock]]
    /\ UNCHANGED <<clock, seen, partition, tokens, life, log>>

LifetimeAllowed(lifetime) == lifetime > 0 /\ lifetime <= MaxLifetime

\* GitHub answers with a token; it is stored and returned.
TakeToken(c, expires) ==
    /\ caller[c].step = "exchanging"
    /\ LifetimeAllowed(expires - caller[c].now)
    /\ LET i == caller[c].for
           t == [kind |-> "token", expires |-> expires, after |-> Len(log)]
       IN  tokens' = [tokens EXCEPT ![i] = t]
    /\ caller' = [caller EXCEPT ![c] = Idle]
    /\ UNCHANGED <<clock, seen, partition, life, log>>

\* An error status, no token, a personal access token or a lifetime out of policy.
RefuseToken(c) ==
    /\ caller[c].step = "exchanging"
    /\ caller' = [caller EXCEPT ![c] = Idle]
    /\ UNCHANGED <<clock, seen, partition, tokens, life, log>>

\* The process dies and is started again: only the partitions survive.
Restart ==
    /\ life < MaxLives
    /\ life' = life + 1
    /\ seen' = [d \in Delivery |-> NotSeen]
    /\ tokens' = [i \in Installation |-> NoToken]
    /\ caller' = [c \in Client |-> Idle]
    /\ UNCHANGED <<clock, partition, log>>

Tick ==
    /\ clock < MaxClock
    /\ clock' = clock + 1
    /\ UNCHANGED <<seen, partition, tokens, caller, life, log>>

Stamps == 0..MaxClock \cup {NoStamp}
Expiries == 0..(MaxClock + MaxLifetime + 1)

Next ==
    \/ \E d \in Delivery, stamp \in Stamps : Receive(d, stamp)
    \/ \E c \in Client, i \in Installation, force \in BOOLEAN : AskForToken(c, i, force)
    \/ \E c \in Client : RefuseToken(c) \/ \E expires \in Expiries : TakeToken(c, expires)
    \/ Restart
    \/ Tick

Spec == Init /\ [][Next]_vars
-----------------------------------------------------------------------------
(* Properties *)

Token == [kind : {"token"}, expires : 1..(MaxClock + MaxLifetime), after : 0..MaxLog]
File == [event : RepositoryEvent, second : 0..MaxClock, delivery : Delivery, whole : BOOLEAN]
Entry == [delivery : Delivery, stamp : Stamps, at : 0..MaxClock, life : 1..MaxLives, ok : BOOLEAN]

\* Claims, directories, cached tokens and the history are of their types; a cached
\* token expires within MaxLifetime of the last time it can have been asked for.
TypeOK ==
    /\ clock \in 0..MaxClock
    /\ seen \in [Delivery -> 0..MaxClock \cup {NotSeen}]
    /\ partition \in [Installation -> [present : BOOLEAN, files : SUBSET File]]
    /\ \A i \in Installation : partition[i].files # {} => partition[i].present
    /\ tokens \in [Installation -> Token \cup {NoToken}]
    /\ life \in 1..MaxLives
    /\ log \in Seq(Entry)

\* In one life of the process a delivery is accepted at most once, however often
\* and in whatever order it arrives, until the dedupe store has forgotten it; and
\* a request that carries its timestamp is never accepted twice, because its
\* timestamp is stale before its claim is evicted (protect_against_replay).
AtMostOnce ==
    \A m, n \in 1..Len(log) :
        m < n /\ log[m].delivery = log[n].delivery /\ log[m].life = log[n].life =>
            /\ TTL > 0 /\ log[n].at - log[m].at > TTL
            /\ log[m].stamp = log[n].stamp => log[m].stamp = NoStamp

\* After the first n dispatches the removal of i was tried; or was done.
RemovalTried(i, n) ==
    \E m \in n + 1..Len(log) : EventOf[log[m].delivery] = "deleted" /\ ForOf[log[m].delivery] = i
Removed(i, n) ==
    \E m \in n + 1..Len(log) :
        EventOf[log[m].delivery] = "deleted" /\ ForOf[log[m].delivery] = i /\ log[m].ok

\* A later event of the same name for its receipt as the n-th could not be written.
Spoilt(n) ==
    \E m \in n + 1..Len(log) :
        /\ EventOf[log[m].delivery] = EventOf[log[n].delivery]
        /\ ForOf[log[m].delivery] = ForOf[log[n].delivery]
        /\ log[m].at = log[n].at /\ ~log[m].ok

\* Every repository event answered with 200 has a whole receipt of its kind and
\* second in the partition of its installation, over restarts and whatever other
\* deliveries do, until a removal is tried or the writing of a receipt of that very
\* name fails, which truncates it first (write_json, delete_installation).
ReceiptKept ==
    \A n \in 1..Len(log) :
        LET d == log[n].delivery IN
        EventOf[d] \in RepositoryEvent /\ log[n].ok =>
            \/ \E f \in partition[ForOf[d]].files :
                  f.event = EventOf[d] /\ f.second = log[n].at /\ f.whole
            \/ RemovalTried(ForOf[d], n)
            \/ Spoilt(n)

\* Whatever was stored for an installation before an uninstall that was answered
\* with 200 is gone: its receipts, across restarts, and its tokens, if the processor
\* knows where they are; only what arrives or completes later is there
\* (handle_installation_deleted).
UninstallForgets ==
    \A i \in Installation :
        /\ \A f \in partition[i].files : \E n \in 1..Len(log) :
              log[n].delivery = f.delivery /\ log[n].at = f.second /\ ~Removed(i, n)
        /\ TokenProvider /\ tokens[i] # NoToken => ~Removed(i, tokens[i].after)
=============================================================================
