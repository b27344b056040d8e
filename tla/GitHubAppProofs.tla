--------------------------- MODULE GitHubAppProofs ---------------------------
(***************************************************************************)
(* The invariants of the webhook service, for every set of deliveries and   *)
(* installations and any number of restarts: it accepts a delivery at most  *)
(* once, keeps receipts until a removal or a receipt of the same name, and  *)
(* forgets an installation that was removed.                                *)
(***************************************************************************)
EXTENDS GitHubApp, TLAPS

USE DEF NoStamp, NotSeen

\* Every action that accepts a delivery does this to the clock, the claims and the
\* history, and every other action leaves the history alone.
AcceptStep ==
    \E d \in Delivery, stamp \in Stamps, ok \in BOOLEAN :
        /\ Fresh(stamp) /\ Claim(d) /\ Accepted(d, stamp, ok)
        /\ UNCHANGED <<clock, life>>

ForgetStep ==
    /\ UNCHANGED log
    /\ \/ UNCHANGED <<clock, life>> /\ seen' \in {seen, Evicted}
       \/ UNCHANGED <<seen, life>> /\ clock' = clock + 1 /\ clock < MaxClock
       \/ UNCHANGED clock /\ life' = life + 1 /\ life < MaxLives
          /\ seen' = [d \in Delivery |-> NotSeen]

LEMMA StepKinds == ASSUME [Next]_vars PROVE AcceptStep \/ ForgetStep
<1>1. ASSUME NEW d \in Delivery, NEW stamp \in Stamps, Receive(d, stamp)
      PROVE AcceptStep \/ ForgetStep
  <2>1. CASE RefuseDuplicate(d, stamp)
    BY <2>1 DEF RefuseDuplicate, ForgetStep
  <2>2. CASE RefusePayload(d, stamp)
    BY <2>2 DEF RefusePayload, AcceptStep
  <2>3. CASE HandleEvent(d, stamp)
    BY <2>3 DEF HandleEvent, AcceptStep
  <2>4. CASE HandleOther(d, stamp)
    BY <2>4 DEF HandleOther, AcceptStep
  <2>5. CASE HandleDeleted(d, stamp)
    BY <2>5 DEF HandleDeleted, AcceptStep
  <2>6. CASE DispatchFails(d, stamp)
    BY <2>6 DEF DispatchFails, AcceptStep
  <2> QED BY <1>1, <2>1, <2>2, <2>3, <2>4, <2>5, <2>6 DEF Receive
<1>2. ASSUME NEW c \in Client, NEW i \in Installation, NEW force \in BOOLEAN,
             AskForToken(c, i, force)
      PROVE ForgetStep
  BY <1>2 DEF AskForToken, ForgetStep
<1>3. ASSUME NEW c \in Client,
             RefuseToken(c) \/ \E expires \in Expiries : TakeToken(c, expires)
      PROVE ForgetStep
  BY <1>3 DEF RefuseToken, TakeToken, ForgetStep
<1>4. CASE Restart
  BY <1>4 DEF Restart, ForgetStep
<1>5. CASE Tick
  BY <1>5 DEF Tick, ForgetStep
<1>6. CASE UNCHANGED vars
  BY <1>6 DEF vars, ForgetStep
<1> QED BY <1>1, <1>2, <1>3, <1>4, <1>5, <1>6 DEF Next
-----------------------------------------------------------------------------
(* At most once *)

ClockTypeOK ==
    /\ clock \in 0..MaxClock
    /\ life \in 1..MaxLives
    /\ seen \in [Delivery -> 0..MaxClock \cup {NotSeen}]
    /\ log \in Seq(Entry)

\* What the claims still know about the history: an acceptance of this life is
\* claimed, by itself or by a later one, unless it is older than the TTL.
Remembered ==
    \A n \in 1..Len(log) :
        /\ log[n].at <= clock
        /\ log[n].life = life =>
              \/ seen[log[n].delivery] # NotSeen /\ seen[log[n].delivery] >= log[n].at
              \/ TTL > 0 /\ clock - log[n].at > TTL

\* No acceptance is of a life still to come.
NoFutureLife == \A n \in 1..Len(log) : log[n].life <= life

\* A request was accepted inside the window around its timestamp.
InWindow ==
    \A n \in 1..Len(log) : log[n].stamp # NoStamp =>
        /\ log[n].at - log[n].stamp <= MaxSkew
        /\ log[n].stamp - log[n].at <= MaxSkew

OnceInv == ClockTypeOK /\ Remembered /\ NoFutureLife /\ InWindow /\ AtMostOnce

LEMMA OnceInit == ASSUME Init PROVE OnceInv
<1>1. Len(log) = 0 /\ log \in Seq(Entry)
  BY DEF Init
<1>2. MaxClock \in Nat /\ MaxLives \in Nat \ {0}
  BY AppAssumption
<1>3. ClockTypeOK
  BY <1>1, <1>2 DEF Init, ClockTypeOK
<1> QED BY <1>1, <1>3 DEF OnceInv, Remembered, NoFutureLife, InWindow, AtMostOnce

\* Appending an entry leaves the earlier entries as they were.
LEMMA Appended ==
    ASSUME NEW S, NEW s \in Seq(S), NEW x \in S
    PROVE  /\ Append(s, x) \in Seq(S)
           /\ Len(Append(s, x)) = Len(s) + 1
           /\ Append(s, x)[Len(s) + 1] = x
           /\ \A n \in 1..Len(s) : Append(s, x)[n] = s[n]
  OBVIOUS

LEMMA ConstantsAreNumbers ==
    /\ TTL \in Nat /\ MaxSkew \in Nat
    /\ MaxClock \in Nat /\ MaxLives \in Nat \ {0}
  BY AppAssumption

LEMMA ForgetKeepsOnce == ASSUME OnceInv, ForgetStep PROVE OnceInv'
<1> USE ConstantsAreNumbers
<1>1. ClockTypeOK'
  <2>1. (seen \in [Delivery -> 0..MaxClock \cup {NotSeen}])'
    BY DEF ForgetStep, OnceInv, ClockTypeOK, Evicted
  <2>2. (clock \in 0..MaxClock)' /\ (life \in 1..MaxLives)'
    BY DEF ForgetStep, OnceInv, ClockTypeOK
  <2>3. (log \in Seq(Entry))'
    BY DEF ForgetStep, OnceInv, ClockTypeOK
  <2> QED BY <2>1, <2>2, <2>3 DEF ClockTypeOK
<1>2. Remembered'
  <2> SUFFICES ASSUME NEW n \in 1..Len(log)
               PROVE /\ log[n].at <= clock'
                     /\ log[n].life = life' =>
                          \/ seen'[log[n].delivery] # NotSeen /\ seen'[log[n].delivery] >= log[n].at
                          \/ TTL > 0 /\ clock' - log[n].at > TTL
    BY DEF ForgetStep, Remembered
  <2>1. log[n] \in Entry
    BY DEF OnceInv, ClockTypeOK
  <2>2. log[n].delivery \in Delivery /\ log[n].at \in 0..MaxClock /\ log[n].life \in 1..MaxLives
    BY <2>1 DEF Entry
  <2>3. /\ clock \in Nat /\ life \in Nat
        /\ seen[log[n].delivery] \in 0..MaxClock \cup {NotSeen}
    BY <2>2 DEF OnceInv, ClockTypeOK
  <2>4. /\ log[n].at <= clock
        /\ log[n].life <= life
        /\ log[n].life = life =>
              \/ seen[log[n].delivery] # NotSeen /\ seen[log[n].delivery] >= log[n].at
              \/ TTL > 0 /\ clock - log[n].at > TTL
    BY DEF OnceInv, Remembered, NoFutureLife
  <2>5. CASE UNCHANGED <<clock, life>> /\ seen' \in {seen, Evicted}
    <3>1. \/ seen'[log[n].delivery] = seen[log[n].delivery]
          \/ TTL > 0 /\ clock - seen[log[n].delivery] > TTL
      BY <2>5, <2>2 DEF Evicted, Expired
    <3>2. log[n].at \in Int /\ clock \in Int /\ TTL \in Int
      BY <2>2, <2>3, AppAssumption
    <3>3. ASSUME log[n].life = life
          PROVE  \/ seen'[log[n].delivery] # NotSeen /\ seen'[log[n].delivery] >= log[n].at
                 \/ TTL > 0 /\ clock - log[n].at > TTL
      <4>1. CASE seen'[log[n].delivery] = seen[log[n].delivery]
        BY <2>4, <3>3, <4>1
      <4>2. CASE TTL > 0 /\ clock - seen[log[n].delivery] > TTL
        <5>1. CASE seen[log[n].delivery] # NotSeen /\ seen[log[n].delivery] >= log[n].at
          BY <2>3, <3>2, <4>2, <5>1 DEF NotSeen
        <5> QED BY <2>4, <3>3, <5>1
      <4> QED BY <3>1, <4>1, <4>2
    <3> QED BY <2>4, <2>5, <3>3
  <2>6. CASE UNCHANGED <<seen, life>> /\ clock' = clock + 1 /\ clock < MaxClock
    BY <2>6, <2>2, <2>3, <2>4
  <2>7. CASE UNCHANGED clock /\ life' = life + 1
    BY <2>7, <2>2, <2>3, <2>4
  <2> QED BY <2>5, <2>6, <2>7 DEF ForgetStep
<1>3. NoFutureLife'
  <2> SUFFICES ASSUME NEW n \in 1..Len(log) PROVE log[n].life <= life'
    BY DEF ForgetStep, NoFutureLife
  <2>1. log[n] \in Entry
    BY DEF OnceInv, ClockTypeOK
  <2>2. log[n].life <= life /\ log[n].life \in 1..MaxLives
    BY <2>1 DEF OnceInv, NoFutureLife, Entry
  <2> QED BY <2>2 DEF ForgetStep, OnceInv, ClockTypeOK
<1>4. InWindow' /\ AtMostOnce'
  BY DEF ForgetStep, OnceInv, InWindow, AtMostOnce
<1> QED BY <1>1, <1>2, <1>3, <1>4 DEF OnceInv

LEMMA AcceptKeepsOnce == ASSUME OnceInv, AcceptStep PROVE OnceInv'
<1> USE ConstantsAreNumbers
<1>1. PICK d \in Delivery, stamp \in Stamps, ok \in BOOLEAN :
         /\ Fresh(stamp) /\ Claim(d) /\ Accepted(d, stamp, ok)
         /\ UNCHANGED <<clock, life>>
  BY DEF AcceptStep
<1> DEFINE new == [delivery |-> d, stamp |-> stamp, at |-> clock, life |-> life, ok |-> ok]
<1>2. clock \in 0..MaxClock /\ life \in 1..MaxLives /\ log \in Seq(Entry)
  BY DEF OnceInv, ClockTypeOK
<1>3. new \in Entry
  BY <1>2 DEF Entry
<1>4. /\ log' \in Seq(Entry)
      /\ Len(log') = Len(log) + 1
      /\ log'[Len(log) + 1] = new
      /\ \A n \in 1..Len(log) : log'[n] = log[n]
  <2>1. log' = Append(log, new)
    BY <1>1 DEF Accepted
  <2> HIDE DEF new
  <2> QED BY <2>1, <1>2, <1>3, Appended
<1>5. Len(log) \in Nat
  BY <1>2
<1>6. \A n \in 1..Len(log') : n \in 1..Len(log) \/ n = Len(log) + 1
  BY <1>4, <1>5
<1>7. \A n \in 1..Len(log) :
         /\ log[n].delivery \in Delivery /\ log[n].at \in 0..MaxClock
         /\ log[n].life \in 1..MaxLives /\ log[n].stamp \in Stamps
  <2> SUFFICES ASSUME NEW n \in 1..Len(log) PROVE log[n] \in Entry
    BY DEF Entry
  <2> QED BY <1>2
<1>8. stamp # NoStamp => clock - stamp <= MaxSkew /\ stamp - clock <= MaxSkew
  BY <1>1 DEF Fresh
<1>9. ClockTypeOK'
  <2>1. (seen \in [Delivery -> 0..MaxClock \cup {NotSeen}])'
    BY <1>1, <1>2 DEF OnceInv, ClockTypeOK, Claim, Evicted
  <2> QED BY <2>1, <1>1, <1>2, <1>4 DEF ClockTypeOK
\* An earlier acceptance of this delivery in this life is older than the TTL.
<1>10. ASSUME NEW n \in 1..Len(log), log[n].delivery = d, log[n].life = life
       PROVE TTL > 0 /\ clock - log[n].at > TTL
  <2>1. \/ seen[d] = NotSeen
        \/ TTL > 0 /\ clock - seen[d] > TTL
    BY <1>1 DEF Claim, Evicted, Expired
  <2>2. \/ seen[d] # NotSeen /\ seen[d] >= log[n].at
        \/ TTL > 0 /\ clock - log[n].at > TTL
    BY <1>10 DEF OnceInv, Remembered
  <2>3. seen[d] \in 0..MaxClock \cup {NotSeen}
    BY DEF OnceInv, ClockTypeOK
  <2> QED BY <2>1, <2>2, <2>3, <1>2, <1>7
<1>11. Remembered'
  <2> SUFFICES ASSUME NEW n \in 1..Len(log')
               PROVE (/\ log[n].at <= clock
                      /\ log[n].life = life =>
                           \/ seen[log[n].delivery] # NotSeen /\ seen[log[n].delivery] >= log[n].at
                           \/ TTL > 0 /\ clock - log[n].at > TTL)'
    BY DEF Remembered
  <2>1. CASE n = Len(log) + 1
    <3>1. log'[n].at = clock /\ log'[n].delivery = d
      BY <2>1, <1>4
    <3>2. seen'[d] = clock
      BY <1>1 DEF Claim, Evicted
    <3> QED BY <3>1, <3>2, <1>1, <1>2
  <2>2. CASE n \in 1..Len(log)
    <3>1. log'[n] = log[n] /\ log[n].delivery \in Delivery
      BY <2>2, <1>4, <1>7
    <3>2. /\ log[n].at <= clock
          /\ log[n].life = life =>
               \/ seen[log[n].delivery] # NotSeen /\ seen[log[n].delivery] >= log[n].at
               \/ TTL > 0 /\ clock - log[n].at > TTL
      BY <2>2 DEF OnceInv, Remembered
    <3>3. \/ log[n].delivery = d /\ seen'[log[n].delivery] = clock
          \/ seen'[log[n].delivery] = seen[log[n].delivery]
          \/ TTL > 0 /\ clock - seen[log[n].delivery] > TTL
      BY <3>1, <1>1 DEF Claim, Evicted, Expired
    <3>4. seen[log[n].delivery] \in 0..MaxClock \cup {NotSeen}
      BY <3>1 DEF OnceInv, ClockTypeOK
    <3>5. ASSUME log[n].life = life
          PROVE  \/ seen'[log[n].delivery] # NotSeen /\ seen'[log[n].delivery] >= log[n].at
                 \/ TTL > 0 /\ clock - log[n].at > TTL
      <4>1. log[n].at \in Int /\ clock \in Int /\ TTL \in Int /\ clock # NotSeen
        BY <2>2, <1>2, <1>7, AppAssumption DEF NotSeen
      <4>2. CASE \/ log[n].delivery = d /\ seen'[log[n].delivery] = clock
                 \/ seen'[log[n].delivery] = seen[log[n].delivery]
        BY <3>2, <3>5, <4>1, <4>2
      <4>3. CASE TTL > 0 /\ clock - seen[log[n].delivery] > TTL
        <5>1. CASE seen[log[n].delivery] # NotSeen /\ seen[log[n].delivery] >= log[n].at
          BY <3>4, <4>1, <4>3, <5>1 DEF NotSeen
        <5> QED BY <3>2, <3>5, <5>1
      <4> QED BY <3>3, <4>2, <4>3
    <3> QED BY <3>1, <3>2, <3>5, <1>1
  <2> QED BY <2>1, <2>2, <1>6
<1>12. NoFutureLife'
  BY <1>1, <1>2, <1>4, <1>6 DEF NoFutureLife, OnceInv
<1>13. InWindow'
  BY <1>4, <1>6, <1>8 DEF InWindow, OnceInv
<1>14. AtMostOnce'
  <2> SUFFICES ASSUME NEW m \in 1..Len(log'), NEW n \in 1..Len(log'), m < n,
                      log'[m].delivery = log'[n].delivery, log'[m].life = log'[n].life
               PROVE /\ TTL > 0 /\ log'[n].at - log'[m].at > TTL
                     /\ log'[m].stamp = log'[n].stamp => log'[m].stamp = NoStamp
    BY DEF AtMostOnce
  <2>1. CASE n \in 1..Len(log)
    <3>1. m \in 1..Len(log) /\ log'[m] = log[m] /\ log'[n] = log[n]
      BY <2>1, <1>4, <1>5, <1>6
    <3> QED BY <2>1, <3>1 DEF OnceInv, AtMostOnce
  <2>2. CASE n = Len(log) + 1
    <3>1. m \in 1..Len(log) /\ log'[m] = log[m] /\ log'[n] = new
      BY <2>2, <1>4, <1>5, <1>6
    <3>2. log[m].delivery = d /\ log[m].life = life
      BY <3>1
    <3>3. TTL > 0 /\ clock - log[m].at > TTL
      BY <3>1, <3>2, <1>10
    <3>4. log[m].stamp # NoStamp =>
             log[m].at - log[m].stamp <= MaxSkew /\ log[m].stamp - log[m].at <= MaxSkew
      BY <3>1 DEF OnceInv, InWindow
    <3>5. log[m].stamp = stamp => stamp = NoStamp
      <4> SUFFICES ASSUME log[m].stamp = stamp, stamp # NoStamp PROVE FALSE
        OBVIOUS
      <4>1. stamp \in Int /\ log[m].at \in Int /\ clock \in Int
        BY <3>1, <1>2, <1>7 DEF Stamps
      <4>2. /\ log[m].stamp - log[m].at <= MaxSkew /\ clock - stamp <= MaxSkew
            /\ MaxSkew \in Int /\ TTL \in Int
        BY <3>4, <1>8, AppAssumption
      <4> DEFINE earlier == log[m].at
      <4>3. earlier \in Int /\ stamp - earlier <= MaxSkew /\ TTL > 0 /\ clock - earlier > TTL
        BY <4>1, <4>2, <3>3
      <4> HIDE DEF earlier
      <4>4. clock - earlier <= 2 * MaxSkew
        BY <4>1, <4>2, <4>3
      <4> QED BY <4>1, <4>2, <4>3, <4>4, WindowAssumption
    <3> QED BY <3>1, <3>3, <3>5
  <2> QED BY <2>1, <2>2, <1>6
<1> QED BY <1>9, <1>11, <1>12, <1>13, <1>14 DEF OnceInv

THEOREM OnceCorrect == Spec => []AtMostOnce
<1>1. Init => OnceInv
  BY OnceInit
<1>2. OnceInv /\ [Next]_vars => OnceInv'
  BY StepKinds, ForgetKeepsOnce, AcceptKeepsOnce
<1>3. OnceInv => AtMostOnce
  BY DEF OnceInv
<1> QED BY <1>1, <1>2, <1>3, PTL DEF Spec

-----------------------------------------------------------------------------
(* Receipts, removals and tokens *)

\* A get_token that waits for its exchange.
CallersWait ==
    caller \in [Client -> {Idle} \cup
                  [step : {"exchanging"}, for : Installation, now : 0..MaxClock]]

ServiceOK == TypeOK /\ Len(log) <= MaxLog /\ CallersWait

ServiceInv == ServiceOK /\ ReceiptKept /\ UninstallForgets

LEMMA Bounds ==
    /\ MaxClock \in Nat /\ MaxLog \in Nat /\ MaxLives \in Nat \ {0}
    /\ MaxLifetime \in Nat
    /\ \A d \in Delivery : ForOf[d] \in Installation /\ EventOf[d] \in Events
  BY AppAssumption

LEMMA ServiceInit == ASSUME Init PROVE ServiceInv
<1> USE Bounds
<1>1. Len(log) = 0 /\ log \in Seq(Entry)
  BY DEF Init
<1>2. TypeOK
  <2>1. clock \in 0..MaxClock /\ life \in 1..MaxLives
    BY DEF Init
  <2>2. seen \in [Delivery -> 0..MaxClock \cup {NotSeen}]
    BY DEF Init
  <2>3. tokens \in [Installation -> Token \cup {NoToken}]
    BY DEF Init
  <2>4. /\ NoData \in [present : BOOLEAN, files : SUBSET File] /\ NoData.files = {}
        /\ partition = [i \in Installation |-> NoData]
    BY DEF Init, NoData
  <2> QED BY <1>1, <2>1, <2>2, <2>3, <2>4 DEF TypeOK
<1>3. CallersWait
  BY DEF Init, CallersWait
<1>4. ReceiptKept /\ UninstallForgets
  BY <1>1 DEF Init, ReceiptKept, UninstallForgets, NoData
<1> QED BY <1>1, <1>2, <1>3, <1>4 DEF ServiceInv, ServiceOK

\* What an acceptance does to the history.
LEMMA AcceptedAppends ==
    ASSUME ServiceOK, NEW d \in Delivery, NEW stamp \in Stamps, NEW ok \in BOOLEAN,
           Accepted(d, stamp, ok)
    PROVE  /\ log' \in Seq(Entry) /\ Len(log') = Len(log) + 1 /\ Len(log') <= MaxLog
           /\ log'[Len(log) + 1].delivery = d /\ log'[Len(log) + 1].at = clock
           /\ log'[Len(log) + 1].ok = ok
           /\ \A n \in 1..Len(log) : log'[n] = log[n]
<1> DEFINE new == [delivery |-> d, stamp |-> stamp, at |-> clock, life |-> life, ok |-> ok]
<1>1. log' = Append(log, new) /\ Len(log) < MaxLog
  BY DEF Accepted
<1>2. new \in Entry /\ log \in Seq(Entry)
  BY DEF ServiceOK, TypeOK, Entry
<1>3. new.delivery = d /\ new.at = clock /\ new.ok = ok
  OBVIOUS
<1> HIDE DEF new
<1>4. /\ Append(log, new) \in Seq(Entry)
      /\ Len(Append(log, new)) = Len(log) + 1
      /\ Append(log, new)[Len(log) + 1] = new
      /\ \A n \in 1..Len(log) : Append(log, new)[n] = log[n]
  BY <1>2, Appended
<1> QED BY <1>1, <1>2, <1>3, <1>4, Bounds

\* What an acceptance adds to the removals.
LEMMA RemovalsGrow ==
    ASSUME ServiceOK, NEW d \in Delivery, NEW stamp \in Stamps, NEW ok \in BOOLEAN,
           Accepted(d, stamp, ok), NEW i \in Installation, NEW n \in Nat
    PROVE  /\ RemovalTried(i, n) => RemovalTried(i, n)'
           /\ EventOf[d] = "deleted" /\ ForOf[d] = i /\ n <= Len(log) => RemovalTried(i, n)'
           /\ Removed(i, n)' => \/ Removed(i, n)
                                \/ EventOf[d] = "deleted" /\ ForOf[d] = i /\ ok
<1>1. /\ Len(log') = Len(log) + 1 /\ Len(log) \in Nat
      /\ log'[Len(log) + 1].delivery = d /\ log'[Len(log) + 1].ok = ok
      /\ \A m \in 1..Len(log) : log'[m] = log[m]
  BY AcceptedAppends DEF ServiceOK, TypeOK
<1>2. \A m \in n + 1..Len(log') : (m \in n + 1..Len(log) /\ log'[m] = log[m]) \/ m = Len(log) + 1
  BY <1>1
<1>3. /\ n + 1..Len(log) \subseteq n + 1..Len(log')
      /\ n <= Len(log) => Len(log) + 1 \in n + 1..Len(log')
  BY <1>1
<1>4. RemovalTried(i, n) => RemovalTried(i, n)'
  BY <1>1, <1>3 DEF RemovalTried
<1>5. EventOf[d] = "deleted" /\ ForOf[d] = i /\ n <= Len(log) => RemovalTried(i, n)'
  BY <1>1, <1>3 DEF RemovalTried
<1>6. Removed(i, n)' => Removed(i, n) \/ (EventOf[d] = "deleted" /\ ForOf[d] = i /\ ok)
  <2> SUFFICES ASSUME Removed(i, n)'
               PROVE  Removed(i, n) \/ (EventOf[d] = "deleted" /\ ForOf[d] = i /\ ok)
    OBVIOUS
  <2>1. PICK m \in n + 1..Len(log') :
           /\ EventOf[log'[m].delivery] = "deleted" /\ ForOf[log'[m].delivery] = i /\ log'[m].ok
    BY DEF Removed
  <2>2. CASE m \in n + 1..Len(log) /\ log'[m] = log[m]
    BY <2>1, <2>2 DEF Removed
  <2>3. CASE m = Len(log) + 1
    <3>1. log'[m].ok = ok /\ log'[m].delivery = d
      BY <2>3, <1>1
    <3> QED BY <3>1, <2>1, Zenon
  <2> QED BY <2>1, <2>2, <2>3, <1>2
<1> QED BY <1>4, <1>5, <1>6

\* A receipt once spoilt counts as such for ever, and a failing event spoils the ones
\* of its name.
LEMMA SpoiltGrow ==
    ASSUME ServiceOK, NEW d \in Delivery, NEW stamp \in Stamps, NEW ok \in BOOLEAN,
           Accepted(d, stamp, ok), NEW n \in 1..Len(log)
    PROVE  /\ Spoilt(n) => Spoilt(n)'
           /\ /\ EventOf[d] = EventOf[log[n].delivery] /\ ForOf[d] = ForOf[log[n].delivery]
              /\ clock = log[n].at /\ ~ok
              => Spoilt(n)'
<1>1. /\ Len(log') = Len(log) + 1 /\ Len(log) \in Nat
      /\ log'[Len(log) + 1].delivery = d /\ log'[Len(log) + 1].ok = ok
      /\ log'[Len(log) + 1].at = clock
      /\ \A m \in 1..Len(log) : log'[m] = log[m]
  BY AcceptedAppends DEF ServiceOK, TypeOK
<1>2. /\ \A m \in n + 1..Len(log) : m \in n + 1..Len(log') /\ log'[m] = log[m]
      /\ Len(log) + 1 \in n + 1..Len(log')
      /\ log'[n] = log[n]
  BY <1>1
<1>3. Spoilt(n) => Spoilt(n)'
  BY <1>2 DEF Spoilt
<1>4. ASSUME EventOf[d] = EventOf[log[n].delivery], ForOf[d] = ForOf[log[n].delivery],
             clock = log[n].at, ~ok
      PROVE  Spoilt(n)'
  BY <1>1, <1>2, <1>4 DEF Spoilt
<1> QED BY <1>3, <1>4

\* The claims keep their type in every step.
LEMMA ClaimsTyped ==
    ASSUME TypeOK
    PROVE  /\ Evicted \in [Delivery -> 0..MaxClock \cup {NotSeen}]
           /\ \A d \in Delivery : Claim(d) => seen' \in [Delivery -> 0..MaxClock \cup {NotSeen}]
<1>1. Evicted \in [Delivery -> 0..MaxClock \cup {NotSeen}]
  BY DEF TypeOK, Evicted
<1> QED BY <1>1 DEF TypeOK, Claim

\* A partition of the right shape.
Shaped(data) ==
    data \in [present : BOOLEAN, files : SUBSET File] /\ (data.files # {} => data.present)

\* Changing one partition to one of the right shape leaves all so.
LEMMA PartitionsTyped ==
    ASSUME TypeOK, NEW i \in Installation, NEW data, Shaped(data),
           partition' = [partition EXCEPT ![i] = data]
    PROVE  /\ partition' \in [Installation -> [present : BOOLEAN, files : SUBSET File]]
           /\ \A j \in Installation : Shaped(partition'[j])
  BY DEF TypeOK, Shaped

\* A partition stays of the right shape when a receipt is written, in whole or in part.
LEMMA ReceiptsTyped ==
    ASSUME TypeOK, NEW d \in Delivery, EventOf[d] \in RepositoryEvent, NEW data, Shaped(data)
    PROVE  Shaped(Store(data, Receipt(d))) /\ Shaped(Store(data, Torn(Receipt(d))))
<1>1. Receipt(d) \in File
  BY DEF Receipt, File, TypeOK
<1>2. Torn(Receipt(d)) \in File
  BY <1>1 DEF Torn, File
<1>3. \A f \in File : Shaped(Store(data, f))
  BY DEF Shaped, Store
<1> QED BY <1>1, <1>2, <1>3

LEMMA LeavesShape ==
    ASSUME TypeOK, NEW d \in Delivery, Shaped(partition[ForOf[d]]), NEW left \in LeftBehind(d)
    PROVE  Shaped(left)
<1> DEFINE data == partition[ForOf[d]]
<1>1. CASE EventOf[d] = "other"
  <2>1. left \in {data, Ensured(data)}
    BY <1>1 DEF LeftBehind, RepositoryEvent
  <2> QED BY <2>1 DEF Shaped, Ensured
<1>2. CASE EventOf[d] \in RepositoryEvent
  <2>1. left \in {data, Ensured(data), Store(data, Torn(Receipt(d)))}
    BY <1>2 DEF LeftBehind, RepositoryEvent
  <2>2. Shaped(Ensured(data))
    BY DEF Shaped, Ensured
  <2>3. Shaped(Store(data, Torn(Receipt(d))))
    BY <1>2, ReceiptsTyped
  <2> HIDE DEF data
  <2> QED BY <2>1, <2>2, <2>3 DEF data
<1>3. CASE EventOf[d] = "deleted" /\ data.present
  BY <1>3 DEF LeftBehind, RepositoryEvent, Shaped
<1> QED BY <1>1, <1>2, <1>3 DEF LeftBehind

LEMMA AcceptKeepsServiceOK ==
    ASSUME ServiceOK, NEW d \in Delivery, NEW stamp \in Stamps,
           \/ RefusePayload(d, stamp) \/ HandleEvent(d, stamp) \/ HandleOther(d, stamp)
           \/ HandleDeleted(d, stamp) \/ DispatchFails(d, stamp)
    PROVE  ServiceOK'
<1> USE Bounds
<1> DEFINE i == ForOf[d]
<1>1. i \in Installation /\ Shaped(partition[i])
  BY DEF ServiceOK, TypeOK, Shaped
<1> HIDE DEF i
<1>2. PICK ok \in BOOLEAN : Accepted(d, stamp, ok)
  BY DEF RefusePayload, HandleEvent, HandleOther, HandleDeleted, DispatchFails
<1>3. Claim(d) /\ UNCHANGED <<clock, caller, life>>
  BY DEF RefusePayload, HandleEvent, HandleOther, HandleDeleted, DispatchFails
<1>4. log' \in Seq(Entry) /\ Len(log') <= MaxLog
  BY <1>2, AcceptedAppends
<1>5. /\ partition' \in [Installation -> [present : BOOLEAN, files : SUBSET File]]
      /\ \A j \in Installation : Shaped(partition'[j])
  <2>1. \/ partition' = partition
        \/ \E data : Shaped(data) /\ partition' = [partition EXCEPT ![i] = data]
    <3>1. CASE HandleEvent(d, stamp)
      <4>1. Shaped(Store(partition[i], Receipt(d)))
        BY <3>1, <1>1, ReceiptsTyped DEF HandleEvent, ServiceOK
      <4> QED BY <3>1, <4>1 DEF HandleEvent, i
    <3>2. CASE HandleOther(d, stamp)
      <4>1. Shaped(Ensured(partition[i]))
        BY <1>1 DEF Shaped, Ensured
      <4> QED BY <3>2, <4>1 DEF HandleOther, i
    <3>3. CASE HandleDeleted(d, stamp)
      <4>1. Shaped(NoData)
        BY DEF Shaped, NoData
      <4> QED BY <3>3, <4>1 DEF HandleDeleted, i
    <3>4. CASE DispatchFails(d, stamp)
      BY <3>4, <1>1, LeavesShape DEF DispatchFails, ServiceOK, i
    <3>5. CASE RefusePayload(d, stamp)
      BY <3>5 DEF RefusePayload
    <3> QED BY <3>1, <3>2, <3>3, <3>4, <3>5
  <2> QED BY <2>1, <1>1, PartitionsTyped DEF ServiceOK, TypeOK, Shaped
<1>6. (tokens \in [Installation -> Token \cup {NoToken}])'
  <2>1. tokens' = tokens \/ tokens' = [tokens EXCEPT ![i] = NoToken]
    BY DEF RefusePayload, HandleEvent, HandleOther, HandleDeleted, DispatchFails, ClearCache, i
  <2> QED BY <2>1, <1>1, <1>3 DEF ServiceOK, TypeOK
<1>7. (seen \in [Delivery -> 0..MaxClock \cup {NotSeen}])'
  BY <1>3, ClaimsTyped DEF ServiceOK
<1>8. TypeOK'
  BY <1>3, <1>4, <1>5, <1>6, <1>7 DEF TypeOK, ServiceOK, Shaped
<1> QED BY <1>3, <1>4, <1>6, <1>8 DEF ServiceOK, CallersWait

\* A token that get_token takes into the cache.
LEMMA TakenToken ==
    ASSUME ServiceOK, NEW c \in Client, NEW expires \in Expiries, TakeToken(c, expires)
    PROVE  \E i \in Installation : \E t \in Token :
              /\ tokens' = [tokens EXCEPT ![i] = t]
              /\ t.after = Len(log)
<1> USE Bounds
<1>1. caller[c].step # "idle" /\ caller[c] \in
         {Idle} \cup [step : {"exchanging"}, for : Installation, now : 0..MaxClock]
  BY DEF TakeToken, ServiceOK, CallersWait
<1>2. caller[c].for \in Installation /\ caller[c].now \in 0..MaxClock
  BY <1>1 DEF Idle
<1>3. expires - caller[c].now > 0 /\ expires - caller[c].now <= MaxLifetime
  BY DEF TakeToken, LifetimeAllowed
<1>4. expires \in 1..(MaxClock + MaxLifetime)
  BY <1>2, <1>3 DEF Expiries
<1>5. Len(log) \in 0..MaxLog
  BY DEF ServiceOK, TypeOK
<1> DEFINE t == [kind |-> "token", expires |-> expires, after |-> Len(log)]
<1>6. t \in Token /\ t.expires = expires /\ t.after = Len(log)
  BY <1>4, <1>5 DEF Token
<1>7. tokens' = [tokens EXCEPT ![caller[c].for] = t]
  BY DEF TakeToken
<1> HIDE DEF t
<1> QED BY <1>2, <1>6, <1>7

LEMMA QuietKeepsServiceOK ==
    ASSUME ServiceOK, [Next]_vars, UNCHANGED log
    PROVE  ServiceOK'
<1> USE Bounds
<1>1. ASSUME NEW d \in Delivery, NEW stamp \in Stamps, Receive(d, stamp)
      PROVE  ServiceOK'
  <2>1. CASE RefuseDuplicate(d, stamp)
    <3>1. TypeOK'
      BY <2>1, ClaimsTyped DEF RefuseDuplicate, ServiceOK, TypeOK
    <3> QED BY <2>1, <3>1 DEF RefuseDuplicate, ServiceOK, CallersWait
  <2>2. CASE ~RefuseDuplicate(d, stamp)
    BY <1>1, <2>2, AcceptKeepsServiceOK DEF Receive
  <2> QED BY <2>1, <2>2
<1>2. ASSUME NEW c \in Client, NEW i \in Installation, NEW force \in BOOLEAN,
             AskForToken(c, i, force)
      PROVE  ServiceOK'
  <2>1. CallersWait'
    <3>1. [step |-> "exchanging", for |-> i, now |-> clock] \in
             [step : {"exchanging"}, for : Installation, now : 0..MaxClock]
      BY DEF ServiceOK, TypeOK
    <3> QED BY <1>2, <3>1 DEF AskForToken, ServiceOK, TypeOK, CallersWait
  <2> QED BY <1>2, <2>1 DEF AskForToken, ServiceOK, TypeOK
<1>3. ASSUME NEW c \in Client, RefuseToken(c)
      PROVE  ServiceOK'
  <2>1. CallersWait'
    BY <1>3 DEF RefuseToken, ServiceOK, CallersWait
  <2> QED BY <1>3, <2>1 DEF RefuseToken, ServiceOK, TypeOK
<1>4. ASSUME NEW c \in Client, NEW expires \in Expiries, TakeToken(c, expires)
      PROVE  ServiceOK'
  <2>1. PICK i \in Installation, t \in Token :
           tokens' = [tokens EXCEPT ![i] = t]
    BY <1>4, TakenToken
  <2>2. CallersWait'
    BY <1>4 DEF TakeToken, ServiceOK, CallersWait
  <2>3. (tokens \in [Installation -> Token \cup {NoToken}])'
    BY <2>1 DEF ServiceOK, TypeOK
  <2> QED BY <1>4, <2>2, <2>3 DEF TakeToken, ServiceOK, TypeOK
<1>5. CASE Restart
  <2>1. CallersWait'
    BY <1>5 DEF Restart, CallersWait
  <2>2. TypeOK'
    BY <1>5 DEF Restart, ServiceOK, TypeOK
  <2> QED BY <1>5, <2>1, <2>2 DEF Restart, ServiceOK
<1>6. CASE Tick
  <2>1. clock \in 0..MaxClock /\ clock' = clock + 1 /\ clock' \in 0..MaxClock
    BY <1>6 DEF Tick, ServiceOK, TypeOK
  <2>2. TypeOK'
    BY <1>6, <2>1 DEF Tick, ServiceOK, TypeOK
  <2>3. CallersWait'
    BY <1>6 DEF Tick, ServiceOK, CallersWait
  <2> QED BY <1>6, <2>2, <2>3 DEF Tick, ServiceOK
<1>7. CASE UNCHANGED vars
  BY <1>7 DEF vars, ServiceOK, TypeOK, CallersWait
<1> QED BY <1>1, <1>2, <1>3, <1>4, <1>5, <1>6, <1>7 DEF Next

\* A step accepts a delivery, or leaves the history and the partitions alone.
Handles(d, stamp) ==
    \/ RefusePayload(d, stamp) \/ HandleEvent(d, stamp) \/ HandleOther(d, stamp)
    \/ HandleDeleted(d, stamp) \/ DispatchFails(d, stamp)

LEMMA StepsOfService ==
    ASSUME [Next]_vars
    PROVE  \/ \E d \in Delivery, stamp \in Stamps : Handles(d, stamp)
           \/ UNCHANGED <<log, partition>>
<1>1. ASSUME NEW d \in Delivery, NEW stamp \in Stamps, Receive(d, stamp)
      PROVE  Handles(d, stamp) \/ UNCHANGED <<log, partition>>
  BY <1>1 DEF Receive, Handles, RefuseDuplicate
<1>2. ASSUME NEW c \in Client, NEW i \in Installation, NEW force \in BOOLEAN,
             AskForToken(c, i, force)
      PROVE  UNCHANGED <<log, partition>>
  BY <1>2 DEF AskForToken
<1>3. ASSUME NEW c \in Client,
             RefuseToken(c) \/ \E expires \in Expiries : TakeToken(c, expires)
      PROVE  UNCHANGED <<log, partition>>
  BY <1>3 DEF RefuseToken, TakeToken
<1>4. CASE Restart \/ Tick \/ UNCHANGED vars
  BY <1>4 DEF Restart, Tick, vars
<1> QED BY <1>1, <1>2, <1>3, <1>4 DEF Next

LEMMA ServiceOKStep == ASSUME ServiceOK, [Next]_vars PROVE ServiceOK'
  BY StepsOfService, AcceptKeepsServiceOK, QuietKeepsServiceOK DEF Handles

LEMMA ReceiptStep == ASSUME ServiceOK, ReceiptKept, [Next]_vars PROVE ReceiptKept'
<1> USE Bounds
<1>1. CASE UNCHANGED <<log, partition>>
  BY <1>1 DEF ReceiptKept, RemovalTried, Spoilt
<1>2. ASSUME NEW d \in Delivery, NEW stamp \in Stamps, Handles(d, stamp)
      PROVE  ReceiptKept'
  <2>1. PICK ok \in BOOLEAN : Accepted(d, stamp, ok)
    BY <1>2 DEF Handles, RefusePayload, HandleEvent, HandleOther, HandleDeleted, DispatchFails
  <2>2. /\ Len(log) \in Nat /\ Len(log') = Len(log) + 1
        /\ log'[Len(log) + 1].delivery = d /\ log'[Len(log) + 1].at = clock
        /\ \A n \in 1..Len(log) : log'[n] = log[n]
    BY <2>1, AcceptedAppends DEF ServiceOK, TypeOK
  <2> DEFINE Holds(p, e, s) == \E f \in p.files : f.event = e /\ f.second = s /\ f.whole
             Spoils(i, e, s) == EventOf[d] = e /\ ForOf[d] = i /\ clock = s /\ ~ok
  <2>3. ASSUME NEW i \in Installation, NEW e, NEW s, Holds(partition[i], e, s),
               ~(EventOf[d] = "deleted" /\ ForOf[d] = i)
        PROVE  Holds(partition'[i], e, s) \/ Spoils(i, e, s)
    <3> USE <2>3
    <3>1. partition \in [Installation -> [present : BOOLEAN, files : SUBSET File]]
      BY DEF ServiceOK, TypeOK
    <3>2. CASE HandleEvent(d, stamp)
      <4>1. \/ partition'[i] = partition[i]
            \/ partition'[i] = Store(partition[i], Receipt(d))
        BY <3>1, <3>2 DEF HandleEvent
      <4>2. Holds(Store(partition[i], Receipt(d)), e, s)
        <5>1. PICK f \in partition[i].files : f.event = e /\ f.second = s /\ f.whole
          OBVIOUS
        <5>2. CASE SameName(f, Receipt(d))
          <6>1. Receipt(d) \in Store(partition[i], Receipt(d)).files /\ Receipt(d).whole
            BY DEF Store, Receipt
          <6> QED BY <5>1, <5>2, <6>1 DEF SameName
        <5>3. CASE ~SameName(f, Receipt(d))
          <6>1. f \in Store(partition[i], Receipt(d)).files
            BY <5>1, <5>3 DEF Store, SameName
          <6> QED BY <5>1, <6>1
        <5> QED BY <5>2, <5>3
      <4> QED BY <4>1, <4>2
    <3>3. CASE RefusePayload(d, stamp) \/ HandleOther(d, stamp) \/ HandleDeleted(d, stamp)
      <4>1. partition'[i] = partition[i] \/ partition'[i] = Ensured(partition[i])
        BY <3>1, <3>3 DEF RefusePayload, HandleOther, HandleDeleted
      <4>2. Ensured(partition[i]).files = partition[i].files
        BY <3>1 DEF Ensured
      <4> QED BY <4>1, <4>2
    <3>4. CASE DispatchFails(d, stamp)
      <4>1. PICK left \in LeftBehind(d) : partition' = [partition EXCEPT ![ForOf[d]] = left]
        BY <3>4 DEF DispatchFails
      <4>2. CASE ForOf[d] # i
        BY <3>1, <4>1, <4>2
      <4>3. CASE ForOf[d] = i
        <5>1. partition'[i] = left /\ EventOf[d] # "deleted"
          BY <3>1, <4>1, <4>3
        <5>2. Ensured(partition[i]).files = partition[i].files
          BY <3>1 DEF Ensured
        <5>3. left \in {partition[i], Ensured(partition[i])}
              \/ (left = Store(partition[i], Torn(Receipt(d))) /\ EventOf[d] \in RepositoryEvent)
          BY <4>3, <5>1 DEF LeftBehind
        <5>4. CASE left = Store(partition[i], Torn(Receipt(d))) /\ EventOf[d] \in RepositoryEvent
          <6>1. PICK f \in partition[i].files : f.event = e /\ f.second = s /\ f.whole
            OBVIOUS
          <6>2. Torn(Receipt(d)).event = EventOf[d] /\ Torn(Receipt(d)).second = clock
            BY DEF Torn, Receipt
          <6>3. CASE SameName(f, Torn(Receipt(d)))
            <7>1. ~ok
              BY <3>4, <2>1, <2>2, AcceptedAppends DEF DispatchFails
            <7> QED BY <6>1, <6>2, <6>3, <7>1, <4>3 DEF SameName
          <6>4. CASE ~SameName(f, Torn(Receipt(d)))
            <7>1. f \in left.files
              BY <5>4, <6>1, <6>4 DEF Store, SameName
            <7> QED BY <5>1, <6>1, <7>1
          <6> QED BY <6>3, <6>4
        <5> QED BY <5>1, <5>2, <5>3, <5>4
      <4> QED BY <4>2, <4>3
    <3> QED BY <1>2, <3>2, <3>3, <3>4 DEF Handles
  <2>4. ASSUME EventOf[d] \in RepositoryEvent, log'[Len(log) + 1].ok
        PROVE  Holds(partition'[ForOf[d]], EventOf[d], clock)
    <3>1. HandleEvent(d, stamp)
      <4>1. ~(Accepted(d, stamp, FALSE))
        BY <2>4, AcceptedAppends
      <4> QED BY <1>2, <2>4, <4>1 DEF Handles, RefusePayload, HandleOther, HandleDeleted,
                                      DispatchFails, RepositoryEvent
    <3>2. partition'[ForOf[d]] = Store(partition[ForOf[d]], Receipt(d))
      BY <3>1 DEF HandleEvent, ServiceOK, TypeOK
    <3> QED BY <3>2 DEF Store, Receipt
  <2>5. ASSUME NEW n \in 1..Len(log) PROVE log[n].delivery \in Delivery
    <3>1. log[n] \in Entry
      BY DEF ServiceOK, TypeOK
    <3> QED BY <3>1 DEF Entry
  <2> SUFFICES ASSUME NEW n \in 1..Len(log'), NEW i \in Installation,
                      i = ForOf[log'[n].delivery],
                      EventOf[log'[n].delivery] \in RepositoryEvent, log'[n].ok
               PROVE  \/ Holds(partition'[i], EventOf[log'[n].delivery], log'[n].at)
                      \/ RemovalTried(i, n)' \/ Spoilt(n)'
    <3>1. \A n \in 1..Len(log') : ForOf[log'[n].delivery] \in Installation
      BY <2>2, <2>5
    <3> QED BY <3>1 DEF ReceiptKept, RemovalTried, Spoilt
  <2>6. CASE n = Len(log) + 1
    BY <2>2, <2>4, <2>6
  <2>7. CASE n \in 1..Len(log)
    <3>1. log'[n] = log[n]
      BY <2>2, <2>7
    <3>2. \/ Holds(partition[i], EventOf[log[n].delivery], log[n].at)
          \/ RemovalTried(i, n) \/ Spoilt(n)
      BY <2>7, <3>1 DEF ReceiptKept
    <3>3. /\ RemovalTried(i, n) => RemovalTried(i, n)'
          /\ EventOf[d] = "deleted" /\ ForOf[d] = i => RemovalTried(i, n)'
      BY <2>1, <2>2, <2>7, RemovalsGrow
    <3>4. /\ Spoilt(n) => Spoilt(n)'
          /\ Spoils(i, EventOf[log[n].delivery], log[n].at) => Spoilt(n)'
      BY <2>1, <2>7, <3>1, SpoiltGrow
    <3> HIDE DEF Holds, Spoils
    <3> QED BY <2>3, <3>1, <3>2, <3>3, <3>4
  <2> QED BY <2>2, <2>6, <2>7
<1> QED BY <1>1, <1>2, StepsOfService

LEMMA UninstallStep == ASSUME ServiceOK, UninstallForgets, [Next]_vars PROVE UninstallForgets'
<1> USE Bounds
<1> DEFINE Stored(i, f) == \E n \in 1..Len(log) :
               log[n].delivery = f.delivery /\ log[n].at = f.second /\ ~Removed(i, n)
<1>1. SUFFICES ASSUME NEW i \in Installation
               PROVE  /\ \A f : f \in partition'[i].files => Stored(i, f)'
                      /\ TokenProvider /\ tokens'[i] # NoToken => (~Removed(i, tokens[i].after))'
  BY DEF UninstallForgets
<1>2. /\ \A f : f \in partition[i].files => Stored(i, f)
      /\ TokenProvider /\ tokens[i] # NoToken => ~Removed(i, tokens[i].after)
  BY DEF UninstallForgets
<1>3. Len(log) \in Nat /\ (tokens[i] = NoToken \/ tokens[i].after \in Nat)
  BY DEF ServiceOK, TypeOK, Token
\* A step that accepts a delivery.
<1>4. ASSUME NEW d \in Delivery, NEW stamp \in Stamps, Handles(d, stamp)
      PROVE  /\ \A f : f \in partition'[i].files => Stored(i, f)'
             /\ TokenProvider /\ tokens'[i] # NoToken => (~Removed(i, tokens[i].after))'
  <2>1. PICK ok \in BOOLEAN : Accepted(d, stamp, ok)
    BY <1>4 DEF Handles, RefusePayload, HandleEvent, HandleOther, HandleDeleted, DispatchFails
  <2>2. /\ Len(log') = Len(log) + 1
        /\ log'[Len(log) + 1].delivery = d /\ log'[Len(log) + 1].at = clock
        /\ log'[Len(log) + 1].ok = ok
        /\ \A n \in 1..Len(log) : log'[n] = log[n]
    BY <2>1, AcceptedAppends
  <2>3. \A n \in Nat : Removed(i, n)' => Removed(i, n) \/ (EventOf[d] = "deleted" /\ ForOf[d] = i /\ ok)
    BY <2>1, RemovalsGrow
  <2>4. CASE HandleDeleted(d, stamp) /\ ForOf[d] = i
    <3>1. partition'[i] = NoData /\ (TokenProvider => tokens'[i] = NoToken)
      BY <2>4 DEF HandleDeleted, ClearCache, ServiceOK, TypeOK
    <3> QED BY <3>1 DEF NoData
  <2>5. CASE ~(HandleDeleted(d, stamp) /\ ForOf[d] = i)
    <3>1. ~(EventOf[d] = "deleted" /\ ForOf[d] = i /\ ok)
      <4> SUFFICES ASSUME EventOf[d] = "deleted", ForOf[d] = i, ok PROVE FALSE
        OBVIOUS
      <4>1. ~Accepted(d, stamp, FALSE)
        BY <2>2, AcceptedAppends
      <4> QED BY <1>4, <2>5, <4>1 DEF Handles, RefusePayload, HandleEvent, HandleOther,
                                      DispatchFails, RepositoryEvent
    <3>2. \A n \in Nat : ~Removed(i, n) => ~Removed(i, n)'
      BY <2>3, <3>1
    <3>3. \A f : Stored(i, f) => Stored(i, f)'
      BY <2>2, <3>2, <1>3
    <3>4. tokens'[i] = tokens[i] \/ tokens'[i] = NoToken
      BY <1>4 DEF Handles, RefusePayload, HandleEvent, HandleOther, HandleDeleted, DispatchFails,
                  ClearCache, ServiceOK, TypeOK
    <3>5. TokenProvider /\ tokens'[i] # NoToken => (~Removed(i, tokens[i].after))'
      <4> SUFFICES ASSUME TokenProvider, tokens'[i] # NoToken PROVE (~Removed(i, tokens[i].after))'
        OBVIOUS
      <4>1. PICK n \in Nat : n = tokens[i].after /\ n = tokens'[i].after
        BY <1>3, <3>4
      <4>2. ~Removed(i, n)'
        BY <4>1, <3>2, <3>4, <1>2
      <4> QED BY <4>1, <4>2 DEF Removed
    <3>6. ASSUME NEW f, f \in partition'[i].files
          PROVE  f \in partition[i].files \/ (f.delivery = d /\ f.second = clock)
      <4>1. partition \in [Installation -> [present : BOOLEAN, files : SUBSET File]]
        BY DEF ServiceOK, TypeOK
      <4>2. CASE HandleEvent(d, stamp)
        <5>1. \/ partition'[i] = partition[i]
              \/ partition'[i] = Store(partition[i], Receipt(d))
          BY <4>1, <4>2 DEF HandleEvent
        <5> QED BY <3>6, <5>1 DEF Store, Receipt
      <4>3. CASE HandleDeleted(d, stamp)
        <5>1. ForOf[d] # i
          BY <2>5, <4>3
        <5> QED BY <3>6, <4>1, <4>3, <5>1 DEF HandleDeleted
      <4>4. CASE HandleOther(d, stamp) \/ RefusePayload(d, stamp)
        <5>1. \/ partition' = partition
              \/ partition' = [partition EXCEPT ![ForOf[d]] = Ensured(@)]
          BY <4>4 DEF HandleOther, RefusePayload
        <5> QED BY <3>6, <4>1, <5>1 DEF Ensured
      <4>5. CASE DispatchFails(d, stamp)
        <5>1. PICK left \in LeftBehind(d) : partition' = [partition EXCEPT ![ForOf[d]] = left]
          BY <4>5 DEF DispatchFails
        <5>2. CASE ForOf[d] # i
          BY <3>6, <4>1, <5>1, <5>2
        <5>3. CASE ForOf[d] = i
          <6>1. partition'[i] = left
            BY <4>1, <5>1, <5>3
          <6>2. Torn(Receipt(d)).delivery = d /\ Torn(Receipt(d)).second = clock
            BY DEF Torn, Receipt
          <6>3. \/ left.files \subseteq partition[i].files
                \/ left = Store(partition[i], Torn(Receipt(d)))
            BY <4>1, <5>3 DEF LeftBehind, Ensured
          <6> QED BY <3>6, <6>1, <6>2, <6>3 DEF Store
        <5> QED BY <5>2, <5>3
      <4> QED BY <1>4, <4>2, <4>3, <4>4, <4>5 DEF Handles
    <3>7. ASSUME NEW f, f.delivery = d, f.second = clock PROVE Stored(i, f)'
      <4>1. PICK n \in 1..Len(log') : n = Len(log) + 1
        BY <2>2, <1>3
      <4>2. n + 1..Len(log') = {}
        BY <4>1, <2>2, <1>3
      <4>3. (log[n].delivery = f.delivery /\ log[n].at = f.second)'
        BY <4>1, <3>7, <2>2
      <4>4. (~Removed(i, n))'
        BY <4>2 DEF Removed
      <4> QED BY <4>3, <4>4
    <3> QED BY <1>2, <3>3, <3>5, <3>6, <3>7
  <2> QED BY <2>4, <2>5
\* Any other step.
<1>5. CASE UNCHANGED <<log, partition>>
  <2>1. \A f : f \in partition'[i].files => Stored(i, f)'
    BY <1>2, <1>5 DEF Removed
  <2>2. \/ tokens'[i] = tokens[i] \/ tokens'[i] = NoToken
        \/ tokens'[i].after = Len(log)
    <3>1. ASSUME NEW c \in Client, NEW expires \in Expiries, TakeToken(c, expires)
          PROVE  tokens'[i] = tokens[i] \/ tokens'[i].after = Len(log)
      <4>1. PICK j \in Installation, t \in Token :
               tokens' = [tokens EXCEPT ![j] = t] /\ t.after = Len(log)
        BY <3>1, TakenToken
      <4> QED BY <4>1 DEF ServiceOK, TypeOK
    <3>2. ASSUME NEW d \in Delivery, NEW stamp \in Stamps, Receive(d, stamp)
          PROVE  tokens'[i] = tokens[i] \/ tokens'[i] = NoToken
      BY <3>2 DEF Receive, RefuseDuplicate, RefusePayload, HandleEvent, HandleOther, HandleDeleted,
                  DispatchFails, ClearCache, ServiceOK, TypeOK
    <3>3. ASSUME NEW c \in Client, NEW j \in Installation,
                 (\E force \in BOOLEAN : AskForToken(c, j, force)) \/ RefuseToken(c)
          PROVE  tokens' = tokens
      BY <3>3 DEF AskForToken, RefuseToken
    <3>4. CASE Restart \/ Tick \/ UNCHANGED vars
      BY <3>4 DEF Restart, Tick, vars
    <3> QED BY <3>1, <3>2, <3>3, <3>4 DEF Next
  <2>3. TokenProvider /\ tokens'[i] # NoToken => (~Removed(i, tokens[i].after))'
    <3>1. CASE tokens'[i] = tokens[i]
      BY <1>2, <1>5, <3>1 DEF Removed
    <3>2. CASE tokens'[i].after = Len(log)
      <4>1. tokens'[i].after + 1..Len(log') = {}
        BY <1>3, <1>5, <3>2
      <4> QED BY <4>1 DEF Removed
    <3> QED BY <2>2, <3>1, <3>2
  <2> QED BY <2>1, <2>3
<1> QED BY <1>4, <1>5, StepsOfService

LEMMA ServiceInductive ==
    /\ Init => ServiceInv
    /\ ServiceInv /\ [Next]_vars => ServiceInv'
  BY ServiceInit, ServiceOKStep, ReceiptStep, UninstallStep DEF ServiceInv

\* Claims, partitions, tokens and the history are always of their types.
THEOREM AppTypeCorrect == Spec => []TypeOK
<1>1. ServiceInv => TypeOK
  BY DEF ServiceInv, ServiceOK
<1> QED BY <1>1, ServiceInductive, PTL DEF Spec

\* No interleaving, failure or restart loses the receipt of a handled event before a
\* removal is tried or the writing of a receipt of its name fails.
THEOREM ReceiptCorrect == Spec => []ReceiptKept
<1>1. ServiceInv => ReceiptKept
  BY DEF ServiceInv
<1> QED BY <1>1, ServiceInductive, PTL DEF Spec

\* Nothing stored before a removal that succeeded is there after it.
THEOREM UninstallCorrect == Spec => []UninstallForgets
<1>1. ServiceInv => UninstallForgets
  BY DEF ServiceInv
<1> QED BY <1>1, ServiceInductive, PTL DEF Spec
=============================================================================
