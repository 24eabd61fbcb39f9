------------------------ MODULE ServicesProofs ------------------------
(* A behaviour of the composition is one of every service by itself, so what *)
(* is proved of a service from its own specification holds in Services. Then *)
(* the services that decide who gets in and what they see: the rate limiter, *)
(* the settings and the sessions of operators.                               *)
EXTENDS Services, PaymentProofs, DatabaseProofs

-----------------------------------------------------------------------------
LEMMA InitParts ==
    ServicesInit =>
      /\ CreationInit
      /\ CalendarInit
      /\ QueueInit
      /\ RetryInit
      /\ StartupInit
      /\ SessionsInit
      /\ LimiterInit
      /\ SettingsInit
BY DEF ServicesInit

LEMMA StepParts ==
    [ServicesNext]_servicesVars =>
      /\ [CreationNext]_creationVars
      /\ [CalendarNext]_calendarVars
      /\ [QueueNext]_queueVars
      /\ [RetryNext]_retryVars
      /\ [StartupNext]_startupVars
      /\ [SessionsNext]_sessionsVars
      /\ [LimiterNext]_limiterVars
      /\ [SettingsNext]_settingsVars
<1> SUFFICES ASSUME [ServicesNext]_servicesVars
             PROVE
                   /\ [CreationNext]_creationVars
                   /\ [CalendarNext]_calendarVars
                   /\ [QueueNext]_queueVars
                   /\ [RetryNext]_retryVars
                   /\ [StartupNext]_startupVars
                   /\ [SessionsNext]_sessionsVars
                   /\ [LimiterNext]_limiterVars
                   /\ [SettingsNext]_settingsVars
  OBVIOUS
<1>1. CASE UNCHANGED servicesVars
  BY <1>1 DEF servicesVars
<1>2. CASE part = "creation" /\ CreationNext /\ OthersRest
  BY <1>2 DEF OthersRest
<1>3. CASE part = "calendar" /\ CalendarNext /\ OthersRest
  BY <1>3 DEF OthersRest
<1>4. CASE part = "queue" /\ QueueNext /\ OthersRest
  BY <1>4 DEF OthersRest
<1>5. CASE part = "retry" /\ RetryNext /\ OthersRest
  BY <1>5 DEF OthersRest
<1>6. CASE part = "startup" /\ StartupNext /\ OthersRest
  BY <1>6 DEF OthersRest
<1>7. CASE part = "sessions" /\ SessionsNext /\ OthersRest
  BY <1>7 DEF OthersRest
<1>8. CASE part = "limiter" /\ LimiterNext /\ OthersRest
  BY <1>8 DEF OthersRest
<1>9. CASE part = "settings" /\ SettingsNext /\ OthersRest
  BY <1>9 DEF OthersRest
<1> QED
  BY <1>1, <1>2, <1>3, <1>4, <1>5, <1>6, <1>7, <1>8, <1>9 DEF ServicesNext

(* The services share no variable: each runs in the composition as it runs   *)
(* alone, whichever of them it is that moves.                                *)
LEMMA PartsRunAlone ==
    ServicesSpec =>
      /\ CreationSpec
      /\ CalendarSpec
      /\ QueueSpec
      /\ RetrySpec
      /\ StartupSpec
      /\ SessionsSpec
      /\ LimiterSpec
      /\ SettingsSpec
BY InitParts, StepParts, PTL
   DEF ServicesSpec, CreationSpec, CalendarSpec, QueueSpec, RetrySpec, StartupSpec,
       SessionsSpec, LimiterSpec, SettingsSpec

-----------------------------------------------------------------------------
(* Proofs about the rate limiter for any number of addresses and requests.   *)
(* A request that holds a limiter fetched it at most MaxStall ago, which      *)
(* keeps the entry of its address from being dropped; and an entry is only    *)
(* dropped when its limiter has had the time to fill. So a new limiter never  *)
(* differs from the one that was forgotten.                                   *)

Held(a) == IF Known(a) THEN Level(visitors[a].limiter) ELSE Full

RateTypes ==
    /\ now \in Nat
    /\ visitors \in [Addrs -> [limiter : Limiters \cup {None}, lastSeen : Nat]]
    /\ fullAt \in [Limiters -> Nat]
    /\ request \in [Requests -> [at : {"idle", "holding", "allowed", "refused"},
                                 limiter : Limiters \cup {None},
                                 since : Nat]]
    /\ watch \in [addr : Addrs \cup {None}, from : Nat, taken : Nat]

OwnLimiter ==
    \A a, b \in Addrs :
      Known(a) /\ visitors[a].limiter = visitors[b].limiter => a = b

HoldersAreKnown ==
    \A r \in Requests : request[r].at = "holding" =>
      /\ Known(From[r])
      /\ request[r].limiter = visitors[From[r]].limiter
      /\ request[r].since <= visitors[From[r]].lastSeen
      /\ now <= request[r].since + MaxStall

FullInTime ==
    \A a \in Addrs : Known(a) =>
      /\ visitors[a].lastSeen <= now
      /\ fullAt[visitors[a].limiter] <= now + Full
      /\ fullAt[visitors[a].limiter] <= visitors[a].lastSeen + MaxStall + Full

WatchedPays ==
    \A a \in Addrs : watch.addr = a /\ a # None =>
      watch.from <= now /\ watch.taken + Held(a) <= Full + (now - watch.from)

RateInv == RateTypes /\ OwnLimiter /\ HoldersAreKnown /\ FullInTime /\ WatchedPays

-----------------------------------------------------------------------------
LEMMA InitRate == LimiterInit => RateInv
<1> SUFFICES ASSUME LimiterInit PROVE RateInv
  OBVIOUS
<1>1. RateTypes
  BY DEF LimiterInit, RateTypes, Nobody, NotHere
<1>2. \A a \in Addrs : ~Known(a)
  BY DEF LimiterInit, Known, Nobody
<1>3. \A r \in Requests : request[r].at # "holding"
  BY DEF LimiterInit, NotHere
<1>4. ASSUME NEW a \in Addrs, watch.addr = a, a # None PROVE FALSE
  BY <1>4 DEF LimiterInit
<1>5. OwnLimiter /\ HoldersAreKnown /\ FullInTime
  BY <1>2, <1>3 DEF OwnLimiter, HoldersAreKnown, FullInTime
<1>6. WatchedPays
  BY <1>4 DEF WatchedPays
<1> QED
  BY <1>1, <1>5, <1>6 DEF RateInv

(* What is left lies between nothing and a full limiter.                     *)
LEMMA HeldRange ==
    ASSUME RateInv, NEW a \in Addrs
    PROVE  Held(a) \in Nat /\ Held(a) <= Full
<1>1. CASE Known(a)
  <2>1. /\ visitors[a].limiter \in Limiters
        /\ fullAt[visitors[a].limiter] \in Nat
        /\ fullAt[visitors[a].limiter] <= now + Full
        /\ now \in Nat
    BY <1>1 DEF RateInv, RateTypes, FullInTime, Known
  <2> QED
    BY <1>1, <2>1, RateAssumption DEF Held, Level
<1>2. CASE ~Known(a)
  BY <1>2, RateAssumption DEF Held
<1> QED
  BY <1>1, <1>2

-----------------------------------------------------------------------------
(* Fetching a limiter: the entry of the address is there, holds what it held *)
(* before, and no other entry changes.                                       *)
LEMMA GetLimiterFacts ==
    ASSUME RateInv, NEW r \in Requests, GetLimiter(r)
    PROVE  \E l \in Limiters :
             /\ visitors' = [visitors EXCEPT ![From[r]] = [limiter |-> l, lastSeen |-> now]]
             /\ request' = [request EXCEPT
                  ![r] = [at |-> "holding", limiter |-> l, since |-> now]]
             /\ \A b \in Addrs \ {From[r]} : visitors[b].limiter # l
             /\ \A m \in Limiters \ {l} : fullAt'[m] = fullAt[m]
             /\ fullAt' \in [Limiters -> Nat]
             /\ IF Known(From[r]) THEN l = visitors[From[r]].limiter /\ fullAt' = fullAt
                ELSE fullAt'[l] = 0
<1> DEFINE a == From[r]
<1>0. a \in Addrs
  BY RateAssumption
<1>1. CASE Known(a)
  <2>1. visitors[a].limiter \in Limiters
    BY <1>0, <1>1 DEF RateInv, RateTypes, Known
  <2>2. \A b \in Addrs \ {a} : visitors[b].limiter # visitors[a].limiter
    BY <1>0, <1>1 DEF RateInv, OwnLimiter
  <2>3. /\ visitors' = [visitors EXCEPT ![a] = [limiter |-> visitors[a].limiter, lastSeen |-> now]]
        /\ request' = [request EXCEPT
             ![r] = [at |-> "holding", limiter |-> visitors[a].limiter, since |-> now]]
        /\ fullAt' = fullAt
    BY <1>1 DEF GetLimiter
  <2> QED
    BY <1>1, <2>1, <2>2, <2>3 DEF RateInv, RateTypes
<1>2. CASE ~Known(a)
  <2>1. PICK l \in Free :
          /\ fullAt' = [fullAt EXCEPT ![l] = 0]
          /\ visitors' = [visitors EXCEPT ![a] = [limiter |-> l, lastSeen |-> now]]
          /\ request' = [request EXCEPT
               ![r] = [at |-> "holding", limiter |-> l, since |-> now]]
    BY <1>2 DEF GetLimiter
  <2>2. l \in Limiters /\ \A b \in Addrs : visitors[b].limiter # l
    BY <2>1 DEF Free
  <2> QED
    BY <1>2, <2>1, <2>2 DEF RateInv, RateTypes
<1> QED
  BY <1>1, <1>2

LEMMA GetLimiterKeeps ==
    ASSUME RateInv, NEW r \in Requests, GetLimiter(r)
    PROVE  RateInv' /\ \A b \in Addrs : Held(b)' = Held(b)
<1> DEFINE a == From[r]
<1>0. a \in Addrs /\ now' = now /\ watch' = watch
  BY RateAssumption DEF GetLimiter
<1>1. PICK l \in Limiters :
        /\ visitors' = [visitors EXCEPT ![a] = [limiter |-> l, lastSeen |-> now]]
        /\ request' = [request EXCEPT ![r] = [at |-> "holding", limiter |-> l, since |-> now]]
        /\ \A b \in Addrs \ {a} : visitors[b].limiter # l
        /\ \A m \in Limiters \ {l} : fullAt'[m] = fullAt[m]
        /\ fullAt' \in [Limiters -> Nat]
        /\ IF Known(a) THEN l = visitors[a].limiter /\ fullAt' = fullAt ELSE fullAt'[l] = 0
  BY GetLimiterFacts
<1> HIDE DEF a
<1>2. /\ visitors'[a] = [limiter |-> l, lastSeen |-> now]
      /\ \A b \in Addrs \ {a} : visitors'[b] = visitors[b]
  BY <1>0, <1>1 DEF RateInv, RateTypes
<1>3. Known(a)' /\ \A b \in Addrs \ {a} : Known(b)' <=> Known(b)
  BY <1>2, RateAssumption DEF Known
<1>4. RateTypes'
  BY <1>0, <1>1 DEF RateInv, RateTypes
<1>5. OwnLimiter'
  BY <1>0, <1>1, <1>2, <1>3 DEF RateInv, OwnLimiter
<1>6. HoldersAreKnown'
  <2> SUFFICES ASSUME NEW q \in Requests, request'[q].at = "holding"
               PROVE  /\ Known(From[q])'
                      /\ request'[q].limiter = visitors'[From[q]].limiter
                      /\ request'[q].since <= visitors'[From[q]].lastSeen
                      /\ now' <= request'[q].since + MaxStall
    BY DEF HoldersAreKnown
  <2>1. CASE q = r
    <3>1. request'[q] = [at |-> "holding", limiter |-> l, since |-> now]
      BY <1>1, <2>1 DEF RateInv, RateTypes
    <3>2. now \in Nat /\ From[q] = a
      BY <2>1 DEF RateInv, RateTypes, a
    <3> QED
      BY <1>0, <1>2, <1>3, <3>1, <3>2, RateAssumption
  <2>2. CASE q # r
    <3>1. request'[q] = request[q] /\ From[q] \in Addrs /\ now \in Nat
      BY <1>1, <2>2, RateAssumption DEF RateInv, RateTypes
    <3>2. /\ Known(From[q])
          /\ request[q].limiter = visitors[From[q]].limiter
          /\ request[q].since <= visitors[From[q]].lastSeen
          /\ now <= request[q].since + MaxStall
      BY <3>1 DEF RateInv, HoldersAreKnown
    <3>3. CASE From[q] = a
      <4>1. visitors[a].lastSeen <= now /\ visitors[a].limiter = l
        BY <1>0, <1>1, <3>2, <3>3 DEF RateInv, FullInTime
      <4>2. request[q].since \in Nat /\ visitors[a].lastSeen \in Nat
        BY <1>0 DEF RateInv, RateTypes
      <4> QED
        BY <1>0, <1>2, <1>3, <3>1, <3>2, <3>3, <4>1, <4>2
    <3>4. CASE From[q] # a
      BY <1>0, <1>2, <1>3, <3>1, <3>2, <3>4
    <3> QED
      BY <3>3, <3>4
  <2> QED
    BY <2>1, <2>2
<1>7. FullInTime'
  <2> SUFFICES ASSUME NEW b \in Addrs, Known(b)'
               PROVE  /\ visitors'[b].lastSeen <= now'
                      /\ fullAt'[visitors'[b].limiter] <= now' + Full
                      /\ fullAt'[visitors'[b].limiter] <= visitors'[b].lastSeen + MaxStall + Full
    BY DEF FullInTime
  <2>0. now \in Nat
    BY DEF RateInv, RateTypes
  <2>1. CASE b = a
    <3>1. fullAt'[l] <= now + Full
      BY <1>0, <1>1, <2>0, RateAssumption DEF RateInv, FullInTime
    <3>2. fullAt'[l] \in Nat
      BY <1>1
    <3> QED
      BY <1>0, <1>2, <2>0, <2>1, <3>1, <3>2, RateAssumption
  <2>2. CASE b # a
    <3>1. Known(b) /\ visitors'[b] = visitors[b] /\ visitors[b].limiter \in Limiters \ {l}
      BY <1>1, <1>2, <1>3, <2>2 DEF RateInv, RateTypes, Known
    <3>2. fullAt'[visitors[b].limiter] = fullAt[visitors[b].limiter]
      BY <1>1, <3>1
    <3> QED
      BY <1>0, <3>1, <3>2 DEF RateInv, FullInTime
  <2> QED
    BY <2>1, <2>2
<1>8. ASSUME NEW b \in Addrs PROVE Held(b)' = Held(b)
  <2>1. CASE b = a
    <3>1. Held(b)' = IF fullAt'[l] > now THEN Full - (fullAt'[l] - now) ELSE Full
      BY <1>0, <1>2, <1>3, <2>1 DEF Held, Level
    <3>2. CASE Known(a)
      BY <1>1, <2>1, <3>1, <3>2 DEF Held, Level
    <3>3. CASE ~Known(a)
      <4>1. fullAt'[l] = 0 /\ now \in Nat
        BY <1>1, <3>3 DEF RateInv, RateTypes
      <4> QED
        BY <2>1, <3>1, <3>3, <4>1 DEF Held
    <3> QED
      BY <3>2, <3>3
  <2>2. CASE b # a
    <3>1. CASE Known(b)
      <4>1. visitors[b].limiter \in Limiters \ {l} /\ visitors'[b] = visitors[b]
        BY <1>1, <1>2, <2>2, <3>1 DEF RateInv, RateTypes, Known
      <4>2. fullAt'[visitors[b].limiter] = fullAt[visitors[b].limiter]
        BY <1>1, <4>1
      <4> QED
        BY <1>0, <1>3, <2>2, <3>1, <4>1, <4>2 DEF Held, Level
    <3>2. CASE ~Known(b)
      BY <1>3, <2>2, <3>2 DEF Held
    <3> QED
      BY <3>1, <3>2
  <2> QED
    BY <2>1, <2>2
<1>9. WatchedPays'
  BY <1>0, <1>8 DEF RateInv, WatchedPays
<1> QED
  BY <1>4, <1>5, <1>6, <1>7, <1>8, <1>9 DEF RateInv

(* An admitted request takes its price from the limiter of its address, and  *)
(* from no other.                                                            *)
LEMMA AllowKeeps ==
    ASSUME RateInv, NEW r \in Requests, Allow(r)
    PROVE  /\ RateInv'
           /\ Held(From[r]) >= Refill
           /\ Held(From[r])' = Held(From[r]) - Refill
           /\ \A b \in Addrs \ {From[r]} : Held(b)' = Held(b)
<1> DEFINE a == From[r]
           l == request[r].limiter
<1>0. /\ a \in Addrs /\ now' = now /\ visitors' = visitors /\ now \in Nat
      /\ \A b \in Addrs : Known(b)' <=> Known(b)
  BY RateAssumption DEF Allow, RateInv, RateTypes, Known
<1>1. /\ Known(a) /\ l = visitors[a].limiter /\ l \in Limiters
      /\ request[r].since <= visitors[a].lastSeen
      /\ now <= request[r].since + MaxStall
      /\ request[r].since \in Nat /\ visitors[a].lastSeen \in Nat
  BY <1>0 DEF Allow, RateInv, RateTypes, HoldersAreKnown, Known
<1>2. Held(a) = Level(l) /\ Held(a) \in Nat /\ Held(a) <= Full /\ Held(a) >= Refill
  BY <1>0, <1>1, HeldRange DEF Held, Allow
<1> DEFINE full == now + (Full - Held(a)) + Refill
<1>3. /\ fullAt' = [fullAt EXCEPT ![l] = full]
      /\ request' = [request EXCEPT ![r] = [at |-> "allowed", limiter |-> None, since |-> 0]]
      /\ watch' = IF watch.addr = a
                  THEN [watch EXCEPT !.taken = watch.taken + Refill] ELSE watch
  <2>1. fullAt' = [fullAt EXCEPT ![l] = full]
    BY <1>2 DEF Allow
  <2>2. [NotHere EXCEPT !.at = "allowed"] = [at |-> "allowed", limiter |-> None, since |-> 0]
    BY DEF NotHere
  <2>3. request' = [request EXCEPT ![r] = [NotHere EXCEPT !.at = "allowed"]]
    BY DEF Allow, AnswerRequest
  <2> QED
    BY <2>1, <2>2, <2>3 DEF Allow
<1>4. full \in Nat /\ full > now /\ full <= now + Full
  BY <1>0, <1>2, RateAssumption
<1>5. Full - (full - now) = Held(a) - Refill
  BY <1>0, <1>2, RateAssumption
<1> HIDE DEF full, a, l
<1>6. \A b \in Addrs : Known(b) /\ b # a =>
        visitors[b].limiter \in Limiters /\ fullAt'[visitors[b].limiter] = fullAt[visitors[b].limiter]
  BY <1>0, <1>1, <1>3 DEF RateInv, RateTypes, OwnLimiter, Known
<1>7. fullAt'[l] = full
  BY <1>1, <1>3 DEF RateInv, RateTypes
<1>8. Held(a)' = Held(a) - Refill
  <2>1. Held(a)' = IF fullAt'[l] > now THEN Full - (fullAt'[l] - now) ELSE Full
    BY <1>0, <1>1 DEF Held, Level
  <2> QED
    BY <1>4, <1>5, <1>7, <2>1
<1>9. \A b \in Addrs \ {a} : Held(b)' = Held(b)
  BY <1>0, <1>6 DEF Held, Level
<1>10. RateTypes'
  <2>1. request' \in [Requests -> [at : {"idle", "holding", "allowed", "refused"},
                                   limiter : Limiters \cup {None}, since : Nat]]
    BY <1>3 DEF RateInv, RateTypes
  <2>2. watch' \in [addr : Addrs \cup {None}, from : Nat, taken : Nat]
    BY <1>3, RateAssumption DEF RateInv, RateTypes
  <2> QED
    BY <1>0, <1>3, <1>4, <2>1, <2>2 DEF RateInv, RateTypes
<1>11. OwnLimiter'
  BY <1>0 DEF RateInv, OwnLimiter
<1>12. HoldersAreKnown'
  <2> SUFFICES ASSUME NEW q \in Requests, request'[q].at = "holding"
               PROVE  /\ Known(From[q])'
                      /\ request'[q].limiter = visitors'[From[q]].limiter
                      /\ request'[q].since <= visitors'[From[q]].lastSeen
                      /\ now' <= request'[q].since + MaxStall
    BY DEF HoldersAreKnown
  <2>1. q # r /\ request'[q] = request[q] /\ From[q] \in Addrs
    BY <1>3, RateAssumption DEF RateInv, RateTypes
  <2> QED
    BY <1>0, <2>1 DEF RateInv, HoldersAreKnown
<1>13. FullInTime'
  <2> SUFFICES ASSUME NEW b \in Addrs, Known(b)
               PROVE  /\ visitors[b].lastSeen <= now
                      /\ fullAt'[visitors[b].limiter] <= now + Full
                      /\ fullAt'[visitors[b].limiter] <= visitors[b].lastSeen + MaxStall + Full
    BY <1>0 DEF FullInTime
  <2>1. CASE b = a
    BY <1>0, <1>1, <1>4, <1>7, <2>1, RateAssumption DEF RateInv, FullInTime
  <2>2. CASE b # a
    BY <1>6, <2>2 DEF RateInv, FullInTime
  <2> QED
    BY <2>1, <2>2
<1>14. WatchedPays'
  <2> SUFFICES ASSUME NEW b \in Addrs, watch'.addr = b, b # None
               PROVE  /\ watch'.from <= now
                      /\ watch'.taken + Held(b)' <= Full + (now - watch'.from)
    BY <1>0 DEF WatchedPays
  <2>1. watch.addr = b /\ watch.from \in Nat /\ watch.taken \in Nat /\ watch'.from = watch.from
    BY <1>3 DEF RateInv, RateTypes
  <2>2. watch.from <= now /\ watch.taken + Held(b) <= Full + (now - watch.from)
    BY <2>1 DEF RateInv, WatchedPays
  <2>3. CASE b = a
    <3>1. watch'.taken = watch.taken + Refill
      BY <1>3, <2>1, <2>3 DEF RateInv, RateTypes
    <3> QED
      BY <1>0, <1>2, <1>8, <2>1, <2>2, <2>3, <3>1, RateAssumption
  <2>4. CASE b # a
    BY <1>3, <1>9, <2>1, <2>2, <2>4
  <2> QED
    BY <2>3, <2>4
<1> QED
  BY <1>2, <1>8, <1>9, <1>10, <1>11, <1>12, <1>13, <1>14 DEF RateInv, a

(* A request that is turned away or leaves changes nothing but itself.       *)
LEMMA AnsweredKeeps ==
    ASSUME RateInv, NEW r \in Requests, NEW at \in {"idle", "refused"},
           request' = [request EXCEPT ![r] = [at |-> at, limiter |-> None, since |-> 0]],
           UNCHANGED <<now, visitors, fullAt, watch>>
    PROVE  RateInv' /\ \A b \in Addrs : Held(b)' = Held(b)
<1>1. \A b \in Addrs : Held(b)' = Held(b) /\ (Known(b)' <=> Known(b))
  BY DEF Held, Level, Known
<1>2. RateTypes'
  BY DEF RateInv, RateTypes
<1>3. OwnLimiter' /\ FullInTime'
  BY <1>1 DEF RateInv, OwnLimiter, FullInTime
<1>4. HoldersAreKnown'
  <2> SUFFICES ASSUME NEW q \in Requests, request'[q].at = "holding"
               PROVE  /\ Known(From[q])'
                      /\ request'[q].limiter = visitors'[From[q]].limiter
                      /\ request'[q].since <= visitors'[From[q]].lastSeen
                      /\ now' <= request'[q].since + MaxStall
    BY DEF HoldersAreKnown
  <2>1. q # r /\ request'[q] = request[q] /\ From[q] \in Addrs
    BY RateAssumption DEF RateInv, RateTypes
  <2> QED
    BY <1>1, <2>1 DEF RateInv, HoldersAreKnown
<1>5. WatchedPays'
  BY <1>1 DEF RateInv, WatchedPays
<1> QED
  BY <1>1, <1>2, <1>3, <1>4, <1>5 DEF RateInv

(* The cleanup drops full limiters only, and none that a request holds.      *)
LEMMA CleanupKeeps ==
    ASSUME RateInv, Cleanup
    PROVE  RateInv' /\ \A b \in Addrs : Held(b)' = Held(b)
<1>0. /\ UNCHANGED <<now, fullAt, request, watch>> /\ now \in Nat
      /\ \A b \in Addrs : visitors'[b] = IF Idle(b) THEN Nobody ELSE visitors[b]
  BY DEF Cleanup, RateInv, RateTypes
<1>1. \A b \in Addrs : Known(b)' <=> Known(b) /\ ~Idle(b)
  BY <1>0 DEF Known, Nobody, Idle
<1>2. ASSUME NEW b \in Addrs PROVE Held(b)' = Held(b)
  <2>1. CASE Idle(b)
    <3>1. /\ Known(b) /\ now - visitors[b].lastSeen > IdleFor
          /\ fullAt[visitors[b].limiter] <= visitors[b].lastSeen + MaxStall + Full
          /\ visitors[b].lastSeen \in Nat /\ fullAt[visitors[b].limiter] \in Nat
      BY <2>1 DEF Idle, RateInv, RateTypes, FullInTime, Known
    <3>2. ~(fullAt[visitors[b].limiter] > now)
      BY <1>0, <3>1, RateAssumption
    <3> QED
      BY <1>1, <2>1, <3>1, <3>2 DEF Held, Level
  <2>2. CASE ~Idle(b)
    BY <1>0, <1>1, <2>2 DEF Held, Level
  <2> QED
    BY <2>1, <2>2
<1>3. RateTypes'
  BY <1>0 DEF Cleanup, RateInv, RateTypes, Nobody
<1>4. OwnLimiter' /\ FullInTime'
  BY <1>0, <1>1 DEF RateInv, OwnLimiter, FullInTime, Known
<1>5. HoldersAreKnown'
  <2> SUFFICES ASSUME NEW q \in Requests, request[q].at = "holding"
               PROVE  /\ Known(From[q])'
                      /\ request[q].limiter = visitors'[From[q]].limiter
                      /\ request[q].since <= visitors'[From[q]].lastSeen
                      /\ now <= request[q].since + MaxStall
    BY <1>0 DEF HoldersAreKnown
  <2>1. /\ From[q] \in Addrs /\ Known(From[q])
        /\ request[q].limiter = visitors[From[q]].limiter
        /\ request[q].since <= visitors[From[q]].lastSeen
        /\ now <= request[q].since + MaxStall
        /\ request[q].since \in Nat /\ visitors[From[q]].lastSeen \in Nat
    BY RateAssumption DEF RateInv, RateTypes, HoldersAreKnown
  <2>2. ~Idle(From[q])
    BY <1>0, <2>1, RateAssumption DEF Idle
  <2> QED
    BY <1>0, <1>1, <2>1, <2>2
<1>6. WatchedPays'
  BY <1>0, <1>2 DEF RateInv, WatchedPays
<1> QED
  BY <1>2, <1>3, <1>4, <1>5, <1>6 DEF RateInv

(* Every limiter that is not full gains one unit.                            *)
LEMMA TickKeeps ==
    ASSUME RateInv, Tick
    PROVE  /\ RateInv'
           /\ \A b \in Addrs : Held(b)' = IF Held(b) < Full THEN Held(b) + 1 ELSE Full
<1>0. now' = now + 1 /\ UNCHANGED <<visitors, fullAt, request, watch>> /\ now \in Nat
  BY DEF Tick, RateInv, RateTypes
<1>1. \A b \in Addrs : Known(b)' <=> Known(b)
  BY <1>0 DEF Known
<1>2. ASSUME NEW b \in Addrs
      PROVE  Held(b)' = IF Held(b) < Full THEN Held(b) + 1 ELSE Full
  <2>1. CASE Known(b)
    <3>1. fullAt[visitors[b].limiter] \in Nat
      BY <2>1 DEF RateInv, RateTypes, Known
    <3>2. Held(b) = Level(visitors[b].limiter)
      BY <2>1 DEF Held
    <3>3. Held(b)' = IF fullAt[visitors[b].limiter] > now + 1
                     THEN Full - (fullAt[visitors[b].limiter] - (now + 1)) ELSE Full
      BY <1>0, <1>1, <2>1 DEF Held, Level
    <3> QED
      BY <1>0, <3>1, <3>2, <3>3, RateAssumption DEF Level
  <2>2. CASE ~Known(b)
    BY <1>1, <2>2, RateAssumption DEF Held
  <2> QED
    BY <2>1, <2>2
<1>3. RateTypes'
  BY <1>0 DEF RateInv, RateTypes
<1>4. OwnLimiter'
  BY <1>0, <1>1 DEF RateInv, OwnLimiter
<1>5. FullInTime'
  <2> SUFFICES ASSUME NEW b \in Addrs, Known(b)
               PROVE  /\ visitors[b].lastSeen <= now + 1
                      /\ fullAt[visitors[b].limiter] <= now + 1 + Full
                      /\ fullAt[visitors[b].limiter] <= visitors[b].lastSeen + MaxStall + Full
    BY <1>0, <1>1 DEF FullInTime
  <2>1. fullAt[visitors[b].limiter] \in Nat /\ visitors[b].lastSeen \in Nat
    BY DEF RateInv, RateTypes, Known
  <2> QED
    BY <1>0, <2>1, RateAssumption DEF RateInv, FullInTime
<1>6. HoldersAreKnown'
  <2> SUFFICES ASSUME NEW q \in Requests, request[q].at = "holding"
               PROVE  /\ Known(From[q])
                      /\ request[q].limiter = visitors[From[q]].limiter
                      /\ request[q].since <= visitors[From[q]].lastSeen
                      /\ now + 1 <= request[q].since + MaxStall
    BY <1>0, <1>1, RateAssumption DEF HoldersAreKnown
  <2>1. now - request[q].since < MaxStall /\ request[q].since \in Nat
    BY DEF Tick, RateInv, RateTypes
  <2> QED
    BY <1>0, <2>1, RateAssumption DEF RateInv, HoldersAreKnown
<1>7. WatchedPays'
  <2> SUFFICES ASSUME NEW b \in Addrs, watch'.addr = b, b # None
               PROVE  /\ watch'.from <= now'
                      /\ watch'.taken + Held(b)' <= Full + (now' - watch'.from)
    BY DEF WatchedPays
  <2>1. /\ watch.from \in Nat /\ watch.taken \in Nat
        /\ watch.from <= now
        /\ watch.taken + Held(b) <= Full + (now - watch.from)
    BY <1>0 DEF RateInv, RateTypes, WatchedPays
  <2>2. Held(b) \in Nat /\ Held(b) <= Full
    BY HeldRange
  <2> DEFINE h == Held(b)
  <2>3. Held(b)' \in Nat /\ Held(b)' <= h + 1
    <3>1. Held(b)' = IF h < Full THEN h + 1 ELSE Full
      BY <1>2
    <3>2. h \in Nat /\ h <= Full
      BY <2>2
    <3> HIDE DEF h
    <3> QED
      BY <3>1, <3>2, RateAssumption
  <2> QED
    BY <1>0, <2>1, <2>2, <2>3, RateAssumption
<1> QED
  BY <1>2, <1>3, <1>4, <1>5, <1>6, <1>7 DEF RateInv

LEMMA StartWatchKeeps ==
    ASSUME RateInv, NEW a \in Addrs, StartWatch(a)
    PROVE  RateInv' /\ \A b \in Addrs : Held(b)' = Held(b)
<1>1. UNCHANGED <<now, visitors, fullAt, request>> /\ watch' = [addr |-> a, from |-> now, taken |-> 0]
  BY DEF StartWatch
<1>2. \A b \in Addrs : Held(b)' = Held(b) /\ (Known(b)' <=> Known(b))
  BY <1>1 DEF Held, Level, Known
<1>3. RateTypes' /\ OwnLimiter' /\ FullInTime'
  BY <1>1, <1>2 DEF RateInv, RateTypes, OwnLimiter, FullInTime
<1>4. HoldersAreKnown'
  BY <1>1, <1>2, RateAssumption DEF RateInv, HoldersAreKnown
<1>5. WatchedPays'
  <2>1. Held(a)' <= Full /\ Held(a) \in Nat /\ now \in Nat
    BY <1>2, HeldRange DEF RateInv, RateTypes
  <2> QED
    BY <1>1, <1>2, <2>1, RateAssumption DEF WatchedPays
<1> QED
  BY <1>2, <1>3, <1>4, <1>5 DEF RateInv

-----------------------------------------------------------------------------
LEMMA UnchangedKeeps ==
    ASSUME RateInv, UNCHANGED limiterVars
    PROVE  RateInv' /\ \A b \in Addrs : Held(b)' = Held(b)
<1>1. \A b \in Addrs : Held(b)' = Held(b) /\ (Known(b)' <=> Known(b))
  BY DEF limiterVars, Held, Level, Known
<1>2. RateTypes' /\ OwnLimiter' /\ FullInTime'
  BY <1>1 DEF limiterVars, RateInv, RateTypes, OwnLimiter, FullInTime
<1>3. HoldersAreKnown'
  BY <1>1, RateAssumption DEF limiterVars, RateInv, HoldersAreKnown
<1>4. WatchedPays'
  BY <1>1 DEF limiterVars, RateInv, RateTypes, WatchedPays
<1> QED
  BY <1>1, <1>2, <1>3, <1>4 DEF RateInv

LEMMA RateKeeps == RateInv /\ [LimiterNext]_limiterVars => RateInv'
<1> SUFFICES ASSUME RateInv, [LimiterNext]_limiterVars PROVE RateInv'
  OBVIOUS
<1>1. CASE UNCHANGED limiterVars
  BY <1>1, UnchangedKeeps
<1>2. ASSUME NEW r \in Requests, RequestStep(r) PROVE RateInv'
  BY <1>2, GetLimiterKeeps, AllowKeeps, AnsweredKeeps
     DEF RequestStep, TooMany, Leave, AnswerRequest, NotHere
<1>3. CASE Cleanup \/ Tick \/ \E a \in Addrs : StartWatch(a)
  BY <1>3, CleanupKeeps, TickKeeps, StartWatchKeeps
<1> QED
  BY <1>1, <1>2, <1>3 DEF LimiterNext

THEOREM RateInvariant == LimiterSpec => []RateInv
BY InitRate, RateKeeps, PTL DEF LimiterSpec

(* From any moment on, an address is admitted no more than a full limiter    *)
(* and the time since then pay for, whatever the cleanup drops.              *)
THEOREM AdmissionsPaid == LimiterSpec => []AdmissionsArePaid
<1>1. RateInv => AdmissionsArePaid
  <2> SUFFICES ASSUME RateInv, watch.addr # None
               PROVE  watch.taken <= Full + (now - watch.from)
    BY DEF AdmissionsArePaid
  <2>1. /\ watch.addr \in Addrs /\ watch.taken \in Nat /\ watch.from \in Nat /\ now \in Nat
        /\ watch.from <= now
        /\ watch.taken + Held(watch.addr) <= Full + (now - watch.from)
    BY DEF RateInv, RateTypes, WatchedPays
  <2>2. Held(watch.addr) \in Nat
    BY <2>1, HeldRange
  <2> QED
    BY <2>1, <2>2, RateAssumption
<1> QED
  BY <1>1, RateInvariant, PTL

-----------------------------------------------------------------------------
(* The state of the token bucket that the limiter stands for.                *)
AllHeld == [a \in Addrs |-> Held(a)]
SeenOutside == [r \in Requests |-> IF request[r].at = "holding" THEN "waiting" ELSE request[r].at]

(* A request that moves, seen from outside.                                  *)
LEMMA MoveSeen ==
    ASSUME RateInv, NEW r \in Requests, NEW at, NEW l, NEW n,
           request' = [request EXCEPT ![r] = [at |-> at, limiter |-> l, since |-> n]]
    PROVE  SeenOutside' = [SeenOutside EXCEPT ![r] = IF at = "holding" THEN "waiting" ELSE at]
<1>1. \A q \in Requests : request'[q] =
        IF q = r THEN [at |-> at, limiter |-> l, since |-> n] ELSE request[q]
  BY DEF RateInv, RateTypes
<1> DEFINE seen == IF at = "holding" THEN "waiting" ELSE at
<1>2. SeenOutside' = [q \in Requests |-> IF q = r THEN seen ELSE SeenOutside[q]]
  <2>1. \A q \in Requests :
          (IF request'[q].at = "holding" THEN "waiting" ELSE request'[q].at)
            = IF q = r THEN seen ELSE SeenOutside[q]
    BY <1>1 DEF SeenOutside
  <2> QED
    BY <2>1 DEF SeenOutside
<1>3. [SeenOutside EXCEPT ![r] = seen] = [q \in Requests |-> IF q = r THEN seen ELSE SeenOutside[q]]
  BY DEF SeenOutside
<1> QED
  BY <1>2, <1>3

LEMMA StepImplements ==
    RateInv /\ [LimiterNext]_limiterVars => [Bucket!Next]_<<AllHeld, SeenOutside>>
<1> SUFFICES ASSUME RateInv, [LimiterNext]_limiterVars
             PROVE  [Bucket!Next]_<<AllHeld, SeenOutside>>
  OBVIOUS
<1>1. CASE UNCHANGED limiterVars
  BY <1>1, UnchangedKeeps DEF AllHeld, SeenOutside, limiterVars
<1>2. ASSUME NEW r \in Requests, GetLimiter(r) PROVE Bucket!Arrive(r)
  <2>1. PICK l \in Limiters :
          request' = [request EXCEPT ![r] = [at |-> "holding", limiter |-> l, since |-> now]]
    BY <1>2, GetLimiterFacts
  <2>2. SeenOutside' = [SeenOutside EXCEPT ![r] = "waiting"] /\ SeenOutside[r] = "idle"
    BY <1>2, <2>1, MoveSeen DEF GetLimiter, SeenOutside
  <2>3. AllHeld' = AllHeld
    BY <1>2, GetLimiterKeeps DEF AllHeld
  <2> QED
    BY <2>2, <2>3 DEF Bucket!Arrive, Bucket!Turn, SeenOutside, AllHeld, Held
<1>3. ASSUME NEW r \in Requests, Allow(r) PROVE Bucket!Admit(r)
  <2>0. From[r] \in Addrs
    BY RateAssumption
  <2>1. [NotHere EXCEPT !.at = "allowed"] = [at |-> "allowed", limiter |-> None, since |-> 0]
    BY DEF NotHere
  <2>2. request' = [request EXCEPT ![r] = [at |-> "allowed", limiter |-> None, since |-> 0]]
    BY <1>3, <2>1 DEF Allow, AnswerRequest
  <2>3. SeenOutside' = [SeenOutside EXCEPT ![r] = "allowed"] /\ SeenOutside[r] = "waiting"
    BY <1>3, <2>2, MoveSeen DEF Allow, SeenOutside
  <2>4. /\ AllHeld[From[r]] >= Refill
        /\ AllHeld' = [AllHeld EXCEPT ![From[r]] = AllHeld[From[r]] - Refill]
    BY <1>3, <2>0, AllowKeeps DEF AllHeld
  <2> QED
    BY <2>3, <2>4 DEF Bucket!Admit, Bucket!Turn, SeenOutside, AllHeld, Held
<1>4. ASSUME NEW r \in Requests, TooMany(r) PROVE Bucket!Refuse(r)
  <2>0. From[r] \in Addrs
    BY RateAssumption
  <2>1. [NotHere EXCEPT !.at = "refused"] = [at |-> "refused", limiter |-> None, since |-> 0]
    BY DEF NotHere
  <2>2. request' = [request EXCEPT ![r] = [at |-> "refused", limiter |-> None, since |-> 0]]
    BY <1>4, <2>1 DEF TooMany, AnswerRequest
  <2>3. SeenOutside' = [SeenOutside EXCEPT ![r] = "refused"] /\ SeenOutside[r] = "waiting"
    BY <1>4, <2>2, MoveSeen DEF TooMany, SeenOutside
  <2>4. AllHeld' = AllHeld
    BY <1>4, <2>2, AnsweredKeeps DEF TooMany, AllHeld
  <2>5. AllHeld[From[r]] < Refill
    <3>1. Known(From[r]) /\ request[r].limiter = visitors[From[r]].limiter
      BY <1>4 DEF TooMany, RateInv, HoldersAreKnown
    <3> QED
      BY <1>4, <2>0, <3>1 DEF TooMany, AllHeld, Held
  <2> QED
    BY <2>3, <2>4, <2>5 DEF Bucket!Refuse, Bucket!Turn, SeenOutside, AllHeld, Held
<1>5. ASSUME NEW r \in Requests, Leave(r) PROVE Bucket!Leave(r)
  <2>1. request' = [request EXCEPT ![r] = [at |-> "idle", limiter |-> None, since |-> 0]]
    BY <1>5 DEF Leave, NotHere
  <2>2. SeenOutside' = [SeenOutside EXCEPT ![r] = "idle"]
    BY <2>1, MoveSeen
  <2>4. SeenOutside[r] \in {"allowed", "refused"}
    BY <1>5 DEF Leave, SeenOutside
  <2>3. AllHeld' = AllHeld
    BY <1>5, <2>1, AnsweredKeeps DEF Leave, AllHeld
  <2> QED
    BY <2>2, <2>3, <2>4 DEF Bucket!Leave, SeenOutside, AllHeld, Held
<1>6. CASE Cleanup
  BY <1>6, CleanupKeeps DEF Cleanup, AllHeld, SeenOutside
<1>7. ASSUME Tick PROVE Bucket!Tick
  <2>1. AllHeld' = [a \in Addrs |-> IF AllHeld[a] < Full THEN AllHeld[a] + 1 ELSE Full]
    BY <1>7, TickKeeps DEF AllHeld
  <2>2. SeenOutside' = SeenOutside
    BY <1>7 DEF Tick, SeenOutside
  <2> QED
    BY <2>1, <2>2 DEF Bucket!Tick, SeenOutside, AllHeld, Held
<1>8. CASE \E a \in Addrs : StartWatch(a)
  BY <1>8, StartWatchKeeps DEF StartWatch, AllHeld, SeenOutside
<1> QED
  BY <1>1, <1>2, <1>3, <1>4, <1>5, <1>6, <1>7, <1>8 DEF LimiterNext, RequestStep, Bucket!Next

(* However entries are dropped and made anew, and however late a request     *)
(* asks its limiter, every address is held to one token bucket of its own.   *)
THEOREM LimiterImplementsTokenBucket == LimiterSpec => ImplementsTokenBucket
<1>1. LimiterInit => Bucket!Init
  <2> SUFFICES ASSUME LimiterInit PROVE Bucket!Init
    OBVIOUS
  <2>1. \A a \in Addrs : ~Known(a)
    BY DEF LimiterInit, Known, Nobody
  <2>2. \A r \in Requests : request[r].at = "idle"
    BY DEF LimiterInit, NotHere
  <2> QED
    BY <2>1, <2>2 DEF Bucket!Init
<1>2. RateInv /\ [LimiterNext]_limiterVars => [Bucket!Next]_Bucket!vars
  BY StepImplements DEF Bucket!vars, AllHeld, SeenOutside, Held
<1> QED
  BY <1>1, <1>2, RateInvariant, PTL DEF LimiterSpec, ImplementsTokenBucket, Bucket!Spec

-----------------------------------------------------------------------------
(* Proofs about the settings for any number of operators, keys and values. The *)
(* transaction of a save agrees with its form on every key it has written, so  *)
(* what it commits is one form, and a page reads what was committed.           *)

Blank == [k \in BankKeys |-> Empty]
Saved == saves \cup {Blank}

SettingsTypes ==
    /\ env \in [SettingKeys -> Values \cup {"1"}]
    /\ stored = [k \in SettingKeys |-> stored[k]]
    /\ written = [k \in SettingKeys |-> written[k]]
    /\ editor = [o \in Editors |-> editor[o]]
    /\ \A o \in Editors :
         editor[o] = [at |-> editor[o].at, form |-> editor[o].form, left |-> editor[o].left]

StoredIsSaved == BankDetails(stored) \in Saved

SaverWritesItsForm ==
    \A o \in Editors : editor[o].at = "saving" =>
      /\ writer = o
      /\ \A k \in SettingKeys \ editor[o].left : written[k] = editor[o].form[k]

SettingsInv == SettingsTypes /\ StoredIsSaved /\ SaverWritesItsForm /\ PageShowsOneSave

LEMMA InitSettings == SettingsInit => SettingsInv
<1> SUFFICES ASSUME SettingsInit PROVE SettingsInv
  OBVIOUS
<1>1. SettingsTypes
  BY DEF SettingsInit, SettingsTypes, Environments, NotEditing
<1>2. BankDetails(stored) = Blank
  BY DEF SettingsInit, BankDetails, Blank, SettingKeys
<1>3. SaverWritesItsForm /\ PageShowsOneSave
  BY DEF SettingsInit, SaverWritesItsForm, PageShowsOneSave, NotEditing
<1> QED
  BY <1>1, <1>2, <1>3 DEF SettingsInv, StoredIsSaved, Saved

(* A page that is opened on what is stored shows one save.                   *)
LEMMA OpenedPage ==
    ASSUME SettingsInv
    PROVE  /\ \E save \in Saved :
                [k \in BankKeys |-> Effective(stored, k)] = [k \in BankKeys |-> Effective(save, k)]
           /\ \E save \in Saved :
                [k \in BankKeys |-> env[k]] = [k \in BankKeys |-> Effective(save, k)]
<1>1. BankDetails(stored) \in Saved
  BY DEF SettingsInv, StoredIsSaved
<1>2. [k \in BankKeys |-> Effective(stored, k)]
        = [k \in BankKeys |-> Effective(BankDetails(stored), k)]
  BY DEF Effective, BankDetails
<1>3. Blank \in Saved /\ [k \in BankKeys |-> env[k]] = [k \in BankKeys |-> Effective(Blank, k)]
  BY DEF Saved, Blank, Effective
<1> QED
  BY <1>1, <1>2, <1>3

(* A page that stays as it is.                                               *)
LEMMA PageStays ==
    ASSUME SettingsInv, UNCHANGED <<env, shown>>, saves \subseteq saves'
    PROVE  PageShowsOneSave'
<1> SUFFICES ASSUME shown # None
             PROVE  \E save \in saves' \cup {Blank} :
                      shown = [k \in BankKeys |-> Effective(save, k)']
  BY DEF PageShowsOneSave, Blank
<1>1. PICK save \in saves \cup {Blank} : shown = [k \in BankKeys |-> Effective(save, k)]
  BY DEF SettingsInv, PageShowsOneSave, Blank
<1>2. ASSUME NEW f PROVE \A k : Effective(f, k)' = Effective(f, k)
  BY DEF Effective
<1> QED
  BY <1>1, <1>2

-----------------------------------------------------------------------------
LEMMA FormKeeps ==
    ASSUME SettingsInv, NEW o \in Editors, AdminSettingsPage(o) \/ Edit(o)
    PROVE  SettingsInv'
<1>1. /\ UNCHANGED <<env, stored, writer, written, shown, saves>>
      /\ editor[o].at \in {"away", "form"}
  BY DEF AdminSettingsPage, Edit
<1>2. /\ editor' = [p \in Editors |-> editor'[p]]
      /\ editor'[o].at = "form"
      /\ editor'[o] = [at |-> editor'[o].at, form |-> editor'[o].form,
                       left |-> editor'[o].left]
      /\ \A p \in Editors \ {o} : editor'[p] = editor[p]
  <2>1. CASE AdminSettingsPage(o)
    BY <2>1 DEF AdminSettingsPage, EditorGoTo, SettingsInv, SettingsTypes
  <2>2. CASE Edit(o)
    <3>1. PICK k, v : editor' = [editor EXCEPT ![o].form[k] = v] /\ editor[o].at = "form"
      BY <2>2 DEF Edit
    <3>2. [editor[o] EXCEPT !.form[k] = v]
            = [at |-> "form", form |-> [editor[o].form EXCEPT ![k] = v], left |-> editor[o].left]
      BY <3>1 DEF SettingsInv, SettingsTypes
    <3>3. editor' = [editor EXCEPT ![o] = [at |-> "form",
                       form |-> [editor[o].form EXCEPT ![k] = v], left |-> editor[o].left]]
      BY <3>1, <3>2
    <3> QED
      BY <3>3 DEF SettingsInv, SettingsTypes
  <2> QED
    BY <2>1, <2>2
<1>3. SettingsTypes' /\ StoredIsSaved'
  BY <1>1, <1>2 DEF SettingsInv, SettingsTypes, StoredIsSaved, Saved, BankDetails
<1>4. SaverWritesItsForm'
  BY <1>1, <1>2 DEF SettingsInv, SaverWritesItsForm
<1>5. PageShowsOneSave'
  BY <1>1, PageStays
<1> QED
  BY <1>3, <1>4, <1>5 DEF SettingsInv

LEMMA BeginKeeps ==
    ASSUME SettingsInv, NEW o \in Editors, AdminSaveSettings(o)
    PROVE  SettingsInv'
<1>1. /\ UNCHANGED <<env, stored, shown, saves>>
      /\ writer = None /\ writer' = o /\ written' = stored
      /\ editor' = [editor EXCEPT ![o] = [at |-> "saving", form |-> editor[o].form,
                                          left |-> SettingKeys]]
  BY DEF AdminSaveSettings, EditorGoTo
<1>2. SettingsTypes' /\ StoredIsSaved'
  BY <1>1 DEF SettingsInv, SettingsTypes, StoredIsSaved, Saved, BankDetails
<1>3. SaverWritesItsForm'
  <2> SUFFICES ASSUME NEW p \in Editors, editor'[p].at = "saving"
               PROVE  /\ writer' = p
                      /\ \A k \in SettingKeys \ editor'[p].left : written'[k] = editor'[p].form[k]
    BY DEF SaverWritesItsForm
  <2>1. p = o
    BY <1>1, SettingsAssumption DEF SettingsInv, SettingsTypes, SaverWritesItsForm
  <2> QED
    BY <1>1, <2>1 DEF SettingsInv, SettingsTypes
<1>4. PageShowsOneSave'
  BY <1>1, PageStays
<1> QED
  BY <1>2, <1>3, <1>4 DEF SettingsInv

LEMMA UpsertKeeps ==
    ASSUME SettingsInv, NEW o \in Editors, UpsertSetting(o)
    PROVE  SettingsInv'
<1>1. PICK k \in editor[o].left :
        /\ written' = [written EXCEPT ![k] = editor[o].form[k]]
        /\ editor' = [editor EXCEPT ![o] = [at |-> "saving", form |-> editor[o].form,
                                            left |-> editor[o].left \ {k}]]
  BY DEF UpsertSetting, EditorGoTo
<1>2. /\ UNCHANGED <<env, stored, writer, shown, saves>> /\ editor[o].at = "saving"
  BY DEF UpsertSetting
<1>3. SettingsTypes' /\ StoredIsSaved'
  BY <1>1, <1>2 DEF SettingsInv, SettingsTypes, StoredIsSaved, Saved, BankDetails
<1>4. SaverWritesItsForm'
  <2> SUFFICES ASSUME NEW p \in Editors, editor'[p].at = "saving"
               PROVE  /\ writer' = p
                      /\ \A j \in SettingKeys \ editor'[p].left : written'[j] = editor'[p].form[j]
    BY DEF SaverWritesItsForm
  <2>1. writer = o
    BY <1>2 DEF SettingsInv, SaverWritesItsForm
  <2>2. p = o
    BY <1>1, <1>2, <2>1 DEF SettingsInv, SettingsTypes, SaverWritesItsForm
  <2>3. editor'[o] = [at |-> "saving", form |-> editor[o].form, left |-> editor[o].left \ {k}]
    BY <1>1 DEF SettingsInv, SettingsTypes
  <2>4. \A j \in SettingKeys : written'[j] = IF j = k THEN editor[o].form[k] ELSE written[j]
    BY <1>1 DEF SettingsInv, SettingsTypes
  <2>5. \A j \in SettingKeys \ editor[o].left : written[j] = editor[o].form[j]
    BY <1>2 DEF SettingsInv, SaverWritesItsForm
  <2> QED
    BY <1>2, <2>1, <2>2, <2>3, <2>4, <2>5
<1>5. PageShowsOneSave'
  BY <1>2, PageStays
<1> QED
  BY <1>3, <1>4, <1>5 DEF SettingsInv

LEMMA CommitSaveKeeps ==
    ASSUME SettingsInv, NEW o \in Editors, CommitSettings(o)
    PROVE  SettingsInv'
<1>1. /\ stored' = written /\ writer' = None
      /\ saves' = saves \cup {BankDetails(editor[o].form)}
      /\ editor' = [editor EXCEPT ![o] = NotEditing]
      /\ UNCHANGED <<env, written, shown>>
      /\ editor[o].at = "saving" /\ editor[o].left = {}
  BY DEF CommitSettings
<1>2. \A k \in SettingKeys : written[k] = editor[o].form[k]
  BY <1>1 DEF SettingsInv, SaverWritesItsForm
<1>3. BankDetails(written) = BankDetails(editor[o].form)
  BY <1>2 DEF BankDetails, SettingKeys
<1>4. StoredIsSaved'
  BY <1>1, <1>3 DEF StoredIsSaved, Saved, BankDetails
<1>5. SettingsTypes'
  BY <1>1 DEF SettingsInv, SettingsTypes, NotEditing
<1>6. SaverWritesItsForm'
  <2> SUFFICES ASSUME NEW p \in Editors, editor'[p].at = "saving" PROVE FALSE
    BY DEF SaverWritesItsForm
  <2>1. p # o /\ editor[p].at = "saving"
    BY <1>1 DEF SettingsInv, SettingsTypes, NotEditing
  <2> QED
    BY <1>1, <2>1 DEF SettingsInv, SaverWritesItsForm
<1>7. PageShowsOneSave'
  BY <1>1, PageStays
<1> QED
  BY <1>4, <1>5, <1>6, <1>7 DEF SettingsInv

LEMMA SaveFailsKeeps ==
    ASSUME SettingsInv, NEW o \in Editors, SaveFails(o)
    PROVE  SettingsInv'
<1>1. /\ writer' = None /\ written' = stored
      /\ editor' = [editor EXCEPT ![o] = NotEditing]
      /\ UNCHANGED <<env, stored, shown, saves>>
      /\ editor[o].at = "saving"
  BY DEF SaveFails
<1>2. SettingsTypes' /\ StoredIsSaved'
  BY <1>1 DEF SettingsInv, SettingsTypes, StoredIsSaved, Saved, BankDetails, NotEditing
<1>3. SaverWritesItsForm'
  <2> SUFFICES ASSUME NEW p \in Editors, editor'[p].at = "saving" PROVE FALSE
    BY DEF SaverWritesItsForm
  <2>1. p # o /\ editor[p].at = "saving"
    BY <1>1 DEF SettingsInv, SettingsTypes, NotEditing
  <2> QED
    BY <1>1, <2>1 DEF SettingsInv, SaverWritesItsForm
<1>4. PageShowsOneSave'
  BY <1>1, PageStays
<1> QED
  BY <1>2, <1>3, <1>4 DEF SettingsInv

LEMMA PagesKeep ==
    ASSUME SettingsInv, PayPage \/ PayPageWithoutSettings
    PROVE  SettingsInv'
<1>1. UNCHANGED <<env, stored, writer, written, editor, saves>>
  BY DEF PayPage, PayPageWithoutSettings
<1>2. SettingsTypes' /\ StoredIsSaved' /\ SaverWritesItsForm'
  BY <1>1 DEF SettingsInv, SettingsTypes, StoredIsSaved, Saved, BankDetails, SaverWritesItsForm
<1>3. PageShowsOneSave'
  <2>1. \E save \in Saved : shown' = [k \in BankKeys |-> Effective(save, k)]
    BY OpenedPage DEF PayPage, PayPageWithoutSettings
  <2>2. ASSUME NEW f PROVE \A k : Effective(f, k)' = Effective(f, k)
    BY <1>1 DEF Effective
  <2> QED
    BY <1>1, <2>1, <2>2 DEF PageShowsOneSave, Saved, Blank
<1> QED
  BY <1>2, <1>3 DEF SettingsInv

LEMMA RestartKeeps ==
    ASSUME SettingsInv, RestartServer
    PROVE  SettingsInv'
<1>1. SettingsTypes'
  BY DEF RestartServer, SettingsInv, SettingsTypes, Environments, NotEditing
<1>2. StoredIsSaved'
  BY DEF RestartServer, SettingsInv, StoredIsSaved, Saved, BankDetails
<1>3. SaverWritesItsForm'
  BY DEF RestartServer, SaverWritesItsForm, NotEditing
<1>4. PageShowsOneSave'
  BY DEF RestartServer, PageShowsOneSave
<1> QED
  BY <1>1, <1>2, <1>3, <1>4 DEF SettingsInv

LEMMA SettingsKeep == SettingsInv /\ [SettingsNext]_settingsVars => SettingsInv'
<1> SUFFICES ASSUME SettingsInv, [SettingsNext]_settingsVars PROVE SettingsInv'
  OBVIOUS
<1>1. CASE UNCHANGED settingsVars
  <2>1. UNCHANGED <<env, stored, writer, written, editor, shown, saves>>
    BY <1>1 DEF settingsVars
  <2>2. SettingsTypes' /\ StoredIsSaved' /\ SaverWritesItsForm'
    BY <2>1 DEF SettingsInv, SettingsTypes, StoredIsSaved, Saved, BankDetails, SaverWritesItsForm
  <2> QED
    BY <2>1, <2>2, PageStays DEF SettingsInv
<1> QED
  BY <1>1, FormKeeps, BeginKeeps, UpsertKeeps, CommitSaveKeeps, SaveFailsKeeps, PagesKeep,
     RestartKeeps DEF SettingsNext

(* No payer is ever shown bank details that mix two saves.                   *)
THEOREM PagesShowOneSave == SettingsSpec => []PageShowsOneSave
<1>1. SettingsInv => PageShowsOneSave
  BY DEF SettingsInv
<1> QED
  BY <1>1, InitSettings, SettingsKeep, PTL DEF SettingsSpec

-----------------------------------------------------------------------------
(* Sessions. Rows and the rows guards have read are copies of the login that *)
(* made them, which expires no later than a login's time and a lifetime      *)
(* after its check; the check was before the operator was deactivated.       *)

SessionRows == [id : Ids, user : Users, expires : Nat]

LoginType == [at : {"none", "checked", "create", "done", "failed"},
              user : Users \cup {None}, since : Nat, expires : Nat]

VisitType == [at : {"idle", "found", "admitted"}, id : Ids \cup {None},
              row : SessionRows \cup {None}, entered : Nat]

OperatorType == [password : Nat, off : Nat \cup {None}]

SessionsTypes ==
    /\ time \in Nat
    /\ operator \in [Operators -> OperatorType]
    /\ sessions \subseteq SessionRows
    /\ login \in [Ids -> LoginType]
    /\ visit \in [Visits -> VisitType]

LoginTimely(l, t) ==
    /\ l.at # "none" => l.user \in Users /\ l.since <= t
    /\ l.at = "checked" => t <= l.since + LoginTime
    /\ l.at \in {"create", "done"} => l.expires <= l.since + LoginTime + Lifetime

LoginBefore(l, ops) ==
    \A u \in Operators :
      (l.at # "none" /\ l.user = u /\ ops[u].off # None) => l.since <= ops[u].off

RowOfLogin(r, l) == l.at = "done" /\ r.user = l.user /\ r.expires = l.expires

GuardKnows(w, logins) ==
    w.at # "idle" =>
      /\ w.id \in Ids /\ w.row \in SessionRows
      /\ RowOfLogin(w.row, logins[w.id])
      /\ w.at = "admitted" => w.entered <= w.row.expires

SessionsInv ==
    /\ SessionsTypes
    /\ \A i \in Ids : LoginTimely(login[i], time) /\ LoginBefore(login[i], operator)
    /\ \A r \in sessions : RowOfLogin(r, login[r.id])
    /\ \A v \in Visits : GuardKnows(visit[v], login)
    /\ SessionsLast

LEMMA SessionBounds ==
  /\ Lifetime \in Nat /\ LoginTime \in Nat /\ None \notin Nat /\ Admin \notin Operators
  /\ None \notin Ids /\ None \notin Operators
BY SessionsAssumption

LEMMA InitSessions == SessionsInit => SessionsInv
<1> SUFFICES ASSUME SessionsInit PROVE SessionsInv
  OBVIOUS
<1>1. NoVisit \in VisitType /\ NoVisit.at = "idle"
  BY DEF NoVisit, VisitType
<1>2. operator \in [Operators -> OperatorType]
  BY DEF SessionsInit, OperatorType
<1>3. login \in [Ids -> LoginType] /\ \A i \in Ids : login[i].at = "none"
  BY DEF SessionsInit, LoginType
<1>4. visit \in [Visits -> VisitType] /\ \A v \in Visits : visit[v].at = "idle"
  BY <1>1 DEF SessionsInit
<1>5. time \in Nat /\ sessions = {}
  BY DEF SessionsInit
<1> QED BY <1>2, <1>3, <1>4, <1>5
  DEF SessionsInv, SessionsTypes, LoginTimely, LoginBefore, GuardKnows, SessionsLast, HasCookie

(* A login that goes on keeps the rows and the guards, as none of them has   *)
(* to do with it before it is done.                                          *)
LEMMA LoginGoesOn ==
  ASSUME SessionsInv, NEW i \in Ids, login[i].at # "done", NEW l \in LoginType,
         login' = [login EXCEPT ![i] = l], l.at # "done",
         LoginTimely(l, time), LoginBefore(l, operator),
         UNCHANGED <<time, operator, sessions, visit, ended>>
  PROVE  SessionsInv'
<1>1. login' \in [Ids -> LoginType] /\ login'[i] = l
      /\ \A j \in Ids : j # i => login'[j] = login[j]
  BY DEF SessionsInv, SessionsTypes
<1>2. SessionsTypes'
  BY <1>1 DEF SessionsInv, SessionsTypes
<1>3. \A j \in Ids : LoginTimely(login'[j], time) /\ LoginBefore(login'[j], operator)
  <2> SUFFICES ASSUME NEW j \in Ids
               PROVE  LoginTimely(login'[j], time) /\ LoginBefore(login'[j], operator)
    OBVIOUS
  <2>1. CASE j = i
    BY <1>1, <2>1
  <2>2. CASE j # i
    <3>1. login'[j] = login[j]
      BY <1>1, <2>2
    <3> QED BY <3>1 DEF SessionsInv
  <2> QED BY <2>1, <2>2
<1>4. \A r \in sessions : RowOfLogin(r, login'[r.id])
  <2> SUFFICES ASSUME NEW r \in sessions PROVE RowOfLogin(r, login'[r.id])
    OBVIOUS
  <2>1. r.id \in Ids /\ RowOfLogin(r, login[r.id])
    BY DEF SessionsInv, SessionsTypes, SessionRows
  <2>2. r.id # i
    BY <2>1 DEF RowOfLogin
  <2> QED BY <1>1, <2>1, <2>2 DEF RowOfLogin
<1>5. \A v \in Visits : GuardKnows(visit[v], login')
  BY <1>1 DEF SessionsInv, GuardKnows, RowOfLogin
<1>6. SessionsLast'
  BY <1>1 DEF SessionsInv, SessionsLast, HasCookie
<1>7. \A j \in Ids : LoginTimely(login'[j], time') /\ LoginBefore(login'[j], operator')
  BY <1>3
<1>8. \A r \in sessions' : RowOfLogin(r, login'[r.id])
  BY <1>4
<1>9. \A v \in Visits : GuardKnows(visit'[v], login')
  BY <1>5
<1> QED BY <1>2, <1>6, <1>7, <1>8, <1>9 DEF SessionsInv

(* A guard's step: rows may go only of sessions that are over.               *)
LEMMA GuardGoesOn ==
  ASSUME SessionsInv, NEW v \in Visits, NEW w \in VisitType,
         visit' = [visit EXCEPT ![v] = w], GuardKnows(w, login),
         UNCHANGED <<time, operator, login>>,
         sessions' \subseteq sessions,
         \A i \in Ids : (i \notin ended' /\ time <= login[i].expires) =>
           i \notin ended /\ \A r \in sessions : r.id = i => r \in sessions'
  PROVE  SessionsInv'
<1>1. visit' \in [Visits -> VisitType]
  BY DEF SessionsInv, SessionsTypes
<1>2. SessionsTypes'
  BY <1>1 DEF SessionsInv, SessionsTypes
<1>3. \A u \in Visits : GuardKnows(visit'[u], login)
  <2> SUFFICES ASSUME NEW u \in Visits PROVE GuardKnows(visit'[u], login)
    OBVIOUS
  <2>1. CASE u = v
    <3>1. visit'[u] = w
      BY <2>1 DEF SessionsInv, SessionsTypes
    <3> QED BY <3>1
  <2>2. CASE u # v
    <3>1. visit'[u] = visit[u]
      BY <2>2 DEF SessionsInv, SessionsTypes
    <3> QED BY <3>1 DEF SessionsInv
  <2> QED BY <2>1, <2>2
<1>4. SessionsLast'
  BY DEF SessionsInv, SessionsLast, HasCookie
<1>5. \A u \in Visits : GuardKnows(visit'[u], login')
  BY <1>3
<1>6. \A i \in Ids : LoginTimely(login'[i], time') /\ LoginBefore(login'[i], operator')
  BY DEF SessionsInv
<1>7. \A r \in sessions' : RowOfLogin(r, login'[r.id])
  BY DEF SessionsInv
<1> QED BY <1>2, <1>4, <1>5, <1>6, <1>7 DEF SessionsInv

LEMMA LoginKeeps ==
  ASSUME SessionsInv, NEW i \in Ids,
         \/ \E u \in Users, password \in 0 .. MaxResets : CheckCredentials(i, u, password)
         \/ SetExpiry(i)
         \/ LoginFails(i)
  PROVE  SessionsInv'
<1>1. login \in [Ids -> LoginType] /\ login[i] \in LoginType /\ time \in Nat
      /\ LoginTimely(login[i], time) /\ LoginBefore(login[i], operator)
  BY DEF SessionsInv, SessionsTypes
<1>2. ASSUME NEW u \in Users, NEW password, CheckCredentials(i, u, password)
      PROVE  SessionsInv'
  <2> DEFINE a == [login[i] EXCEPT !.at = "checked"]
             b == [a EXCEPT !.user = u]
             l == [b EXCEPT !.since = time]
  <2>1. login' = [login EXCEPT ![i] = l] /\ login[i].at = "none"
        /\ UNCHANGED <<time, operator, sessions, visit, ended>>
    BY <1>2 DEF CheckCredentials
  <2>2. a \in LoginType /\ a.at = "checked"
    BY <1>1 DEF LoginType
  <2> HIDE DEF a
  <2>3. b \in LoginType /\ b.at = "checked" /\ b.user = u
    BY <2>2 DEF LoginType
  <2> HIDE DEF b
  <2>4. l \in LoginType /\ l.at = "checked" /\ l.user = u /\ l.since = time
    BY <1>1, <2>3 DEF LoginType
  <2> HIDE DEF l
  <2>5. LoginTimely(l, time)
    BY <1>1, <2>4, SessionBounds DEF LoginTimely
  <2>6. LoginBefore(l, operator)
    BY <1>2, <2>4 DEF LoginBefore, CheckCredentials, Credentials
  <2> QED BY <2>1, <2>4, <2>5, <2>6, LoginGoesOn
<1>3. CASE SetExpiry(i)
  <2> DEFINE a == [login[i] EXCEPT !.at = "create"]
             l == [a EXCEPT !.expires = time + Lifetime]
  <2>1. login' = [login EXCEPT ![i] = l] /\ login[i].at = "checked"
        /\ UNCHANGED <<time, operator, sessions, visit, ended>>
    BY <1>3 DEF SetExpiry
  <2>2. a \in LoginType /\ a.at = "create" /\ a.user = login[i].user /\ a.since = login[i].since
    BY <1>1 DEF LoginType
  <2> HIDE DEF a
  <2>3. l \in LoginType /\ l.at = "create" /\ l.user = login[i].user
        /\ l.since = login[i].since /\ l.expires = time + Lifetime
    BY <1>1, <2>2, SessionBounds DEF LoginType
  <2> HIDE DEF l
  <2>4. LoginTimely(l, time)
    <3>1. login[i].since \in Nat
      BY <1>1 DEF LoginType
    <3> QED BY <1>1, <2>1, <2>3, <3>1, SessionBounds DEF LoginTimely
  <2>5. LoginBefore(l, operator)
    BY <1>1, <2>1, <2>3 DEF LoginBefore
  <2> QED BY <2>1, <2>3, <2>4, <2>5, LoginGoesOn
<1>4. CASE LoginFails(i)
  <2> DEFINE l == [login[i] EXCEPT !.at = "failed"]
  <2>1. login' = [login EXCEPT ![i] = l] /\ login[i].at \in {"checked", "create"}
        /\ UNCHANGED <<time, operator, sessions, visit, ended>>
    BY <1>1, <1>4 DEF LoginFails
  <2>2. l \in LoginType /\ l.at = "failed" /\ l.user = login[i].user /\ l.since = login[i].since
    BY <1>1 DEF LoginType
  <2> HIDE DEF l
  <2>3. LoginTimely(l, time) /\ LoginBefore(l, operator)
    BY <1>1, <2>1, <2>2 DEF LoginTimely, LoginBefore
  <2> QED BY <2>1, <2>2, <2>3, LoginGoesOn
<1> QED BY <1>2, <1>3, <1>4

LEMMA CreateSessionKeeps ==
  ASSUME SessionsInv, NEW i \in Ids, CreateSession(i)
  PROVE  SessionsInv'
<1> DEFINE l == [login[i] EXCEPT !.at = "done"]
           new == [id |-> i, user |-> login[i].user, expires |-> login[i].expires]
<1>1. login \in [Ids -> LoginType] /\ login[i] \in LoginType /\ time \in Nat
      /\ LoginTimely(login[i], time) /\ LoginBefore(login[i], operator)
      /\ login[i].at = "create"
  BY DEF SessionsInv, SessionsTypes, CreateSession
<1>2. l \in LoginType /\ l.at = "done" /\ l.user = login[i].user
      /\ l.since = login[i].since /\ l.expires = login[i].expires
  BY <1>1 DEF LoginType
<1>3. new \in SessionRows /\ new.id = i /\ new.user = login[i].user
      /\ new.expires = login[i].expires
  BY <1>1 DEF SessionRows, LoginType, LoginTimely
<1>4. /\ login' = [login EXCEPT ![i] = l] /\ sessions' = sessions \cup {new}
      /\ UNCHANGED <<time, operator, visit, ended>>
  BY <1>1 DEF CreateSession
<1> HIDE DEF l, new
<1>5. login' \in [Ids -> LoginType] /\ login'[i] = l
      /\ \A j \in Ids : j # i => login'[j] = login[j]
  BY <1>1, <1>2, <1>4
<1>6. SessionsTypes'
  BY <1>3, <1>4, <1>5 DEF SessionsInv, SessionsTypes
<1>7. LoginTimely(l, time) /\ LoginBefore(l, operator) /\ RowOfLogin(new, l)
  BY <1>1, <1>2, <1>3 DEF LoginTimely, LoginBefore, RowOfLogin
<1>8. \A j \in Ids : LoginTimely(login'[j], time') /\ LoginBefore(login'[j], operator')
  <2> SUFFICES ASSUME NEW j \in Ids
               PROVE  LoginTimely(login'[j], time) /\ LoginBefore(login'[j], operator)
    BY <1>4
  <2>1. CASE j = i
    BY <1>5, <1>7, <2>1
  <2>2. CASE j # i
    <3>1. login'[j] = login[j]
      BY <1>5, <2>2
    <3> QED BY <3>1 DEF SessionsInv
  <2> QED BY <2>1, <2>2
<1>9. \A r \in sessions' : RowOfLogin(r, login'[r.id])
  <2> SUFFICES ASSUME NEW r \in sessions' PROVE RowOfLogin(r, login'[r.id])
    OBVIOUS
  <2>1. CASE r = new
    BY <1>3, <1>5, <1>7, <2>1
  <2>2. CASE r \in sessions
    <3>1. r.id \in Ids /\ RowOfLogin(r, login[r.id])
      BY <2>2 DEF SessionsInv, SessionsTypes, SessionRows
    <3>2. r.id # i
      BY <1>1, <3>1 DEF RowOfLogin
    <3> QED BY <1>5, <3>1, <3>2
  <2> QED BY <1>4, <2>1, <2>2
<1>10. \A v \in Visits : GuardKnows(visit'[v], login')
  <2> SUFFICES ASSUME NEW v \in Visits PROVE GuardKnows(visit[v], login')
    BY <1>4
  <2>1. GuardKnows(visit[v], login)
    BY DEF SessionsInv
  <2> QED BY <1>1, <1>5, <2>1 DEF GuardKnows, RowOfLogin
<1>11. SessionsLast'
  <2> SUFFICES ASSUME NEW j \in Ids, login'[j].at = "done", j \notin ended,
                      time <= login'[j].expires
               PROVE  \E r \in sessions' : r.id = j /\ time <= r.expires
    BY <1>4 DEF SessionsLast, HasCookie
  <2>1. CASE j = i
    BY <1>2, <1>3, <1>4, <1>5, <2>1
  <2>2. CASE j # i
    <3>1. login'[j] = login[j]
      BY <1>5, <2>2
    <3> QED BY <1>4, <3>1 DEF SessionsInv, SessionsLast, HasCookie
  <2> QED BY <2>1, <2>2
<1> QED BY <1>6, <1>8, <1>9, <1>10, <1>11 DEF SessionsInv

LEMMA GuardKeeps ==
  ASSUME SessionsInv, NEW v \in Visits,
         \/ \E i \in Ids : GetSession(v, i)
         \/ Admit(v)
         \/ TurnAway(v)
         \/ ServePage(v)
         \/ AdminLogout(v)
  PROVE  SessionsInv'
<1>1. /\ visit \in [Visits -> VisitType] /\ visit[v] \in VisitType
      /\ time \in Nat /\ sessions \subseteq SessionRows
      /\ GuardKnows(visit[v], login)
  BY DEF SessionsInv, SessionsTypes
<1>2. NoVisit \in VisitType /\ GuardKnows(NoVisit, login)
  BY DEF NoVisit, VisitType, GuardKnows
<1>3. ASSUME NEW i \in Ids, GetSession(v, i) PROVE SessionsInv'
  <2>1. PICK r \in sessions :
          /\ r.id = i
          /\ visit' = [visit EXCEPT ![v] = [at |-> "found", id |-> i, row |-> r, entered |-> 0]]
    BY <1>3 DEF GetSession
  <2> DEFINE w == [at |-> "found", id |-> i, row |-> r, entered |-> 0]
  <2>2. r \in SessionRows /\ RowOfLogin(r, login[i])
    BY <1>1, <2>1 DEF SessionsInv
  <2>3. w \in VisitType /\ w.at = "found" /\ w.id = i /\ w.row = r
    BY <2>2 DEF VisitType
  <2>4. visit' = [visit EXCEPT ![v] = w]
        /\ UNCHANGED <<time, operator, sessions, login, ended>>
    BY <1>3, <2>1 DEF GetSession
  <2> HIDE DEF w
  <2>5. GuardKnows(w, login)
    BY <2>2, <2>3 DEF GuardKnows
  <2> QED BY <2>3, <2>4, <2>5, GuardGoesOn
<1>4. CASE Admit(v)
  <2> DEFINE a == [visit[v] EXCEPT !.at = "admitted"]
             w == [a EXCEPT !.entered = time]
  <2>1. visit' = [visit EXCEPT ![v] = w]
        /\ UNCHANGED <<time, operator, sessions, login, ended>>
        /\ visit[v].at = "found" /\ time <= visit[v].row.expires
    BY <1>1, <1>4 DEF Admit
  <2>2. a \in VisitType /\ a.at = "admitted" /\ a.id = visit[v].id /\ a.row = visit[v].row
    BY <1>1 DEF VisitType
  <2> HIDE DEF a
  <2>3. w \in VisitType /\ w.at = "admitted" /\ w.id = visit[v].id /\ w.row = visit[v].row
        /\ w.entered = time
    BY <1>1, <2>2 DEF VisitType
  <2> HIDE DEF w
  <2>4. GuardKnows(w, login)
    BY <1>1, <2>1, <2>3 DEF GuardKnows
  <2> QED BY <2>1, <2>3, <2>4, GuardGoesOn
<1>5. CASE TurnAway(v)
  <2>1. /\ visit[v].at = "found" /\ time > visit[v].row.expires
        /\ sessions' = {r \in sessions : r.id # visit[v].id}
        /\ visit' = [visit EXCEPT ![v] = NoVisit] /\ UNCHANGED <<time, operator, login, ended>>
    BY <1>5 DEF TurnAway
  <2>2. visit[v].id \in Ids /\ visit[v].row \in SessionRows
        /\ visit[v].row.expires = login[visit[v].id].expires
    BY <1>1, <2>1 DEF GuardKnows, RowOfLogin
  <2>3. visit[v].row.expires \in Nat
    BY <2>2 DEF SessionRows
  <2>4. ~(time <= login[visit[v].id].expires)
    BY <1>1, <2>1, <2>2, <2>3
  <2> QED BY <1>2, <2>1, <2>4, GuardGoesOn
<1>6. CASE ServePage(v)
  BY <1>2, <1>6, GuardGoesOn DEF ServePage
<1>7. CASE AdminLogout(v)
  BY <1>2, <1>7, GuardGoesOn DEF AdminLogout
<1> QED BY <1>3, <1>4, <1>5, <1>6, <1>7

LEMMA CleanupOfSessionsKeeps ==
  ASSUME SessionsInv, CleanupExpiredSessions
  PROVE  SessionsInv'
<1>1. /\ sessions' = {r \in sessions : r.expires >= time}
      /\ UNCHANGED <<time, operator, login, visit, ended>>
  BY DEF CleanupExpiredSessions
<1>2. SessionsTypes'
  BY <1>1 DEF SessionsInv, SessionsTypes
<1>3. SessionsLast'
  <2> SUFFICES ASSUME NEW i \in Ids, login[i].at = "done", i \notin ended,
                      time <= login[i].expires
               PROVE  \E r \in sessions' : r.id = i /\ time <= r.expires
    BY <1>1 DEF SessionsLast, HasCookie
  <2>1. PICK r \in sessions : r.id = i /\ time <= r.expires
    BY DEF SessionsInv, SessionsLast, HasCookie
  <2>2. r.expires \in Nat /\ time \in Nat
    BY DEF SessionsInv, SessionsTypes, SessionRows
  <2>3. r \in sessions'
    BY <1>1, <2>1, <2>2
  <2> QED BY <2>1, <2>3
<1>4. \A r \in sessions' : RowOfLogin(r, login'[r.id])
  BY <1>1 DEF SessionsInv
<1>5. /\ \A i \in Ids : LoginTimely(login'[i], time') /\ LoginBefore(login'[i], operator')
      /\ \A v \in Visits : GuardKnows(visit'[v], login')
  BY <1>1 DEF SessionsInv
<1> QED BY <1>2, <1>3, <1>4, <1>5 DEF SessionsInv

(* A deactivation is at the present, after every check there was; a password *)
(* leaves the activity of the operator alone.                                *)
LEMMA OperatorKeeps ==
  ASSUME SessionsInv, NEW u \in Operators,
         (\E active \in BOOLEAN : SetOperatorActive(u, active)) \/ UpdateOperatorPasswordHash(u)
  PROVE  SessionsInv'
<1>1. operator \in [Operators -> OperatorType] /\ time \in Nat
  BY DEF SessionsInv, SessionsTypes
<1>2. UNCHANGED <<time, sessions, login, visit, ended>>
  BY DEF SetOperatorActive, UpdateOperatorPasswordHash
<1> DEFINE OffSet ==
        /\ operator' \in [Operators -> OperatorType]
        /\ \A o \in Operators : operator'[o].off \in {None, time, operator[o].off}
        /\ \A o \in Operators : (operator'[o].off # None /\ operator[o].off # None) =>
             operator'[o].off = operator[o].off
        /\ \A o \in Operators : (operator'[o].off # None /\ operator[o].off = None) =>
             operator'[o].off = time
<1>3. OffSet
  <2>1. ASSUME NEW active \in BOOLEAN, SetOperatorActive(u, active)
        PROVE  OffSet
    <3> DEFINE off == IF active THEN None
                      ELSE IF operator[u].off = None THEN time ELSE operator[u].off
               o == [operator[u] EXCEPT !.off = off]
    <3>1. operator' = [operator EXCEPT ![u] = o]
      BY <1>1, <2>1 DEF SetOperatorActive
    <3>2. off \in Nat \cup {None}
      BY <1>1 DEF OperatorType
    <3>3. off # None => off = IF operator[u].off = None THEN time ELSE operator[u].off
      OBVIOUS
    <3>4. off \in {None, time, operator[u].off}
      OBVIOUS
    <3> HIDE DEF off
    <3>5. o \in OperatorType /\ o.off = off
      BY <1>1, <3>2 DEF OperatorType
    <3> HIDE DEF o
    <3>6. operator' \in [Operators -> OperatorType] /\ operator'[u] = o
          /\ \A p \in Operators : p # u => operator'[p] = operator[p]
      BY <1>1, <3>1, <3>5
    <3> QED BY <3>3, <3>4, <3>5, <3>6
  <2>2. CASE UpdateOperatorPasswordHash(u)
    <3> DEFINE o == [operator[u] EXCEPT !.password = @ + 1]
    <3>1. operator' = [operator EXCEPT ![u] = o]
      BY <1>1, <2>2 DEF UpdateOperatorPasswordHash
    <3>2. o \in OperatorType /\ o.off = operator[u].off
      BY <1>1 DEF OperatorType
    <3> HIDE DEF o
    <3>3. operator' \in [Operators -> OperatorType] /\ operator'[u] = o
          /\ \A p \in Operators : p # u => operator'[p] = operator[p]
      BY <1>1, <3>1, <3>2
    <3> QED BY <3>2, <3>3
  <2> QED BY <2>1, <2>2
<1>4. ASSUME NEW i \in Ids PROVE LoginBefore(login[i], operator')
  <2> SUFFICES ASSUME NEW o \in Operators, login[i].at # "none", login[i].user = o,
                      operator'[o].off # None
               PROVE  login[i].since <= operator'[o].off
    BY DEF LoginBefore
  <2>1. CASE operator[o].off # None
    BY <1>3, <2>1 DEF SessionsInv, LoginBefore
  <2>2. CASE operator[o].off = None
    BY <1>3, <2>2 DEF SessionsInv, LoginTimely
  <2> QED BY <2>1, <2>2
<1>5. SessionsTypes'
  BY <1>2, <1>3 DEF SessionsInv, SessionsTypes
<1>6. \A i \in Ids : LoginTimely(login'[i], time') /\ LoginBefore(login'[i], operator')
  BY <1>2, <1>4 DEF SessionsInv
<1>7. (\A r \in sessions' : RowOfLogin(r, login'[r.id]))
      /\ (\A v \in Visits : GuardKnows(visit'[v], login'))
  BY <1>2 DEF SessionsInv
<1>8. SessionsLast'
  BY <1>2 DEF SessionsInv, SessionsLast, HasCookie
<1> QED BY <1>5, <1>6, <1>7, <1>8 DEF SessionsInv

LEMMA TimeKeepsSessions ==
  ASSUME SessionsInv, TimePasses
  PROVE  SessionsInv'
<1>1. time' = time + 1 /\ time \in Nat /\ UNCHANGED <<operator, sessions, login, visit, ended>>
      /\ \A i \in Ids : login[i].at \in {"checked", "create"} => time < login[i].since + LoginTime
  BY DEF TimePasses, SessionsInv, SessionsTypes
<1>2. login \in [Ids -> LoginType] /\ sessions \subseteq SessionRows
  BY DEF SessionsInv, SessionsTypes
<1>3. ASSUME NEW i \in Ids
      PROVE  LoginTimely(login'[i], time') /\ LoginBefore(login'[i], operator')
  <2>1. login[i].since \in Nat /\ LoginTimely(login[i], time) /\ LoginBefore(login[i], operator)
    BY <1>2 DEF LoginType, SessionsInv
  <2>2. LoginTimely(login[i], time + 1)
    BY <1>1, <2>1, SessionBounds DEF LoginTimely
  <2> QED BY <1>1, <2>1, <2>2
<1>4. SessionsLast'
  <2> SUFFICES ASSUME NEW i \in Ids, login[i].at = "done", i \notin ended,
                      time + 1 <= login[i].expires
               PROVE  \E r \in sessions : r.id = i /\ time + 1 <= r.expires
    BY <1>1 DEF SessionsLast, HasCookie
  <2>1. login[i].expires \in Nat
    BY <1>2 DEF LoginType
  <2>2. time <= login[i].expires
    BY <1>1, <2>1
  <2>3. PICK r \in sessions : r.id = i /\ time <= r.expires
    BY <2>2 DEF SessionsInv, SessionsLast, HasCookie
  <2>4. r.expires = login[i].expires
    BY <2>3 DEF SessionsInv, RowOfLogin
  <2> QED BY <2>3, <2>4
<1>5. SessionsTypes'
  BY <1>1 DEF SessionsInv, SessionsTypes
<1>6. (\A r \in sessions' : RowOfLogin(r, login'[r.id]))
      /\ (\A v \in Visits : GuardKnows(visit'[v], login'))
  BY <1>1 DEF SessionsInv
<1> QED BY <1>3, <1>4, <1>5, <1>6 DEF SessionsInv

LEMMA SessionsKeep == SessionsInv /\ [SessionsNext]_sessionsVars => SessionsInv'
<1> SUFFICES ASSUME SessionsInv, [SessionsNext]_sessionsVars PROVE SessionsInv'
  OBVIOUS
<1>1. CASE UNCHANGED sessionsVars
  <2>1. UNCHANGED <<time, operator, sessions, login, visit, ended>>
    BY <1>1 DEF sessionsVars
  <2>2. SessionsTypes' /\ SessionsLast'
    BY <2>1 DEF SessionsInv, SessionsTypes, SessionsLast, HasCookie
  <2>3. /\ \A i \in Ids : LoginTimely(login'[i], time') /\ LoginBefore(login'[i], operator')
        /\ \A r \in sessions' : RowOfLogin(r, login'[r.id])
        /\ \A v \in Visits : GuardKnows(visit'[v], login')
    BY <2>1 DEF SessionsInv
  <2> QED BY <2>2, <2>3 DEF SessionsInv
<1> QED
  BY <1>1, LoginKeeps, CreateSessionKeeps, GuardKeeps, CleanupOfSessionsKeeps, OperatorKeeps,
     TimeKeepsSessions DEF SessionsNext

LEMMA SessionsInvariant == SessionsSpec => []SessionsInv
BY InitSessions, SessionsKeep, PTL DEF SessionsSpec

(* A cookie is good for as long as it was made for: whoever logs out, is     *)
(* turned away or cleaned up, the row of another session stays.              *)
THEOREM CookiesKeepTheirSession == SessionsSpec => []SessionsLast
<1>1. SessionsInv => SessionsLast
  BY DEF SessionsInv
<1> QED BY <1>1, SessionsInvariant, PTL

(* Nobody is admitted for a deactivated operator once a lifetime, and the    *)
(* time of a login that was under way, are over.                             *)
THEOREM DeactivationEndsAccess == SessionsSpec => []DeactivationTakesHold
<1>1. SessionsInv => DeactivationTakesHold
  <2> SUFFICES ASSUME SessionsInv, NEW v \in Visits, NEW u \in Operators,
                      visit[v].at = "admitted", visit[v].row.user = u, operator[u].off # None
               PROVE  visit[v].entered <= operator[u].off + LoginTime + Lifetime
    BY DEF DeactivationTakesHold
  <2> DEFINE l == login[visit[v].id]
  <2>1. /\ visit[v].id \in Ids /\ RowOfLogin(visit[v].row, l)
        /\ visit[v].entered <= visit[v].row.expires
    BY DEF SessionsInv, GuardKnows
  <2>2. l \in LoginType /\ LoginTimely(l, time) /\ LoginBefore(l, operator)
        /\ visit[v] \in VisitType /\ operator[u] \in OperatorType
    BY <2>1 DEF SessionsInv, SessionsTypes
  <2>3. l.at = "done" /\ l.user = u /\ visit[v].row.expires = l.expires
    BY <2>1 DEF RowOfLogin
  <2>4. l.since <= operator[u].off
    BY <2>2, <2>3 DEF LoginBefore
  <2>5. l.expires <= l.since + LoginTime + Lifetime
    BY <2>2, <2>3 DEF LoginTimely
  <2>6. l.since \in Nat /\ l.expires \in Nat /\ operator[u].off \in Nat /\ visit[v].entered \in Nat
    BY <2>2 DEF LoginType, OperatorType, VisitType
  <2> HIDE DEF l
  <2> QED BY <2>1, <2>3, <2>4, <2>5, <2>6, SessionBounds
<1> QED BY <1>1, SessionsInvariant, PTL

-----------------------------------------------------------------------------
(* What holds of the services alone holds of their composition: every safety *)
(* property of every part, in any behaviour of Services.                     *)
THEOREM ServicesAreSafe ==
  ASSUME IsFiniteSet(Queued)
  PROVE  ServicesSpec =>
           /\ []NumbersDense
           /\ []KeyNamesOnePayment
           /\ []DayIsInclusive
           /\ []NotBornOverdue
           /\ NobodyJumpsTheQueue
           /\ []BusyOnlyAcrossServers
           /\ ImplementsAtomicWrite
           /\ []AppliedOnceInOrder
           /\ []ServingIsReady
           /\ []SessionsLast
           /\ []DeactivationTakesHold
           /\ []AdmissionsArePaid
           /\ ImplementsTokenBucket
           /\ []PageShowsOneSave
BY PartsRunAlone, ReferencesDense, OnePaymentPerKey, DueDayIsInclusive, NoneIsBornOverdue,
   QueueKeepsOrder, BusyMeansRival, RetryImplementsAtomicWrite, MigrationsOnceInOrder,
   ServingServersAreReady, CookiesKeepTheirSession, DeactivationEndsAccess, AdmissionsPaid,
   LimiterImplementsTokenBucket, PagesShowOneSave, PTL

=============================================================================
