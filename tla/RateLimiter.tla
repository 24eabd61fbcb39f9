-------------------------- MODULE RateLimiter --------------------------
(* The rate limiter of internal/middleware/ratelimit.go: a map from          *)
(* addresses to limiters behind a mutex, a cleanup that drops the entries    *)
(* idle for five minutes, and requests that fetch a limiter under the mutex  *)
(* but ask it only afterwards. A limiter is an object of its own: it lives   *)
(* on in a request that holds it when the map has forgotten it.              *)
(*                                                                           *)
(* Time is counted in ticks; a limiter gains one unit per tick and a request *)
(* costs Refill units, so Refill ticks earn one request.                     *)
EXTENDS Integers, Absent

CONSTANTS
    Addrs,
    Requests,
    From,      \* the address each request comes from
    Limiters,  \* identities of limiter objects
    Refill,
    Full,      \* burst * Refill
    IdleFor,   \* 5 minutes
    MaxStall,  \* longest pause of a request between fetching and asking
    MaxNow     \* bound on the clock

ASSUME RateAssumption ==
    /\ From \in [Requests -> Addrs]
    /\ None \notin Limiters
    /\ Refill \in Nat \ {0} /\ Full \in Nat /\ Full >= Refill
    /\ IdleFor \in Nat /\ MaxStall \in Nat /\ MaxNow \in Nat
    /\ MaxStall + Full <= IdleFor

VARIABLES
    now,
    visitors,  \* rl.visitors: limiter and lastSeen per address
    fullAt,    \* the tick at which each limiter is full again if not asked
    request,   \* per request: where it is, which limiter it holds, since when
    watch      \* an observer of one address: units taken from some tick on

limiterVars == <<now, visitors, fullAt, request, watch>>

-----------------------------------------------------------------------------
Nobody == [limiter |-> None, lastSeen |-> 0]
NotHere == [at |-> "idle", limiter |-> None, since |-> 0]

LimiterInit ==
    /\ now = 0
    /\ visitors = [a \in Addrs |-> Nobody]
    /\ fullAt = [l \in Limiters |-> 0]
    /\ request = [r \in Requests |-> NotHere]
    /\ watch = [addr |-> None, from |-> 0, taken |-> 0]

Known(a) == visitors[a].limiter # None

(* Limiters no variable of the program points to.                            *)
Free ==
    {l \in Limiters : /\ \A a \in Addrs : visitors[a].limiter # l
                      /\ \A r \in Requests : request[r].limiter # l}

(* Slip: lastSeen stays at the first visit.                                  *)
GetLimiterUnseen(r) ==
    LET a == From[r]
        Hold(l) == request' = [request EXCEPT
                     ![r] = [at |-> "holding", limiter |-> l, since |-> now]]
    IN  /\ request[r].at = "idle"
        /\ \/ /\ Known(a)
              /\ Hold(visitors[a].limiter)
              /\ UNCHANGED <<visitors, fullAt>>
           \/ /\ ~Known(a)
              /\ \E l \in Free :
                   /\ visitors' = [visitors EXCEPT ![a] = [limiter |-> l, lastSeen |-> now]]
                   /\ fullAt' = [fullAt EXCEPT ![l] = 0]
                   /\ Hold(l)
        /\ UNCHANGED <<now, watch>>

(* Under the mutex: the entry of the address, or a new one with a full       *)
(* limiter; lastSeen is now.                                                 *)
GetLimiter(r) ==
    LET a == From[r]
        See(l) ==
          /\ visitors' = [visitors EXCEPT ![a] = [limiter |-> l, lastSeen |-> now]]
          /\ request' = [request EXCEPT
               ![r] = [at |-> "holding", limiter |-> l, since |-> now]]
    IN  /\ request[r].at = "idle"
        /\ \/ Known(a) /\ See(visitors[a].limiter) /\ UNCHANGED fullAt
           \/ /\ ~Known(a)
              /\ \E l \in Free :
                   /\ fullAt' = [fullAt EXCEPT ![l] = 0]
                   /\ See(l)
        /\ UNCHANGED <<now, watch>>

(* What a limiter holds by now.                                              *)
Level(l) == IF fullAt[l] > now THEN Full - (fullAt[l] - now) ELSE Full

AnswerRequest(r, at) == request' = [request EXCEPT ![r] = [NotHere EXCEPT !.at = at]]

(* limiter.Allow(), on the limiter the request holds.                        *)
Allow(r) ==
    LET l == request[r].limiter IN
    /\ request[r].at = "holding"
    /\ Level(l) >= Refill
    /\ fullAt' = [fullAt EXCEPT ![l] = now + (Full - Level(l)) + Refill]
    /\ AnswerRequest(r, "allowed")
    /\ watch' = IF watch.addr = From[r]
                THEN [watch EXCEPT !.taken = watch.taken + Refill] ELSE watch
    /\ UNCHANGED <<now, visitors>>

(* 429: too many requests.                                                   *)
TooMany(r) ==
    /\ request[r].at = "holding"
    /\ Level(request[r].limiter) < Refill
    /\ AnswerRequest(r, "refused")
    /\ UNCHANGED <<now, visitors, fullAt, watch>>

Leave(r) ==
    /\ request[r].at \in {"allowed", "refused"}
    /\ request' = [request EXCEPT ![r] = NotHere]
    /\ UNCHANGED <<now, visitors, fullAt, watch>>

(* Slip: an entry is dropped while its limiter is still filling up.          *)
IdleTooShort(a) == Known(a) /\ now - visitors[a].lastSeen >= Full - 1

Idle(a) == Known(a) /\ now - visitors[a].lastSeen > IdleFor

(* Every two minutes in the code; here at any tick, which allows more.       *)
Cleanup ==
    /\ visitors' = [a \in Addrs |-> IF Idle(a) THEN Nobody ELSE visitors[a]]
    /\ UNCHANGED <<now, fullAt, request, watch>>

Tick ==
    /\ now < MaxNow
    /\ \A r \in Requests : request[r].at = "holding" => now - request[r].since < MaxStall
    /\ now' = now + 1
    /\ UNCHANGED <<visitors, fullAt, request, watch>>

(* The observer begins to count the admissions of an address.                *)
StartWatch(a) ==
    /\ watch.addr = None
    /\ watch' = [addr |-> a, from |-> now, taken |-> 0]
    /\ UNCHANGED <<now, visitors, fullAt, request>>

-----------------------------------------------------------------------------
RequestStep(r) == GetLimiter(r) \/ Allow(r) \/ TooMany(r) \/ Leave(r)

LimiterNext ==
    \/ \E r \in Requests : RequestStep(r)
    \/ Cleanup
    \/ Tick
    \/ \E a \in Addrs : StartWatch(a)

LimiterSpec == LimiterInit /\ [][LimiterNext]_limiterVars

-----------------------------------------------------------------------------
(* Each address is held to its own token bucket: that entries are dropped    *)
(* and made anew, and that a limiter is asked outside of the mutex, cannot   *)
(* be noticed by any visitor.                                                *)
Bucket == INSTANCE TokenBucket WITH
    level <- [a \in Addrs |-> IF Known(a) THEN Level(visitors[a].limiter) ELSE Full],
    answer <- [r \in Requests |->
                 IF request[r].at = "holding" THEN "waiting" ELSE request[r].at]

ImplementsTokenBucket == Bucket!Spec

(* From any moment on an address is admitted no more than a full limiter and *)
(* the time since then pay for, whatever is dropped in between.              *)
AdmissionsArePaid ==
    watch.addr # None => watch.taken <= Full + (now - watch.from)

(* The README grants a login page "5 attempts/min/IP". Its burst is what a   *)
(* minute earns, so a minute has Full ticks: less than one after any moment  *)
(* an address has been admitted no more often than a full limiter pays for.  *)
LoginsPerMinute ==
    watch.addr # None /\ now < watch.from + Full => watch.taken <= Full

=============================================================================
