--------------------------- MODULE DatabaseProofs ---------------------------
(* Proofs about what servers that share a database rely on: the retry of      *)
(* transactions, and the migrations and wallets of their start.              *)
EXTENDS WriteRetry, Startup, TLAPS

-----------------------------------------------------------------------------
(* The retry loop implements the atomic write, for any number of calls,     *)
(* servers and attempts and under any faults. What carries the proof is     *)
(* that a call's place tells whether it has taken effect: it has none while *)
(* it may still be repeated.                                                *)

RetryTypes ==
    /\ version \in Nat
    /\ effects \in [Calls -> Nat]
    /\ call \in [Calls -> [at : Places, attempt : 1 .. MaxAttempts, seen : Nat]]
    /\ cancelled \subseteq Calls
    /\ answer \in [Calls -> Answers \cup {None}]
    /\ conn \in [Servers -> Calls \cup {None}]
    /\ locker \in Calls \cup {None}

EffectTold(c) ==
    /\ call[c].at = "returned" <=> answer[c] # None
    /\ call[c].at \in {"attempt", "inTx", "wrote", "backoff"} => effects[c] = 0
    /\ call[c].at = "committed" => effects[c] = 1
    /\ call[c].at = "backoff" => call[c].attempt < MaxAttempts

RetryInv == RetryTypes /\ \A c \in Calls : EffectTold(c)

LEMMA InitRetry == RetryInit => RetryInv /\ Promise!Init
<1> SUFFICES ASSUME RetryInit PROVE RetryInv /\ Promise!Init
  OBVIOUS
<1>1. RetryTypes
  BY RetryAssumption DEF RetryInit, RetryTypes, Places
<1>2. \A c \in Calls : EffectTold(c)
  BY DEF RetryInit, EffectTold
<1> QED
  BY <1>1, <1>2 DEF RetryInit, RetryInv, Promise!Init

(* The steps that only move a call on.                                      *)
LEMMA GoToTypes ==
    ASSUME RetryTypes, NEW c \in Calls, NEW at \in Places, CallGoTo(c, at)
    PROVE  call' \in [Calls -> [at : Places, attempt : 1 .. MaxAttempts, seen : Nat]]
BY DEF RetryTypes, CallGoTo

LEMMA RollbackTypes ==
    ASSUME RetryTypes, NEW c \in Calls, Rollback(c)
    PROVE  /\ conn' \in [Servers -> Calls \cup {None}]
           /\ locker' \in Calls \cup {None}
BY DEF Rollback, RetryTypes

LEMMA ReturnTypes ==
    ASSUME RetryTypes, NEW c \in Calls, NEW a \in Answers, Return(c, a)
    PROVE  /\ call' \in [Calls -> [at : Places, attempt : 1 .. MaxAttempts, seen : Nat]]
           /\ answer' \in [Calls -> Answers \cup {None}]
<1>1. CallGoTo(c, "returned") /\ "returned" \in Places
  BY DEF Return, Places
<1> QED
  BY <1>1, GoToTypes DEF Return, RetryTypes

LEMMA StepTypes == RetryInv /\ [RetryNext]_retryVars => RetryTypes'
<1> SUFFICES ASSUME RetryInv, [RetryNext]_retryVars PROVE RetryTypes'
  OBVIOUS
<1>0. RetryTypes
  BY DEF RetryInv
<1>1. CASE UNCHANGED retryVars
  BY <1>0, <1>1 DEF RetryTypes, retryVars
<1>2. ASSUME NEW c \in Calls, BeginTx(c) PROVE RetryTypes'
  <2>1. call' = [call EXCEPT ![c] = [@ EXCEPT !.at = "inTx", !.seen = version]]
    BY <1>2 DEF BeginTx
  <2>2. call' \in [Calls -> [at : Places, attempt : 1 .. MaxAttempts, seen : Nat]]
    BY <1>0, <2>1 DEF RetryTypes, Places
  <2>3. conn' \in [Servers -> Calls \cup {None}]
    BY <1>0, <1>2, RetryAssumption DEF BeginTx, RetryTypes
  <2> QED
    BY <1>0, <1>2, <2>2, <2>3 DEF BeginTx, RetryTypes
<1>3. ASSUME NEW c \in Calls, Write(c) PROVE RetryTypes'
  BY <1>0, <1>3, GoToTypes DEF Write, RetryTypes, Places
<1>4. ASSUME NEW c \in Calls, Busy(c) PROVE RetryTypes'
  <2>1. CASE Return(c, "busy")
    BY <1>0, <1>4, <2>1, RollbackTypes, ReturnTypes DEF Busy, RetryTypes, Answers
  <2>2. CASE CallGoTo(c, "backoff") /\ UNCHANGED answer
    BY <1>0, <1>4, <2>2, RollbackTypes, GoToTypes DEF Busy, RetryTypes, Places
  <2> QED
    BY <1>4, <2>1, <2>2 DEF Busy
<1>5. ASSUME NEW c \in Calls, Backoff(c) PROVE RetryTypes'
  <2>1. /\ call[c].attempt < MaxAttempts
        /\ MaxAttempts \in Nat
        /\ call[c].attempt \in 1 .. MaxAttempts
    BY <1>0, <1>5, RetryAssumption DEF Backoff, CallAt, RetryInv, EffectTold, RetryTypes
  <2>2. call[c].attempt + 1 \in 1 .. MaxAttempts
    BY <2>1
  <2> DEFINE r == [call[c] EXCEPT !.at = "attempt", !.attempt = call[c].attempt + 1]
  <2>3. r \in [at : Places, attempt : 1 .. MaxAttempts, seen : Nat]
    BY <1>0, <2>2 DEF RetryTypes, Places
  <2>4. call' = [call EXCEPT ![c] = r]
    BY <1>0, <1>5 DEF Backoff, RetryTypes
  <2> HIDE DEF r
  <2> QED
    BY <1>0, <1>5, <2>3, <2>4 DEF Backoff, RetryTypes
<1>6. ASSUME NEW c \in Calls, Commit(c) PROVE RetryTypes'
  BY <1>0, <1>6, RollbackTypes, GoToTypes DEF Commit, RetryTypes, Places
<1>7. ASSUME NEW c \in Calls, Succeed(c) PROVE RetryTypes'
  BY <1>0, <1>7, ReturnTypes DEF Succeed, RetryTypes, Answers
<1>8. ASSUME NEW c \in Calls, GiveUp(c) PROVE RetryTypes'
  BY <1>0, <1>8, RollbackTypes, ReturnTypes DEF GiveUp, RetryTypes, Answers
<1>9. ASSUME NEW c \in Calls, Refuse(c) PROVE RetryTypes'
  BY <1>0, <1>9, RollbackTypes, ReturnTypes DEF Refuse, RetryTypes, Answers
<1>10. ASSUME NEW c \in Calls, Cancel(c) PROVE RetryTypes'
  BY <1>0, <1>10 DEF Cancel, RetryTypes
<1>11. ASSUME NEW s \in Servers, CrashServer(s) PROVE RetryTypes'
  BY <1>0, <1>11 DEF CrashServer, RetryTypes, Places, Answers
<1> QED
  BY <1>1, <1>2, <1>3, <1>4, <1>5, <1>6, <1>7, <1>8, <1>9, <1>10, <1>11 DEF RetryNext, CallStep

(* What a step does to one call, and to the others.                         *)
LEMMA StepTold == RetryInv /\ [RetryNext]_retryVars => \A c \in Calls : EffectTold(c)'
<1> SUFFICES ASSUME RetryInv, [RetryNext]_retryVars, NEW d \in Calls PROVE EffectTold(d)'
  OBVIOUS
<1> USE DEF RetryInv
<1>1. CASE UNCHANGED retryVars
  BY <1>1 DEF EffectTold, retryVars
<1>2. ASSUME NEW c \in Calls, BeginTx(c) PROVE EffectTold(d)'
  BY <1>2 DEF BeginTx, CallAt, EffectTold, RetryTypes
<1>3. ASSUME NEW c \in Calls, Write(c) PROVE EffectTold(d)'
  BY <1>3 DEF Write, CallAt, CallGoTo, EffectTold, RetryTypes
<1>4. ASSUME NEW c \in Calls, Busy(c) PROVE EffectTold(d)'
  <2>1. CASE call[c].attempt = MaxAttempts
    BY <1>4, <2>1, RetryAssumption DEF Busy, CallAt, CallGoTo, Return, EffectTold, RetryTypes
  <2>2. CASE call[c].attempt # MaxAttempts
    <3>1. call[c].attempt < MaxAttempts
      <4>1. call[c].attempt \in 1 .. MaxAttempts /\ MaxAttempts \in Nat
        BY RetryAssumption DEF RetryTypes
      <4> QED
        BY <2>2, <4>1
    <3> QED
      BY <1>4, <2>2, <3>1 DEF Busy, CallAt, CallGoTo, EffectTold, RetryTypes
  <2> QED
    BY <2>1, <2>2
<1>5. ASSUME NEW c \in Calls, Backoff(c) PROVE EffectTold(d)'
  BY <1>5 DEF Backoff, CallAt, EffectTold, RetryTypes
<1>6. ASSUME NEW c \in Calls, Commit(c) PROVE EffectTold(d)'
  BY <1>6 DEF Commit, CallAt, CallGoTo, EffectTold, RetryTypes
<1>7. ASSUME NEW c \in Calls, NEW a \in Answers, Return(c, a), UNCHANGED effects
      PROVE EffectTold(d)'
  BY <1>7, RetryAssumption DEF Return, CallGoTo, EffectTold, RetryTypes, Answers
<1>8. ASSUME NEW c \in Calls, Cancel(c) PROVE EffectTold(d)'
  BY <1>8 DEF Cancel, EffectTold
<1>9. ASSUME NEW s \in Servers, CrashServer(s) PROVE EffectTold(d)'
  BY <1>9, RetryAssumption DEF CrashServer, CallAt, EffectTold, RetryTypes, Answers
<1>10. ASSUME NEW c \in Calls, Succeed(c) \/ GiveUp(c) \/ Refuse(c) PROVE EffectTold(d)'
  BY <1>7, <1>10 DEF Succeed, GiveUp, Refuse, Answers
<1> QED
  BY <1>1, <1>2, <1>3, <1>4, <1>5, <1>6, <1>8, <1>9, <1>10 DEF RetryNext, CallStep

(* Every step of the loop is a step of the atomic write, or none of it.     *)
LEMMA StepPromise == RetryInv /\ [RetryNext]_retryVars => [Promise!Next]_<<effects, answer>>
<1> SUFFICES ASSUME RetryInv, [RetryNext]_retryVars PROVE [Promise!Next]_<<effects, answer>>
  OBVIOUS
<1> USE DEF RetryInv
<1>1. CASE UNCHANGED retryVars
  BY <1>1 DEF retryVars
<1>2. ASSUME NEW c \in Calls, NEW why \in {"busy", "refused", "cancelled"},
             ~CallAt(c, "returned"), ~CallAt(c, "committed"), Return(c, why), UNCHANGED effects
      PROVE  Promise!Fail(c)
  <2>1. answer[c] = None /\ effects[c] = 0
    BY <1>2 DEF CallAt, EffectTold, RetryTypes, Places
  <2> QED
    BY <1>2, <2>1 DEF Return, Promise!Fail
<1>3. ASSUME NEW c \in Calls, Commit(c) PROVE Promise!TakeEffect(c)
  <2>1. answer[c] = None /\ effects[c] = 0
    BY <1>3 DEF Commit, CallAt, EffectTold
  <2>2. effects' = [effects EXCEPT ![c] = 1]
    BY <1>3, <2>1 DEF Commit, RetryTypes
  <2> QED
    BY <1>3, <2>1, <2>2 DEF Commit, Promise!TakeEffect
<1>4. ASSUME NEW c \in Calls, Succeed(c) PROVE Promise!Succeed(c)
  BY <1>4 DEF Succeed, CallAt, Return, EffectTold, Promise!Succeed
<1>5. ASSUME NEW s \in Servers, CrashServer(s) PROVE Promise!Die
  <2> DEFINE lost == {c \in Calls : Server[c] = s /\ ~CallAt(c, "returned")}
  <2>1. lost \in SUBSET {c \in Calls : answer[c] = None}
    BY DEF CallAt, EffectTold
  <2>2. /\ answer' = [c \in Calls |-> IF c \in lost THEN "lost" ELSE answer[c]]
        /\ UNCHANGED effects
    BY <1>5 DEF CrashServer
  <2> QED
    BY <2>1, <2>2 DEF Promise!Die
<1>6. ASSUME NEW c \in Calls, BeginTx(c) \/ Write(c) \/ Backoff(c) \/ Cancel(c)
      PROVE  UNCHANGED <<effects, answer>>
  BY <1>6 DEF BeginTx, Write, Backoff, Cancel
<1>7. ASSUME NEW c \in Calls, Busy(c)
      PROVE  Promise!Fail(c) \/ UNCHANGED <<effects, answer>>
  BY <1>2, <1>7 DEF Busy, CallAt
<1>8. ASSUME NEW c \in Calls, GiveUp(c) \/ Refuse(c) PROVE Promise!Fail(c)
  BY <1>2, <1>8 DEF GiveUp, Refuse, CallAt
<1> QED
  BY <1>1, <1>3, <1>4, <1>5, <1>6, <1>7, <1>8 DEF RetryNext, CallStep, Promise!Next

THEOREM RetryInvariant == RetrySpec => []RetryInv
<1>1. RetryInv /\ [RetryNext]_retryVars => RetryInv'
  BY StepTypes, StepTold DEF RetryInv
<1> QED
  BY InitRetry, <1>1, PTL DEF RetrySpec

(* The loop of retry.go keeps its promise for any number of callers,        *)
(* servers and attempts: at most one effect, and an honest answer.          *)
THEOREM RetryImplementsAtomicWrite == RetrySpec => ImplementsAtomicWrite
BY InitRetry, StepPromise, RetryInvariant, PTL DEF RetrySpec, ImplementsAtomicWrite, Promise!Spec

(* Who uses a connection, and who holds the write lock, is told by where the *)
(* calls stand.                                                             *)
Owners ==
    /\ \A c \in Calls : call[c].at \in {"inTx", "wrote"} => conn[Server[c]] = c
    /\ \A s \in Servers : conn[s] # None =>
         Server[conn[s]] = s /\ call[conn[s]].at \in {"inTx", "wrote"}
    /\ \A c \in Calls : call[c].at = "wrote" <=> locker = c

(* The rival of a call that was kept from writing: on another server, and it *)
(* has committed, has the lock, or was cut short.                           *)
Rival(r, c) ==
    /\ Server[r] # Server[c]
    /\ effects[r] > 0 \/ call[r].at = "wrote" \/ answer[r] \in {"refused", "cancelled", "lost"}

HasRival(c) == \E r \in Calls : Rival(r, c)

StaleByRival ==
    \A c \in Calls : call[c].at = "inTx" /\ call[c].seen # version => HasRival(c)

BusyByRival == \A c \in Calls : answer[c] = "busy" => HasRival(c)

RivalInv == RetryInv /\ Owners /\ StaleByRival /\ BusyByRival

LEMMA InitOwners == RetryInit => Owners
BY RetryAssumption DEF RetryInit, Owners

(* A call that gives its connection and the lock back and goes on outside of *)
(* a transaction.                                                           *)
LEMMA RollbackOwners ==
    ASSUME RetryInv, Owners, NEW c \in Calls, NEW at \in Places \ {"inTx", "wrote"},
           Rollback(c), CallGoTo(c, at)
    PROVE  Owners'
<1>1. \A d \in Calls : d # c => call'[d] = call[d]
  BY DEF CallGoTo, RetryInv, RetryTypes
<1>2. call'[c].at = at
  BY DEF CallGoTo, RetryInv, RetryTypes
<1>3. \A s \in Servers : conn'[s] = IF conn[s] = c THEN None ELSE conn[s]
  BY DEF Rollback
<1>4. locker' = IF locker = c THEN None ELSE locker
  BY DEF Rollback
<1>5. conn \in [Servers -> Calls \cup {None}] /\ None \notin Calls
  BY RetryAssumption DEF RetryInv, RetryTypes
<1> QED
  BY <1>1, <1>2, <1>3, <1>4, <1>5, RetryAssumption DEF Owners

LEMMA StepOwners == RetryInv /\ Owners /\ [RetryNext]_retryVars => Owners'
<1> SUFFICES ASSUME RetryInv, Owners, [RetryNext]_retryVars PROVE Owners'
  OBVIOUS
<1>0. RetryTypes /\ None \notin Calls /\ Server \in [Calls -> Servers]
  BY RetryAssumption DEF RetryInv
<1>1. CASE UNCHANGED retryVars
  BY <1>1 DEF Owners, retryVars
<1>2. ASSUME NEW c \in Calls, BeginTx(c) PROVE Owners'
  BY <1>0, <1>2 DEF BeginTx, CallAt, Owners, RetryTypes
<1>3. ASSUME NEW c \in Calls, Write(c) PROVE Owners'
  BY <1>0, <1>3 DEF Write, CallAt, CallGoTo, Owners, RetryTypes
<1>4. ASSUME NEW c \in Calls,
             Busy(c) \/ Commit(c) \/ Refuse(c) \/ GiveUp(c)
      PROVE  Owners'
  <2>1. Rollback(c) /\ \E at \in Places \ {"inTx", "wrote"} : CallGoTo(c, at)
    BY <1>4 DEF Busy, Commit, Refuse, GiveUp, Return, Places
  <2> QED
    BY <2>1, RollbackOwners
<1>5. ASSUME NEW c \in Calls, Backoff(c) \/ Succeed(c) PROVE Owners'
  <2>1. \E at \in {"attempt", "returned"} :
          call'[c].at = at /\ \A d \in Calls \ {c} : call'[d] = call[d]
    BY <1>0, <1>5 DEF Backoff, Succeed, Return, CallGoTo, RetryTypes
  <2>2. call[c].at \in {"backoff", "committed"} /\ UNCHANGED <<conn, locker>>
    BY <1>5 DEF Backoff, Succeed, CallAt
  <2> QED
    BY <1>0, <2>1, <2>2 DEF Owners, RetryTypes
<1>6. ASSUME NEW c \in Calls, Cancel(c) PROVE Owners'
  BY <1>6 DEF Cancel, Owners
<1>7. ASSUME NEW s \in Servers, CrashServer(s) PROVE Owners'
  <2> DEFINE lost == {c \in Calls : Server[c] = s /\ ~CallAt(c, "returned")}
  <2>1. /\ locker' = IF locker \in lost THEN None ELSE locker
        /\ call' = [c \in Calls |-> IF c \in lost
                                    THEN [call[c] EXCEPT !.at = "returned"]
                                    ELSE call[c]]
        /\ conn' = [conn EXCEPT ![s] = None]
    BY <1>7 DEF CrashServer
  <2>2. \A c \in Calls : call'[c].at = IF c \in lost THEN "returned" ELSE call[c].at
    BY <1>0, <2>1 DEF RetryTypes
  <2>3. \A c \in Calls : c \notin lost => Server[c] # s \/ call[c].at = "returned"
    BY DEF CallAt
  <2>4. \A c \in lost : c \in Calls /\ Server[c] = s
    OBVIOUS
  <2> HIDE DEF lost
  <2> QED
    BY <1>0, <2>1, <2>2, <2>3, <2>4 DEF Owners, RetryTypes
<1> QED
  BY <1>1, <1>2, <1>3, <1>4, <1>5, <1>6, <1>7 DEF RetryNext, CallStep

(* Calls in a transaction at a time are calls of different servers.         *)
LEMMA OnePerServer ==
    ASSUME Owners, NEW c \in Calls, NEW d \in Calls, c # d,
           call[c].at \in {"inTx", "wrote"}, call[d].at \in {"inTx", "wrote"}
    PROVE  Server[c] # Server[d]
BY DEF Owners

(* Once a rival, always a rival: commits and answers are final, and the lock *)
(* ends in one or the other.                                                *)
LEMMA RivalStays ==
    ASSUME RetryInv, [RetryNext]_retryVars, NEW r \in Calls, NEW c \in Calls, Rival(r, c)
    PROVE  Rival(r, c)'
<1> USE DEF RetryInv
<1>0. RetryTypes /\ EffectTold(r)
  OBVIOUS
<1>1. ASSUME effects'[r] > 0 \/ call'[r].at = "wrote"
               \/ answer'[r] \in {"refused", "cancelled", "lost"}
      PROVE  Rival(r, c)'
  BY <1>1 DEF Rival
<1>2. CASE UNCHANGED retryVars
  BY <1>2 DEF Rival, retryVars
<1>3. ASSUME NEW d \in Calls, BeginTx(d) \/ Write(d) \/ Cancel(d) \/ Backoff(d) PROVE Rival(r, c)'
  BY <1>0, <1>1, <1>3 DEF BeginTx, Write, Cancel, Backoff, CallAt, CallGoTo, Rival, RetryTypes
<1>4. ASSUME NEW d \in Calls, Busy(d) PROVE Rival(r, c)'
  BY <1>0, <1>1, <1>4, RetryAssumption
     DEF Busy, Return, CallAt, CallGoTo, Rival, RetryTypes, EffectTold
<1>5. ASSUME NEW d \in Calls, Commit(d) PROVE Rival(r, c)'
  <2>1. effects'[r] >= effects[r] /\ (r = d => effects'[r] > 0) /\ UNCHANGED answer
    BY <1>0, <1>5 DEF Commit, RetryTypes
  <2>2. r # d => call'[r] = call[r]
    BY <1>0, <1>5 DEF Commit, CallGoTo, RetryTypes
  <2>3. effects[r] \in Nat /\ effects'[r] \in Nat
    BY <1>0, StepTypes DEF RetryTypes
  <2> QED
    BY <1>1, <2>1, <2>2, <2>3 DEF Rival
<1>6. ASSUME NEW d \in Calls, Succeed(d) PROVE Rival(r, c)'
  BY <1>0, <1>1, <1>6, RetryAssumption
     DEF Succeed, Return, CallAt, CallGoTo, Rival, RetryTypes, EffectTold
<1>7. ASSUME NEW d \in Calls, Refuse(d) \/ GiveUp(d) PROVE Rival(r, c)'
  BY <1>0, <1>1, <1>7, RetryAssumption
     DEF Refuse, GiveUp, Return, CallAt, CallGoTo, Rival, RetryTypes, EffectTold
<1>8. ASSUME NEW s \in Servers, CrashServer(s) PROVE Rival(r, c)'
  BY <1>0, <1>1, <1>8, RetryAssumption DEF CrashServer, CallAt, Rival, RetryTypes, EffectTold
<1> QED
  BY <1>2, <1>3, <1>4, <1>5, <1>6, <1>7, <1>8 DEF RetryNext, CallStep

LEMMA RivalsStay ==
    RetryInv /\ [RetryNext]_retryVars => \A c \in Calls : HasRival(c) => HasRival(c)'
BY RivalStays DEF HasRival

(* A snapshot grows stale by a commit, which another server's call makes.   *)
LEMMA StepStale == RivalInv /\ [RetryNext]_retryVars => StaleByRival'
<1> SUFFICES ASSUME RivalInv, [RetryNext]_retryVars, NEW c \in Calls,
                    call'[c].at = "inTx", call'[c].seen # version'
             PROVE  HasRival(c)'
  BY DEF StaleByRival
<1>0. RetryInv /\ RetryTypes /\ Owners /\ StaleByRival
  BY DEF RivalInv, RetryInv
<1>1. CASE UNCHANGED <<call, version>>
  BY <1>0, <1>1, RivalsStay DEF StaleByRival
<1>2. ASSUME NEW d \in Calls, BeginTx(d) PROVE HasRival(c)'
  <2>1. c # d
    BY <1>0, <1>2 DEF BeginTx, RetryTypes
  <2>2. call'[c] = call[c] /\ UNCHANGED version
    BY <1>0, <1>2, <2>1 DEF BeginTx, RetryTypes
  <2> QED
    BY <1>0, <2>2, RivalsStay DEF StaleByRival
<1>3. ASSUME NEW d \in Calls, Commit(d) PROVE HasRival(c)'
  <2>1. c # d /\ call'[c] = call[c]
    BY <1>0, <1>3 DEF Commit, CallGoTo, RetryTypes
  <2>2. Server[d] # Server[c]
    BY <1>0, <1>3, <2>1, OnePerServer DEF Commit, CallAt
  <2>3. effects'[d] > 0
    BY <1>0, <1>3 DEF Commit, RetryTypes
  <2>4. Rival(d, c)'
    BY <2>2, <2>3 DEF Rival
  <2> QED
    BY <2>4 DEF HasRival
<1>4. ASSUME NEW d \in Calls, NEW at \in Places \ {"inTx"}, CallGoTo(d, at), UNCHANGED version
      PROVE  HasRival(c)'
  <2>1. call'[c] = call[c]
    BY <1>0, <1>4 DEF CallGoTo, RetryTypes
  <2> QED
    BY <1>0, <1>4, <2>1, RivalsStay DEF StaleByRival
<1>5. ASSUME NEW d \in Calls,
             Write(d) \/ Busy(d) \/ Succeed(d) \/ Refuse(d) \/ GiveUp(d)
      PROVE  HasRival(c)'
  <2>1. UNCHANGED version /\ \E at \in Places \ {"inTx"} : CallGoTo(d, at)
    BY <1>5 DEF Write, Busy, Succeed, Refuse, GiveUp, Return, Places
  <2> QED
    BY <1>4, <2>1
<1>6. ASSUME NEW d \in Calls, Backoff(d) PROVE HasRival(c)'
  <2>1. call'[c] = call[c] /\ UNCHANGED version
    BY <1>0, <1>6 DEF Backoff, RetryTypes
  <2> QED
    BY <1>0, <2>1, RivalsStay DEF StaleByRival
<1>7. ASSUME NEW s \in Servers, CrashServer(s) PROVE HasRival(c)'
  <2>1. call'[c] = call[c] /\ UNCHANGED version
    BY <1>0, <1>7 DEF CrashServer, RetryTypes
  <2> QED
    BY <1>0, <2>1, RivalsStay DEF StaleByRival
<1> QED
  BY <1>1, <1>2, <1>3, <1>5, <1>6, <1>7 DEF RetryNext, CallStep, Cancel, retryVars

LEMMA StepBusy == RivalInv /\ [RetryNext]_retryVars => BusyByRival'
<1> SUFFICES ASSUME RivalInv, [RetryNext]_retryVars, NEW c \in Calls, answer'[c] = "busy"
             PROVE  HasRival(c)'
  BY DEF BusyByRival
<1>0. RetryInv /\ RetryTypes /\ Owners /\ StaleByRival /\ BusyByRival
  BY DEF RivalInv, RetryInv
<1>1. CASE answer[c] = "busy"
  BY <1>0, <1>1, RivalsStay DEF BusyByRival
<1>2. CASE answer[c] # "busy"
  <2>1. Busy(c)
    BY <1>0, <1>2 DEF RetryNext, CallStep, BeginTx, Write, Busy, Backoff, Commit, Succeed,
       GiveUp, Refuse, Cancel, CrashServer, Return, retryVars, RetryTypes
  <2>2. call[c].at = "inTx"
    BY <2>1 DEF Busy, CallAt
  <2>3. CASE Stale(c)
    BY <1>0, <2>2, <2>3, RivalsStay DEF Stale, StaleByRival
  <2>4. CASE locker # None
    <3>1. locker \in Calls /\ call[locker].at = "wrote"
      BY <1>0, <2>4 DEF RetryTypes, Owners
    <3>2. Rival(locker, c)
      BY <1>0, <2>2, <3>1, OnePerServer DEF Rival
    <3> QED
      BY <1>0, <3>1, <3>2, RivalsStay DEF HasRival
  <2> QED
    BY <2>1, <2>3, <2>4 DEF Busy
<1> QED
  BY <1>1, <1>2

THEOREM RivalInvariant == RetrySpec => []RivalInv
<1>1. RetryInit => RivalInv
  <2> SUFFICES ASSUME RetryInit PROVE RivalInv
    OBVIOUS
  <2>1. \A c \in Calls : call[c].at = "attempt" /\ answer[c] = None
    BY DEF RetryInit
  <2>2. StaleByRival /\ BusyByRival
    BY <2>1, RetryAssumption DEF StaleByRival, BusyByRival
  <2> QED
    BY <2>2, InitRetry, InitOwners DEF RivalInv
<1>2. RivalInv /\ [RetryNext]_retryVars => RivalInv'
  BY StepTypes, StepTold, StepOwners, StepStale, StepBusy DEF RivalInv, RetryInv
<1> QED
  BY <1>1, <1>2, PTL DEF RetrySpec

(* Connections and the lock are given back whenever an attempt ends, for any *)
(* calls and servers and under any faults.                                  *)
THEOREM NothingLeaks == RetrySpec => []RetryTypeOK
<1>1. RivalInv => RetryTypeOK
  <2> SUFFICES ASSUME RivalInv PROVE RetryTypeOK
    OBVIOUS
  <2>0. RetryTypes /\ Owners /\ None \notin Calls
    BY RetryAssumption DEF RivalInv, RetryInv
  <2>1. ASSUME NEW s \in Servers
        PROVE {c \in Calls : call[c].at \in {"inTx", "wrote"} /\ Server[c] = s}
                = {conn[s]} \ {None}
    BY <2>0, <2>1 DEF Owners, RetryTypes
  <2>2. {c \in Calls : CallAt(c, "wrote")} = {locker} \ {None}
    BY <2>0 DEF Owners, RetryTypes, CallAt
  <2> QED
    BY <2>0, <2>1, <2>2 DEF RetryTypeOK, RetryTypes
<1> QED
  BY <1>1, RivalInvariant, PTL

(* Only another server keeps a call from writing until it gives up: the     *)
(* calls of one server wait for its connection instead.                     *)
THEOREM BusyMeansRival == RetrySpec => []BusyOnlyAcrossServers
<1>1. RivalInv => BusyOnlyAcrossServers
  BY DEF RivalInv, BusyByRival, HasRival, Rival, BusyOnlyAcrossServers, CallAt
<1> QED
  BY <1>1, RivalInvariant, PTL

-----------------------------------------------------------------------------
(* Proofs about the start of any number of servers with any migrations. A  *)
(* server that has got as far as a file knows that the ones before it were *)
(* applied, by itself or by another server, and nothing is ever taken back; *)
(* that is all the order and the readiness of a serving server rest on.    *)

StartupTypes ==
    /\ applied \subseteq Files
    /\ ran \in [Files -> Nat]
    /\ wallets \in [1 .. Wallets -> Nat]
    /\ server \in [Processes -> [at : {"down", "check", "apply", "record", "wallets",
                                       "serving"},
                                 next : Nat \ {0}]]

KnowsItsPast(s) ==
    /\ server[s].at \in {"check", "apply", "record"} =>
         \A k \in Files : k < server[s].next => k \in applied
    /\ server[s].at \in {"apply", "record"} => server[s].next \in Files
    /\ server[s].at \in {"wallets", "serving"} =>
         /\ applied = Files
         /\ \A w \in 1 .. Wallets : w < server[s].next => wallets[w] = 1
    /\ server[s].at = "serving" => server[s].next > Wallets

StartupInv == StartupTypes /\ AppliedOnceInOrder /\ \A s \in Processes : KnowsItsPast(s)

LEMMA InitStartup == StartupInit => StartupInv
BY StartupAssumption DEF StartupInit, StartupInv, StartupTypes, AppliedOnceInOrder, KnowsItsPast, Down, Files

(* A server that moves while the tables stay as they are.                   *)
LEMMA MoveOnly ==
    ASSUME StartupInv, NEW s \in Processes, UNCHANGED <<applied, ran, wallets>>,
           NEW at \in {"down", "check", "apply", "record", "wallets", "serving"},
           NEW next \in Nat \ {0}, ServerGoTo(s, at, next),
           at \in {"check", "apply", "record"} =>
             \A k \in Files : k < next => k \in applied,
           at \in {"apply", "record"} => next \in Files,
           at \in {"wallets", "serving"} =>
             /\ applied = Files
             /\ \A w \in 1 .. Wallets : w < next => wallets[w] = 1,
           at = "serving" => next > Wallets
    PROVE  StartupInv'
<1>1. /\ server'[s] = [at |-> at, next |-> next]
      /\ \A t \in Processes \ {s} : server'[t] = server[t]
      /\ StartupTypes'
  BY DEF ServerGoTo, StartupInv, StartupTypes
<1>2. AppliedOnceInOrder'
  BY DEF StartupInv, AppliedOnceInOrder
<1>3. ASSUME NEW t \in Processes PROVE KnowsItsPast(t)'
  BY <1>1 DEF StartupInv, KnowsItsPast
<1> QED
  BY <1>1, <1>2, <1>3 DEF StartupInv

LEMMA ExitKeeps ==
    ASSUME StartupInv, NEW s \in Processes, Exit(s)
    PROVE  StartupInv'
<1>1. ServerGoTo(s, "down", 1) /\ UNCHANGED <<applied, ran, wallets>>
  BY DEF Exit, ServerGoTo, Down
<1> QED
  BY <1>1, MoveOnly

LEMMA CommitKeeps ==
    ASSUME StartupInv, NEW s \in Processes, RecordAndCommit(s)
    PROVE  StartupInv'
<1> DEFINE m == server[s].next
<1>1. m \in Files /\ m \notin applied /\ \A k \in Files : k < m => k \in applied
  BY DEF RecordAndCommit, ServerAt, StartupInv, KnowsItsPast
<1>2. ran[m] = 0
  BY <1>1 DEF StartupInv, AppliedOnceInOrder
<1>3. /\ applied' = applied \cup {m}
      /\ ran' = [ran EXCEPT ![m] = 1]
      /\ server' = [server EXCEPT ![s] = [at |-> "check", next |-> m + 1]]
      /\ wallets' = wallets
  BY <1>1, <1>2 DEF RecordAndCommit, ServerGoTo
<1>4. m \in Nat \ {0}
  BY <1>1 DEF Files
<1> HIDE DEF m
<1>5. StartupTypes'
  BY <1>1, <1>3, <1>4 DEF StartupInv, StartupTypes
<1>6. AppliedOnceInOrder'
  <2>1. \A k \in Files : ran'[k] = IF k \in applied' THEN 1 ELSE 0
    BY <1>1, <1>3 DEF StartupInv, StartupTypes, AppliedOnceInOrder
  <2>2. \A j \in applied', k \in Files : k < j => k \in applied'
    BY <1>1, <1>3 DEF StartupInv, AppliedOnceInOrder
  <2> QED
    BY <2>1, <2>2 DEF AppliedOnceInOrder, Files
<1>7. ASSUME NEW t \in Processes PROVE KnowsItsPast(t)'
  <2>1. CASE t = s
    <3>1. server'[t] = [at |-> "check", next |-> m + 1]
      BY <1>3, <2>1 DEF StartupInv, StartupTypes
    <3>2. \A k \in Files : k < m + 1 => k \in applied'
      BY <1>1, <1>3, <1>4 DEF Files
    <3> QED
      BY <3>1, <3>2 DEF KnowsItsPast, Files
  <2>2. CASE t # s
    <3>1. server'[t] = server[t]
      BY <1>3, <2>2 DEF StartupInv, StartupTypes
    <3> QED
      BY <1>1, <1>3, <3>1 DEF StartupInv, KnowsItsPast, Files
  <2> QED
    BY <2>1, <2>2
<1> QED
  BY <1>5, <1>6, <1>7 DEF StartupInv

LEMMA WalletKeeps ==
    ASSUME StartupInv, NEW s \in Processes, InsertWallet(s)
    PROVE  StartupInv'
<1> DEFINE w == server[s].next
<1>1. w \in Nat \ {0} /\ applied = Files /\ \A v \in 1 .. Wallets : v < w => wallets[v] = 1
  BY DEF InsertWallet, ServerAt, StartupInv, StartupTypes, KnowsItsPast
<1>2. /\ wallets' = [wallets EXCEPT ![w] = 1]
      /\ server' = [server EXCEPT ![s] = [at |-> "wallets", next |-> w + 1]]
      /\ UNCHANGED <<applied, ran>>
  BY DEF InsertWallet, ServerGoTo
<1> HIDE DEF w
<1>3. StartupTypes'
  <2>1. wallets' \in [1 .. Wallets -> Nat]
    BY <1>2 DEF StartupInv, StartupTypes
  <2>2. w + 1 \in Nat \ {0}
    BY <1>1
  <2> DEFINE Steps == [at : {"down", "check", "apply", "record", "wallets", "serving"},
                        next : Nat \ {0}]
  <2>3. server \in [Processes -> Steps]
    BY DEF StartupInv, StartupTypes
  <2>4. [at |-> "wallets", next |-> w + 1] \in Steps
    BY <2>2
  <2>5. server' \in [Processes -> Steps]
    <3> HIDE DEF Steps
    <3> QED
      BY <1>2, <2>3, <2>4
  <2> QED
    BY <1>2, <2>1, <2>5 DEF StartupInv, StartupTypes
<1>4. AppliedOnceInOrder'
  BY <1>2 DEF StartupInv, AppliedOnceInOrder
<1>5. ASSUME NEW t \in Processes PROVE KnowsItsPast(t)'
  <2>1. \A v \in 1 .. Wallets : wallets'[v] = IF v = w THEN 1 ELSE wallets[v]
    BY <1>2 DEF StartupInv, StartupTypes
  <2>2. CASE t = s
    <3>1. server'[t] = [at |-> "wallets", next |-> w + 1]
      BY <1>2, <2>2 DEF StartupInv, StartupTypes
    <3>2. \A v \in 1 .. Wallets : v < w + 1 => wallets'[v] = 1
      BY <1>1, <2>1
    <3> QED
      BY <1>1, <1>2, <3>1, <3>2 DEF KnowsItsPast
  <2>3. CASE t # s
    <3>1. server'[t] = server[t]
      BY <1>2, <2>3 DEF StartupInv, StartupTypes
    <3> QED
      BY <1>2, <2>1, <3>1 DEF StartupInv, KnowsItsPast
  <2> QED
    BY <2>2, <2>3
<1> QED
  BY <1>3, <1>4, <1>5 DEF StartupInv

LEMMA StartupKeeps == StartupInv /\ [StartupNext]_startupVars => StartupInv'
<1> SUFFICES ASSUME StartupInv, [StartupNext]_startupVars PROVE StartupInv'
  OBVIOUS
<1>1. CASE UNCHANGED startupVars
  BY <1>1 DEF StartupInv, StartupTypes, AppliedOnceInOrder, KnowsItsPast, startupVars
<1>2. ASSUME NEW s \in Processes, StartStep(s) \/ CrashProcess(s) PROVE StartupInv'
  <2> DEFINE n == server[s].next
  <2>0. n \in Nat \ {0}
    BY DEF StartupInv, StartupTypes
  <2>1. CASE Launch(s)
    BY <2>1, MoveOnly DEF Launch, Files
  <2>2. CASE CheckApplied(s)
    <3>1. n \in Files /\ \A k \in Files : k < n => k \in applied
      BY <2>2 DEF CheckApplied, ServerAt, StartupInv, KnowsItsPast
    <3>2. CASE n \in applied
      <4>1. \A k \in Files : k < n + 1 => k \in applied
        BY <2>0, <3>1, <3>2 DEF Files
      <4>2. ServerGoTo(s, "check", n + 1) /\ UNCHANGED <<applied, ran, wallets>>
        BY <2>2, <3>2 DEF CheckApplied
      <4> QED
        BY <2>0, <4>1, <4>2, MoveOnly
    <3>3. CASE n \notin applied
      <4>1. ServerGoTo(s, "apply", n) /\ UNCHANGED <<applied, ran, wallets>>
        BY <2>2, <3>3 DEF CheckApplied
      <4> QED
        BY <2>0, <3>1, <4>1, MoveOnly
    <3> QED
      BY <3>2, <3>3
  <2>3. CASE MigrationsDone(s)
    <3>1. applied = Files
      <4>1. n > Last
        <5>1. n \notin 1 .. Last
          BY <2>3 DEF MigrationsDone, Files
        <5> HIDE DEF n
        <5> QED
          BY <2>0, <5>1, StartupAssumption
      <4>2. \A k \in Files : k < n => k \in applied
        BY <2>3 DEF MigrationsDone, ServerAt, StartupInv, KnowsItsPast
      <4>3. applied \subseteq Files
        BY DEF StartupInv, StartupTypes
      <4> HIDE DEF n
      <4>4. \A k \in Files : k < n
        BY <2>0, <4>1, StartupAssumption DEF Files
      <4>5. Files \subseteq applied
        BY <4>2, <4>4
      <4> QED
        BY <4>3, <4>5
    <3>2. ServerGoTo(s, "wallets", 1) /\ UNCHANGED <<applied, ran, wallets>>
      BY <2>3 DEF MigrationsDone
    <3> QED
      BY <3>1, <3>2, MoveOnly, StartupAssumption
  <2>4. CASE ApplyFile(s)
    <3>1. n \in Files /\ \A k \in Files : k < n => k \in applied
      BY <2>4 DEF ApplyFile, ServerAt, StartupInv, KnowsItsPast
    <3>2. ServerGoTo(s, "record", n) /\ UNCHANGED <<applied, ran, wallets>>
      BY <2>4 DEF ApplyFile
    <3> QED
      BY <2>0, <3>1, <3>2, MoveOnly
  <2>5. CASE ApplyFails(s) \/ RecordFails(s) \/ WalletFails(s) \/ CrashProcess(s)
    BY <2>5, ExitKeeps DEF ApplyFails, RecordFails, WalletFails, CrashProcess
  <2>6. CASE RecordAndCommit(s)
    BY <2>6, CommitKeeps
  <2>7. CASE InsertWallet(s)
    BY <2>7, WalletKeeps
  <2>8. CASE ListenAndServe(s)
    <3>1. /\ applied = Files
          /\ \A w \in 1 .. Wallets : w < n => wallets[w] = 1
          /\ n > Wallets
      BY <2>8 DEF ListenAndServe, ServerAt, StartupInv, KnowsItsPast
    <3>2. ServerGoTo(s, "serving", n) /\ UNCHANGED <<applied, ran, wallets>>
      BY <2>8 DEF ListenAndServe
    <3> QED
      BY <2>0, <3>1, <3>2, MoveOnly
  <2> QED
    BY <1>2, <2>1, <2>2, <2>3, <2>4, <2>5, <2>6, <2>7, <2>8 DEF StartStep
<1> QED
  BY <1>1, <1>2 DEF StartupNext

THEOREM StartupInvariant == StartupSpec => []StartupInv
BY InitStartup, StartupKeeps, PTL DEF StartupSpec

(* Files take effect in order, once, and together with their record, for     *)
(* any number of servers that start, race and die.                           *)
THEOREM MigrationsOnceInOrder == StartupSpec => []AppliedOnceInOrder
BY StartupInvariant, PTL DEF StartupInv

(* Whoever serves has the whole schema and every default wallet.             *)
THEOREM ServingServersAreReady == StartupSpec => []ServingIsReady
<1>1. StartupInv => ServingIsReady
  <2> SUFFICES ASSUME StartupInv, NEW s \in Processes, ServerAt(s, "serving")
               PROVE  applied = Files /\ \A w \in 1 .. Wallets : wallets[w] = 1
    BY DEF ServingIsReady
  <2>1. /\ applied = Files
        /\ \A w \in 1 .. Wallets : w < server[s].next => wallets[w] = 1
        /\ server[s].next > Wallets
        /\ server[s].next \in Nat
    BY DEF StartupInv, StartupTypes, KnowsItsPast, ServerAt
  <2> QED
    BY <2>1, StartupAssumption
<1> QED
  BY <1>1, StartupInvariant, PTL

=============================================================================
