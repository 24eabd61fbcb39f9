---------------------------- MODULE Sessions ----------------------------
(* Operators, logins and sessions: internal/handlers/auth.go, the guard of   *)
(* internal/middleware/auth.go, the operator settings of admin.go and the    *)
(* cleanup of cmd/server/main.go. Handlers read a row in one statement and   *)
(* act on it later, while rows change. Passwords are versions: resetting one *)
(* makes a new version, and whoever logs in has some version.                *)
EXTENDS Integers, Absent

CONSTANTS
    Operators,  \* rows of operators
    Admin,      \* the administrator of the configuration, who has no row
    Ids,        \* session ids; randomToken never repeats one
    Visits,     \* requests to pages behind the guard at a time
    Lifetime,   \* 24 hours
    LoginTime,  \* bound: how long a login takes from its check to its row
    MaxTime,    \* bound: the clock stops here
    MaxResets   \* bound: how often a password is reset

ASSUME SessionsAssumption ==
    /\ Admin \notin Operators
    /\ Lifetime \in Nat \ {0} /\ LoginTime \in Nat /\ MaxTime \in Nat /\ MaxResets \in Nat
    /\ None \notin Nat \cup Operators \cup Ids

VARIABLES
    time,
    operator,  \* rows of operators: version of the password, since when inactive
    sessions,  \* rows of sessions
    login,     \* per session id: the login that made it
    visit,     \* per request: where the guard stands with it
    ended      \* ids whose logout has deleted the row

sessionsVars == <<time, operator, sessions, login, visit, ended>>

-----------------------------------------------------------------------------
Users == Operators \cup {Admin}
NoVisit == [at |-> "idle", id |-> None, row |-> None, entered |-> 0]

SessionsInit ==
    /\ time = 0
    /\ operator = [u \in Operators |-> [password |-> 0, off |-> None]]
    /\ sessions = {}
    /\ login = [i \in Ids |-> [at |-> "none", user |-> None, since |-> 0, expires |-> 0]]
    /\ visit = [v \in Visits |-> NoVisit]
    /\ ended = {}

-----------------------------------------------------------------------------
(* Login. *)

(* Slip: the operator is looked up whether active or not. *)
CredentialsOfAny(u, password) ==
    u \in Operators => operator[u].password = password

(* The administrator's hash is fixed; an operator's row must be active. *)
Credentials(u, password) ==
    u \in Operators => operator[u].off = None /\ operator[u].password = password

CheckCredentials(i, u, password) ==
    /\ login[i].at = "none"
    /\ Credentials(u, password)
    /\ login' = [login EXCEPT ![i] = [@ EXCEPT !.at = "checked", !.user = u, !.since = time]]
    /\ UNCHANGED <<time, operator, sessions, visit, ended>>

SetExpiry(i) ==
    /\ login[i].at = "checked"
    /\ login' = [login EXCEPT ![i] = [@ EXCEPT !.at = "create", !.expires = time + Lifetime]]
    /\ UNCHANGED <<time, operator, sessions, visit, ended>>

CreateSession(i) ==
    /\ login[i].at = "create"
    /\ sessions' = sessions \cup {[id |-> i, user |-> login[i].user, expires |-> login[i].expires]}
    /\ login' = [login EXCEPT ![i].at = "done"]
    /\ UNCHANGED <<time, operator, visit, ended>>

(* The client goes away, the INSERT fails or the process dies: no cookie. *)
LoginFails(i) ==
    /\ login[i].at \in {"checked", "create"}
    /\ login' = [login EXCEPT ![i].at = "failed"]
    /\ UNCHANGED <<time, operator, sessions, visit, ended>>

HasCookie(i) == login[i].at = "done"

-----------------------------------------------------------------------------
(* The guard AuthRequired. *)

(* GetSession: its row, if there is one, is what the guard goes by. *)
GetSession(v, i) ==
    /\ visit[v].at = "idle"
    /\ HasCookie(i)
    /\ \E r \in sessions :
         /\ r.id = i
         /\ visit' = [visit EXCEPT ![v] = [at |-> "found", id |-> i, row |-> r,
                                           entered |-> 0]]
    /\ UNCHANGED <<time, operator, sessions, login, ended>>

Admit(v) ==
    /\ visit[v].at = "found"
    /\ time <= visit[v].row.expires
    /\ visit' = [visit EXCEPT ![v].at = "admitted", ![v].entered = time]
    /\ UNCHANGED <<time, operator, sessions, login, ended>>

(* An expired session is deleted and the visitor sent to the login page. *)
TurnAway(v) ==
    /\ visit[v].at = "found"
    /\ time > visit[v].row.expires
    /\ sessions' = {r \in sessions : r.id # visit[v].id}
    /\ visit' = [visit EXCEPT ![v] = NoVisit]
    /\ UNCHANGED <<time, operator, login, ended>>

(* The page is served, also the logout whose DELETE fails: its error is      *)
(* dropped, and only the browser forgets the session.                        *)
ServePage(v) ==
    /\ visit[v].at = "admitted"
    /\ visit' = [visit EXCEPT ![v] = NoVisit]
    /\ UNCHANGED <<time, operator, sessions, login, ended>>

(* The logout is behind the guard too. Requests with the cookie may be on    *)
(* their way still.                                                          *)
AdminLogout(v) ==
    /\ visit[v].at = "admitted"
    /\ sessions' = {r \in sessions : r.id # visit[v].id}
    /\ ended' = ended \cup {visit[v].id}
    /\ visit' = [visit EXCEPT ![v] = NoVisit]
    /\ UNCHANGED <<time, operator, login>>

(* Slip: expires_at is stored in a zone one hour behind UTC. *)
CleanupInZone ==
    /\ sessions' = {r \in sessions : r.expires - 1 >= time}
    /\ UNCHANGED <<time, operator, login, visit, ended>>

CleanupExpiredSessions ==
    /\ sessions' = {r \in sessions : r.expires >= time}
    /\ UNCHANGED <<time, operator, login, visit, ended>>

-----------------------------------------------------------------------------
(* The administrator's settings, and the clock. *)

SetOperatorActive(u, active) ==
    /\ operator' = [operator EXCEPT ![u].off =
                      IF active THEN None ELSE IF @ = None THEN time ELSE @]
    /\ UNCHANGED <<time, sessions, login, visit, ended>>

UpdateOperatorPasswordHash(u) ==
    /\ operator[u].password < MaxResets
    /\ operator' = [operator EXCEPT ![u].password = @ + 1]
    /\ UNCHANGED <<time, sessions, login, visit, ended>>

TimePasses ==
    /\ time < MaxTime
    /\ \A i \in Ids : login[i].at \in {"checked", "create"} => time < login[i].since + LoginTime
    /\ time' = time + 1
    /\ UNCHANGED <<operator, sessions, login, visit, ended>>

SessionsNext ==
    \/ \E i \in Ids :
         \/ \E u \in Users, password \in 0 .. MaxResets : CheckCredentials(i, u, password)
         \/ SetExpiry(i)
         \/ CreateSession(i)
         \/ LoginFails(i)
    \/ \E v \in Visits :
         \/ \E i \in Ids : GetSession(v, i)
         \/ Admit(v)
         \/ TurnAway(v)
         \/ ServePage(v)
         \/ AdminLogout(v)
    \/ \E u \in Operators :
         \/ \E active \in BOOLEAN : SetOperatorActive(u, active)
         \/ UpdateOperatorPasswordHash(u)
    \/ CleanupExpiredSessions
    \/ TimePasses

SessionsSpec == SessionsInit /\ [][SessionsNext]_sessionsVars

-----------------------------------------------------------------------------
(* The cookie and the row agree: until the instant the cookie was made for,  *)
(* a session nobody ended is in the table. Neither the cleanup, nor the      *)
(* guard, nor another session's logout takes it away early.                  *)
SessionsLast ==
    \A i \in Ids : (HasCookie(i) /\ i \notin ended /\ time <= login[i].expires)
      => \E r \in sessions : r.id = i /\ time <= r.expires

(* Sessions survive the deactivation of their operator, and a login that was *)
(* checked before it still makes one; but nobody is admitted for an operator *)
(* longer than a lifetime, and the time of such a login, after it.           *)
DeactivationTakesHold ==
    \A v \in Visits, u \in Operators :
      (visit[v].at = "admitted" /\ visit[v].row.user = u /\ operator[u].off # None)
        => visit[v].entered <= operator[u].off + LoginTime + Lifetime

=============================================================================
