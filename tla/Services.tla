---------------------------- MODULE Services ----------------------------
(* The parts of the program beside the life of payments, each with tables or *)
(* memory of its own: the creation of payments, their calendar and queue,    *)
(* the write retry, the start, sessions, the rate limiter and the settings.  *)
(* No two of them share a variable, so whatever the others do, each meets    *)
(* the states it meets alone. `part` is the one that moves in a behaviour.   *)
EXTENDS PaymentCreation, DueDates, TransferQueue, WriteRetry, Startup,
        Sessions, RateLimiter, Settings

VARIABLE part

servicesVars == <<creationVars, calendarVars, queueVars, retryVars, startupVars,
                  sessionsVars, limiterVars, settingsVars, part>>

Parts == {"creation", "calendar", "queue", "retry", "startup",
          "sessions", "limiter", "settings"}

-----------------------------------------------------------------------------
(* A part that does not move needs one initial state only. *)
ServicesInit ==
    /\ part \in Parts
    /\ CreationInit
    /\ part # "creation" => \A f \in Forms : form[f].day = CHOOSE day \in Days : TRUE
    /\ CalendarInit
    /\ part # "calendar" => zone = CHOOSE z \in Zones : TRUE
    /\ QueueInit
    /\ RetryInit
    /\ StartupInit
    /\ SessionsInit
    /\ LimiterInit
    /\ SettingsInit
    /\ part # "settings" => env = CHOOSE e \in Environments : TRUE

OthersRest ==
    /\ UNCHANGED part
    /\ part # "creation" => UNCHANGED creationVars
    /\ part # "calendar" => UNCHANGED calendarVars
    /\ part # "queue" => UNCHANGED queueVars
    /\ part # "retry" => UNCHANGED retryVars
    /\ part # "startup" => UNCHANGED startupVars
    /\ part # "sessions" => UNCHANGED sessionsVars
    /\ part # "limiter" => UNCHANGED limiterVars
    /\ part # "settings" => UNCHANGED settingsVars

ServicesNext ==
    \/ part = "creation" /\ CreationNext /\ OthersRest
    \/ part = "calendar" /\ CalendarNext /\ OthersRest
    \/ part = "queue" /\ QueueNext /\ OthersRest
    \/ part = "retry" /\ RetryNext /\ OthersRest
    \/ part = "startup" /\ StartupNext /\ OthersRest
    \/ part = "sessions" /\ SessionsNext /\ OthersRest
    \/ part = "limiter" /\ LimiterNext /\ OthersRest
    \/ part = "settings" /\ SettingsNext /\ OthersRest

ServicesSpec == ServicesInit /\ [][ServicesNext]_servicesVars

(* Each engine's ticker goes on, and it works its batch off.                 *)
FairQueue ==
    \A e \in Engines : WF_servicesVars(part = "queue" /\ EngineStep(e) /\ OthersRest)

(* Statements, timers and the busy timeout come to an end. *)
FairRetry ==
    \A c \in Calls : WF_servicesVars(part = "retry" /\ CallStep(c) /\ OthersRest)

(* A process does not stop between two statements, and the restart policy   *)
(* "unless-stopped" starts it again.                                        *)
FairStartup ==
    \A s \in Processes :
      WF_servicesVars(part = "startup" /\ StartStep(s) /\ OthersRest)

ServicesFairSpec ==
    ServicesSpec /\ FairQueue /\ FairRetry /\ FairStartup

-----------------------------------------------------------------------------
(* Every call of WithWriteRetry returns: the attempts are bounded and nobody *)
(* holds the connection or the lock for ever, through cancellations and      *)
(* crashes.                                                                  *)
EveryCallReturns == part = "retry" => <>(\A c \in Calls : CallAt(c, "returned"))

(* A lost race costs a restart, never the server: all servers come up.       *)
AllComeUp == part = "startup" => <>(\A s \in Processes : ServerAt(s, "serving"))

=============================================================================
