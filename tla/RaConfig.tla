-------------------------------- MODULE RaConfig --------------------------------
(***************************************************************************)
(* The stored login (realtime/retroachievements_config.cpp, and the        *)
(* session's persistence callback of realtime.cpp): saved after a login,   *)
(* invalidated at logout, read at start.  Contents is the set of logins,   *)
(* with NoLogin for the empty configuration; how a line is escaped and     *)
(* parsed is left out.                                                     *)
(***************************************************************************)
EXTENDS PrivateFile

CONSTANTS NoLogin, MaxJobs       \* bound: saves and invalidations

ASSUME ContentsAssumption ==
    /\ NoLogin \in Contents
    /\ Partial \notin Contents

VARIABLES job,        \* what the worker is doing to the file
          promised,   \* history: the logins that the next start may find
          jobs

configVars == <<disk, call, job, promised, jobs>>

NoJob == "none"

(* loadRetroAchievementsConfig: without a valid version there is no login. *)
(* A file that was cut short is no login that anybody stored.              *)
LoginOf(entry) == IF entry = NoEntry THEN NoLogin ELSE entry.contents

(* saveRetroAchievementsConfig, and the first step of an invalidation:     *)
(* the empty configuration in place of the login.                          *)
NothingRuns == job = NoJob
Starts(name, login) ==
    /\ NothingRuns /\ jobs < MaxJobs
    /\ job' = name
    /\ call' = Writes(login)
    /\ promised' = promised \cup {login}
    /\ jobs' = jobs + 1
    /\ UNCHANGED disk
Save == \E login \in Contents \ {NoLogin} : Starts("save", login)
Invalidate == disk.now["file"] # NoEntry /\ Starts("invalidate", NoLogin)

(* An invalidation that sees no file reports success.  It syncs nothing,   *)
(* so a change before it may still be undone by a power failure.           *)
InvalidateNothing ==
    /\ NothingRuns /\ jobs < MaxJobs
    /\ disk.now["file"] = NoEntry
    /\ jobs' = jobs + 1
    /\ UNCHANGED <<disk, call, job, promised>>

Continues(name, c) == job' = name /\ call' = c /\ UNCHANGED <<disk, promised, jobs>>
Reports(login) ==
    /\ job' = NoJob /\ call' = NoCall
    /\ promised' = {login}
    /\ UNCHANGED <<disk, jobs>>
GivesUp == job' = NoJob /\ call' = NoCall /\ UNCHANGED <<disk, promised, jobs>>

(* Each call's result decides what comes next.                             *)
Succeeded == call.step = "done"
Failed == call.step = "failed"

SaveEnds ==
    /\ job = "save"
    /\ \/ Succeeded /\ Reports(call.contents)
       \/ Failed /\ GivesUp

(* The login is overwritten: the file is removed, or at least put aside.   *)
Overwritten == job = "invalidate" /\ Succeeded /\ Continues("remove", Removes)
(* It could not be: the file is made private and put aside as it is.       *)
NotOverwritten ==
    /\ job = "invalidate" /\ Failed
    /\ \/ Continues("quarantine", Quarantines)
       \/ GivesUp                              \* makeFileOwnerPrivate fails
RemoveEnds ==
    /\ job = "remove"
    /\ \/ Succeeded /\ Reports(NoLogin)
       \/ Failed /\ call.changed /\ GivesUp
       \/ Failed /\ ~call.changed /\ Continues("quarantine", Quarantines)
(* quarantineConfig tries other names while nothing has changed.           *)
QuarantineEnds ==
    /\ job = "quarantine"
    /\ \/ Succeeded /\ Reports(NoLogin)
       \/ Failed /\ GivesUp
       \/ Failed /\ ~call.changed /\ Continues("quarantine", Quarantines)

(* The process is killed, or the power fails; it starts again.             *)
Crash ==
    /\ Killed \/ PowerFailure
    /\ job' = NoJob
    /\ UNCHANGED <<promised, jobs>>

ConfigStep == CallStep /\ UNCHANGED <<job, promised, jobs>>

ConfigInit ==
    /\ \E entry \in {NoEntry} \cup {File(login, TRUE) : login \in Contents} :
           /\ disk = Synced([now |-> [n \in Names |-> IF n = "file" THEN entry ELSE NoEntry],
                             may |-> [n \in Names |-> {}]])
           /\ promised = {LoginOf(entry)}
    /\ call = NoCall
    /\ job = NoJob
    /\ jobs = 0

ConfigNext ==
    \/ Save \/ Invalidate \/ InvalidateNothing
    \/ ConfigStep
    \/ SaveEnds \/ Overwritten \/ NotOverwritten \/ RemoveEnds \/ QuarantineEnds
    \/ Crash

ConfigSpec == ConfigInit /\ [][ConfigNext]_configVars

-----------------------------------------------------------------------------
(* What a job has written or removed, and reported, is so at the next      *)
(* start; one that failed or was cut short leaves the login before it or   *)
(* its own, whole, through kills and power failures at any step.  An       *)
(* invalidation that sees no file has done nothing and promises nothing:   *)
(* what may be there after it is what might have been before it.           *)
PersistedLoginSurvives ==
    \A entry \in disk.may["file"] : \A left \in Left(entry) : LoginOf(left) \in promised
=============================================================================
