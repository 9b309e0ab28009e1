------------------------------- MODULE RaSession -------------------------------
(***************************************************************************)
(* RetroAchievementsSession (realtime/retroachievements_session.cpp) as    *)
(* the emulation worker drives it, with the lifecycle coordinator that     *)
(* asks for the game (retroachievements_lifecycle.cpp, realtime.cpp) and   *)
(* the transport's channel "api".                                          *)
(*                                                                         *)
(* `ra' holds what the worker owns.  The library (rc_client) is external:  *)
(* an operation it has begun is [kind, gen, part, user] and stands in      *)
(* ra.ops until its callback is called; gen is the generation that the     *)
(* session put in the callback's context.  A game is known by the user     *)
(* whose progress it carries, a library entry by its console and user.     *)
(* Texts, pictures and points are left out.                                *)
(*                                                                         *)
(* The user needs longer to log in or out than the worker needs for an     *)
(* iteration, so commands meet the snapshot that was last published.       *)
(***************************************************************************)
EXTENDS RaHttp, Functions

CONSTANTS Users,
          Consoles,     \* whose profiles are asked for, in this order (4, 5, 6)
          TitleBatch,   \* kMaximumTitleBatch (100)
          MaxLogins, MaxFailures       \* bounds: logins, requests that fail

ASSUME SessionAssumption ==
    /\ Outstanding \in Nat /\ TitleBatch \in Nat \ {0}
    /\ Consoles \in Seq(Nat) /\ IsInjective(Consoles)

VARIABLES ra,      \* the session, the library and the transport
          worker,  \* where the iteration of the worker stands
          bounds   \* logins and failures so far

sessionVars == <<ra, worker, bounds>>

NoUser == "nobody"
Connected == {"online", "offline"}

NewSession ==
    [conn |-> "loggedOut", user |-> NoUser, game |-> NoUser, library |-> {}, merged |-> {},
     profiles |-> 0, titles |-> 0,          \* pendingProfileRequests, pendingTitleRequests
     loginGen |-> 0, gameGen |-> 0, profileGen |-> 0, connGen |-> 0,
     down |-> FALSE,
     commands |-> <<>>,
     shown |-> [conn |-> "loggedOut", user |-> NoUser, game |-> NoUser, library |-> {}, connGen |-> 0],
     calls |-> {},                          \* pendingServerCalls: [id, op]
     rejected |-> <<>>,                     \* rejectedServerCalls
     taken |-> <<>>,                        \* responses of this iteration
     lastCall |-> NoRequest,
     client |-> [user |-> NoUser, game |-> NoUser],
     ops |-> {}, later |-> <<>>,            \* the library's, and those it tries again when idle
     http |-> NewTransport,
     seen |-> [conn |-> "loggedOut", user |-> NoUser],           \* raWorkerSnapshot
     coordinator |-> [gen |-> -1, requested |-> FALSE],
     epoch |-> 0, askedIn |-> 0]            \* history: connections, and the one of the last load

Op(kind, gen, part, user) == [kind |-> kind, gen |-> gen, part |-> part, user |-> user]

Published(s) ==
    [s EXCEPT !.shown = [conn |-> s.conn, user |-> s.user, game |-> s.game,
                         library |-> s.library, connGen |-> s.connGen]]

(* handleServerCall, for several operations one after the other: the       *)
(* library asks for the next answer of each.                               *)
Called(s, ops) ==
    LET room == Room(s.http, "api")
        sent == IF Len(ops) < room THEN Len(ops) ELSE room
    IN  [s EXCEPT !.calls = @ \cup {[id |-> s.lastCall + i, op |-> ops[i]] : i \in 1..sent},
                  !.http = Submitted(@, "api", [i \in 1..sent |-> s.lastCall + i]),
                  !.lastCall = @ + Len(ops),
                  !.rejected = @ \o SubSeq(ops, sent + 1, Len(ops))]

Begun(s, ops) == Called([s EXCEPT !.ops = @ \cup Range(ops)], ops)

-----------------------------------------------------------------------------
(* The profile: one request per console, then titles in batches.           *)
FinishProfile(s) == Published([s EXCEPT !.library = s.merged])

Batches(s) == (Cardinality(s.merged) + TitleBatch - 1) \div TitleBatch
BeginTitleBatches(s) ==
    IF s.merged = {} THEN FinishProfile(s)
    ELSE Begun([s EXCEPT !.titles = Batches(s)],
               [b \in 1..Batches(s) |-> Op("titles", s.profileGen, b, s.client.user)])

BeginFullProfile(s) ==
    Begun([s EXCEPT !.profileGen = @ + 1, !.merged = {}, !.library = {},
                    !.profiles = Len(Consoles), !.titles = 0],
          [i \in DOMAIN Consoles |-> Op("profile", s.profileGen + 1, Consoles[i], s.client.user)])

IsActive(s, op) == ~s.down /\ op.gen = s.profileGen /\ s.conn \in Connected

(* profileCompleted.                                                       *)
ProfileCompleted(s, op, ok) ==
    IF ~IsActive(s, op) THEN s
    ELSE LET t == [s EXCEPT !.merged = @ \cup (IF ok THEN {<<op.part, op.user>>} ELSE {}),
                            !.profiles = IF @ > 0 THEN @ - 1 ELSE 0]
         IN  IF t.profiles = 0 THEN BeginTitleBatches(t) ELSE t

TitlesCompleted(s, op) ==
    IF ~IsActive(s, op) THEN s
    ELSE LET t == [s EXCEPT !.titles = IF @ > 0 THEN @ - 1 ELSE 0]
         IN  IF t.titles = 0 THEN FinishProfile(t) ELSE t

-----------------------------------------------------------------------------
(* The connection.                                                         *)
MarkOffline(s) == IF s.conn # "online" THEN s ELSE Published([s EXCEPT !.conn = "offline"])
MarkOnline(s) ==
    IF s.conn # "offline" THEN s
    ELSE Published([s EXCEPT !.conn = "online", !.connGen = @ + 1, !.epoch = @ + 1])

BeginLogin(s, user) ==
    Begun(Published([s EXCEPT !.loginGen = @ + 1, !.conn = "loggingIn"]),
          <<Op("login", s.loginGen + 1, 0, user)>>)

LoginCompleted(s, op, ok) ==
    IF s.down \/ op.gen # s.loginGen \/ s.conn # "loggingIn" THEN s
    ELSE IF ~ok THEN Published([s EXCEPT !.conn = "error"])
    ELSE BeginFullProfile(Published(
             [s EXCEPT !.client.user = op.user, !.user = op.user, !.conn = "online", !.epoch = @ + 1]))

Logout(s) ==
    Published([s EXCEPT !.loginGen = @ + 1, !.gameGen = @ + 1, !.profileGen = @ + 1, !.connGen = 0,
                        !.client = [user |-> NoUser, game |-> NoUser],
                        !.ops = @ \ Range(s.later), !.later = <<>>,
                        !.conn = "loggedOut", !.user = NoUser, !.game = NoUser,
                        !.library = {}, !.merged = {}, !.profiles = 0, !.titles = 0])

-----------------------------------------------------------------------------
(* The game: the library identifies it, then opens its session.            *)
BeginLoadGame(s) ==
    Begun([s EXCEPT !.gameGen = @ + 1], <<Op("identify", s.gameGen + 1, 0, s.client.user)>>)

(* gameLoadCompleted: what the library makes of a load that a logout cut   *)
(* short is its own affair, the generations keep it out.  Mutant: they are *)
(* not compared.                                                           *)
GameOfAnyone(s, op, ok) ==
    IF s.down \/ (~ok /\ s.conn = "offline") THEN s
    ELSE IF ok THEN Published([s EXCEPT !.client.game = op.user, !.game = op.user])
    ELSE Published([s EXCEPT !.game = NoUser])
GameLoadCompleted(s, op, ok) ==
    IF s.down \/ op.gen # s.gameGen \/ (~ok /\ s.conn = "offline") THEN s
    ELSE IF ok THEN Published([s EXCEPT !.client.game = op.user, !.game = op.user])
    ELSE Published([s EXCEPT !.game = NoUser])

(* achievementTriggered, after the library sent the unlock.                *)
Awarded(s) ==
    LET t == Begun(s, <<Op("award", 0, 0, s.client.user)>>)
    IN  Published([t EXCEPT !.game = t.client.game, !.user = t.client.user])

(* The library is given the answer of an operation that it waited for, or  *)
(* that it failed; an unlock that could not be sent is tried again.        *)
Completed(s, op, ok) ==
    CASE op.kind = "login"                -> LoginCompleted(s, op, ok)
      [] op.kind = "profile"              -> ProfileCompleted(s, op, ok)
      [] op.kind = "titles"               -> TitlesCompleted(s, op)
      [] op.kind = "identify" /\ ok       -> Begun(s, <<[op EXCEPT !.kind = "open"]>>)
      [] op.kind = "identify" /\ ~ok      -> GameLoadCompleted(s, op, FALSE)
      [] op.kind = "open"                 -> GameLoadCompleted(s, op, ok)
      [] op.kind = "award" /\ ~ok /\ s.client.user = op.user ->
             [s EXCEPT !.ops = @ \cup {op}, !.later = Append(@, op)]
      [] OTHER -> s

-----------------------------------------------------------------------------
(* One iteration of the worker: the user's command, processPending once or *)
(* twice, a frame or idle, publication.                                    *)
At(pc) == worker.pc = pc /\ ~ra.down
Goto(pc) == worker' = [worker EXCEPT !.pc = pc]

UserLogsIn ==
    /\ At("ui")
    /\ ra.seen.conn \in {"loggedOut", "error"}
    /\ bounds.logins < MaxLogins
    /\ \E u \in Users : ra' = [ra EXCEPT !.commands = Append(@, [type |-> "login", user |-> u])]
    /\ bounds' = [bounds EXCEPT !.logins = @ + 1]
    /\ Goto("pending")
UserLogsOut ==
    /\ At("ui")
    /\ \/ ra.seen.conn = "online"
       \/ ra.seen.conn = "offline" /\ ra.seen.user # NoUser
    /\ ra' = [ra EXCEPT !.commands = Append(@, [type |-> "logout", user |-> NoUser])]
    /\ UNCHANGED bounds
    /\ Goto("pending")
NoCommand == At("ui") /\ Goto("pending") /\ UNCHANGED <<ra, bounds>>

(* processPending: commands, refused requests, responses, refused ones.    *)
ProcessCommand ==
    /\ At("pending")
    /\ ra.commands # <<>>
    /\ LET c == Head(ra.commands)
           s == [ra EXCEPT !.commands = Tail(@)]
       IN  ra' = CASE c.type = "login"    -> BeginLogin(s, c.user)
                   [] c.type = "logout"   -> Logout(s)
                   [] c.type = "loadGame" -> BeginLoadGame(s)
    /\ UNCHANGED <<worker, bounds>>

FlushRejected ==
    /\ \/ At("pending") /\ ra.commands = <<>>
       \/ At("respond") /\ ra.taken = <<>>
    /\ ra.rejected # <<>>
    /\ LET op == Head(ra.rejected)
           s  == [ra EXCEPT !.rejected = Tail(@), !.ops = @ \ {op}]
       IN  ra' = Completed(MarkOffline(s), op, FALSE)
    /\ UNCHANGED <<worker, bounds>>

TakeCompleted ==
    /\ At("pending")
    /\ ra.commands = <<>> /\ ra.rejected = <<>>
    /\ ra' = [ra EXCEPT !.taken = ra.http.completed["api"], !.http = Taken(@, "api")]
    /\ Goto("respond")
    /\ UNCHANGED bounds

(* processResponse: an answer that arrived may still refuse what was asked.*)
ProcessResponse ==
    /\ At("respond")
    /\ ra.taken # <<>>
    /\ LET r == Head(ra.taken)
           s == [ra EXCEPT !.taken = Tail(@)]
       IN  IF \A c \in s.calls : c.id # r.id THEN ra' = s
           ELSE LET call == CHOOSE c \in s.calls : c.id = r.id
                    t == [s EXCEPT !.calls = @ \ {call}, !.ops = @ \ {call.op}]
                IN  IF ~r.ok THEN ra' = Completed(MarkOffline(t), call.op, FALSE)
                    ELSE \E granted \in IF call.op.kind \in {"login", "open"} THEN BOOLEAN ELSE {TRUE} :
                             ra' = Completed(MarkOnline(t), call.op, granted)
    /\ UNCHANGED <<worker, bounds>>

PendingProcessed ==
    /\ At("respond")
    /\ ra.taken = <<>> /\ ra.rejected = <<>>
    /\ Goto("frame")
    /\ UNCHANGED <<ra, bounds>>

(* doFrame with a game: an achievement may be triggered, once.             *)
DoFrame ==
    /\ At("frame")
    /\ ra.game # NoUser /\ ~worker.awarded
    /\ ra' = Awarded(ra)
    /\ worker' = [pc |-> "publish", again |-> FALSE, awarded |-> TRUE]
    /\ UNCHANGED bounds
(* While paused: idle processes again, and lets the library try again.     *)
Idle ==
    /\ At("frame")
    /\ \/ /\ ~worker.again
          /\ worker' = [worker EXCEPT !.pc = "pending", !.again = TRUE]
          /\ UNCHANGED ra
       \/ /\ worker.again
          /\ ra' = Called([ra EXCEPT !.later = <<>>], ra.later)
          /\ Goto("publish")
    /\ UNCHANGED bounds
NoFrame == At("frame") /\ ~worker.again /\ Goto("publish") /\ UNCHANGED <<ra, bounds>>

(* publishRaState and RaRealtimeLifecycleCoordinator::observeSnapshot.     *)
(* Mutant: a connection that came back unseen counts as the old one.       *)
ObservedState(coordinator, snapshot) ==
    [gen       |-> snapshot.connGen,
     requested |-> coordinator.requested
                   /\ snapshot.conn \notin {"loggedOut", "loggingIn", "offline"}]
Observed(coordinator, snapshot) ==
    [gen       |-> snapshot.connGen,
     requested |-> coordinator.requested
                   /\ coordinator.gen \in {-1, snapshot.connGen}
                   /\ snapshot.conn \notin {"loggedOut", "loggingIn", "offline"}]

PublishRaState ==
    /\ At("publish")
    /\ LET observed == Observed(ra.coordinator, ra.shown)
           asks == ra.shown.conn = "online" /\ ra.shown.game = NoUser /\ ~observed.requested
           s == [ra EXCEPT !.coordinator = [observed EXCEPT !.requested = @ \/ asks],
                           !.seen = [conn |-> ra.shown.conn, user |-> ra.shown.user]]
       IN  ra' = IF ~asks THEN s
                 ELSE [s EXCEPT !.commands = Append(@, [type |-> "loadGame", user |-> NoUser]),
                                !.askedIn = s.epoch]
    /\ worker' = [worker EXCEPT !.pc = "ui", !.again = FALSE]
    /\ UNCHANGED bounds

(* The end of the worker: shutdown cancels every call; the UI thread then  *)
(* stops the transport.                                                    *)
ShutdownSession ==
    /\ At("ui")
    /\ ra' = [ra EXCEPT !.down = TRUE, !.commands = <<>>, !.calls = {}, !.rejected = <<>>,
                        !.ops = {}, !.later = <<>>]
    /\ UNCHANGED <<worker, bounds>>
StopTransport ==
    /\ ra.down
    /\ \/ ~ra.http.stopping /\ ra' = [ra EXCEPT !.http = Stopped(@)]
       \/ CanJoin(ra.http) /\ ra' = [ra EXCEPT !.http = Joined(@)]
    /\ UNCHANGED <<worker, bounds>>

(* The thread of the channel.                                              *)
TransportThread ==
    /\ \/ CanStart(ra.http, "api") /\ ra' = [ra EXCEPT !.http = Started(@, "api")] /\ UNCHANGED bounds
       \/ /\ CanAnswer(ra.http, "api")
          /\ \E ok \in BOOLEAN :
                 /\ ~ok => bounds.failures < MaxFailures
                 /\ bounds' = [bounds EXCEPT !.failures = IF ok THEN @ ELSE @ + 1]
                 /\ ra' = [ra EXCEPT !.http = Answered(@, "api", ok)]
    /\ UNCHANGED worker

(* Token login, where the configuration has one.                           *)
SessionInit ==
    /\ \E cs \in {<<>>} \cup {<<[type |-> "login", user |-> u]>> : u \in Users} :
           ra = [NewSession EXCEPT !.commands = cs]
    /\ worker = [pc |-> "ui", again |-> FALSE, awarded |-> FALSE]
    /\ bounds = [logins |-> Len(ra.commands), failures |-> 0]

SessionNext ==
    \/ UserLogsIn \/ UserLogsOut \/ NoCommand
    \/ ProcessCommand \/ FlushRejected \/ TakeCompleted \/ ProcessResponse \/ PendingProcessed
    \/ DoFrame \/ Idle \/ NoFrame \/ PublishRaState
    \/ ShutdownSession \/ StopTransport \/ TransportThread

SessionSpec == SessionInit /\ [][SessionNext]_sessionVars

-----------------------------------------------------------------------------
(* Every operation of the library waits for exactly one answer that is     *)
(* still to come: a request in the transport or among the responses taken, *)
(* a refusal to be flushed, or the next idle.  After shutdown none waits.  *)
RequestsAreAnswered ==
    LET waiting == {c.op : c \in ra.calls}
        refused == Range(ra.rejected)
    IN  /\ ra.ops = waiting \cup refused \cup Range(ra.later)
        /\ Cardinality(ra.calls) + Len(ra.rejected) + Len(ra.later) = Cardinality(ra.ops)
        /\ ~ra.down => {c.id : c \in ra.calls} = Held(ra.http, "api") \cup IdsOf(ra.taken)
        /\ ra.http.outstanding["api"] = Cardinality(Held(ra.http, "api"))

(* What is shown belongs to one user: answers that arrive after a logout   *)
(* or for an earlier login leave no trace in the profile.                  *)
ShownIsOneUsers ==
    /\ ra.shown.game # NoUser => ra.shown.game = ra.shown.user
    /\ \A entry \in ra.shown.library : entry[2] = ra.shown.user

(* Online without a game, the worker has asked for it since this           *)
(* connection was made, even if the connection was lost and came back      *)
(* between two publications.                                               *)
GameIsAskedFor ==
    worker.pc = "ui" /\ ra.shown.conn = "online" /\ ra.shown.game = NoUser => ra.askedIn = ra.epoch
=============================================================================
