----------------------------- MODULE FrontendProofs -----------------------------
(***************************************************************************)
(* What the frontend keeps in files beside the machine: the stored login   *)
(* and the progress of RetroAchievements, and the feedback of RunLab, each *)
(* for every value of the constants.                                       *)
(*                                                                         *)
(* The stored login survives kills and power failures: at every moment a   *)
(* power failure leaves a whole file, or none, with a login that the next  *)
(* start may find, for every set of logins and any number of saves,        *)
(* logouts, failed calls and crashes.                                      *)
(*                                                                         *)
(* The progress of the game is that of the machine's state, because every  *)
(* progress that is kept belongs to the state it is kept with: that of the *)
(* game, those of the timeline, the one that waits and the one in a file.  *)
(*                                                                         *)
(* The user sees the newest message of the feedback file once the emulator *)
(* has caught up with it, however the watcher's and the tools' appends     *)
(* fall between the size that pollFeedback takes and the lines it reads,   *)
(* and through restarts of both programs, for every number of prompts,     *)
(* calls and faults.                                                       *)
(***************************************************************************)
EXTENDS RaConfig, RaProgress, RunLabPrompts, TLAPS

(* What a power failure leaves as it is.                                   *)
Whole(entry) == entry = NoEntry \/ \E login \in Contents : entry = File(login, TRUE)

Steps == {"start", "created", "written", "flushed", "changed", "done", "failed"}
CallType == [op : {"none", "write", "remove", "rename"}, step : Steps,
             contents : Contents \cup {Partial}, changed : BOOLEAN]

ConfigType ==
    /\ disk \in Disks
    /\ call \in CallType
    /\ disk.now["file"] \in disk.may["file"]

FileIsPromised ==
    \A entry \in disk.may["file"] : Whole(entry) /\ LoginOf(entry) \in promised

(* Which call each job is in, and what it has promised already.            *)
JobsCall ==
    /\ job = NoJob => call.op = "none" /\ call.step = "done"
    /\ job \in {"save", "invalidate"} =>
           call.op = "write" /\ call.contents \in Contents \cap promised
    /\ job = "invalidate" => call.contents = NoLogin
    /\ job \in {"remove", "quarantine"} => NoLogin \in promised
    /\ job = "remove" =>
           call.op = "remove" /\ \A entry \in disk.may["file"] : LoginOf(entry) = NoLogin
    /\ job = "quarantine" => call.op = "rename"
    /\ job \in {NoJob, "save", "invalidate", "remove", "quarantine"}

(* How far a write and a renaming have come.                               *)
CallsFile ==
    /\ call.op = "write" =>
           /\ call.step = "flushed" => disk.now["temporary"] = File(call.contents, TRUE)
           /\ call.step = "changed" => disk.now["file"] = File(call.contents, TRUE)
           /\ call.step = "done" => disk.may["file"] = {File(call.contents, TRUE)}
    /\ call.op = "rename" =>
           /\ call.step = "changed" => disk.now["file"] = NoEntry
           /\ call.step = "done" => disk.may["file"] = {NoEntry}

ConfigInv == ConfigType /\ FileIsPromised /\ JobsCall /\ CallsFile

-----------------------------------------------------------------------------
(* Entries and directories.                                                *)
LEMMA EntryFacts ==
    /\ NoEntry \in Entries /\ LoginOf(NoEntry) = NoLogin /\ Left(NoEntry) = {NoEntry}
    /\ \A c \in Contents \cup {Partial}, f \in BOOLEAN :
           File(c, f) \in Entries /\ File(c, f) # NoEntry /\ LoginOf(File(c, f)) = c
    /\ \A c \in Contents : Left(File(c, TRUE)) = {File(c, TRUE)}
<1>1. \A c, f : File(c, f) # NoEntry /\ File(c, f).contents = c /\ File(c, f).flushed = f
  <2> SUFFICES ASSUME NEW c, NEW f
               PROVE  File(c, f) # NoEntry /\ File(c, f).contents = c /\ File(c, f).flushed = f
    OBVIOUS
  <2>1. File(c, f).kind = "file" /\ NoEntry.kind = "none" /\ "file" # "none"
    BY DEF File, NoEntry
  <2>2. File(c, f).contents = c /\ File(c, f).flushed = f
    BY DEF File
  <2> QED BY <2>1, <2>2
<1>2. NoEntry \in Entries /\ \A c \in Contents \cup {Partial}, f \in BOOLEAN : File(c, f) \in Entries
  BY DEF Entries
<1>3. LoginOf(NoEntry) = NoLogin /\ \A c, f : LoginOf(File(c, f)) = c
  BY <1>1 DEF LoginOf
<1>4. Left(NoEntry) = {NoEntry}
  BY DEF Left
<1>5. \A c : Left(File(c, TRUE)) = {File(c, TRUE)}
  BY <1>1 DEF Left
<1> QED BY <1>1, <1>2, <1>3, <1>4, <1>5

LEMMA PutFacts ==
    ASSUME NEW d \in Disks, NEW n \in Names, NEW entry \in Entries
    PROVE  /\ Put(d, n, entry) \in Disks
           /\ Put(d, n, entry).now[n] = entry
           /\ Put(d, n, entry).may[n] = d.may[n] \cup {entry}
           /\ \A k \in Names \ {n} :
                Put(d, n, entry).now[k] = d.now[k] /\ Put(d, n, entry).may[k] = d.may[k]
<1> DEFINE now == [d.now EXCEPT ![n] = entry]
           may == [d.may EXCEPT ![n] = @ \cup {entry}]
<1>1. d.now \in [Names -> Entries] /\ d.may \in [Names -> SUBSET Entries]
  BY DEF Disks
<1>2. now \in [Names -> Entries] /\ may \in [Names -> SUBSET Entries]
  BY <1>1
<1>3. /\ now[n] = entry /\ may[n] = d.may[n] \cup {entry}
      /\ \A k \in Names \ {n} : now[k] = d.now[k] /\ may[k] = d.may[k]
  BY <1>1
<1>4. Put(d, n, entry) = [now |-> now, may |-> may]
  BY DEF Put
<1> HIDE DEF now, may
<1>5. Put(d, n, entry).now = now /\ Put(d, n, entry).may = may /\ Put(d, n, entry) \in Disks
  BY <1>2, <1>4 DEF Disks
<1> QED BY <1>3, <1>5

LEMMA SyncedFacts ==
    ASSUME NEW d \in Disks
    PROVE  /\ Synced(d) \in Disks
           /\ \A k \in Names : Synced(d).now[k] = d.now[k] /\ Synced(d).may[k] = {d.now[k]}
<1> DEFINE may == [n \in Names |-> {d.now[n]}]
<1>1. d.now \in [Names -> Entries]
  BY DEF Disks
<1>2. may \in [Names -> SUBSET Entries] /\ \A k \in Names : may[k] = {d.now[k]}
  BY <1>1
<1>3. Synced(d) = [now |-> d.now, may |-> may]
  BY DEF Synced
<1> HIDE DEF may
<1> QED BY <1>1, <1>2, <1>3 DEF Disks

LEMMA MovedFacts ==
    ASSUME NEW d \in Disks, NEW from \in Names, NEW to \in Names, from # to
    PROVE  /\ Moved(d, from, to) \in Disks
           /\ Moved(d, from, to).now[to] = d.now[from]
           /\ Moved(d, from, to).now[from] = NoEntry
           /\ Moved(d, from, to).may[to] = d.may[to] \cup {d.now[from]}
           /\ Moved(d, from, to).may[from] = d.may[from] \cup {NoEntry}
<1> DEFINE put == Put(d, to, d.now[from])
<1>1. d.now[from] \in Entries /\ NoEntry \in Entries
  BY EntryFacts DEF Disks
<1>2. /\ put \in Disks /\ put.now[to] = d.now[from]
      /\ put.may[to] = d.may[to] \cup {d.now[from]} /\ put.may[from] = d.may[from]
  BY <1>1, PutFacts
<1>3. Moved(d, from, to) = Put(put, from, NoEntry)
  BY DEF Moved
<1> HIDE DEF put
<1>4. put \in Disks /\ from \in Names /\ NoEntry \in Entries
  BY <1>1, <1>2
<1>5. /\ Put(put, from, NoEntry) \in Disks
      /\ Put(put, from, NoEntry).now[from] = NoEntry
      /\ Put(put, from, NoEntry).may[from] = put.may[from] \cup {NoEntry}
  BY <1>4, PutFacts
<1>6. \A k \in Names \ {from} : Put(put, from, NoEntry).now[k] = put.now[k]
                               /\ Put(put, from, NoEntry).may[k] = put.may[k]
  BY <1>4, PutFacts
<1> QED BY <1>2, <1>3, <1>5, <1>6

(* A clean-up leaves the file alone; it may have synced the directory.     *)
LEMMA CleanedUpFacts ==
    ASSUME disk \in Disks, CleanedUp
    PROVE  /\ disk' \in Disks
           /\ disk'.now["file"] = disk.now["file"]
           /\ disk'.may["file"] \in {disk.may["file"], {disk.now["file"]}}
<1> PICK unlinked \in BOOLEAN, synced \in BOOLEAN :
        LET d == IF unlinked THEN Put(disk, "temporary", NoEntry) ELSE disk
        IN  disk' = IF unlinked /\ synced THEN Synced(d) ELSE d
  BY DEF CleanedUp
<1> DEFINE d == IF unlinked THEN Put(disk, "temporary", NoEntry) ELSE disk
<1>1. "temporary" \in Names /\ "file" \in Names /\ "temporary" # "file"
  BY DEF Names
<1>2. d \in Disks /\ d.now["file"] = disk.now["file"] /\ d.may["file"] = disk.may["file"]
  <2> DEFINE put == Put(disk, "temporary", NoEntry)
  <2>1. /\ put \in Disks
        /\ put.now["file"] = disk.now["file"] /\ put.may["file"] = disk.may["file"]
    BY <1>1, PutFacts, EntryFacts
  <2> HIDE DEF put
  <2>2. d = IF unlinked THEN put ELSE disk
    BY DEF put
  <2> HIDE DEF d
  <2> QED BY <1>1, <2>1, <2>2
<1>3. disk' = IF unlinked /\ synced THEN Synced(d) ELSE d
  OBVIOUS
<1> HIDE DEF d
<1>4. Synced(d) \in Disks /\ Synced(d).now["file"] = d.now["file"]
      /\ Synced(d).may["file"] = {d.now["file"]}
  BY <1>1, <1>2, SyncedFacts
<1> QED BY <1>2, <1>3, <1>4

-----------------------------------------------------------------------------
(* One step of a call.                                                     *)
LEMMA ReachedFacts ==
    ASSUME call \in CallType, NEW step \in Steps, Reached(step)
    PROVE  /\ call' \in CallType
           /\ call'.op = call.op /\ call'.step = step /\ call'.contents = call.contents
BY DEF Reached, CallType

(* A call that goes on keeps the invariant if what it adds to what a power *)
(* failure may leave is a file that its job has promised.                  *)
LEMMA CallGoesOn ==
    ASSUME ConfigInv, UNCHANGED <<job, promised>>, job # NoJob,
           call' \in CallType, call'.op = call.op, call'.contents = call.contents,
           disk' \in Disks, disk'.now["file"] \in disk'.may["file"],
           \A entry \in disk'.may["file"] :
               \/ entry \in disk.may["file"]
               \/ Whole(entry) /\ LoginOf(entry) \in promised
                  /\ (job = "remove" => LoginOf(entry) = NoLogin),
           CallsFile'
    PROVE  ConfigInv'
<1>1. ConfigType'
  BY DEF ConfigType
<1>2. FileIsPromised'
  BY DEF ConfigInv, FileIsPromised
<1>3. JobsCall'
  BY DEF ConfigInv, JobsCall
<1> QED BY <1>1, <1>2, <1>3 DEF ConfigInv

LEMMA CallStepPreserves ==
    ASSUME ConfigInv, CallStep, UNCHANGED <<job, promised>>
    PROVE  ConfigInv'
<1> DEFINE file == disk.now["file"]
           may == disk.may["file"]
<1>0. /\ disk \in Disks /\ call \in CallType /\ file \in may
      /\ "file" \in Names /\ "temporary" \in Names /\ "quarantine" \in Names
      /\ "temporary" # "file" /\ "quarantine" # "file"
  BY DEF ConfigInv, ConfigType, Names
<1>1. ASSUME Fails, UNCHANGED disk \/ CleanedUp, job # NoJob
      PROVE  ConfigInv'
  <2>1. call' \in CallType /\ call'.op = call.op /\ call'.step = "failed"
        /\ call'.contents = call.contents
    BY <1>0, <1>1, ReachedFacts DEF Fails, Steps
  <2>2. disk' \in Disks /\ disk'.now["file"] = file /\ disk'.may["file"] \in {may, {file}}
    BY <1>0, <1>1, CleanedUpFacts
  <2>3. CallsFile'
    BY <2>1 DEF CallsFile
  <2> QED BY <1>0, <1>1, <2>1, <2>2, <2>3, CallGoesOn
<1>2. ASSUME NEW entry \in Entries, disk' = Put(disk, "temporary", entry)
      PROVE  /\ disk' \in Disks /\ disk'.now["file"] = file /\ disk'.may["file"] = may
             /\ disk'.now["temporary"] = entry
  BY <1>0, <1>2, PutFacts
<1>3. call.op = "write" =>
          job \in {"save", "invalidate"} /\ call.contents \in Contents \cap promised
  BY DEF ConfigInv, JobsCall, NoJob
<1>4. (call.op \in {"remove", "rename"} \/ call.step = "changed") => job # NoJob
  BY DEF ConfigInv, JobsCall
<1>5. call.op \in {"remove", "rename"} => NoLogin \in promised
  BY DEF ConfigInv, JobsCall, NoJob
<1>6. ASSUME call.op = "write", NEW step \in {"created", "written", "flushed"}, Reached(step),
             NEW flushed \in BOOLEAN, NEW contents \in {call.contents, Partial},
             disk' = Put(disk, "temporary", File(contents, flushed)),
             step = "flushed" => contents = call.contents /\ flushed = TRUE
      PROVE  ConfigInv'
  <2>1. call' \in CallType /\ call'.op = call.op /\ call'.step = step
        /\ call'.contents = call.contents
    BY <1>0, <1>6, ReachedFacts DEF Steps
  <2>2. File(contents, flushed) \in Entries
    BY <1>3, <1>6, EntryFacts
  <2>3. /\ disk' \in Disks /\ disk'.now["file"] = file /\ disk'.may["file"] = may
        /\ disk'.now["temporary"] = File(contents, flushed)
    BY <1>2, <1>6, <2>2
  <2>4. CallsFile'
    BY <1>6, <2>1, <2>3 DEF CallsFile
  <2> QED BY <1>0, <1>3, <1>6, <2>1, <2>3, <2>4, CallGoesOn DEF NoJob
<1>7. CASE CreateTemporary
  BY <1>1, <1>3, <1>6, <1>7 DEF CreateTemporary, InCall, NoJob
<1>8. CASE WriteAll
  BY <1>1, <1>3, <1>6, <1>8 DEF WriteAll, InCall, NoJob
<1>9. CASE Flush
  BY <1>1, <1>3, <1>6, <1>9 DEF Flush, InCall, NoJob
<1>10. CASE Replace
  <2>1. CASE CleanedUp /\ Fails
    BY <1>1, <1>3, <1>10, <2>1 DEF Replace, InCall, NoJob
  <2>2. CASE disk' = Moved(disk, "temporary", "file") /\ Reached("changed")
    <3> DEFINE new == File(call.contents, TRUE)
    <3>1. disk.now["temporary"] = new /\ call.op = "write"
      BY <1>10 DEF Replace, InCall, ConfigInv, CallsFile
    <3>2. disk' \in Disks /\ disk'.now["file"] = new /\ disk'.may["file"] = may \cup {new}
      <4>1. /\ disk' \in Disks /\ disk'.now["file"] = disk.now["temporary"]
            /\ disk'.may["file"] = may \cup {disk.now["temporary"]}
        BY <1>0, <2>2, MovedFacts
      <4> QED BY <3>1, <4>1
    <3>3. Whole(new) /\ LoginOf(new) \in promised
      BY <1>3, <3>1, EntryFacts DEF Whole
    <3>4. call' \in CallType /\ call'.op = call.op /\ call'.step = "changed"
          /\ call'.contents = call.contents
      BY <1>0, <2>2, ReachedFacts DEF Steps
    <3>5. CallsFile'
      BY <3>1, <3>2, <3>4 DEF CallsFile
    <3> HIDE DEF new
    <3> QED BY <1>3, <3>1, <3>2, <3>3, <3>4, <3>5, CallGoesOn DEF NoJob
  <2> QED BY <1>10, <2>1, <2>2 DEF Replace
<1>11. ASSUME call.op \in {"remove", "rename"},
              call' = [call EXCEPT !.step = "changed", !.changed = TRUE],
              disk' \in Disks, disk'.now["file"] = NoEntry,
              disk'.may["file"] = may \cup {NoEntry}
       PROVE  ConfigInv'
  <2>1. call' \in CallType /\ call'.op = call.op /\ call'.step = "changed"
        /\ call'.contents = call.contents
    BY <1>0, <1>11 DEF CallType, Steps
  <2>2. CallsFile'
    BY <1>11, <2>1 DEF CallsFile
  <2>3. Whole(NoEntry) /\ LoginOf(NoEntry) = NoLogin /\ NoLogin \in promised
    BY <1>5, <1>11, EntryFacts DEF Whole
  <2> QED BY <1>4, <1>11, <2>1, <2>2, <2>3, CallGoesOn
<1>12. CASE Unlink
  <2>1. call.op = "remove"
    BY <1>12 DEF Unlink, InCall
  <2>2. CASE UNCHANGED disk /\ Fails
    BY <1>1, <1>4, <2>1, <2>2
  <2>3. CASE disk.now["file"] = NoEntry /\ UNCHANGED disk /\ Reached("done")
    <3>1. call' \in CallType /\ call'.op = call.op /\ call'.contents = call.contents
      BY <1>0, <2>3, ReachedFacts DEF Steps
    <3>2. CallsFile'
      BY <2>1, <3>1 DEF CallsFile
    <3> QED BY <1>0, <1>4, <2>1, <2>3, <3>1, <3>2, CallGoesOn
  <2>4. CASE /\ disk' = Put(disk, "file", NoEntry)
             /\ call' = [call EXCEPT !.step = "changed", !.changed = TRUE]
    <3>1. disk' \in Disks /\ disk'.now["file"] = NoEntry /\ disk'.may["file"] = may \cup {NoEntry}
      BY <1>0, <2>4, PutFacts, EntryFacts
    <3> QED BY <1>11, <2>1, <2>4, <3>1
  <2> QED BY <1>12, <2>2, <2>3, <2>4 DEF Unlink
<1>13. CASE RenameExclusive
  <2>1. call.op = "rename"
    BY <1>13 DEF RenameExclusive, InCall
  <2>2. CASE UNCHANGED disk /\ Fails
    BY <1>1, <1>4, <2>1, <2>2
  <2>3. CASE /\ disk' = Moved(disk, "file", "quarantine")
             /\ call' = [call EXCEPT !.step = "changed", !.changed = TRUE]
    <3>1. disk' \in Disks /\ disk'.now["file"] = NoEntry /\ disk'.may["file"] = may \cup {NoEntry}
      BY <1>0, <2>3, MovedFacts
    <3> QED BY <1>11, <2>1, <2>3, <3>1
  <2> QED BY <1>13, <2>2, <2>3 DEF RenameExclusive
<1>14. CASE SyncDirectory
  <2>1. call.step = "changed" /\ job # NoJob
    BY <1>4, <1>14 DEF SyncDirectory
  <2>2. CASE UNCHANGED disk /\ Fails
    BY <1>1, <2>1, <2>2
  <2>3. CASE disk' = Synced(disk) /\ Reached("done")
    <3>1. disk' \in Disks /\ disk'.now["file"] = file /\ disk'.may["file"] = {file}
      BY <1>0, <2>3, SyncedFacts
    <3>2. call' \in CallType /\ call'.op = call.op /\ call'.step = "done"
          /\ call'.contents = call.contents
      BY <1>0, <2>3, ReachedFacts DEF Steps
    <3>3. CallsFile'
      BY <2>1, <3>1, <3>2 DEF ConfigInv, CallsFile
    <3> QED BY <1>0, <2>1, <3>1, <3>2, <3>3, CallGoesOn
  <2> QED BY <1>14, <2>2, <2>3 DEF SyncDirectory
<1> QED
  BY <1>7, <1>8, <1>9, <1>10, <1>12, <1>13, <1>14 DEF CallStep

-----------------------------------------------------------------------------
(* The jobs between the calls, and crashes.                                *)
LEMMA ConfigBegins == ConfigInit => ConfigInv
<1> SUFFICES ASSUME ConfigInit PROVE ConfigInv
  OBVIOUS
<1> PICK entry \in {NoEntry} \cup {File(login, TRUE) : login \in Contents} :
        /\ disk = Synced([now |-> [n \in Names |-> IF n = "file" THEN entry ELSE NoEntry],
                          may |-> [n \in Names |-> {}]])
        /\ promised = {LoginOf(entry)}
  BY DEF ConfigInit
<1> DEFINE now == [n \in Names |-> IF n = "file" THEN entry ELSE NoEntry]
           may == [n \in Names |-> {}]
<1>1. Whole(entry) /\ entry \in Entries /\ NoEntry \in Entries
  BY EntryFacts DEF Whole
<1>2. now \in [Names -> Entries] /\ may \in [Names -> SUBSET Entries] /\ now["file"] = entry
  BY <1>1 DEF Names
<1> HIDE DEF now, may
<1>3. [now |-> now, may |-> may] \in Disks /\ [now |-> now, may |-> may].now = now
  BY <1>2 DEF Disks
<1>4. disk \in Disks /\ disk.now["file"] = entry /\ disk.may["file"] = {entry}
  <2>1. disk = Synced([now |-> now, may |-> may])
    BY DEF now, may
  <2> QED BY <1>2, <1>3, <2>1, SyncedFacts DEF Names
<1>5. call = NoCall /\ job = NoJob
  BY DEF ConfigInit
<1>6. ConfigType
  BY <1>4, <1>5 DEF ConfigType, CallType, Steps, NoCall
<1>7. FileIsPromised
  BY <1>1, <1>4 DEF FileIsPromised
<1>8. JobsCall /\ CallsFile
  BY <1>5 DEF JobsCall, CallsFile, NoCall, NoJob
<1> QED BY <1>6, <1>7, <1>8 DEF ConfigInv

(* Between two calls the directory stays, and what is promised covers it.  *)
LEMMA JobGoesOn ==
    ASSUME ConfigInv, UNCHANGED disk, call' \in CallType, JobsCall', CallsFile',
           \A entry \in disk.may["file"] : LoginOf(entry) \in promised'
    PROVE  ConfigInv'
BY DEF ConfigInv, ConfigType, FileIsPromised

LEMMA JobStepPreserves ==
    ASSUME ConfigInv,
           Save \/ Invalidate \/ InvalidateNothing \/ SaveEnds \/ Overwritten \/ NotOverwritten
               \/ RemoveEnds \/ QuarantineEnds
    PROVE  ConfigInv'
<1>0. \A entry \in disk.may["file"] : LoginOf(entry) \in promised
  BY DEF ConfigInv, FileIsPromised
<1>1. ASSUME NEW login \in Contents, NEW name \in {"save", "invalidate"}, Starts(name, login),
             name = "invalidate" => login = NoLogin
      PROVE  ConfigInv'
  <2>1. call' \in CallType /\ call'.op = "write" /\ call'.step = "start"
        /\ call'.contents = login
    BY <1>1 DEF Starts, Writes, CallType, Steps
  <2>2. job' = name /\ login \in promised' /\ promised \subseteq promised'
    BY <1>1 DEF Starts
  <2>3. JobsCall' /\ CallsFile'
    BY <1>1, <2>1, <2>2 DEF JobsCall, CallsFile, NoJob
  <2> QED BY <1>0, <1>1, <2>1, <2>2, <2>3, JobGoesOn DEF Starts
<1>2. ASSUME GivesUp PROVE ConfigInv'
  <2>1. call' \in CallType /\ JobsCall' /\ CallsFile'
    BY <1>2 DEF GivesUp, NoCall, NoJob, JobsCall, CallsFile, CallType, Steps
  <2> QED BY <1>0, <1>2, <2>1, JobGoesOn DEF GivesUp
<1>3. ASSUME NEW login, Reports(login),
             \A entry \in disk.may["file"] : LoginOf(entry) = login
      PROVE  ConfigInv'
  <2>1. call' \in CallType /\ JobsCall' /\ CallsFile'
    BY <1>3 DEF Reports, NoCall, NoJob, JobsCall, CallsFile, CallType, Steps
  <2> QED BY <1>3, <2>1, JobGoesOn DEF Reports
<1>4. ASSUME NoLogin \in promised, Continues("quarantine", Quarantines)
      PROVE  ConfigInv'
  <2>1. call' \in CallType /\ call'.op = "rename" /\ call'.step = "start"
    BY <1>4 DEF Continues, Quarantines, CallType, Steps
  <2>2. JobsCall' /\ CallsFile'
    BY <1>4, <2>1 DEF Continues, JobsCall, CallsFile, NoJob
  <2> QED BY <1>0, <1>4, <2>1, <2>2, JobGoesOn DEF Continues
<1>5. CASE Save
  BY <1>1, <1>5 DEF Save
<1>6. CASE Invalidate
  BY <1>1, <1>6, ContentsAssumption DEF Invalidate
<1>7. CASE SaveEnds
  <2>1. call.op = "write" /\ call.contents \in Contents
    BY <1>7 DEF SaveEnds, ConfigInv, JobsCall
  <2>2. CASE Succeeded /\ Reports(call.contents)
    <3>1. disk.may["file"] = {File(call.contents, TRUE)}
      BY <2>1, <2>2 DEF Succeeded, ConfigInv, CallsFile
    <3> QED BY <1>3, <2>1, <2>2, <3>1, EntryFacts
  <2> QED BY <1>2, <1>7, <2>2 DEF SaveEnds
<1>8. CASE Overwritten
  <2>1. call.op = "write" /\ call.contents = NoLogin /\ NoLogin \in promised
        /\ disk.may["file"] = {File(NoLogin, TRUE)}
    BY <1>8 DEF Overwritten, Succeeded, ConfigInv, JobsCall, CallsFile
  <2>2. \A entry \in disk.may["file"] : LoginOf(entry) = NoLogin
    BY <2>1, ContentsAssumption, EntryFacts
  <2>3. call' \in CallType /\ call'.op = "remove" /\ call'.step = "start" /\ job' = "remove"
        /\ UNCHANGED <<disk, promised>>
    BY <1>8 DEF Overwritten, Continues, Removes, CallType, Steps
  <2>4. JobsCall' /\ CallsFile'
    BY <2>1, <2>2, <2>3 DEF JobsCall, CallsFile, NoJob
  <2> QED BY <1>0, <2>3, <2>4, JobGoesOn
<1>9. CASE NotOverwritten
  <2>1. NoLogin \in promised
    BY <1>9 DEF NotOverwritten, ConfigInv, JobsCall
  <2> QED BY <1>2, <1>4, <1>9, <2>1 DEF NotOverwritten
<1>10. CASE RemoveEnds
  <2>1. NoLogin \in promised /\ \A entry \in disk.may["file"] : LoginOf(entry) = NoLogin
    BY <1>10 DEF RemoveEnds, ConfigInv, JobsCall
  <2> QED BY <1>2, <1>3, <1>4, <1>10, <2>1 DEF RemoveEnds
<1>11. CASE QuarantineEnds
  <2>1. NoLogin \in promised /\ call.op = "rename"
    BY <1>11 DEF QuarantineEnds, ConfigInv, JobsCall
  <2>2. CASE Succeeded /\ Reports(NoLogin)
    <3>1. disk.may["file"] = {NoEntry}
      BY <2>1, <2>2 DEF Succeeded, ConfigInv, CallsFile
    <3> QED BY <1>3, <2>2, <3>1, EntryFacts
  <2> QED BY <1>2, <1>4, <1>11, <2>1, <2>2 DEF QuarantineEnds
<1>12. CASE InvalidateNothing
  BY <1>12 DEF InvalidateNothing, ConfigInv, ConfigType, FileIsPromised, JobsCall, CallsFile
<1> QED BY <1>5, <1>6, <1>7, <1>8, <1>9, <1>10, <1>11, <1>12

LEMMA CrashPreserves == ASSUME ConfigInv, Crash PROVE ConfigInv'
<1>1. call' = NoCall /\ job' = NoJob /\ UNCHANGED promised
  BY DEF Crash, Killed, PowerFailure
<1>2. call' \in CallType /\ JobsCall' /\ CallsFile'
  BY <1>1 DEF NoCall, NoJob, JobsCall, CallsFile, CallType, Steps
<1>3. CASE Killed
  BY <1>1, <1>2, <1>3, JobGoesOn DEF Killed, ConfigInv, FileIsPromised
<1>4. CASE PowerFailure
  <2> DEFINE Survives(f, t, q) == [n \in Names |->
                 CASE n = "file" -> f [] n = "temporary" -> t [] OTHER -> q]
  <2>1. PICK f \in Leaves("file"), t \in Leaves("temporary"), q \in Leaves("quarantine") :
            disk' = Synced([disk EXCEPT !.now = Survives(f, t, q)])
    BY <1>4 DEF PowerFailure
  <2>2. /\ disk \in Disks /\ \A n \in Names : disk.may[n] \subseteq Entries
        /\ "file" \in Names /\ "temporary" \in Names /\ "quarantine" \in Names
    BY DEF ConfigInv, ConfigType, Disks, Names
  <2>3. \A n \in Names : Leaves(n) \subseteq Entries
    <3>1. \A entry \in Entries : Left(entry) \subseteq Entries
      <4> SUFFICES ASSUME NEW entry \in Entries PROVE Left(entry) \subseteq Entries
        OBVIOUS
      <4>1. CASE entry = NoEntry
        BY <4>1, EntryFacts
      <4>2. CASE entry # NoEntry
        <5> PICK c \in Contents \cup {Partial}, u \in BOOLEAN : entry = File(c, u)
          BY <4>2 DEF Entries
        <5>1. entry.contents = c
          BY DEF File
        <5>2. File(c, TRUE) \in Entries /\ File(Partial, TRUE) \in Entries
          BY EntryFacts
        <5> QED BY <5>1, <5>2 DEF Left
      <4> QED BY <4>1, <4>2
    <3> QED BY <2>2, <3>1 DEF Leaves
  <2>4. Leaves("file") \subseteq disk.may["file"]
    <3>1. \A entry \in disk.may["file"] : Left(entry) = {entry}
      BY EntryFacts DEF ConfigInv, FileIsPromised, Whole
    <3> QED BY <3>1 DEF Leaves
  <2>5. Survives(f, t, q) \in [Names -> Entries] /\ Survives(f, t, q)["file"] = f
    BY <2>2, <2>3
  <2> HIDE DEF Survives
  <2>6. [disk EXCEPT !.now = Survives(f, t, q)] \in Disks
        /\ [disk EXCEPT !.now = Survives(f, t, q)].now = Survives(f, t, q)
    BY <2>2, <2>5 DEF Disks
  <2>7. disk' \in Disks /\ disk'.now["file"] = f /\ disk'.may["file"] = {f}
    BY <2>1, <2>2, <2>5, <2>6, SyncedFacts
  <2>8. ConfigType' /\ FileIsPromised'
    BY <1>1, <1>2, <2>4, <2>7 DEF ConfigInv, ConfigType, FileIsPromised
  <2> QED BY <1>2, <2>8 DEF ConfigInv
<1> QED BY <1>3, <1>4 DEF Crash

LEMMA ConfigKeeps == ConfigInv /\ [ConfigNext]_configVars => ConfigInv'
<1> SUFFICES ASSUME ConfigInv, [ConfigNext]_configVars PROVE ConfigInv'
  OBVIOUS
<1>1. CASE UNCHANGED configVars
  BY <1>1 DEF configVars, ConfigInv, ConfigType, FileIsPromised, JobsCall, CallsFile
<1>2. CASE ConfigStep
  BY <1>2, CallStepPreserves DEF ConfigStep
<1> QED BY <1>1, <1>2, JobStepPreserves, CrashPreserves DEF ConfigNext

(* What was reported as stored or removed is so at the next start, and a   *)
(* job that failed or was cut short leaves the login before it or its own, *)
(* whole: the temporary file is flushed before it replaces the login, and  *)
(* the directory is synced before anything is reported                     *)
(* (writePrivateFileAtomically, private_file_io.cpp:411-522, and           *)
(* invalidateRetroAchievementsConfig, retroachievements_config.cpp:368-411). *)
THEOREM LoginSurvives == ConfigSpec => []PersistedLoginSurvives
<1>1. ConfigInv => PersistedLoginSurvives
  <2> SUFFICES ASSUME ConfigInv, NEW entry \in disk.may["file"], NEW left \in Left(entry)
               PROVE  LoginOf(left) \in promised
    BY DEF PersistedLoginSurvives
  <2>1. Left(entry) = {entry}
    BY EntryFacts DEF ConfigInv, FileIsPromised, Whole
  <2> QED BY <2>1 DEF ConfigInv, FileIsPromised
<1> QED BY ConfigBegins, ConfigKeeps, <1>1, PTL DEF ConfigSpec

-----------------------------------------------------------------------------
(* The achievements' progress.                                             *)
AnyRom == Roms \cup {0}
Progresses == [at : Int, rom : AnyRom]
Games == [at : Int, loaded : BOOLEAN, progress : Progresses, rom : Roms]
LineEntries == [at : Int, progress : Progresses]
Lines == [entries : Seq(LineEntries), cursor : Nat, known : BOOLEAN]
Deferrals == [waits : BOOLEAN, stored : Progresses, since : BOOLEAN, resets : BOOLEAN]
FilesType == [state : Int, old : BOOLEAN,
              beside : [fingerprint : Int, progress : Progresses]]

(* A progress belongs to a state of the machine, or it is none.            *)
Belongs(progress, at) == progress = NoProgress \/ progress.at = at

GameFollows(g) ==
    /\ g \in Games
    /\ g.loaded => g.progress = [at |-> g.at, rom |-> g.rom]

LineBelongs(l) ==
    /\ l \in Lines
    /\ l.cursor \in 0..Len(l.entries)
    /\ \A i \in 1..Len(l.entries) : Belongs(l.entries[i].progress, l.entries[i].at)

(* What waits belongs to the state of the machine, from which no step leads*)
(* away: the timeline has that state only.                                 *)
DeferredBelongs(d, g, l) ==
    /\ d \in Deferrals
    /\ d.waits => Belongs(d.stored, g.at) /\ Len(l.entries) = 1 /\ l.cursor = 1

Follows(s) ==
    /\ s = [game |-> s.game, deferred |-> s.deferred, line |-> s.line]
    /\ GameFollows(s.game)
    /\ LineBelongs(s.line)
    /\ DeferredBelongs(s.deferred, s.game, s.line)

FilesBelong ==
    /\ files \in FilesType
    /\ files.beside.fingerprint # Absent =>
           files.beside.progress.at = files.beside.fingerprint

ProgressInv == computed \in Int /\ Follows(Current) /\ FilesBelong

-----------------------------------------------------------------------------
LEMMA NoProgressIsOne == NoProgress \in Progresses
BY DEF NoProgress, Progresses, AnyRom

(* The progress of a game, made anew and restored.                         *)
LEMMA FreshFollows ==
  ASSUME NEW g \in Games
  PROVE  /\ GameFollows(Fresh(g))
         /\ Fresh(g).at = g.at /\ Fresh(g).loaded = g.loaded /\ Fresh(g).rom = g.rom
BY DEF GameFollows, Fresh, Games, Progresses, AnyRom

LEMMA RestoredFollows ==
  ASSUME NEW g \in Games, NEW stored \in Progresses, Belongs(stored, g.at)
  PROVE  /\ GameFollows(RestoredTo(g, stored))
         /\ RestoredTo(g, stored).at = g.at
         /\ RestoredTo(g, stored).loaded = g.loaded
<1>1. CASE g.loaded /\ stored # NoProgress /\ stored.rom = g.rom
  <2>1. RestoredTo(g, stored) = [g EXCEPT !.progress = stored]
    BY <1>1 DEF RestoredTo
  <2>2. stored = [at |-> g.at, rom |-> g.rom]
    BY <1>1 DEF Belongs, Progresses
  <2> QED
    BY <2>1, <2>2 DEF GameFollows, Games
<1>2. CASE ~(g.loaded /\ stored # NoProgress /\ stored.rom = g.rom)
  BY <1>2, FreshFollows DEF RestoredTo
<1> QED
  BY <1>1, <1>2

LEMMA EntryBelongs ==
  ASSUME NEW g, GameFollows(g)
  PROVE  /\ Entry(g) \in LineEntries
         /\ Belongs(Entry(g).progress, Entry(g).at)
BY NoProgressIsOne DEF GameFollows, Entry, Serialized, LineEntries, Games, Belongs

(* The timeline, started anew and grown.                                   *)
LEMMA ResetBelongs ==
  ASSUME NEW g, GameFollows(g), NEW known \in BOOLEAN
  PROVE  /\ LineBelongs(LineReset(g, known))
         /\ Len(LineReset(g, known).entries) = 1
         /\ LineReset(g, known).cursor = 1
<1> DEFINE e == Entry(g)
<1>1. e \in LineEntries /\ Belongs(e.progress, e.at)
  BY EntryBelongs
<1>2. LineReset(g, known) = [entries |-> <<e>>, cursor |-> 1, known |-> known]
  BY DEF LineReset
<1> HIDE DEF e
<1>3. <<e>> \in Seq(LineEntries) /\ Len(<<e>>) = 1 /\ <<e>>[1] = e
  BY <1>1
<1> QED
  BY <1>1, <1>2, <1>3 DEF LineBelongs, Lines

LEMMA CapturedBelongs ==
  ASSUME NEW l, LineBelongs(l), NEW g, GameFollows(g)
  PROVE  LineBelongs(Captured(l, g))
<1> DEFINE e    == Entry(g)
           past == SubSeq(l.entries, 1, l.cursor)
           all  == Append(past, e)
           new  == IF Len(all) > ProgressHistory THEN Tail(all) ELSE all
<1> l \in Lines /\ l.entries \in Seq(LineEntries) /\ l.cursor \in 0..Len(l.entries)
  BY DEF LineBelongs, Lines
<1>1. e \in LineEntries /\ Belongs(e.progress, e.at)
  BY EntryBelongs
<1>2. /\ past \in Seq(LineEntries)
      /\ Len(past) = l.cursor
      /\ \A i \in 1..Len(past) : past[i] = l.entries[i]
  OBVIOUS
<1>3. \A i \in 1..Len(past) : Belongs(past[i].progress, past[i].at)
  BY <1>2 DEF LineBelongs
<1>4. Captured(l, g) = [l EXCEPT !.entries = new, !.cursor = Len(new)]
  BY DEF Captured
<1> HIDE DEF e, past
<1>5. /\ all \in Seq(LineEntries)
      /\ Len(all) = Len(past) + 1
      /\ \A i \in 1..Len(all) : Belongs(all[i].progress, all[i].at)
  BY <1>1, <1>2, <1>3
<1> HIDE DEF all
<1>6. /\ new \in Seq(LineEntries)
      /\ \A i \in 1..Len(new) : Belongs(new[i].progress, new[i].at)
  BY <1>2, <1>5
<1> HIDE DEF new
<1>7. Captured(l, g) = [entries |-> new, cursor |-> Len(new), known |-> l.known]
  BY <1>4 DEF Lines
<1> QED
  BY <1>6, <1>7 DEF LineBelongs, Lines

LEMMA PublishedBelongs ==
  ASSUME NEW l, LineBelongs(l), NEW g, GameFollows(g)
  PROVE  /\ LineBelongs(PublishedLine(l, g))
         /\ Len(l.entries) = 1 /\ l.cursor = 1 =>
                Len(PublishedLine(l, g).entries) = 1 /\ PublishedLine(l, g).cursor = 1
<1>1. g.loaded \in BOOLEAN
  BY DEF GameFollows, Games
<1>2. CASE g.loaded /\ ~l.known
  BY <1>2, ResetBelongs DEF PublishedLine
<1>3. CASE ~(g.loaded /\ ~l.known)
  BY <1>1, <1>3 DEF PublishedLine, LineBelongs, Lines
<1> QED
  BY <1>2, <1>3

-----------------------------------------------------------------------------
(* The steps of a frame.                                                   *)
LEMMA AppliedFollows ==
  ASSUME NEW s, Follows(s)
  PROVE  /\ Follows(Applied(s))
         /\ ~s.deferred.waits => Applied(s) = s
         /\ ~Applied(s).deferred.waits \/ ~Applied(s).game.loaded
<1>1. CASE ~s.deferred.waits \/ ~s.game.loaded
  BY <1>1 DEF Applied
<1>2. CASE s.deferred.waits /\ s.game.loaded
  <2> DEFINE g == RestoredTo(s.game, s.deferred.stored)
             l == IF s.deferred.resets THEN LineReset(g, s.line.known) ELSE s.line
  <2>1. Applied(s) = [game |-> g, deferred |-> NothingDeferred, line |-> l]
    BY <1>2 DEF Applied
  <2>2. GameFollows(g)
    BY <1>2, RestoredFollows DEF Follows, GameFollows, DeferredBelongs, Deferrals
  <2> HIDE DEF g
  <2>3. LineBelongs(l)
    BY <2>2, ResetBelongs DEF Follows, LineBelongs, Lines
  <2> HIDE DEF l
  <2>4. NothingDeferred \in Deferrals /\ ~NothingDeferred.waits
    BY NoProgressIsOne DEF NothingDeferred, Deferrals
  <2> QED
    BY <1>2, <2>1, <2>2, <2>3, <2>4 DEF Follows, DeferredBelongs
<1> QED
  BY <1>1, <1>2

(* A game whose machine has moved, before its progress has; the library    *)
(* may have identified or lost it.                                         *)
HasMoved(g) == g \in Games /\ (g.loaded => g.progress.rom = g.rom)

LEMMA ProcessedMoved ==
  ASSUME NEW s, s = [game |-> s.game, deferred |-> s.deferred, line |-> s.line],
         HasMoved(s.game), NEW loaded \in BOOLEAN
  PROVE  /\ Processed(s, loaded) = [game |-> Processed(s, loaded).game,
                                    deferred |-> s.deferred, line |-> s.line]
         /\ HasMoved(Processed(s, loaded).game)
         /\ Processed(s, loaded).game.at = s.game.at
         /\ GameFollows(s.game) => GameFollows(Processed(s, loaded).game)
<1> DEFINE known == [s.game EXCEPT !.loaded = TRUE]
           lost  == [s.game EXCEPT !.loaded = FALSE, !.progress = NoProgress]
<1>1. CASE loaded = s.game.loaded
  BY <1>1 DEF Processed
<1>2. CASE loaded /\ ~s.game.loaded
  <2>1. Processed(s, loaded) = [s EXCEPT !.game = Fresh(known)]
    BY <1>2 DEF Processed
  <2>2. known \in Games /\ known.at = s.game.at
    BY DEF HasMoved, Games
  <2> HIDE DEF known
  <2>3. GameFollows(Fresh(known)) /\ Fresh(known).at = s.game.at
    BY <2>2, FreshFollows
  <2> QED
    BY <2>1, <2>3 DEF HasMoved, GameFollows
<1>3. CASE ~loaded /\ s.game.loaded
  <2>1. Processed(s, loaded) = [s EXCEPT !.game = lost]
    BY <1>3 DEF Processed
  <2>2. lost \in Games /\ lost.at = s.game.at /\ ~lost.loaded
    BY NoProgressIsOne DEF HasMoved, Games
  <2> HIDE DEF lost
  <2> QED
    BY <2>1, <2>2 DEF HasMoved, GameFollows
<1> QED
  BY <1>1, <1>2, <1>3 DEF HasMoved, Games

LEMMA ProcessedFollows ==
  ASSUME NEW s, Follows(s), NEW loaded \in BOOLEAN
  PROVE  Follows(Processed(s, loaded))
<1>1. HasMoved(s.game)
  BY DEF Follows, GameFollows, HasMoved
<1>2. s = [game |-> s.game, deferred |-> s.deferred, line |-> s.line]
  BY DEF Follows
<1> DEFINE p == Processed(s, loaded)
<1>3. /\ p = [game |-> p.game, deferred |-> s.deferred, line |-> s.line]
      /\ p.game.at = s.game.at /\ GameFollows(p.game)
  <2>1. GameFollows(s.game)
    BY DEF Follows
  <2> QED
    BY <1>1, <1>2, <2>1, ProcessedMoved
<1> HIDE DEF p
<1>4. Follows(p)
  BY <1>3 DEF Follows, DeferredBelongs
<1> QED
  BY <1>4 DEF p

(* The machine moves on, the library processes the frame, and the timeline *)
(* may record it.  Nothing waits.                                          *)
LEMMA FrameRunFollows ==
  ASSUME computed \in Int, NEW s, Follows(s), ~s.deferred.waits,
         NEW loaded \in BOOLEAN, NEW captures \in BOOLEAN
  PROVE  Follows(FrameRun(s, loaded, captures))
<1> DEFINE run == [s EXCEPT !.game.at = computed + 1]
           p   == Processed(run, loaded)
           g   == Applied(p)
           did == IF g.game.loaded THEN [g EXCEPT !.game.progress.at = computed + 1] ELSE g
<1>1. /\ run = [game |-> run.game, deferred |-> s.deferred, line |-> s.line]
      /\ run.game = [s.game EXCEPT !.at = computed + 1]
  BY DEF Follows
<1>2. HasMoved(run.game) /\ run.game.at = computed + 1
  BY <1>1 DEF Follows, GameFollows, Games, HasMoved
<1>3. FrameRun(s, loaded, captures) =
          IF captures THEN [did EXCEPT !.line = Captured(@, did.game)] ELSE did
  BY DEF FrameRun
<1> HIDE DEF run
<1>4. /\ p = [game |-> p.game, deferred |-> s.deferred, line |-> s.line]
      /\ HasMoved(p.game) /\ p.game.at = computed + 1
  <2>1. /\ run.deferred = s.deferred /\ run.line = s.line
        /\ run = [game |-> run.game, deferred |-> run.deferred, line |-> run.line]
    BY <1>1
  <2> QED
    BY <1>2, <2>1, ProcessedMoved
<1> HIDE DEF p
<1>5. g = p
  BY <1>4 DEF Applied
<1> HIDE DEF g
<1>6. Follows(did) /\ ~did.deferred.waits
  <2>1. CASE ~g.game.loaded
    BY <1>4, <1>5, <2>1 DEF Follows, GameFollows, HasMoved, DeferredBelongs
  <2>2. CASE g.game.loaded
    <3> DEFINE h == [p.game EXCEPT !.progress.at = computed + 1]
    <3>1. did = [game |-> h, deferred |-> s.deferred, line |-> s.line]
      BY <1>4, <1>5, <2>2
    <3>2. GameFollows(h)
      BY <1>4, <1>5, <2>2 DEF HasMoved, GameFollows, Games, Progresses
    <3> HIDE DEF h
    <3> QED
      BY <3>1, <3>2 DEF Follows, DeferredBelongs
  <2> QED
    BY <2>1, <2>2
<1> HIDE DEF did
<1>7. CASE ~captures
  BY <1>3, <1>6, <1>7
<1>8. CASE captures
  <2>1. LineBelongs(Captured(did.line, did.game))
    BY <1>6, CapturedBelongs DEF Follows
  <2>2. FrameRun(s, loaded, captures) =
            [game |-> did.game, deferred |-> did.deferred, line |-> Captured(did.line, did.game)]
    BY <1>3, <1>6, <1>8 DEF Follows
  <2> QED
    BY <1>6, <2>1, <2>2 DEF Follows, DeferredBelongs
<1> QED
  BY <1>7, <1>8

(* A state of the worker with another deferral or another timeline.        *)
LEMMA RecordOf ==
  ASSUME NEW s, s = [game |-> s.game, deferred |-> s.deferred, line |-> s.line], NEW x
  PROVE  /\ [s EXCEPT !.deferred = x] = [game |-> s.game, deferred |-> x, line |-> s.line]
         /\ [s EXCEPT !.line = x] = [game |-> s.game, deferred |-> s.deferred, line |-> x]
OBVIOUS

LEMMA WaitedFollows ==
  ASSUME NEW s, Follows(s)
  PROVE  /\ Follows(Waited(s))
         /\ Follows(TimedOut(s)) /\ ~TimedOut(s).deferred.waits
<1>0. s = [game |-> s.game, deferred |-> s.deferred, line |-> s.line]
  BY DEF Follows
<1>1. Follows(Waited(s))
  <2> DEFINE d == [s.deferred EXCEPT !.since = TRUE]
  <2>1. Waited(s) = [game |-> s.game, deferred |-> d, line |-> s.line]
    <3>1. Waited(s) = [s EXCEPT !.deferred = d]
      BY DEF Waited
    <3> HIDE DEF d
    <3> QED
      BY <1>0, <3>1, RecordOf
  <2>2. DeferredBelongs(d, s.game, s.line)
    BY DEF Follows, DeferredBelongs, Deferrals
  <2> HIDE DEF d
  <2> QED
    BY <2>1, <2>2 DEF Follows
<1>2. Follows(TimedOut(s)) /\ ~TimedOut(s).deferred.waits
  <2> DEFINE l == IF s.deferred.resets THEN LineReset(s.game, s.line.known) ELSE s.line
  <2>1. TimedOut(s) = [game |-> s.game, deferred |-> NothingDeferred, line |-> l]
    <3> DEFINE t == [s EXCEPT !.deferred = NothingDeferred]
    <3>1. TimedOut(s) = [t EXCEPT !.line = l]
      BY DEF TimedOut
    <3> HIDE DEF l
    <3>2. t = [game |-> s.game, deferred |-> NothingDeferred, line |-> s.line]
      BY <1>0, RecordOf
    <3> HIDE DEF t
    <3>3. t = [game |-> t.game, deferred |-> t.deferred, line |-> t.line]
          /\ t.game = s.game /\ t.deferred = NothingDeferred
      BY <3>2
    <3> QED
      BY <3>1, <3>3, RecordOf
  <2>2. LineBelongs(l)
    BY ResetBelongs DEF Follows, LineBelongs, Lines
  <2> HIDE DEF l
  <2>3. NothingDeferred \in Deferrals /\ ~NothingDeferred.waits
    BY NoProgressIsOne DEF NothingDeferred, Deferrals
  <2> QED
    BY <2>1, <2>2, <2>3 DEF Follows, DeferredBelongs
<1> QED
  BY <1>1, <1>2

LEMMA BecomesFollows ==
  ASSUME NEW s, Follows(s), Becomes(s)
  PROVE  Follows(Current)'
<1>1. LineBelongs(PublishedLine(s.line, s.game))
  BY PublishedBelongs DEF Follows
<1>2. LineBelongs(line') /\ DeferredBelongs(s.deferred, s.game, line')
  BY <1>1, PublishedBelongs DEF Becomes, Follows, DeferredBelongs
<1> QED
  BY <1>2 DEF Becomes, Follows, Current

-----------------------------------------------------------------------------
(* The actions.                                                            *)
LEMMA ProgressInitially == ASSUME ProgressInit PROVE ProgressInv
<1>1. PICK rom \in Roms : game = [at |-> 1, loaded |-> FALSE, progress |-> NoProgress, rom |-> rom]
  BY DEF ProgressInit
<1>2. GameFollows(game)
  BY <1>1, NoProgressIsOne DEF GameFollows, Games
<1>3. LineBelongs(line)
  BY <1>2, ResetBelongs DEF ProgressInit
<1>4. NothingDeferred \in Deferrals /\ ~NothingDeferred.waits
  BY NoProgressIsOne DEF NothingDeferred, Deferrals
<1>5. FilesBelong
  BY NoProgressIsOne DEF ProgressInit, FilesBelong, FilesType, Absent
<1> QED
  <2>1. DeferredBelongs(deferred, game, line)
    BY <1>4 DEF ProgressInit, DeferredBelongs
  <2>2. Follows(Current)
    BY <1>2, <1>3, <2>1 DEF Follows, Current
  <2>3. computed \in Int
    BY DEF ProgressInit
  <2> QED
    BY <1>5, <2>2, <2>3 DEF ProgressInv

LEMMA PollKeeps == ASSUME ProgressInv, PausedPoll \/ FrameWaits PROVE ProgressInv'
<1>1. Follows(Current) /\ Follows(Waited(Current))
  BY WaitedFollows DEF ProgressInv
<1>2. ASSUME NEW s, Follows(s), NEW loaded \in BOOLEAN, NEW idle \in BOOLEAN,
             Becomes(IF idle THEN Applied(Processed(s, loaded)) ELSE Processed(s, loaded))
      PROVE  Follows(Current)'
  BY <1>2, ProcessedFollows, AppliedFollows, BecomesFollows
<1>3. Follows(Current)'
  BY <1>1, <1>2 DEF PausedPoll, FrameWaits
<1>4. UNCHANGED <<files, computed>>
  BY DEF PausedPoll, FrameWaits
<1> QED
  BY <1>3, <1>4 DEF ProgressInv, FilesBelong

LEMMA FrameKeeps == ASSUME ProgressInv, Frame \/ FrameGivesUp PROVE ProgressInv'
<1>1. Follows(Current) /\ computed \in Int
  BY DEF ProgressInv
<1>2. ASSUME NEW s, Follows(s), ~s.deferred.waits,
             NEW loaded \in BOOLEAN, NEW captures \in BOOLEAN,
             Becomes(FrameRun(s, loaded, captures))
      PROVE  Follows(Current)'
  BY <1>1, <1>2, FrameRunFollows, BecomesFollows
<1>3. CASE Frame
  <2>1. Follows(Applied(Current)) /\ ~Applied(Current).deferred.waits
    BY <1>1, <1>3, AppliedFollows DEF Frame, MayWait, Applied, NothingDeferred
  <2> QED
    BY <1>2, <1>3, <2>1 DEF Frame, ProgressInv, FilesBelong
<1>4. CASE FrameGivesUp
  <2>1. Follows(TimedOut(Current)) /\ ~TimedOut(Current).deferred.waits
    BY <1>1, WaitedFollows
  <2> QED
    BY <1>2, <1>4, <2>1 DEF FrameGivesUp, ProgressInv, FilesBelong
<1> QED
  BY <1>3, <1>4

LEMMA StepKeeps ==
  ASSUME ProgressInv, NEW cursor \in {line.cursor - 1, line.cursor + 1}, StepTo(cursor)
  PROVE  ProgressInv'
<1> DEFINE e == line.entries[cursor]
           moved == [game EXCEPT !.at = e.at]
<1>1. GameFollows(game) /\ LineBelongs(line) /\ DeferredBelongs(deferred, game, line)
  BY DEF ProgressInv, Follows, Current
<1>2. cursor \in 1..Len(line.entries) /\ line.entries \in Seq(LineEntries)
  BY <1>1 DEF StepTo, LineBelongs, Lines
<1>3. e \in LineEntries /\ Belongs(e.progress, e.at)
  BY <1>1, <1>2 DEF LineBelongs
<1>4. ~deferred.waits
  <2> SUFFICES ASSUME deferred.waits PROVE FALSE
    OBVIOUS
  <2>1. Len(line.entries) = 1 /\ line.cursor = 1
    BY <1>1 DEF DeferredBelongs
  <2> QED
    BY <1>2, <2>1
<1>5. game' = RestoredTo(moved, e.progress)
  BY DEF StepTo
<1> HIDE DEF e
<1>6. moved \in Games /\ moved.at = e.at
  BY <1>1, <1>3 DEF GameFollows, Games, LineEntries
<1> HIDE DEF moved
<1>7. GameFollows(game')
  BY <1>3, <1>5, <1>6, RestoredFollows DEF LineEntries
<1>8. LineBelongs(line')
  BY <1>1, <1>2 DEF StepTo, LineBelongs, Lines
<1>9. UNCHANGED <<deferred, files, computed>>
  BY DEF StepTo
<1> QED
  BY <1>1, <1>4, <1>7, <1>8, <1>9 DEF ProgressInv, Follows, Current, FilesBelong, DeferredBelongs

(* Saving: what lies beside the state is that of the game that was saved.  *)
LEMMA SavingKeeps ==
  ASSUME ProgressInv, SaveBegins \/ SaveStateFile \/ SaveProgress \/ InvalidateProgress
  PROVE  ProgressInv'
<1>1. UNCHANGED <<game, line, deferred, computed>>
  BY DEF SaveBegins, SaveStateFile, SaveProgress, InvalidateProgress
<1>2. GameFollows(game) /\ FilesBelong
  BY DEF ProgressInv, Follows, Current
<1>3. FilesBelong'
  <2>1. CASE SaveBegins
    BY <1>2, <2>1 DEF SaveBegins, FilesBelong, FilesType, Torn
  <2>2. CASE SaveStateFile
    BY <1>2, <2>2 DEF SaveStateFile, FilesBelong, FilesType, GameFollows, Games
  <2>3. CASE SaveProgress
    <3>1. Serialized(game) # NoProgress => game.progress \in Progresses /\ game.progress.at = game.at
      BY <1>2 DEF Serialized, GameFollows, Games
    <3> QED
      BY <1>2, <2>3, <3>1 DEF SaveProgress, FilesBelong, FilesType, GameFollows, Games, Fingerprint
  <2>4. CASE InvalidateProgress
    <3> DEFINE beside == [fingerprint |-> Absent, progress |-> NoProgress]
               invalid == [files EXCEPT !.beside = beside]
    <3>1. files' = files \/ files' = invalid
      BY <1>2, <2>4 DEF InvalidateProgress, FilesBelong, FilesType
    <3>2. invalid \in FilesType /\ invalid.beside.fingerprint = Absent
      BY <1>2, NoProgressIsOne DEF FilesBelong, FilesType, Absent
    <3> HIDE DEF invalid
    <3> QED
      BY <1>2, <3>1, <3>2 DEF FilesBelong
  <2> QED
    BY <2>1, <2>2, <2>3, <2>4
<1> QED
  BY <1>1, <1>3 DEF ProgressInv, Follows, Current

LEMMA LoadKeeps == ASSUME ProgressInv, LoadSlot PROVE ProgressInv'
<1>1. GameFollows(game) /\ LineBelongs(line) /\ FilesBelong /\ computed \in Int
  BY DEF ProgressInv, Follows, Current
<1>2. PICK state \in Int \ {Absent}, isSlot \in BOOLEAN : Loads(state, isSlot)
  <2>1. CASE files.state > Absent /\ Loads(files.state, TRUE)
    <3>1. files.state \in Int \ {Absent} /\ TRUE \in BOOLEAN
      BY <1>1, <2>1 DEF FilesBelong, FilesType, Absent
    <3> QED
      BY <2>1, <3>1, Zenon
  <2>2. CASE Loads(1, FALSE)
    <3>1. 1 \in Int \ {Absent} /\ FALSE \in BOOLEAN
      BY DEF Absent
    <3> QED
      BY <2>2, <3>1, Zenon
  <2> QED
    BY <2>1, <2>2 DEF LoadSlot
<1> DEFINE stored == Beside(state, isSlot)
           g == [game EXCEPT !.at = state]
           d == [waits |-> TRUE, stored |-> stored, since |-> FALSE, resets |-> TRUE]
           s == [game |-> g, line |-> line, deferred |-> d]
           a == Applied(s)
<1>3. game' = a.game /\ deferred' = a.deferred /\ line' = LineReset(a.game, line.known)
  BY <1>2 DEF Loads
<1>4. stored \in Progresses /\ Belongs(stored, state)
  BY <1>1, <1>2, NoProgressIsOne DEF Beside, Fingerprint, FilesBelong, FilesType, Belongs
<1> HIDE DEF stored
<1>5. g \in Games /\ g.at = state /\ g.loaded = game.loaded
  BY <1>1 DEF GameFollows, Games
<1> HIDE DEF g
<1>6. GameFollows(a.game) /\ a.deferred \in Deferrals
      /\ (a.deferred.waits => Belongs(a.deferred.stored, a.game.at))
  <2>1. d \in Deferrals /\ d.stored = stored /\ d.waits
    BY <1>4 DEF Deferrals
  <2>2. s.game = g /\ s.deferred = d
    OBVIOUS
  <2> HIDE DEF d, s
  <2>3. NothingDeferred \in Deferrals /\ ~NothingDeferred.waits
    BY NoProgressIsOne DEF NothingDeferred, Deferrals
  <2>4. CASE g.loaded
    <3>1. a.game = RestoredTo(g, stored) /\ a.deferred = NothingDeferred
      BY <2>1, <2>2, <2>4 DEF Applied
    <3> HIDE DEF a
    <3>2. GameFollows(RestoredTo(g, stored))
      BY <1>4, <1>5, RestoredFollows
    <3> QED
      BY <2>3, <3>1, <3>2
  <2>5. CASE ~g.loaded
    <3>1. a.game = g /\ a.deferred = d
      BY <2>2, <2>5 DEF Applied
    <3> HIDE DEF a
    <3> QED
      BY <1>4, <1>5, <2>1, <2>5, <3>1 DEF GameFollows
  <2> QED
    BY <2>4, <2>5
<1> HIDE DEF a
<1>7. LineBelongs(line') /\ Len(line'.entries) = 1 /\ line'.cursor = 1
  BY <1>1, <1>3, <1>6, ResetBelongs DEF LineBelongs, Lines
<1>8. UNCHANGED <<files, computed>>
  BY DEF LoadSlot
<1> QED
  BY <1>1, <1>3, <1>6, <1>7, <1>8 DEF ProgressInv, Follows, Current, FilesBelong, DeferredBelongs

LEMMA RestartKeeps == ASSUME ProgressInv, Restarted PROVE ProgressInv'
<1>1. computed \in Int /\ FilesBelong
  BY DEF ProgressInv
<1>2. PICK rom \in Roms :
          LET g == [at |-> computed + 1, loaded |-> FALSE, progress |-> NoProgress, rom |-> rom]
          IN  game' = g /\ line' = LineReset(g, FALSE)
  BY DEF Restarted
<1>3. game' = [at |-> computed + 1, loaded |-> FALSE, progress |-> NoProgress, rom |-> rom]
      /\ line' = LineReset(game', FALSE)
  BY <1>2
<1>4. GameFollows(game')
  BY <1>1, <1>3, NoProgressIsOne DEF GameFollows, Games
<1>5. LineBelongs(line')
  BY <1>3, <1>4, ResetBelongs
<1>6. NothingDeferred \in Deferrals /\ ~NothingDeferred.waits
  BY NoProgressIsOne DEF NothingDeferred, Deferrals
<1>7. DeferredBelongs(deferred', game', line')
  BY <1>6 DEF Restarted, DeferredBelongs
<1>8. Follows(Current)'
  BY <1>4, <1>5, <1>7 DEF Follows, Current
<1>9. computed' \in Int /\ files' = files
  BY <1>1 DEF Restarted
<1> QED
  BY <1>1, <1>8, <1>9 DEF ProgressInv, FilesBelong

(* The library's progress is that of the machine's state, for every set of *)
(* versions of the game, any history and any number of frames, steps,      *)
(* saves, loads, logins and kills.                                         *)
THEOREM ProgressFollows == ProgressSpec => []ProgressFollowsState
<1>1. ProgressInit => ProgressInv
  BY ProgressInitially
<1>2. ProgressInv /\ [ProgressNext]_progressVars => ProgressInv'
  <2> SUFFICES ASSUME ProgressInv, [ProgressNext]_progressVars
               PROVE  ProgressInv'
    OBVIOUS
  <2>1. CASE PausedPoll \/ FrameWaits
    BY <2>1, PollKeeps
  <2>2. CASE Frame \/ FrameGivesUp
    BY <2>2, FrameKeeps
  <2>3. CASE TimelineBack \/ TimelineForward
    BY <2>3, StepKeeps DEF TimelineBack, TimelineForward
  <2>4. CASE SaveBegins \/ SaveStateFile \/ SaveProgress \/ InvalidateProgress
    BY <2>4, SavingKeeps
  <2>5. CASE LoadSlot
    BY <2>5, LoadKeeps
  <2>6. CASE Restarted
    BY <2>6, RestartKeeps
  <2>7. CASE UNCHANGED progressVars
    BY <2>7 DEF progressVars, ProgressInv, Follows, Current, FilesBelong
  <2> QED
    BY <2>1, <2>2, <2>3, <2>4, <2>5, <2>6, <2>7 DEF ProgressNext
<1>3. ProgressInv => ProgressFollowsState
  BY DEF ProgressInv, Follows, Current, GameFollows, ProgressFollowsState
<1> QED
  BY <1>1, <1>2, <1>3, PTL DEF ProgressSpec

-----------------------------------------------------------------------------
(* The feedback of RunLab.                                                 *)
Messages(file) == {file[i] : i \in DOMAIN file}

PanelType ==
    /\ feedback \in Seq(Messages(feedback))
    /\ panel \in [next : Nat, ready : BOOLEAN, offset : Nat, size : Nat,
                  poll : {"size", "read"},
                  shown : {NoMessage} \cup Messages(feedback), since : Nat]

(* The first call only seeks; from then on the offset lies between the     *)
(* messages that were there before it and the end of the file, and a read  *)
(* follows only a size beyond the offset.                                  *)
OffsetInFile ==
    /\ panel.offset <= Len(feedback)
    /\ panel.size <= Len(feedback)
    /\ panel.since <= panel.offset
    /\ panel.ready \/ (panel.offset = 0 /\ panel.poll = "size")
    /\ panel.poll = "read" => panel.offset < panel.size

(* What is shown may be newer than the offset, because a read goes on to   *)
(* the end that the file has by then, but it is never older.               *)
ShownIsNotOlder ==
    panel.offset > panel.since =>
        \E i \in panel.offset..Len(feedback) : panel.shown = feedback[i]

FeedbackInv == PanelType /\ OffsetInFile /\ ShownIsNotOlder

-----------------------------------------------------------------------------
(* Every program only appends to the file, so what was in it stays.        *)
LEMMA AppendKeeps ==
    ASSUME FeedbackInv, UNCHANGED panel,
           NEW message, feedback' = Append(feedback, message)
    PROVE  FeedbackInv'
<1> DEFINE S == Messages(feedback) \cup {message}
<1>1. feedback \in Seq(S) /\ message \in S
  BY DEF FeedbackInv, PanelType
<1>2. /\ feedback' \in Seq(S)
      /\ Len(feedback') = Len(feedback) + 1
      /\ feedback'[Len(feedback) + 1] = message
      /\ \A i \in 1..Len(feedback) : feedback'[i] = feedback[i]
  BY <1>1
<1>3. /\ DOMAIN feedback = 1..Len(feedback) /\ DOMAIN feedback' = 1..Len(feedback')
      /\ Len(feedback) \in Nat
  BY <1>1, <1>2
<1>4. Messages(feedback') = S
  <2>1. \A i \in DOMAIN feedback' : feedback'[i] \in S
    BY <1>2, <1>3 DEF Messages
  <2>2. message = feedback'[Len(feedback) + 1] /\ Len(feedback) + 1 \in DOMAIN feedback'
    BY <1>2, <1>3
  <2>3. \A i \in DOMAIN feedback : i \in DOMAIN feedback' /\ feedback[i] = feedback'[i]
    BY <1>2, <1>3
  <2> QED BY <2>1, <2>2, <2>3 DEF Messages
<1>5. PanelType'
  BY <1>2, <1>4 DEF FeedbackInv, PanelType
<1>6. OffsetInFile'
  BY <1>2, <1>3 DEF FeedbackInv, PanelType, OffsetInFile
<1>7. ShownIsNotOlder'
  BY <1>2, <1>3 DEF FeedbackInv, PanelType, ShownIsNotOlder
<1> QED BY <1>5, <1>6, <1>7 DEF FeedbackInv

LEMMA PromptsBegin == PromptsInit => FeedbackInv
<1> SUFFICES ASSUME PromptsInit PROVE FeedbackInv
  OBVIOUS
<1>1. feedback = <<>> /\ Len(feedback) = 0 /\ feedback \in Seq(Messages(feedback))
  BY DEF PromptsInit
<1> QED
  BY <1>1 DEF PromptsInit, NewPanel, FeedbackInv, PanelType, OffsetInFile, ShownIsNotOlder

LEMMA PromptsKeep == FeedbackInv /\ [PromptsNext]_promptVars => FeedbackInv'
<1> SUFFICES ASSUME FeedbackInv, [PromptsNext]_promptVars PROVE FeedbackInv'
  OBVIOUS
<1> USE DEF FeedbackInv
<1>0. ASSUME UNCHANGED <<feedback, panel>> PROVE FeedbackInv'
  BY <1>0 DEF PanelType, OffsetInFile, ShownIsNotOlder
<1>1. ASSUME NEW written \in BOOLEAN, NEW auto \in BOOLEAN, SubmitPrompt(auto, written)
      PROVE  FeedbackInv'
  BY <1>1 DEF SubmitPrompt, PanelType, OffsetInFile, ShownIsNotOlder
<1>2. ASSUME NEW written \in BOOLEAN, Announce(written) PROVE FeedbackInv'
  <2>1. UNCHANGED panel
    BY <1>2 DEF Announce
  <2>2. CASE written
    BY <1>2, <2>1, <2>2, AppendKeeps DEF Announce
  <2>3. CASE ~written
    BY <1>0, <1>2, <2>1, <2>3 DEF Announce
  <2> QED BY <2>2, <2>3
<1>3. ASSUME NEW written \in BOOLEAN, QueueCommands(written) \/ MarkHandled(written)
      PROVE  FeedbackInv'
  BY <1>0, <1>3 DEF QueueCommands, MarkHandled
<1>4. CASE TakeFeedbackSize
  <2>1. panel' = SizeOfFeedback(panel, Len(feedback)) /\ UNCHANGED feedback
        /\ panel.poll = "size" /\ Len(feedback) \in Nat
    BY <1>4 DEF TakeFeedbackSize, PanelType
  <2> DEFINE M == {NoMessage} \cup Messages(feedback)
             size == Len(feedback)
  <2>2. CASE ~panel.ready
    <3>1. panel' = [panel EXCEPT !.ready = TRUE, !.offset = size, !.since = size]
      BY <2>1, <2>2 DEF SizeOfFeedback
    <3>2. /\ panel'.offset = size /\ panel'.since = size /\ panel'.size = panel.size
          /\ panel'.ready = TRUE /\ panel'.poll = "size"
      BY <2>1, <3>1 DEF PanelType
    <3>3. PanelType'
      BY <2>1, <3>1 DEF PanelType
    <3> QED
      BY <2>1, <3>2, <3>3 DEF PanelType, OffsetInFile, ShownIsNotOlder
  <2>3. CASE panel.ready /\ size = panel.offset
    BY <1>0, <2>1, <2>3 DEF SizeOfFeedback
  <2>4. CASE panel.ready /\ size > panel.offset
    <3>1. panel' = [panel EXCEPT !.offset = @, !.size = size, !.poll = "read"]
      <4>1. ~(size < panel.offset) /\ size # panel.offset
        BY <2>1, <2>4 DEF PanelType
      <4> QED BY <2>1, <2>4, <4>1 DEF SizeOfFeedback
    <3>2. /\ panel'.offset = panel.offset /\ panel'.since = panel.since
          /\ panel'.size = size /\ panel'.ready = panel.ready
          /\ panel'.poll = "read" /\ panel'.shown = panel.shown
      BY <3>1 DEF PanelType
    <3>3. PanelType'
      BY <2>1, <3>1 DEF PanelType
    <3> QED
      BY <2>1, <2>4, <3>2, <3>3 DEF PanelType, OffsetInFile, ShownIsNotOlder
  <2> HIDE DEF size
  <2> QED BY <2>1, <2>2, <2>3, <2>4 DEF PanelType, OffsetInFile, size
<1>5. CASE ReadFeedback
  <2> DEFINE newest == feedback[Len(feedback)]
  <2>1. /\ panel' = FeedbackRead(panel, feedback) /\ UNCHANGED feedback
        /\ panel.offset < panel.size /\ panel.size <= Len(feedback)
        /\ Len(feedback) \in DOMAIN feedback
    BY <1>5 DEF ReadFeedback, PanelType, OffsetInFile
  <2>2. newest \in Messages(feedback)
    BY <2>1 DEF Messages
  <2>3. panel' = [panel EXCEPT !.shown = newest, !.offset = panel.size, !.poll = "size"]
    BY <2>1 DEF FeedbackRead
  <2> HIDE DEF newest
  <2>4. /\ panel'.offset = panel.size /\ panel'.since = panel.since
        /\ panel'.size = panel.size /\ panel'.ready = panel.ready
        /\ panel'.poll = "size" /\ panel'.shown = newest
    BY <2>3 DEF PanelType
  <2>5. PanelType'
    BY <2>1, <2>2, <2>3 DEF PanelType
  <2>6. OffsetInFile'
    BY <1>5, <2>1, <2>4 DEF PanelType, OffsetInFile, ReadFeedback
  <2>7. ShownIsNotOlder'
    BY <2>1, <2>4 DEF PanelType, ShownIsNotOlder, newest
  <2> QED BY <2>5, <2>6, <2>7
<1>6. CASE RestartEmulator
  BY <1>6 DEF RestartEmulator, NewPanel, PanelType, OffsetInFile, ShownIsNotOlder
<1>7. CASE ReadPrompts \/ AskForPrompt \/ AckPrompt \/ RestartServer
  BY <1>0, <1>7 DEF ReadPrompts, AskForPrompt, AckPrompt, RestartServer
<1>8. CASE SayRead \/ SayDone
  BY <1>8, AppendKeeps DEF SayRead, SayDone
<1>9. CASE UNCHANGED promptVars
  BY <1>0, <1>9 DEF promptVars
<1> QED
  BY <1>1, <1>2, <1>3, <1>4, <1>5, <1>6, <1>7, <1>8, <1>9 DEF PromptsNext

(* A message that the watcher or a tool appends while the file is read is  *)
(* not passed over: at the end of the file, the last message is shown      *)
(* (RunLabSession::pollFeedback, runlab_session.cpp:104-143).              *)
THEOREM NewestIsShown == PromptSpec => []NewestFeedbackIsShown
<1>1. FeedbackInv => NewestFeedbackIsShown
  BY DEF FeedbackInv, PanelType, OffsetInFile, ShownIsNotOlder, NewestFeedbackIsShown
<1> QED BY PromptsBegin, PromptsKeep, <1>1, PTL DEF PromptSpec
=============================================================================
