------------------------------ MODULE PrivateFile ------------------------------
(***************************************************************************)
(* Durable changes of one directory (realtime/private_file_io.cpp) and     *)
(* what a power failure leaves of them.                                    *)
(*                                                                         *)
(* An entry is NoEntry or a file: its contents, and whether they were      *)
(* flushed.  disk.now is the directory as processes see it; disk.may has,  *)
(* for each name, the entries that a power failure may leave there: since  *)
(* the directory was last synced the old one or the new one.  Temporary    *)
(* and quarantine names are random: what a crash left under one is met by  *)
(* nobody, so one name of each is enough.                                  *)
(*                                                                         *)
(* Every system call may fail; what is allowed here for the POSIX calls is *)
(* allowed for the Windows ones.                                           *)
(***************************************************************************)

EXTENDS Integers

CONSTANT Contents     \* what a file may hold

NoEntry == [kind |-> "none"]
Partial == "partial"                  \* a file that is being written
File(contents, flushed) == [kind |-> "file", contents |-> contents, flushed |-> flushed]
Names == {"file", "temporary", "quarantine"}
Entries == {NoEntry} \cup {File(c, f) : c \in Contents \cup {Partial}, f \in BOOLEAN}

VARIABLES disk,   \* [now, may]
          call    \* the call in progress

Disks == [now : [Names -> Entries], may : [Names -> SUBSET Entries]]

(* A change of a name, and the directory's sync.                           *)
Put(d, name, entry) ==
    [now |-> [d.now EXCEPT ![name] = entry], may |-> [d.may EXCEPT ![name] = @ \cup {entry}]]
Moved(d, from, to) == Put(Put(d, to, d.now[from]), from, NoEntry)
Synced(d) == [now |-> d.now, may |-> [n \in Names |-> {d.now[n]}]]

-----------------------------------------------------------------------------
(* A call is [op, step, contents, changed]: changed is what the caller     *)
(* gets in entryChanged; step "done" and "failed" are its results.         *)
NoCall == [op |-> "none", step |-> "done", contents |-> Partial, changed |-> FALSE]
Ended(c) == c.step \in {"done", "failed"}
Writes(contents) == [op |-> "write", step |-> "start", contents |-> contents, changed |-> FALSE]
Removes == [op |-> "remove", step |-> "start", contents |-> Partial, changed |-> FALSE]
Quarantines == [op |-> "rename", step |-> "start", contents |-> Partial, changed |-> FALSE]

Reached(step) == call' = [call EXCEPT !.step = step]
Fails == Reached("failed")

(* cleanupTemporary: the temporary file is unlinked and the directory      *)
(* synced, if either can be done.                                          *)
CleanedUp ==
    \E unlinked, synced \in BOOLEAN :
        LET d == IF unlinked THEN Put(disk, "temporary", NoEntry) ELSE disk
        IN  disk' = IF unlinked /\ synced THEN Synced(d) ELSE d

(* writePrivateFileAtomically: create, write, flush and close, replace.    *)
InCall(op, step) == call.op = op /\ call.step = step

CreateTemporary ==
    /\ InCall("write", "start")
    /\ \/ disk' = Put(disk, "temporary", File(Partial, FALSE)) /\ Reached("created")
       \/ UNCHANGED disk /\ Fails
WriteAll ==
    /\ InCall("write", "created")
    /\ \/ disk' = Put(disk, "temporary", File(call.contents, FALSE)) /\ Reached("written")
       \/ CleanedUp /\ Fails
(* Mutant: the file is renamed as it was written.                          *)
NotFlushed ==
    /\ InCall("write", "written")
    /\ \/ UNCHANGED disk /\ Reached("flushed")
       \/ CleanedUp /\ Fails
Flush ==
    /\ InCall("write", "written")
    /\ \/ disk' = Put(disk, "temporary", File(call.contents, TRUE)) /\ Reached("flushed")
       \/ CleanedUp /\ Fails
Replace ==
    /\ InCall("write", "flushed")
    /\ \/ disk' = Moved(disk, "temporary", "file") /\ Reached("changed")
       \/ CleanedUp /\ Fails

(* removeFileDurably and renameFileDurably.                                *)
Unlink ==
    /\ InCall("remove", "start")
    /\ \/ disk.now["file"] = NoEntry /\ UNCHANGED disk /\ Reached("done")
       \/ /\ disk.now["file"] # NoEntry
          /\ disk' = Put(disk, "file", NoEntry)
          /\ call' = [call EXCEPT !.step = "changed", !.changed = TRUE]
       \/ UNCHANGED disk /\ Fails
RenameExclusive ==
    /\ InCall("rename", "start")
    /\ \/ /\ disk.now["file"] # NoEntry
          /\ disk' = Moved(disk, "file", "quarantine")
          /\ call' = [call EXCEPT !.step = "changed", !.changed = TRUE]
       \/ UNCHANGED disk /\ Fails

(* syncDirectory, the last step of each: a change that could not be synced *)
(* is there, and reported as a failure.                                    *)
SyncDirectory ==
    /\ call.step = "changed"
    /\ \/ disk' = Synced(disk) /\ Reached("done")
       \/ UNCHANGED disk /\ Fails

CallStep ==
    \/ CreateTemporary \/ WriteAll \/ Flush \/ Replace
    \/ Unlink \/ RenameExclusive \/ SyncDirectory

-----------------------------------------------------------------------------
(* What a power failure leaves of an entry: contents that were not flushed *)
(* may be cut short.                                                       *)
Left(entry) ==
    IF entry = NoEntry \/ entry.flushed THEN {entry}
    ELSE {File(entry.contents, TRUE), File(Partial, TRUE)}
Leaves(name) == UNION {Left(entry) : entry \in disk.may[name]}

PowerFailure ==
    /\ \E file \in Leaves("file"), temporary \in Leaves("temporary"), quarantine \in Leaves("quarantine") :
           disk' = Synced([disk EXCEPT !.now = [n \in Names |->
                               CASE n = "file" -> file [] n = "temporary" -> temporary [] OTHER -> quarantine]])
    /\ call' = NoCall
(* A process that is killed leaves the directory as it is.                 *)
Killed == UNCHANGED disk /\ call' = NoCall
=============================================================================
