----------------------------- MODULE RunLabPrompts -----------------------------
(***************************************************************************)
(* What the user asks of an MCP client, and what comes back: RunLabSession *)
(* (realtime/runlab_session.cpp) on the emulator's side; the watcher       *)
(* thread of the MCP server (mcp_server.cpp) and its prompt tools          *)
(* (mcp_tools.cpp) on the other.  They share three files that every one of *)
(* them only appends to, a whole line at a time.  A prompt's text is       *)
(* whether the server's own runner knows what to do with it; a message's   *)
(* text is its type and its prompt's number.  A file that cannot be opened *)
(* makes the append fail.                                                  *)
(***************************************************************************)
EXTENDS Integers, Sequences

CONSTANTS MaxPrompts,    \* bound: prompts sent
          MaxAsks,       \* bound: calls of runlab_get_pending_prompt
          MaxFaults      \* bound: appends that fail, and ends of a program

VARIABLES prompts,    \* prompts.jsonl: pending prompts, and which are handled
          feedback,   \* feedback.jsonl
          commands,   \* commands.jsonl: the prompts whose commands are in it
          panel,      \* the emulator: RunLabSession and the prompt box
          server,     \* the MCP server
          faults      \* counter for the bound

promptVars == <<prompts, feedback, commands, panel, server, faults>>

NoPrompt == 0
NoMessage == [type |-> "none", id |-> NoPrompt]

Pending(id, auto) == [id |-> id, auto |-> auto, pending |-> TRUE]
Handled(id)       == [id |-> id, auto |-> FALSE, pending |-> FALSE]

(* Numbers come from the clock when the emulator starts, then one by one:  *)
(* a later emulator goes on with new ones.                                 *)
NewPanel(next) ==
    [next   |-> next,        \* runLabPromptInput.nextId
     ready  |-> FALSE,       \* feedbackInitialized_
     offset |-> 0,           \* feedbackOffset_, in lines
     size   |-> 0,           \* the size pollFeedback took
     poll   |-> "size",      \* what pollFeedback does next
     shown  |-> NoMessage,   \* the message it returned last
     since  |-> 0]           \* history variable: the messages before its first call

NewServer ==
    [announced |-> {},       \* announcedPrompts
     todo      |-> <<>>,     \* what the watcher read and has not announced
     step      |-> "seen",   \* what it does next with the first of them
     tool      |-> "idle",   \* what is left of the client's call
     told      |-> NoPrompt, \* the prompt the client works on
     asked     |-> 0,
     unheard   |-> {}]       \* history variable: unhandled when it said there are none

PromptsInit ==
    /\ prompts = <<>> /\ feedback = <<>> /\ commands = <<>>
    /\ panel = NewPanel(1)
    /\ server = NewServer
    /\ faults = 0

-----------------------------------------------------------------------------
(* An append that fails is one of the faults.                              *)
Counts(written) ==
    IF written THEN UNCHANGED faults ELSE faults < MaxFaults /\ faults' = faults + 1

(* submitRunLabPrompt, with some text: a number is used up also when the   *)
(* file cannot be written.                                                 *)
SubmitPrompt(auto, written) ==
    /\ panel.next <= MaxPrompts
    /\ panel' = [panel EXCEPT !.next = @ + 1]
    /\ prompts' = IF written THEN Append(prompts, Pending(panel.next, auto)) ELSE prompts
    /\ Counts(written)
    /\ UNCHANGED <<feedback, commands, server>>

(* pollFeedback takes the size of the file: the first call only seeks to   *)
(* its end, and a file that has shrunk is read again from its start.       *)
SizeOfFeedback(p, size) ==
    IF ~p.ready THEN [p EXCEPT !.ready = TRUE, !.offset = size, !.since = size]
    ELSE IF size = p.offset THEN p
    ELSE [p EXCEPT !.offset = IF size < @ THEN 0 ELSE @, !.size = size, !.poll = "read"]

(* It reads on to the end that the file has by then, and remembers the     *)
(* size it took, because tellg() is -1 once getline has failed.  Only the  *)
(* last message is shown.  Mutant: it reads to the size it took, and       *)
(* remembers where the file ends by then.                                  *)
FeedbackToSize(p, file) ==
    [p EXCEPT !.shown = file[p.size], !.offset = Len(file), !.poll = "size"]
FeedbackRead(p, file) ==
    [p EXCEPT !.shown = file[Len(file)], !.offset = p.size, !.poll = "size"]

TakeFeedbackSize ==
    /\ panel.poll = "size"
    /\ panel' = SizeOfFeedback(panel, Len(feedback))
    /\ UNCHANGED <<prompts, feedback, commands, server, faults>>

ReadFeedback ==
    /\ panel.poll = "read"
    /\ panel' = FeedbackRead(panel, feedback)
    /\ UNCHANGED <<prompts, feedback, commands, server, faults>>

RestartEmulator ==
    /\ faults < MaxFaults
    /\ faults' = faults + 1
    /\ panel' = NewPanel(panel.next)
    /\ UNCHANGED <<prompts, feedback, commands, server>>

-----------------------------------------------------------------------------
(* checkPromptQueueForFeedback: the whole file is read, and every pending  *)
(* prompt that this server has not announced is taken in the order of the  *)
(* file.  A line that says a prompt is handled is passed over.             *)
ReadPrompts ==
    /\ server.todo = <<>>
    /\ server' = [server EXCEPT !.todo =
           SelectSeq(prompts, LAMBDA line : line.pending /\ line.id \notin server.announced)]
    /\ UNCHANGED <<prompts, feedback, commands, panel, faults>>

Says == [seen |-> "prompt_seen", wait |-> "prompt_waiting",
         error |-> "prompt_error", done |-> "prompt_autorun"]

(* writeFeedback by the watcher: a prompt is first announced, then run by  *)
(* autoRunPrompt or left to the client; the other messages end with it.    *)
Announce(written) ==
    /\ server.todo # <<>> /\ server.step \in DOMAIN Says
    /\ LET prompt == Head(server.todo)
       IN  /\ feedback' = IF written
                          THEN Append(feedback, [type |-> Says[server.step], id |-> prompt.id])
                          ELSE feedback
           /\ server' =
                  IF server.step = "seen"
                  THEN [server EXCEPT !.announced = @ \cup {prompt.id},
                                      !.step = IF prompt.auto THEN "run" ELSE "wait"]
                  ELSE [server EXCEPT !.todo = Tail(@), !.step = "seen"]
    /\ Counts(written)
    /\ UNCHANGED <<prompts, commands, panel>>

(* autoRunPrompt: appendControlCommands, then markPromptHandled.           *)
QueueCommands(written) ==
    /\ server.todo # <<>> /\ server.step = "run"
    /\ commands' = IF written THEN Append(commands, Head(server.todo).id) ELSE commands
    /\ server' = [server EXCEPT !.step = IF written THEN "mark" ELSE "error"]
    /\ Counts(written)
    /\ UNCHANGED <<prompts, feedback, panel>>

MarkHandled(written) ==
    /\ server.todo # <<>> /\ server.step = "mark"
    /\ prompts' = IF written THEN Append(prompts, Handled(Head(server.todo).id)) ELSE prompts
    /\ server' = [server EXCEPT !.step = "done"]
    /\ Counts(written)
    /\ UNCHANGED <<feedback, commands, panel>>

-----------------------------------------------------------------------------
(* latestPendingPrompt: the last pending prompt that no line before it     *)
(* handles, or none if a line after it does.                               *)
Handles(lines, j, i) == ~lines[j].pending /\ lines[j].id = lines[i].id

LatestPending(lines) ==
    LET open == {i \in DOMAIN lines :
                     lines[i].pending /\ \A j \in 1..(i - 1) : ~Handles(lines, j, i)}
        last == CHOOSE i \in open : \A k \in open : k <= i
    IN  IF open = {} THEN NoPrompt
        ELSE IF \E j \in DOMAIN lines : Handles(lines, j, last) THEN NoPrompt
        ELSE lines[last].id

Unhandled(lines) ==
    {lines[i].id : i \in {k \in DOMAIN lines :
        lines[k].pending /\ \A j \in DOMAIN lines : ~Handles(lines, j, k)}}

(* runlab_get_pending_prompt, and the message that a prompt was read.      *)
AskForPrompt ==
    /\ server.tool = "idle" /\ server.told = NoPrompt
    /\ server.asked < MaxAsks
    /\ LET found == LatestPending(prompts)
       IN  server' = [server EXCEPT !.told = found, !.asked = @ + 1,
                                    !.tool = IF found = NoPrompt THEN "idle" ELSE "read",
                                    !.unheard = IF found = NoPrompt THEN Unhandled(prompts) ELSE {}]
    /\ UNCHANGED <<prompts, feedback, commands, panel, faults>>

SayRead ==
    /\ server.tool = "read"
    /\ feedback' = Append(feedback, [type |-> "prompt_read", id |-> server.told])
    /\ server' = [server EXCEPT !.tool = "idle"]
    /\ UNCHANGED <<prompts, commands, panel, faults>>

(* runlab_ack_prompt of the prompt it was told.                            *)
AckPrompt ==
    /\ server.tool = "idle" /\ server.told # NoPrompt
    /\ prompts' = Append(prompts, Handled(server.told))
    /\ server' = [server EXCEPT !.tool = "acked"]
    /\ UNCHANGED <<feedback, commands, panel, faults>>

SayDone ==
    /\ server.tool = "acked"
    /\ feedback' = Append(feedback, [type |-> "prompt_done", id |-> server.told])
    /\ server' = [server EXCEPT !.tool = "idle", !.told = NoPrompt]
    /\ UNCHANGED <<prompts, commands, panel, faults>>

(* The client ends the server, or it is killed, and another is started.    *)
RestartServer ==
    /\ faults < MaxFaults
    /\ faults' = faults + 1
    /\ server' = NewServer
    /\ UNCHANGED <<prompts, feedback, commands, panel>>

PromptsNext ==
    \/ \E written \in BOOLEAN :
         \/ \E auto \in BOOLEAN : SubmitPrompt(auto, written)
         \/ Announce(written)
         \/ QueueCommands(written)
         \/ MarkHandled(written)
    \/ TakeFeedbackSize \/ ReadFeedback \/ RestartEmulator
    \/ ReadPrompts
    \/ AskForPrompt \/ SayRead
    \/ AckPrompt \/ SayDone
    \/ RestartServer

PromptSpec == PromptsInit /\ [][PromptsNext]_promptVars

-----------------------------------------------------------------------------
(* Once the emulator has caught up with the feedback, the user sees the    *)
(* newest message: one that is appended by the watcher or by a tool while  *)
(* the file is read is not passed over (runlab_session.cpp:105-143).       *)
NewestFeedbackIsShown ==
    panel.poll = "size" /\ panel.offset = Len(feedback) /\ Len(feedback) > panel.since
        => panel.shown = feedback[Len(feedback)]

(* "Read the latest unhandled prompt" (mcp_tools.cpp:385): the tool says   *)
(* that no prompt is pending only when every prompt is handled.            *)
NoneMeansNone == server.unheard = {}
=============================================================================
