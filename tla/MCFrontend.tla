------------------------------ MODULE MCFrontend ------------------------------
(***************************************************************************)
(* The frontend's keepers of state, each alone in the behaviours that are  *)
(* about it: the frame timeline, the RetroAchievements session and its     *)
(* transport, the image cache and its transport, the stored login, the     *)
(* progress beside the machine's states, the prompts and their feedback.   *)
(* `part' names the one that moves; the others stay in one of their        *)
(* initial states.                                                         *)
(***************************************************************************)
EXTENDS FrameTimeline, RaSession, RaImageCache, RaConfig, RaProgress,
        RunLabPrompts, TLC

VARIABLE part

allVars == <<part, vars, sessionVars, imageVars, configVars, progressVars, promptVars>>

Parts == {"timeline", "session", "images", "login", "progress", "prompts"}

MCInit ==
    /\ part \in Parts
    /\ Init         /\ (part = "timeline" \/ ~netplay)
    /\ SessionInit  /\ (part = "session" \/ ra.commands = <<>>)
    /\ ImagesInit   /\ (part = "images" \/ images.disk = {})
    /\ ConfigInit   /\ (part = "login" \/ disk.now["file"] = NoEntry)
    /\ ProgressInit /\ (part = "progress" \/ (~files.old /\ game.rom = 1))
    /\ PromptsInit

MCNext ==
    /\ UNCHANGED part
    /\ \/ /\ part = "timeline" /\ Next
          /\ UNCHANGED <<sessionVars, imageVars, configVars, progressVars, promptVars>>
       \/ /\ part = "session" /\ SessionNext
          /\ UNCHANGED <<vars, imageVars, configVars, progressVars, promptVars>>
       \/ /\ part = "images" /\ ImagesNext
          /\ UNCHANGED <<vars, sessionVars, configVars, progressVars, promptVars>>
       \/ /\ part = "login" /\ ConfigNext
          /\ UNCHANGED <<vars, sessionVars, imageVars, progressVars, promptVars>>
       \/ /\ part = "progress" /\ ProgressNext
          /\ UNCHANGED <<vars, sessionVars, imageVars, configVars, promptVars>>
       \/ /\ part = "prompts" /\ PromptsNext
          /\ UNCHANGED <<vars, sessionVars, imageVars, configVars, progressVars>>

MCSpec == MCInit /\ [][MCNext]_allVars

TheConsoles == <<4, 6>>

(* Two users are alike.                                                    *)
Alike == Permutations(Users)
=============================================================================
