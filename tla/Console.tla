------------------------------ MODULE Console ------------------------------
(***************************************************************************)
(* The console and what it watches: its feeds, its mission form, presence  *)
(* and the operations chat, as one system.  A feed stands for any of the   *)
(* stored records, so no part reads what another keeps: a behaviour has    *)
(* the steps of one of them, its scene.                                    *)
(***************************************************************************)
EXTENDS ConsolePolls, ConsoleDraft, Presence, ChatLog

consoleVars == <<scene, pollVars, draftVars, officeVars, presenceVars, chatVars>>

PollScene(step) ==
    /\ scene = "polls" /\ step
    /\ UNCHANGED <<scene, draftVars, officeVars, presenceVars, chatVars>>

DraftScene ==
    /\ scene = "draft" /\ DraftNext
    /\ UNCHANGED <<scene, pollVars, officeVars, presenceVars, chatVars>>

PresenceScene(step) ==
    /\ scene = "presence" /\ step
    /\ UNCHANGED <<scene, pollVars, draftVars, ofc, asked, chatVars>>

ChatScene(step) ==
    /\ scene = "chat" /\ step
    /\ UNCHANGED <<scene, pollVars, draftVars, officeVars, presenceVars>>

ConsoleInit ==
    /\ scene \in {"polls", "draft", "presence", "chat"}
    /\ PollInit /\ DraftInit /\ PresenceInit /\ ChatInit
    /\ ofc = <<>> /\ asked = 0

ConsoleNext ==
    \/ PollScene(PollNext) \/ DraftScene
    \/ PresenceScene(PresenceNext) \/ ChatScene(ChatNext)

(* The console's timers and the chat's loop go on, and what is asked of    *)
(* the hub is worked off.                                                  *)
ConsoleFairness ==
    /\ WF_consoleVars(PresenceScene(PresenceRequest) \/ ChatScene(ChatWork))
    /\ \A f \in Feeds : WF_consoleVars(PollScene(FeedWork(f)))

ConsoleSpec == ConsoleInit /\ [][ConsoleNext]_consoleVars /\ ConsoleFairness
=============================================================================
