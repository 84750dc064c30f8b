--------------------------- MODULE BusinessCommands ---------------------------
(***************************************************************************)
(* What becomes of a business command: core/command_handler.go routes it   *)
(* to the handler that was registered last for it, the business logic      *)
(* layer (application/business_logic.go) or the configuration handler      *)
(* (management/config_handler.go), and the handler answers.                *)
(***************************************************************************)
EXTENDS Naturals

BusinessCommand == {"query", "initialize", "stop", "reset", "move", "move_relative", "home", "jog",
                    "stop_motion", "safety", "self_check", "get_config", "set_config", "list_templates"}

BusinessHandles == {"query", "self_check", "stop", "home", "initialize", "safety"}
ConfigHandles == {"get_config", "set_config", "list_templates"}

\* RegisterHandler: a later handler takes over the commands of an earlier one.
Register(handlers, name, commands) ==
    [c \in DOMAIN handlers \cup commands |-> IF c \in commands THEN name ELSE handlers[c]]

\* setupCommandHandlers: the router before, between and after its two registrations.
NoHandlers == [c \in {} |-> ""]
BusinessHandlers == Register(NoHandlers, "business", BusinessHandles)
Handlers == Register(BusinessHandlers, "config", ConfigHandles)

\* mapBusinessToCommandType, -Priority, -Timeout.
TaskOf(cmd) ==
    [type     |-> CASE cmd \in {"move", "move_relative"} -> "MoveTo"
                    [] cmd = "home" -> "Home"
                    [] cmd = "stop" -> "Stop"
                    [] OTHER -> "Delay",
     priority |-> CASE cmd = "stop" -> "Emergency"
                    [] cmd \in {"safety", "self_check"} -> "High"
                    [] cmd \in {"home", "move"} -> "Medium"
                    [] OTHER -> "Low",
     timeout  |-> CASE cmd = "stop" -> 5
                    [] cmd \in {"safety", "self_check"} -> 15
                    [] cmd = "move" -> 60
                    [] OTHER -> 30]

\* ExecuteBusinessCommand: every command of the business logic but "query" makes a task; set_config
\* answers success and sets nothing.
MakesTask(cmd) == cmd \in DOMAIN Handlers /\ Handlers[cmd] = "business" /\ cmd # "query"
=============================================================================
