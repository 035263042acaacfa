------------------------------ MODULE HyprBridge ------------------------------
(***************************************************************************)
(* project-b/presenced/hypr.py: one hyprctl child process per command.     *)
(* The user's away_action and present_action are modelled by their         *)
(* defaults, "dpms off" and "dpms on".                                     *)
(***************************************************************************)

VARIABLES
    child,              \* the command of the hyprctl process that runs, or "none"
    screen              \* what the compositor shows (external to src/)

hypr == <<child, screen>>

Commands == {"off", "on"}

TypeOK == child \in Commands \cup {"none"} /\ screen \in Commands

Init == child = "none" /\ screen = "on"

(* dispatch() up to its first await: create_subprocess_exec succeeded. *)
Spawn(command) ==
    /\ child = "none"
    /\ child' = command
    /\ UNCHANGED screen

(* available() is false, or create_subprocess_exec raises: nothing runs. *)
NotSpawned == UNCHANGED hypr

(* communicate() returns; a non-zero status is logged and not retried. *)
Succeeds ==
    /\ child # "none"
    /\ screen' = child
    /\ child' = "none"

Fails ==
    /\ child # "none"
    /\ child' = "none"
    /\ UNCHANGED screen

==============================================================================
