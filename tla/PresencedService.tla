--------------------------- MODULE PresencedService ---------------------------
(***************************************************************************)
(* presenced as a desktop sees it: the systemd user unit that restarts it  *)
(* (contrib/systemd/presenced.service), the journal it logs to, and the    *)
(* scripts around it that read one or the other: the waybar widget         *)
(* (contrib/waybar/presenced.sh), the demo (scripts/demo.fish) and the     *)
(* toggle key (contrib/hypr/presenced.conf, contrib/waybar/config.jsonc).  *)
(* The daemon itself is reduced to its FSM and its commands; Presenced has *)
(* its clock, its camera and its exit path.  hyprctl works here: what goes *)
(* wrong in this module goes wrong without it.                             *)
(***************************************************************************)
EXTENDS Naturals, Sequences

CONSTANT Window         \* lines the readers ask journalctl for (-n 200)

(* A transition is followed by at most one line of the bridge, so two      *)
(* lines are the least a reader can do with.                               *)
ASSUME WindowAssumption == Window \in Nat \ {0, 1}

VARIABLES
    unit,       \* state of presenced.service as systemctl knows it
    mode,       \* FSM state of the running process
    looking,    \* a look is in flight: the loop has passed its stop test
    cmd,        \* command of the hyprctl child, or "none"
    screen,     \* what the compositor shows
    journal,    \* last Window lines the unit logged
    wanted,     \* the unit was started and nobody has stopped it since
    widget,     \* what waybar shows
    poll,       \* a run of presenced.sh: "idle", or "read" after is-active
    toggle      \* a press of the toggle: "idle", or what is-active made it do

daemon == <<mode, looking, cmd, screen>>
readers == <<widget, poll>>
vars == <<unit, daemon, journal, wanted, readers, toggle>>

Init ==
    /\ unit = "inactive"
    /\ mode = "unknown"
    /\ looking = FALSE
    /\ cmd = "none"
    /\ screen = "on"
    /\ journal = << >>
    /\ wanted = FALSE
    /\ widget = "off"
    /\ poll = "idle"
    /\ toggle = "idle"

Newest(lines) ==
    IF Len(lines) <= Window THEN lines
    ELSE SubSeq(lines, Len(lines) - Window + 1, Len(lines))

(* Lines are told apart by the transition they report, if any. *)
Log(targets) ==
    journal' = Newest(journal \o [i \in DOMAIN targets |->
                                     [to |-> targets[i], life |-> "this"]])

Aged == [i \in DOMAIN journal |-> [journal[i] EXCEPT !.life = "earlier"]]

Running == unit \in {"active", "deactivating"}

------------------------------------------------------------------------------
(* The unit: Type=simple, Restart=on-failure, RestartSec=5.                *)

(* A new process: its first lines are the probe's and "entered main loop". *)
Exec ==
    /\ unit' = "active"
    /\ mode' = "unknown"
    /\ looking' = FALSE
    /\ cmd' = "none"
    /\ journal' = Newest(Append(Aged, [to |-> "none", life |-> "this"]))
    /\ UNCHANGED screen

Start ==
    /\ unit \in {"inactive", "auto-restart"}
    /\ Exec
    /\ wanted' = TRUE

Stop ==
    /\ unit' = CASE unit = "active" -> "deactivating"
                 [] unit = "auto-restart" -> "inactive"
                 [] OTHER -> unit
    /\ wanted' = FALSE
    /\ UNCHANGED <<daemon, journal>>

RestartTimer ==
    /\ unit = "auto-restart"
    /\ Exec
    /\ UNCHANGED <<wanted, readers, toggle>>

(* Slip: Restart=no. *)
ForGood == "inactive"
OnFailure == IF unit = "active" THEN "auto-restart" ELSE "inactive"

(* An uncaught exception or a kill: status and traceback are in the        *)
(* journal, the child dies with the unit's control group.                  *)
Crash ==
    /\ Running
    /\ unit' = OnFailure
    /\ looking' = FALSE
    /\ cmd' = "none"
    /\ Log(<<"none">>)
    /\ UNCHANGED <<mode, screen, wanted, readers, toggle>>

(* _loop returns after stop.set: status 0, no restart. *)
CleanExit ==
    /\ unit = "deactivating"
    /\ ~looking /\ cmd = "none"
    /\ unit' = "inactive"
    /\ UNCHANGED <<daemon, journal, wanted, readers, toggle>>

------------------------------------------------------------------------------
(* The daemon.  The grace period ends at some look.                        *)

NextModes(face) ==
    IF face THEN {"present"}
    ELSE IF mode \in {"unknown", "present"} THEN {"away_grace"}
    ELSE IF mode = "away_grace" THEN {"away_grace", "away"}
    ELSE {"away"}

BeginLook ==
    /\ unit = "active"
    /\ ~looking /\ cmd = "none"
    /\ looking' = TRUE
    /\ UNCHANGED <<unit, mode, cmd, screen, journal, wanted, readers, toggle>>

LookEnds(face) ==
    /\ looking
    /\ looking' = FALSE
    /\ mode' \in NextModes(face)
    /\ cmd' = IF mode' = mode THEN "none"
              ELSE IF mode' = "away" THEN "off"
              ELSE IF mode = "away" THEN "on"
              ELSE "none"
    /\ UNCHANGED <<unit, screen, wanted, readers, toggle>>

(* Slip: a transition with a command is logged by the bridge only. *)
BridgeOnly == IF cmd' = "none" THEN <<mode'>> ELSE <<"none">>
Lines == IF cmd' = "none" THEN <<mode'>> ELSE <<mode', "none">>

(* The loop logs a transition, the bridge its command line, both before it *)
(* waits for the child.                                                    *)
Look(face) ==
    /\ LookEnds(face)
    /\ IF mode' = mode THEN UNCHANGED journal
       ELSE Log(Lines)

CommandRuns ==
    /\ cmd # "none"
    /\ screen' = cmd
    /\ cmd' = "none"
    /\ UNCHANGED <<unit, mode, looking, journal, wanted, readers, toggle>>

------------------------------------------------------------------------------
(* The scripts.                                                            *)

IsActive == unit = "active"

Transitions == {i \in DOMAIN journal : journal[i].to # "none"}

(* demo.fish: grep -oE '\-> (...)' | tail -1 *)
LastTransition ==
    IF Transitions = {} THEN "none"
    ELSE journal[CHOOSE i \in Transitions : \A j \in Transitions : j <= i].to

(* presenced.sh: the pattern begins with '-', grep takes it for options,   *)
(* prints a usage error and nothing else.                                  *)
WidgetMatch == "none"

(* Slip: exit status and output of the is-active test are ignored. *)
Unchecked == TRUE
SaysActive == IsActive

Poll ==
    /\ poll = "idle"
    /\ IF SaysActive
         THEN poll' = "read" /\ UNCHANGED widget
         ELSE widget' = "off" /\ UNCHANGED poll
    /\ UNCHANGED <<unit, daemon, journal, wanted, toggle>>

PollReads ==
    /\ poll = "read"
    /\ widget' = CASE WidgetMatch = "present" -> "present"
                   [] WidgetMatch = "away_grace" -> "grace"
                   [] WidgetMatch = "away" -> "away"
                   [] OTHER -> "unknown"
    /\ poll' = "idle"
    /\ UNCHANGED <<unit, daemon, journal, wanted, toggle>>

(* is-active && stop || start, a moment apart.  A start job of a unit that *)
(* is deactivating waits for the end of the stop job.                      *)
TogglePressed ==
    /\ toggle = "idle"
    /\ toggle' = IF IsActive THEN "stop" ELSE "start"
    /\ UNCHANGED <<unit, daemon, journal, wanted, readers>>

ToggleActs ==
    /\ toggle # "idle"
    /\ \/ toggle = "stop" /\ Stop
       \/ toggle = "start" /\ Start
       \/ /\ toggle = "start" /\ unit = "active"    \* nothing to start
          /\ UNCHANGED <<unit, daemon, journal, wanted>>
    /\ toggle' = "idle"
    /\ UNCHANGED readers

Unit == RestartTimer \/ Crash \/ CleanExit
Daemon == BeginLook \/ CommandRuns \/ \E face \in BOOLEAN : Look(face)
Readers == Poll \/ PollReads
Next == Unit \/ Daemon \/ Readers \/ TogglePressed \/ ToggleActs

(* systemd fires its timers and SIGTERM is honoured (StopIsHonoured of     *)
(* Presenced), waybar polls every two seconds, commands end.               *)
Spec ==
    /\ Init /\ [][Next]_vars
    /\ WF_vars(RestartTimer) /\ WF_vars(CleanExit)
    /\ WF_vars(CommandRuns) /\ WF_vars(\E face \in BOOLEAN : Look(face))
    /\ WF_vars(Poll) /\ WF_vars(PollReads) /\ WF_vars(ToggleActs)

------------------------------------------------------------------------------

(* demo.fish prints the last transition in the journal as the FSM's state:  *)
(* once the process has taken one, it is the state, even while the command  *)
(* of that transition runs and although the bridge logs after it.           *)
StatusIsMode == IsActive /\ mode # "unknown" => LastTransition = mode

(* presenced.sh:8: the widget of an active service shows the FSM's state.   *)
WidgetShowsState ==
    [][PollReads /\ IsActive /\ mode = "present" => widget' = "present"]_vars

(* A poll that raced the service's end is corrected: while the unit stays   *)
(* down, the widget ends up showing "off".                                  *)
WidgetSettles == <>[](unit = "inactive") => <>[](widget = "off")

(* Restart=on-failure: a service that is wanted comes back after any crash. *)
StaysUp == wanted ~> unit = "active" \/ ~wanted

==============================================================================
