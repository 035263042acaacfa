------------------------------ MODULE Presenced ------------------------------
(***************************************************************************)
(* The presence daemon, project-b/presenced/__main__.py: main() up to the  *)
(* event loop, the coroutine _loop with its detector thread, the hyprctl   *)
(* child it awaits, the signal handlers and the exit.  FSM, detector and   *)
(* bridge are instances of their own modules.                              *)
(*                                                                         *)
(* Time advances by Tick, which never passes the moment the pending step   *)
(* is due: a detect() takes at most MaxDetect ticks, a hyprctl process at  *)
(* most MaxDispatch, the sleep exactly Interval unless stop ends it.       *)
(***************************************************************************)
EXTENDS Integers, FiniteSets

CONSTANTS
    Grace, Interval,            \* grace_period_s, frame_interval_s
    MaxDetect, MaxDispatch,     \* longest detector call, longest hyprctl run
    Horizon,                    \* bound: last clock reading
    Widths, Heights,            \* frame sizes of the camera
    Faults                      \* which of the environment's parts may fail

VARIABLES
    state, last_seen, grace_started, clock,     \* PresenceFSM
    cap, det, size, frame, answer,              \* YuNet
    child, screen,                              \* HyprBridge
    pc,         \* where main() and _loop are
    due,        \* latest end of the step that is pending, None without one
    stop,       \* the stop event: None, or the time at which it was set
    rc,         \* exit status, None while there is none
    here,       \* environment: somebody sits in front of the camera
    since,      \* environment: time of the last change of "here", or of the start
    seen        \* history: capture time of the last frame answered "face"

Fsm == INSTANCE PresenceFSM
Face == INSTANCE YuNet
Hypr == INSTANCE HyprBridge

None == -1
Killed == -15           \* died of the signal, no status of its own

fsm == <<state, last_seen, grace_started>>
face == <<cap, det, size, frame, answer>>
hypr == <<child, screen>>
world == <<here, since>>
vars == <<fsm, clock, face, hypr, pc, due, stop, rc, world, seen>>

FaultKinds == {"model", "camera", "detector", "hyprctl", "setup"}

ASSUME ConstantsAssumption ==
    /\ Grace \in Nat
    /\ Interval \in Nat
    /\ MaxDetect \in Nat
    /\ MaxDispatch \in Nat
    /\ Horizon \in Nat
    /\ Widths \subseteq Nat \ {0} /\ Heights \subseteq Nat \ {0}
    /\ Faults \subseteq FaultKinds

------------------------------------------------------------------------------

Init ==
    /\ clock = 1
    /\ Fsm!Init
    /\ Face!Init
    /\ Hypr!Init
    /\ pc = "boot"
    /\ due = None
    /\ stop = None
    /\ rc = None
    /\ here \in BOOLEAN
    /\ since = 1
    /\ seen = None

Terminate(status) ==
    /\ pc' = "exit"
    /\ rc' = status

(* Config.from_env raises on a number that is none, and YuNet is the only   *)
(* detector that build() accepts.                                          *)
ConfigRejected == Terminate(1)

(* preflight.run: the user is not in the group "video", or there is no     *)
(* camera node.                                                            *)
PreflightRefuses == Terminate(2)

(* main() before the loop, which --dry-run and --probe-only end as well.   *)
SetupEnds ==
    /\ pc = "boot"
    /\ \/ Terminate(0)
       \/ "setup" \in Faults /\ (ConfigRejected \/ PreflightRefuses)
    /\ UNCHANGED <<fsm, clock, face, hypr, due, stop, world, seen>>

(* Signal handlers installed, detector, bridge and FSM built. *)
EnterLoop ==
    /\ pc = "boot"
    /\ pc' = "top"
    /\ Fsm!Reset
    /\ since' = clock
    /\ UNCHANGED <<clock, face, hypr, due, stop, rc, here, seen>>

(* SIGINT or SIGTERM: stop.set once the handlers are there, death before.  *)
Signal ==
    /\ IF pc = "boot"
         THEN Terminate(Killed) /\ UNCHANGED stop
         ELSE /\ pc # "exit"
              /\ stop = None
              /\ stop' = clock
              /\ UNCHANGED <<pc, rc>>
    /\ UNCHANGED <<fsm, clock, face, hypr, due, world, seen>>

(* Slip: while True, the stop event only cuts the sleep short. *)
Never == FALSE
Stopped == stop # None

(* while not stop.is_set(): hand detect() to a thread. *)
LoopTop ==
    /\ pc = "top"
    /\ IF Stopped
         THEN pc' = "close" /\ UNCHANGED due
         ELSE pc' = "detect" /\ due' = clock + MaxDetect
    /\ UNCHANGED <<fsm, clock, face, hypr, stop, rc, world, seen>>

(* The thread runs detect(); the frame shows the scene of this moment.  A  *)
(* sound detector finds a face exactly when somebody is there.             *)
DetectRaises ==
    \/ "model" \in Faults /\ Face!ModelFails
    \/ "camera" \in Faults /\ Face!CameraFails
    \/ "detector" \in Faults /\ \E s \in Face!Sizes : Face!InferenceFails(s)

DetectAnswers ==
    \/ "camera" \in Faults /\ Face!ReadFails
    \/ \E s \in Face!Sizes, found \in BOOLEAN :
          /\ found = here \/ "detector" \in Faults
          /\ Face!FrameAnswers(s, found)

Detect ==
    /\ pc = "detect"
    /\ DetectRaises \/ DetectAnswers
    /\ pc' = "observe"
    /\ seen' = IF answer' = "face" THEN clock ELSE seen
    /\ UNCHANGED <<fsm, clock, hypr, due, stop, rc, world>>

Sleep ==
    /\ pc' = "wait"
    /\ due' = clock + Interval

(* Slip: the exception is logged and the loop goes on. *)
Swallow == Sleep /\ UNCHANGED rc
Raise == pc' = "close" /\ rc' = 1 /\ due' = None

(* The exception of the thread is raised by the await and leaves _loop. *)
DetectRaised ==
    /\ pc = "observe"
    /\ answer = "raised"
    /\ Raise
    /\ UNCHANGED <<fsm, clock, face, hypr, stop, world, seen>>

(* Slip: commands go out while the state lasts, not when it is entered. *)
LeftNowRepeated == state' = "away"

(* Slip: the screen is switched off when the grace period begins. *)
LeftNowInGrace == state = "present" /\ state' = "away_grace"

(* Slip: present_action after AWAY_GRACE instead of after AWAY. *)
BackNowFromGrace == state = "away_grace" /\ state' = "present"

(* The transition just taken asks for a command. *)
LeftNow == state # "away" /\ state' = "away"
BackNow == Fsm!Transition("away", "present")

(* Slip: away_action instead of present_action. *)
SameAgain == "off"
present_action == "on"
away_action == "off"

(* await hypr.dispatch(command): skipped when hyprctl is not available, an *)
(* exception when it cannot be started, a child to wait for otherwise.     *)
Dispatch(command) ==
    \/ /\ Hypr!Spawn(command)
       /\ pc' = "dispatch"
       /\ due' = clock + MaxDispatch
       /\ UNCHANGED rc
    \/ /\ "hyprctl" \in Faults
       /\ Hypr!NotSpawned
       /\ \/ Sleep /\ UNCHANGED rc
          \/ Raise

(* Back on the event loop, some time after the frame was taken. *)
Observe ==
    /\ pc = "observe"
    /\ answer # "raised"
    /\ Fsm!observe(answer = "face")
    /\ \/ LeftNow /\ Dispatch(away_action)
       \/ BackNow /\ Dispatch(present_action)
       \/ ~LeftNow /\ ~BackNow /\ Sleep /\ UNCHANGED <<hypr, rc>>
    /\ UNCHANGED <<clock, face, stop, world, seen>>

CommandEnds ==
    /\ pc = "dispatch"
    /\ \/ Hypr!Succeeds
       \/ "hyprctl" \in Faults /\ Hypr!Fails
    /\ Sleep
    /\ UNCHANGED <<fsm, clock, face, stop, rc, world, seen>>

(* wait_for(stop.wait(), timeout): the event or the timeout ends it. *)
Wake ==
    /\ pc = "wait"
    /\ stop # None \/ clock = due
    /\ pc' = "top"
    /\ due' = None
    /\ UNCHANGED <<fsm, clock, face, hypr, stop, rc, world, seen>>

(* Slip: close() after the loop instead of in the finally clause. *)
OnReturn == IF rc = None THEN Face!close ELSE UNCHANGED face
Finally == Face!close

(* finally: detector.close(), then return 0 or let the exception out. *)
Close ==
    /\ pc = "close"
    /\ Finally
    /\ Terminate(IF rc = None THEN 0 ELSE rc)
    /\ UNCHANGED <<fsm, clock, hypr, due, stop, world, seen>>

(* The event loop and its thread do not sit on work that is due. *)
Urgent ==
    \/ pc \in {"top", "close"}
    \/ clock = due
    \/ pc = "wait" /\ stop # None

Tick ==
    /\ clock < Horizon
    /\ pc # "exit"
    /\ ~Urgent
    /\ clock' = clock + 1
    /\ UNCHANGED <<fsm, face, hypr, pc, due, stop, rc, world, seen>>

UserMoves ==
    /\ here' = ~here
    /\ since' = clock
    /\ UNCHANGED <<fsm, clock, face, hypr, pc, due, stop, rc, seen>>

Daemon ==
    \/ SetupEnds \/ EnterLoop \/ LoopTop \/ Detect \/ DetectRaised
    \/ Observe \/ CommandEnds \/ Wake \/ Close

Next == Daemon \/ Signal \/ Tick \/ UserMoves

(* The kernel schedules the process, detect() returns, hyprctl exits and   *)
(* the clock runs; nobody has to move or to send a signal.                 *)
Spec == Init /\ [][Next]_vars /\ WF_vars(Daemon) /\ WF_vars(Tick)

------------------------------------------------------------------------------

Times == Nat \cup {None}

TypeOK ==
    /\ Fsm!TypeOK /\ Face!TypeOK /\ Hypr!TypeOK
    /\ pc \in {"boot", "top", "detect", "observe", "dispatch", "wait", "close", "exit"}
    /\ due \in Times /\ stop \in Times /\ seen \in Times
    /\ rc \in {None, Killed, 0, 1, 2}
    /\ here \in BOOLEAN /\ since \in Nat

Left == child = "none" /\ child' = "off"

(* README, PRESENCED_GRACE_PERIOD_S: the away command is only issued when   *)
(* no frame taken within the last Grace ticks showed a face.  The FSM       *)
(* counts from the moment it observes, a frame may be older than that.      *)
AwayOnlyAfterGrace == [][Left => seen = None \/ clock - seen >= Grace]_vars

(* The away command is not issued over somebody who sat in front of the     *)
(* camera for the whole grace period.                                       *)
AwayMeansLeft == [][Left => ~here \/ clock - since < Grace]_vars

(* Someone who left is declared away in less than this many ticks: a frame   *)
(* with a face is still being answered, perhaps a command runs, then the    *)
(* first miss starts the grace period and a late look ends it.              *)
AwayBound == Grace + 3 * MaxDetect + 2 * Interval + MaxDispatch

Looping == pc \notin {"boot", "close", "exit"} /\ stop = None

AwayInTime == Looping /\ ~here /\ clock - since >= AwayBound => state = "away"

(* Someone who came back has a lit screen within this many ticks, even when *)
(* the away command was just being issued.                                  *)
RelightBound == 2 * MaxDetect + Interval + 2 * MaxDispatch

RelitInTime == Looping /\ here /\ clock - since > RelightBound => screen = "on"

(* Between commands the screen is off exactly when the FSM says away: no    *)
(* transition that needs a command is ever taken without one.               *)
ScreenFollowsFsm ==
    child = "none" => (screen = "off" <=> state = "away")

(* A stop request is honoured within one detector call and one command.     *)
StopInTime ==
    stop # None /\ pc # "exit" => clock - stop <= MaxDetect + MaxDispatch

(* Every answer the FSM consumes was read from a camera that did open, even *)
(* though YuNet answers "no face" when detect() is called again after a     *)
(* failed open: the first exception ends the loop.                          *)
ObservedCameraOpen == pc = "observe" /\ answer # "raised" => cap = "open"

(* The network is resized exactly when it has to be, as YuNet says.         *)
DetectorSized == Face!DetectorSized

(* However the process ends, the camera is released and no child is left.   *)
LeavesNothing == pc = "exit" => cap = "none" /\ child = "none"

(* SIGTERM and SIGINT end the daemon.                                       *)
StopIsHonoured == stop # None ~> pc = "exit"

(* The daemon's life as PresencePolicy sees it: after the stop request a    *)
(* look is in flight until its answer has been observed.                    *)
Phase ==
    IF pc = "boot" THEN "starting"
    ELSE IF pc = "exit" THEN "exited"
    ELSE IF stop = None THEN "watching"
    ELSE IF pc \in {"detect", "observe"} THEN "finishing"
    ELSE "closed"

Policy == INSTANCE PresencePolicy WITH
    phase <- Phase, gone <- (state = "away"), cmd <- child

(* The daemon keeps the promises of PresencePolicy: commands alternate,     *)
(* never overlap, and at most the look in flight follows a stop request.    *)
PolicySpec == Policy!Spec

==============================================================================
