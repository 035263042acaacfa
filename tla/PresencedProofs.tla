--------------------------- MODULE PresencedProofs ---------------------------
(***************************************************************************)
(* Safety of the presence daemon for every grace period, sampling interval,*)
(* latency bound and set of faults.                                        *)
(***************************************************************************)
EXTENDS Presenced, TLAPS

USE ConstantsAssumption

Timed == {"detect", "observe", "dispatch", "wait"}

(* A pending step is due at a time that is not over, and not further away  *)
(* than the longest detector call or command.                              *)
DueInv ==
    /\ pc \in Timed => due \in Nat /\ clock <= due
    /\ pc \in {"detect", "observe"} => due <= clock + MaxDetect
    /\ pc = "dispatch" => due <= clock + MaxDispatch

(* The grace period of the FSM began after the last frame with a face that *)
(* the FSM has been told of.                                               *)
GraceInv ==
    /\ clock >= 1
    /\ seen # None => seen <= clock
    /\ state \in {"away_grace", "away"} =>
         /\ grace_started \in 1..clock
         /\ ~(pc = "observe" /\ answer = "face") =>
                seen = None \/ seen <= grace_started

(* Nothing has happened in boot; how far the clock can run once stop is set. *)
StopInv ==
    /\ pc = "boot" => stop = None /\ state = "unknown"
    /\ stop # None =>
         /\ stop <= clock
         /\ pc \in {"detect", "observe"} => due <= stop + MaxDetect
         /\ pc = "dispatch" => due <= stop + MaxDetect + MaxDispatch
         /\ pc \in {"top", "wait", "close"} =>
                clock <= stop + MaxDetect + MaxDispatch

(* The capture only stays unopened on the way out. *)
CameraInv ==
    /\ pc = "observe" => answer # "none"
    /\ pc \in {"boot", "exit"} => cap = "none"
    /\ cap = "unopened" => answer = "raised" /\ pc \in {"observe", "close"}
    /\ cap = "none" =>
         pc \in {"boot", "top", "detect", "close", "exit"}
         \/ (pc = "observe" /\ answer = "raised")

(* The child runs while the loop awaits it and at no other time. *)
ChildInv == child # "none" <=> pc = "dispatch"

IInv == TypeOK /\ DueInv /\ GraceInv /\ StopInv /\ CameraInv /\ ChildInv

------------------------------------------------------------------------------

LEMMA InitHolds == Init => IInv
  BY DEF Init, IInv, TypeOK, DueInv, GraceInv, StopInv, CameraInv, ChildInv,
         Timed, Times, None, Killed, Fsm!Init, Face!Init, Hypr!Init, Fsm!TypeOK,
         Face!TypeOK, Hypr!TypeOK, Fsm!States, Fsm!None, Hypr!Commands

LEMMA TypePreserved == TypeOK /\ [Next]_vars => TypeOK'
<1> SUFFICES ASSUME TypeOK, [Next]_vars PROVE TypeOK'
  OBVIOUS
<1> USE DEF TypeOK, Times, None, Killed
<1>1. CASE SetupEnds
  BY <1>1 DEF SetupEnds, ConfigRejected, PreflightRefuses,
              Terminate, fsm, face, hypr, world,
              Fsm!TypeOK, Face!TypeOK, Hypr!TypeOK
<1>2. CASE EnterLoop
  BY <1>2 DEF EnterLoop, Fsm!Reset, fsm, face, hypr, world,
              Fsm!TypeOK, Face!TypeOK, Hypr!TypeOK, Fsm!States, Fsm!None
<1>3. CASE LoopTop
  BY <1>3 DEF LoopTop, Stopped, fsm, face, hypr, world, Fsm!TypeOK, Face!TypeOK, Hypr!TypeOK
<1>4. CASE Detect
  <2>1. Face!TypeOK'
    BY <1>4 DEF Detect, DetectRaises, DetectAnswers, Face!TypeOK, Face!ModelFails,
                Face!CameraFails, Face!InferenceFails, Face!ReadFails,
                Face!FrameAnswers, Face!FrameArrives, Face!OtherSize, Face!Unpacked, Face!lazy_init, Face!DetInit
  <2>2. QED
    BY <1>4, <2>1 DEF Detect, fsm, hypr, world, Fsm!TypeOK, Hypr!TypeOK
<1>5. CASE DetectRaised
  BY <1>5 DEF DetectRaised, Raise, fsm, face, hypr, world, Fsm!TypeOK, Face!TypeOK, Hypr!TypeOK
<1>6. CASE Observe
  <2>1. Fsm!TypeOK'
    BY <1>6 DEF Observe, away_action, present_action, Fsm!TypeOK, Fsm!States, Fsm!None, Fsm!observe, Fsm!FaceSeen,
                Fsm!FaceLost, Fsm!DeclareAway, Fsm!StillMissing, Fsm!StillRunning, Fsm!fsm
  <2>2. Hypr!TypeOK' /\ pc' \in {"dispatch", "wait", "close"} /\ due' \in Times
        /\ rc' \in {None, Killed, 0, 1, 2}
    BY <1>6 DEF Observe, away_action, present_action, Dispatch, Raise, Sleep, hypr, Hypr!Spawn, Hypr!NotSpawned,
                Hypr!hypr, Hypr!TypeOK, Hypr!Commands, Fsm!TypeOK
  <2>3. QED
    BY <1>6, <2>1, <2>2 DEF Observe, away_action, present_action, face, world, Face!TypeOK
<1>7. CASE CommandEnds
  BY <1>7 DEF CommandEnds, Sleep, fsm, face, world, Hypr!Succeeds, Hypr!Fails,
              Fsm!TypeOK, Face!TypeOK, Hypr!TypeOK, Hypr!Commands
<1>8. CASE Wake
  BY <1>8 DEF Wake, fsm, face, hypr, world, Fsm!TypeOK, Face!TypeOK, Hypr!TypeOK
<1>9. CASE Close
  BY <1>9 DEF Close, Finally, Terminate, Face!close, fsm, hypr, world,
              Fsm!TypeOK, Face!TypeOK, Hypr!TypeOK
<1>10. CASE Signal
  BY <1>10 DEF Signal, Terminate, fsm, face, hypr, world,
               Fsm!TypeOK, Face!TypeOK, Hypr!TypeOK
<1>11. CASE Tick
  BY <1>11 DEF Tick, fsm, face, hypr, world, Fsm!TypeOK, Face!TypeOK, Hypr!TypeOK
<1>12. CASE UserMoves
  BY <1>12 DEF UserMoves, fsm, face, hypr, Fsm!TypeOK, Face!TypeOK, Hypr!TypeOK
<1>13. CASE UNCHANGED vars
  BY <1>13 DEF vars, fsm, face, hypr, world, Fsm!TypeOK, Face!TypeOK, Hypr!TypeOK
<1>14. QED
  BY <1>1, <1>2, <1>3, <1>4, <1>5, <1>6, <1>7, <1>8, <1>9, <1>10, <1>11, <1>12,
     <1>13 DEF Next, Daemon

(* Every variable of the daemon keeps its type under every fault. *)
THEOREM TypeCorrect == Spec => []TypeOK
<1>1. Init => TypeOK
  BY InitHolds DEF IInv
<1>2. QED
  BY <1>1, TypePreserved, PTL DEF Spec

------------------------------------------------------------------------------

LEMMA DuePreserved == TypeOK /\ DueInv /\ [Next]_vars => DueInv'
<1> SUFFICES ASSUME TypeOK, DueInv, [Next]_vars PROVE DueInv'
  OBVIOUS
<1> USE DEF TypeOK, DueInv, Timed, Fsm!TypeOK, Times, None
<1>1. CASE SetupEnds \/ EnterLoop \/ DetectRaised \/ Wake \/ Close
  BY <1>1 DEF SetupEnds, ConfigRejected, PreflightRefuses,
              EnterLoop, DetectRaised, Raise, Wake, Close, Finally, Terminate
<1>2. CASE LoopTop \/ Detect \/ Signal
  BY <1>2 DEF LoopTop, Stopped, Detect, Signal, Terminate
<1>3. CASE Observe \/ CommandEnds
  BY <1>3 DEF Observe, away_action, present_action, CommandEnds, Dispatch, Raise, Sleep
<1>4. CASE Tick
  BY <1>4 DEF Tick, Urgent
<1>5. CASE UserMoves \/ UNCHANGED vars
  BY <1>5 DEF UserMoves, vars
<1>6. QED
  BY <1>1, <1>2, <1>3, <1>4, <1>5 DEF Next, Daemon

LEMMA StopPreserved ==
    TypeOK /\ DueInv /\ StopInv /\ [Next]_vars => StopInv'
<1> SUFFICES ASSUME TypeOK, DueInv, StopInv, [Next]_vars PROVE StopInv'
  OBVIOUS
<1> USE DEF TypeOK, DueInv, StopInv, Timed, Fsm!TypeOK, Times, None, fsm
<1>1. CASE SetupEnds \/ EnterLoop
  BY <1>1 DEF SetupEnds, ConfigRejected, PreflightRefuses,
              EnterLoop, Terminate
<1>8. CASE DetectRaised
  <2>1. stop # None => clock <= due /\ due <= stop + MaxDetect
    BY <1>8 DEF DetectRaised, Raise
  <2>2. pc' = "close" /\ UNCHANGED <<clock, stop>>
    BY <1>8 DEF DetectRaised, Raise
  <2>3. QED
    BY <2>1, <2>2
<1>9. CASE Wake \/ Close
  BY <1>9 DEF Wake, Close, Finally, Terminate
<1>2. CASE LoopTop \/ Detect
  BY <1>2 DEF LoopTop, Stopped, Detect
<1>3. CASE Signal
  BY <1>3 DEF Signal, Terminate
<1>4. CASE Observe
  <2>1. /\ pc = "observe"
        /\ pc' \in {"dispatch", "wait", "close"}
        /\ pc' = "dispatch" => due' = clock + MaxDispatch
        /\ UNCHANGED <<clock, stop>>
    BY <1>4 DEF Observe, away_action, present_action, Dispatch, Raise, Sleep
  <2>2. QED
    BY <2>1
<1>5. CASE CommandEnds
  BY <1>5 DEF CommandEnds, Sleep
<1>6. CASE Tick
  BY <1>6 DEF Tick, Urgent
<1>7. CASE UserMoves \/ UNCHANGED vars
  BY <1>7 DEF UserMoves, vars
<1>10. QED
  BY <1>1, <1>2, <1>3, <1>4, <1>5, <1>6, <1>7, <1>8, <1>9 DEF Next, Daemon

LEMMA ChildPreserved == TypeOK /\ ChildInv /\ [Next]_vars => ChildInv'
<1> SUFFICES ASSUME TypeOK, ChildInv, [Next]_vars PROVE ChildInv'
  OBVIOUS
<1> USE DEF ChildInv, hypr
<1>1. CASE SetupEnds \/ EnterLoop \/ LoopTop \/ Detect \/ DetectRaised \/ Wake \/ Close
  BY <1>1 DEF SetupEnds, ConfigRejected, PreflightRefuses,
              EnterLoop, LoopTop, Stopped, Detect, DetectRaised, Raise, Wake, Close, Finally, Terminate
<1>2. CASE Observe
  BY <1>2 DEF Observe, away_action, present_action, Dispatch, Raise, Sleep, Hypr!Spawn, Hypr!NotSpawned, Hypr!hypr
<1>3. CASE CommandEnds
  BY <1>3 DEF CommandEnds, Sleep, Hypr!Succeeds, Hypr!Fails
<1>4. CASE Signal \/ Tick \/ UserMoves \/ UNCHANGED vars
  BY <1>4 DEF Signal, Tick, UserMoves, vars, Terminate
<1>5. QED
  BY <1>1, <1>2, <1>3, <1>4 DEF Next, Daemon

LEMMA CameraPreserved == TypeOK /\ CameraInv /\ [Next]_vars => CameraInv'
<1> SUFFICES ASSUME TypeOK, CameraInv, [Next]_vars PROVE CameraInv'
  OBVIOUS
<1> USE DEF CameraInv, face
<1>1. CASE SetupEnds \/ EnterLoop \/ LoopTop \/ Wake
  BY <1>1 DEF SetupEnds, ConfigRejected, PreflightRefuses,
              EnterLoop, LoopTop, Stopped, Wake, Terminate
<1>2. CASE Detect
  BY <1>2 DEF Detect, DetectRaises, DetectAnswers, Face!ModelFails, Face!CameraFails,
              Face!InferenceFails, Face!ReadFails, Face!FrameAnswers,
              Face!FrameArrives, Face!OtherSize, Face!Unpacked, Face!lazy_init, TypeOK, Face!TypeOK
<1>3. CASE DetectRaised \/ Observe \/ CommandEnds
  BY <1>3 DEF DetectRaised, Raise, Observe, Dispatch, Sleep, CommandEnds
<1>4. CASE Close
  BY <1>4 DEF Close, Finally, Terminate, Face!close
<1>5. CASE Signal \/ Tick \/ UserMoves \/ UNCHANGED vars
  BY <1>5 DEF Signal, Tick, UserMoves, vars, Terminate
<1>6. QED
  BY <1>1, <1>2, <1>3, <1>4, <1>5 DEF Next, Daemon

LEMMA GracePreserved == TypeOK /\ GraceInv /\ [Next]_vars => GraceInv'
<1> SUFFICES ASSUME TypeOK, GraceInv, [Next]_vars PROVE GraceInv'
  OBVIOUS
<1> USE DEF TypeOK, Fsm!TypeOK, Times, None, Fsm!None, GraceInv, fsm, face
<1>1. CASE SetupEnds \/ LoopTop \/ DetectRaised \/ Wake \/ Signal \/ UserMoves
  BY <1>1 DEF SetupEnds, ConfigRejected, PreflightRefuses,
              LoopTop, Stopped, DetectRaised, Raise, Wake, Signal, UserMoves, Terminate
<1>2. CASE EnterLoop
  BY <1>2 DEF EnterLoop, Fsm!Reset
<1>3. CASE Detect
  BY <1>3 DEF Detect
<1>4. CASE Observe
  <2>1. CASE answer = "face"
    BY <1>4, <2>1 DEF Observe, away_action, present_action, Dispatch, Raise, Sleep, Fsm!observe, Fsm!FaceSeen
  <2>2. CASE answer # "face"
    BY <1>4, <2>2 DEF Observe, away_action, present_action, Dispatch, Raise, Sleep, Fsm!observe, Fsm!FaceLost,
                      Fsm!DeclareAway, Fsm!StillMissing, Fsm!StillRunning, Fsm!fsm
  <2>3. QED
    BY <2>1, <2>2
<1>5. CASE CommandEnds \/ Close
  BY <1>5 DEF CommandEnds, Sleep, Close, Finally, Terminate, Face!close
<1>6. CASE Tick
  BY <1>6 DEF Tick
<1>7. CASE UNCHANGED vars
  BY <1>7 DEF vars
<1>8. QED
  BY <1>1, <1>2, <1>3, <1>4, <1>5, <1>6, <1>7 DEF Next, Daemon

LEMMA Invariance == Spec => []IInv
<1>1. IInv /\ [Next]_vars => IInv'
  BY TypePreserved, DuePreserved, StopPreserved, ChildPreserved, CameraPreserved,
     GracePreserved DEF IInv
<1>2. QED
  BY InitHolds, <1>1, PTL DEF Spec

------------------------------------------------------------------------------

(* Only an observation issues the away command. *)
LEMMA LeftIsObserved == [Next]_vars /\ Left => Observe
  BY DEF Left, Next, Daemon, SetupEnds, ConfigRejected, PreflightRefuses,
         EnterLoop, LoopTop, Stopped, Detect, DetectRaised, Raise, CommandEnds, Wake,
         Close, Finally, Signal, Tick, UserMoves, vars, hypr, Hypr!Succeeds, Hypr!Fails

(* No away command within Grace ticks of a frame that showed a face,       *)
(* whatever the latencies, the faults and the moment of a signal.          *)
THEOREM AwayCommandAfterGrace == Spec => AwayOnlyAfterGrace
<1>1. ASSUME IInv, [Next]_vars, Left
      PROVE  seen = None \/ clock - seen >= Grace
  <2>1. Observe
    BY <1>1, LeftIsObserved
  <2>2. LeftNow
    BY <1>1, <2>1 DEF Left, Observe, away_action, present_action, Dispatch, Raise, Hypr!Spawn, Hypr!NotSpawned, Hypr!hypr,
                      hypr
  <2>3. Fsm!DeclareAway /\ answer # "face"
    BY <2>1, <2>2 DEF LeftNow, Observe, Fsm!observe, Fsm!FaceSeen, Fsm!FaceLost,
                      Fsm!StillMissing, Fsm!StillRunning, Fsm!fsm
  <2>4. state = "away_grace" /\ clock - Fsm!Started >= Grace
    BY <2>3 DEF Fsm!DeclareAway, Fsm!GraceElapsed
  <2>5. /\ grace_started \in 1..clock
        /\ seen = None \/ seen <= grace_started
    BY <1>1, <2>3, <2>4 DEF IInv, GraceInv
  <2>6. clock - grace_started >= Grace
    BY <2>4, <2>5 DEF Fsm!Started, Fsm!None
  <2>7. QED
    BY <1>1, <2>5, <2>6 DEF IInv, TypeOK, Fsm!TypeOK, Times, None
<1>2. QED
  BY Invariance, <1>1, PTL DEF Spec, AwayOnlyAfterGrace

(* A stop request is honoured within one detector call and one command.    *)
THEOREM StopLatency == Spec => []StopInTime
<1>1. IInv => StopInTime
  BY DEF IInv, TypeOK, Fsm!TypeOK, Times, None, DueInv, StopInv, StopInTime, Timed
<1>2. QED
  BY Invariance, <1>1, PTL

(* The FSM only consumes answers of a camera that did open.                *)
THEOREM ObservationsAreReal == Spec => []ObservedCameraOpen
<1>1. IInv => ObservedCameraOpen
  BY DEF IInv, TypeOK, Face!TypeOK, CameraInv, ObservedCameraOpen
<1>2. QED
  BY Invariance, <1>1, PTL

(* Whatever ends the process, camera and child are gone.                   *)
THEOREM NothingIsLeft == Spec => []LeavesNothing
<1>1. IInv => LeavesNothing
  BY DEF IInv, CameraInv, ChildInv, LeavesNothing
<1>2. QED
  BY Invariance, <1>1, PTL

------------------------------------------------------------------------------

(* While hyprctl works, the command that runs is the one the state needs.  *)
ScreenInv ==
    /\ child = "none" => (screen = "off" <=> state = "away")
    /\ child # "none" => (child = "off" <=> state = "away")

LEMMA ScreenPreserved ==
    ASSUME "hyprctl" \notin Faults, IInv, ScreenInv, [Next]_vars
    PROVE  ScreenInv'
<1> USE DEF ScreenInv, fsm, hypr, IInv, TypeOK, Hypr!TypeOK, Hypr!Commands, Fsm!TypeOK,
            Fsm!States
<1>1. CASE SetupEnds \/ LoopTop \/ Detect \/ DetectRaised \/ Wake \/ Close
  BY <1>1 DEF SetupEnds, ConfigRejected, PreflightRefuses,
              LoopTop, Stopped, Detect, DetectRaised, Raise, Wake, Close, Finally, Terminate
<1>2. CASE EnterLoop
  BY <1>2 DEF EnterLoop, Fsm!Reset, StopInv
<1>3. CASE Observe
  <2>1. child = "none"
    BY <1>3 DEF Observe, away_action, present_action, ChildInv
  <2>2. ASSUME LeftNow, Dispatch("off") PROVE ScreenInv'
    BY <1>3, <2>1, <2>2 DEF LeftNow, Dispatch, Raise, Hypr!Spawn
  <2>3. ASSUME BackNow, Dispatch("on") PROVE ScreenInv'
    BY <1>3, <2>1, <2>3 DEF BackNow, Fsm!Transition, Dispatch, Raise, Hypr!Spawn
  <2>4. ASSUME ~LeftNow, ~BackNow, Sleep, UNCHANGED hypr PROVE ScreenInv'
    <3>1. state = "away" <=> state' = "away"
      BY <1>3, <2>4 DEF LeftNow, BackNow, Observe, Fsm!Transition, Fsm!observe,
                        Fsm!FaceSeen, Fsm!FaceLost, Fsm!DeclareAway,
                        Fsm!StillMissing, Fsm!StillRunning, Fsm!fsm
    <3>2. QED
      BY <2>1, <2>4, <3>1 DEF Sleep
  <2>5. QED
    BY <1>3, <2>2, <2>3, <2>4 DEF Observe, away_action, present_action
<1>4. CASE CommandEnds
  BY <1>4 DEF CommandEnds, Sleep, Hypr!Succeeds
<1>5. CASE Signal \/ Tick \/ UserMoves \/ UNCHANGED vars
  BY <1>5 DEF Signal, Tick, UserMoves, vars, Terminate
<1>6. QED
  BY <1>1, <1>2, <1>3, <1>4, <1>5 DEF Next, Daemon

(* With a working hyprctl the screen is off exactly while the FSM says     *)
(* away, whatever camera, detector and signals do.                         *)
THEOREM ScreenFollows ==
    ASSUME "hyprctl" \notin Faults
    PROVE  Spec => []ScreenFollowsFsm
<1>1. Init => ScreenInv
  BY DEF Init, ScreenInv, Fsm!Init, Hypr!Init
<1>2. IInv /\ ScreenInv /\ [Next]_vars => ScreenInv'
  BY ScreenPreserved
<1>3. ScreenInv => ScreenFollowsFsm
  BY DEF ScreenInv, ScreenFollowsFsm
<1>4. QED
  BY Invariance, <1>1, <1>2, <1>3, PTL DEF Spec

------------------------------------------------------------------------------

LEMMA PolicyStep == IInv /\ [Next]_vars => [Policy!Next]_(Policy!vars)
<1> SUFFICES ASSUME IInv, [Next]_vars PROVE [Policy!Next]_(Policy!vars)
  OBVIOUS
<1> DEFINE Quiet == UNCHANGED <<Phase, state, child>>
<1>a. ASSUME Quiet PROVE UNCHANGED Policy!vars
  BY <1>a DEF Policy!vars
<1>1. CASE SetupEnds \/ EnterLoop
  <2>1. /\ Phase = "starting" /\ Phase' \in {"watching", "exited"}
        /\ child' = child /\ (state' = "away" <=> state = "away")
    BY <1>1 DEF SetupEnds, ConfigRejected, PreflightRefuses,
                EnterLoop, Terminate, Phase, IInv, StopInv, Fsm!Reset,
                fsm, hypr
  <2>2. QED
    BY <2>1 DEF Policy!Next, Policy!Begin
<1>2. CASE LoopTop \/ Detect \/ Wake
  BY <1>2, <1>a DEF LoopTop, Stopped, Detect, Wake, Phase, fsm, hypr
<1>3. CASE DetectRaised
  <2>1. UNCHANGED <<state, child>>
    BY <1>3 DEF DetectRaised, Raise, fsm, hypr
  <2>2. Phase' = Phase \/ (Phase = "finishing" /\ Phase' = "closed")
    BY <1>3 DEF DetectRaised, Raise, Phase
  <2>3. QED
    BY <2>1, <2>2, <1>a DEF Policy!Next, Policy!NothingNew, Policy!LookEnds
<1>4. CASE Observe
  <2>1. /\ child = "none"
        /\ Phase \in {"watching", "finishing"}
        /\ Phase' = IF Phase = "finishing" THEN "closed" ELSE Phase
    BY <1>4 DEF Observe, away_action, present_action, Dispatch, Raise, Sleep, Phase, IInv, ChildInv
  <2>2. CASE LeftNow
    <3>1. state # "away" /\ state' = "away" /\ child' \in {"none", "off"}
      BY <1>4, <2>1, <2>2 DEF Observe, away_action, present_action, LeftNow, BackNow, Fsm!Transition, Dispatch, Raise,
                              Hypr!Spawn, Hypr!NotSpawned, Hypr!hypr
    <3>2. QED
      BY <2>1, <3>1 DEF Policy!Next, Policy!Declare, Policy!LookEnds
  <2>3. CASE BackNow
    <3>1. state = "away" /\ state' # "away" /\ child' \in {"none", "on"}
      BY <1>4, <2>1, <2>3 DEF Observe, away_action, present_action, LeftNow, BackNow, Fsm!Transition, Dispatch, Raise,
                              Hypr!Spawn, Hypr!NotSpawned, Hypr!hypr
    <3>2. QED
      BY <2>1, <3>1 DEF Policy!Next, Policy!Declare, Policy!LookEnds
  <2>4. CASE ~LeftNow /\ ~BackNow
    <3>1. child' = child /\ (state' = "away" <=> state = "away")
      BY <1>4, <2>4 DEF Observe, away_action, present_action, LeftNow, BackNow, Fsm!Transition, Fsm!observe,
                        Fsm!FaceSeen, Fsm!FaceLost, Fsm!DeclareAway,
                        Fsm!StillMissing, Fsm!StillRunning, Fsm!fsm, hypr
    <3>2. CASE Phase = "finishing"
      BY <2>1, <3>1, <3>2 DEF Policy!Next, Policy!NothingNew, Policy!LookEnds
    <3>3. CASE Phase # "finishing"
      BY <2>1, <3>1, <3>3 DEF Policy!vars
    <3>4. QED
      BY <3>2, <3>3
  <2>5. QED
    BY <2>2, <2>3, <2>4
<1>5. CASE CommandEnds
  <2>1. UNCHANGED <<Phase, state>> /\ child # "none" /\ child' = "none"
    BY <1>5 DEF CommandEnds, Sleep, Phase, Hypr!Succeeds, Hypr!Fails, fsm
  <2>2. QED
    BY <2>1 DEF Policy!Next, Policy!Done
<1>6. CASE Close
  <2>1. /\ Phase \in {"watching", "closed"} /\ Phase' = "exited"
        /\ child = "none" /\ UNCHANGED <<state, child>>
    BY <1>6 DEF Close, Finally, Terminate, Phase, IInv, ChildInv, fsm, hypr
  <2>2. QED
    BY <2>1 DEF Policy!Next, Policy!Exit
<1>7. CASE Signal
  <2>1. UNCHANGED <<state, child>>
    BY <1>7 DEF Signal, fsm, hypr
  <2>2. \/ Phase = "starting" /\ Phase' = "exited"
        \/ Phase = "watching" /\ Phase' \in {"finishing", "closed"}
    BY <1>7 DEF Signal, Terminate, Phase, IInv, TypeOK, Fsm!TypeOK, None
  <2>3. QED
    BY <2>1, <2>2 DEF Policy!Next, Policy!Begin, Policy!Stop
<1>8. CASE Tick \/ UserMoves \/ UNCHANGED vars
  BY <1>8, <1>a DEF Tick, UserMoves, vars, Phase, fsm, hypr
<1>9. QED
  BY <1>1, <1>2, <1>3, <1>4, <1>5, <1>6, <1>7, <1>8 DEF Next, Daemon

(* The daemon implements PresencePolicy's safety part: commands alternate, *)
(* never overlap, and at most the look in flight follows a stop request.   *)
THEOREM ImplementsPolicy == Spec => Policy!Init /\ [][Policy!Next]_(Policy!vars)
<1>1. Init => Policy!Init
  BY DEF Init, Fsm!Init, Hypr!Init, Policy!Init, Phase
<1>2. QED
  BY Invariance, <1>1, PolicyStep, PTL DEF Spec

------------------------------------------------------------------------------

(* A size is remembered only while there is a network, and then it is the  *)
(* network's; the last frame had that size.                                *)
DetectorInv ==
    /\ cap = "none" => det = Face!None /\ size = Face!None /\ frame = Face!None
    /\ cap # "none" => det # Face!None /\ (size # Face!None => det = size)
    /\ frame # Face!None => frame = size

LEMMA NoneIsNoSize == Face!None \notin Face!Sizes /\ Face!CreatedSize # Face!None
  BY DEF Face!None, Face!Sizes, Face!CreatedSize

LEMMA FrameKeepsDetector ==
    ASSUME DetectorInv, NEW s \in Face!Sizes, Face!FrameArrives(s)
    PROVE  DetectorInv'
<1>1. s # Face!None /\ Face!CreatedSize # Face!None
  BY NoneIsNoSize
<1>2. /\ cap' # "none"
      /\ frame' = s
      /\ det' = IF size # s THEN s ELSE Face!DetInit
      /\ size' = IF size # s THEN s ELSE size
  BY DEF Face!FrameArrives, Face!lazy_init, Face!OtherSize, Face!Unpacked
<1>3. size' = s
  BY <1>2
<1>4. det' = s
  BY <1>1, <1>2 DEF DetectorInv, Face!DetInit
<1>5. QED
  BY <1>1, <1>2, <1>3, <1>4 DEF DetectorInv

LEMMA DetectorPreserved == DetectorInv /\ [Next]_vars => DetectorInv'
<1> SUFFICES ASSUME DetectorInv, [Next]_vars PROVE DetectorInv'
  OBVIOUS
<1>1. CASE Detect
  <2>1. CASE Face!ModelFails
    BY <2>1 DEF Face!ModelFails, DetectorInv
  <2>2. CASE Face!CameraFails
    BY <2>2, NoneIsNoSize DEF Face!CameraFails, DetectorInv
  <2>3. CASE Face!ReadFails
    BY <2>3, NoneIsNoSize DEF Face!ReadFails, Face!lazy_init, Face!DetInit, DetectorInv
  <2>4. CASE \E s \in Face!Sizes : Face!FrameArrives(s)
    BY <2>4, FrameKeepsDetector
  <2>5. QED
    BY <1>1, <2>1, <2>2, <2>3, <2>4 DEF Detect, DetectRaises, DetectAnswers,
       Face!InferenceFails, Face!FrameAnswers
<1>2. CASE Close
  BY <1>2 DEF Close, Finally, Face!close, DetectorInv
<1>3. CASE UNCHANGED face
  BY <1>3 DEF face, DetectorInv
<1>4. QED
  BY <1>1, <1>2, <1>3 DEF Next, Daemon, SetupEnds, EnterLoop, LoopTop, DetectRaised,
     Observe, CommandEnds, Wake, Signal, Tick, UserMoves, vars

(* Whatever sizes the camera delivers, in whatever order, and whichever    *)
(* opens, reads and inferences fail: the network has the size of the frame *)
(* it is given, although setInputSize is skipped for a remembered size.    *)
THEOREM NetworkFitsFrame == Spec => []DetectorSized
<1>1. Init => DetectorInv
  BY DEF Init, Face!Init, DetectorInv
<1>2. DetectorInv => DetectorSized
  BY DEF DetectorInv, DetectorSized, Face!DetectorSized
<1>3. QED
  BY <1>1, <1>2, DetectorPreserved, PTL DEF Spec

------------------------------------------------------------------------------

(* The last miss that does not end the grace period comes this many ticks  *)
(* after the first.                                                        *)
LastMiss == IF Grace = 0 THEN 0 ELSE Grace - 1

(* How soon the loop looks again: a sleep is never longer than Interval,   *)
(* and while the grace period runs the next look is due in time to end it. *)
PaceInv ==
    /\ pc = "wait" => due <= clock + Interval
    /\ pc = "dispatch" => state = IF child = "off" THEN "away" ELSE "present"
    /\ state = "away_grace" =>
         /\ pc = "top" => clock - grace_started <= LastMiss + Interval
         /\ pc = "wait" => due - grace_started <= LastMiss + Interval
         /\ pc \in {"detect", "observe"} =>
              due - grace_started <= LastMiss + Interval + MaxDetect

(* The camera shows the scene and the network reads it right: a face is    *)
(* never invented, and nobody who is there is missed.                      *)
Trusted == "detector" \notin Faults /\ (here => "camera" \notin Faults)

(* The answer on its way to the FSM is about a scene that has changed.     *)
Stale == pc = "observe" /\ answer = IF here THEN "noface" ELSE "face"

(* Only a look that had begun before the last change can be stale.         *)
StaleInv ==
    /\ since \in Nat /\ since <= clock
    /\ Trusted /\ Stale => due - since <= MaxDetect

(* The FSM does not know yet that the scene has changed. *)
Behind == state \in IF here THEN {"away"} ELSE {"unknown", "present"}

(* A stale answer, the command it asks for and a sleep. *)
NextLook == MaxDetect + MaxDispatch + Interval

(* After a change of the scene: when the FSM is told, when the grace        *)
(* period starts and when the command that lights the screen is done.      *)
NoticeInv ==
    Trusted =>
      /\ Behind =>
           /\ pc = "top" => clock - since <= NextLook
           /\ pc = "wait" => due - since <= NextLook
           /\ pc \in {"detect", "observe"} => due - since <= NextLook + MaxDetect
           /\ pc = "dispatch" => due - since <= MaxDetect + MaxDispatch
      /\ ~here /\ state = "away_grace" =>
           grace_started - since <= NextLook + MaxDetect
      /\ here /\ child = "on" => due - since <= RelightBound

(* The FSM's step at an observation, with the numbers the daemon sees. *)
LEMMA ObserveStep ==
    ASSUME IInv, Observe
    PROVE  /\ pc = "observe" /\ child = "none" /\ clock \in Nat /\ due \in Nat
           /\ clock <= due
           /\ UNCHANGED <<clock, here, since, stop, answer>>
           /\ answer = "face" \/ answer = "noface"
           /\ answer = "face" => state' = "present"
           /\ answer = "noface" =>
                \/ /\ state \in {"unknown", "present"}
                   /\ state' = "away_grace" /\ grace_started' = clock
                \/ /\ state = "away_grace" /\ clock - grace_started >= Grace
                   /\ state' = "away"
                \/ /\ state = "away_grace" /\ clock - grace_started < Grace
                   /\ state' = "away_grace" /\ grace_started' = grace_started
                \/ state = "away" /\ state' = "away"
           /\ \/ /\ pc' = "dispatch" /\ due' = clock + MaxDispatch
                 /\ \/ state' = "away" /\ state # "away" /\ child' = "off"
                    \/ state' = "present" /\ state = "away" /\ child' = "on"
              \/ pc' = "wait" /\ due' = clock + Interval /\ child' = "none"
              \/ pc' = "close" /\ child' = "none"
<1>1. /\ pc = "observe" /\ child = "none" /\ clock \in Nat /\ due \in Nat /\ clock <= due
      /\ answer # "raised" /\ answer # "none"
      /\ UNCHANGED <<clock, here, since, stop, answer>>
  BY DEF Observe, face, world, IInv, TypeOK, Fsm!TypeOK, DueInv, Timed, Times, None,
         ChildInv, CameraInv
<1>2. answer = "face" \/ answer = "noface"
  BY <1>1 DEF IInv, TypeOK, Face!TypeOK
<1>3. answer = "face" => state' = "present"
  BY DEF Observe, Fsm!observe, Fsm!FaceSeen
<1>4. state = "away_grace" => Fsm!Started = grace_started
  BY DEF IInv, GraceInv, TypeOK, Fsm!TypeOK, Fsm!None, Fsm!Started
<1>5. answer = "noface" =>
        \/ /\ state \in {"unknown", "present"}
           /\ state' = "away_grace" /\ grace_started' = clock
        \/ /\ state = "away_grace" /\ clock - grace_started >= Grace
           /\ state' = "away"
        \/ /\ state = "away_grace" /\ clock - grace_started < Grace
           /\ state' = "away_grace" /\ grace_started' = grace_started
        \/ state = "away" /\ state' = "away"
  <2> SUFFICES ASSUME answer = "noface"
               PROVE  \/ /\ state \in {"unknown", "present"}
                         /\ state' = "away_grace" /\ grace_started' = clock
                      \/ /\ state = "away_grace" /\ clock - grace_started >= Grace
                         /\ state' = "away"
                      \/ /\ state = "away_grace" /\ clock - grace_started < Grace
                         /\ state' = "away_grace" /\ grace_started' = grace_started
                      \/ state = "away" /\ state' = "away"
    OBVIOUS
  <2>1. Fsm!FaceLost \/ Fsm!DeclareAway \/ Fsm!StillMissing
    BY DEF Observe, Fsm!observe
  <2>2. state = "away_grace" => grace_started \in Int /\ clock \in Int /\ Grace \in Int
    BY DEF IInv, GraceInv, TypeOK, Fsm!TypeOK, Fsm!None
  <2>3. QED
    BY <1>4, <2>1, <2>2 DEF Fsm!FaceLost, Fsm!DeclareAway, Fsm!StillMissing,
       Fsm!StillRunning, Fsm!GraceElapsed
<1>6. \/ /\ pc' = "dispatch" /\ due' = clock + MaxDispatch
         /\ \/ state' = "away" /\ state # "away" /\ child' = "off"
            \/ state' = "present" /\ state = "away" /\ child' = "on"
      \/ pc' = "wait" /\ due' = clock + Interval /\ child' = "none"
      \/ pc' = "close" /\ child' = "none"
  BY <1>1 DEF Observe, LeftNow, BackNow, Fsm!Transition, away_action, present_action,
     Dispatch, Sleep, Raise, Hypr!Spawn, Hypr!NotSpawned, Hypr!hypr, hypr
<1>7. QED
  BY <1>1, <1>2, <1>3, <1>5, <1>6

LEMMA PacePreserved == IInv /\ PaceInv /\ [Next]_vars => PaceInv'
<1> SUFFICES ASSUME IInv, PaceInv, [Next]_vars PROVE PaceInv'
  OBVIOUS
<1>0. /\ clock \in Nat /\ LastMiss \in Nat
      /\ state = "away_grace" => grace_started \in Nat
      /\ pc \in Timed => due \in Nat /\ clock <= due
      /\ pc \in {"detect", "observe"} => due <= clock + MaxDetect
  BY DEF IInv, TypeOK, Fsm!TypeOK, DueInv, GraceInv, LastMiss
<1> USE DEF PaceInv, Timed, fsm, hypr
<1>1. CASE SetupEnds \/ DetectRaised \/ Close
  BY <1>1 DEF SetupEnds, ConfigRejected, PreflightRefuses, DetectRaised, Raise, Close,
              Terminate
<1>2. CASE EnterLoop
  BY <1>2 DEF EnterLoop, Fsm!Reset
<1>3. CASE LoopTop
  BY <1>0, <1>3 DEF LoopTop
<1>4. CASE Detect
  BY <1>4 DEF Detect
<1>5. CASE Observe
  <2>1. /\ clock' = clock
        /\ state' = "away_grace" =>
             grace_started' = clock
             \/ (grace_started' = grace_started /\ state = "away_grace"
                 /\ clock - grace_started < Grace)
    BY <1>5, ObserveStep
  <2>2. \/ pc' = "dispatch" /\ state' = IF child' = "off" THEN "away" ELSE "present"
        \/ pc' = "wait" /\ due' = clock + Interval
        \/ pc' = "close"
    BY <1>5, ObserveStep
  <2>3. state' = "away_grace" => clock - grace_started' <= LastMiss
    BY <1>0, <2>1 DEF LastMiss
  <2>4. state' = "away_grace" => grace_started' \in Nat
    BY <1>0, <2>1
  <2>5. QED
    BY <1>0, <2>1, <2>2, <2>3, <2>4
<1>6. CASE CommandEnds
  BY <1>0, <1>6 DEF CommandEnds, Sleep
<1>7. CASE Wake
  BY <1>0, <1>7 DEF Wake
<1>8. CASE Signal
  BY <1>8 DEF Signal, Terminate
<1>9. CASE Tick
  BY <1>0, <1>9 DEF Tick, Urgent
<1>10. CASE UserMoves \/ UNCHANGED vars
  BY <1>10 DEF UserMoves, vars
<1>11. QED
  BY <1>1, <1>2, <1>3, <1>4, <1>5, <1>6, <1>7, <1>8, <1>9, <1>10 DEF Next, Daemon

LEMMA StalePreserved == IInv /\ StaleInv /\ [Next]_vars => StaleInv'
<1> SUFFICES ASSUME IInv, StaleInv, [Next]_vars PROVE StaleInv'
  OBVIOUS
<1>0. /\ clock \in Nat
      /\ pc = "observe" => due \in Nat /\ due <= clock + MaxDetect
  BY DEF IInv, TypeOK, Fsm!TypeOK, DueInv, Timed
<1> USE DEF StaleInv, Stale, Trusted, world, face
<1>1. CASE SetupEnds \/ EnterLoop
  BY <1>0, <1>1 DEF SetupEnds, ConfigRejected, PreflightRefuses, EnterLoop, Terminate
<1>2. CASE LoopTop \/ Wake \/ CommandEnds \/ Close \/ DetectRaised
  BY <1>2 DEF LoopTop, Wake, CommandEnds, Sleep, Close, Terminate, DetectRaised, Raise
<1>3. CASE Detect
  <2>1. UNCHANGED <<clock, here, since>> /\ (DetectRaises \/ DetectAnswers)
    BY <1>3 DEF Detect
  <2>2. CASE DetectRaises
    <3>1. answer' = "raised"
      BY <2>2 DEF DetectRaises, Face!ModelFails, Face!CameraFails, Face!InferenceFails
    <3>2. QED
      BY <2>1, <3>1
  <2>3. CASE "camera" \in Faults /\ Face!ReadFails
    <3>1. answer' = "noface"
      BY <2>3 DEF Face!ReadFails
    <3>2. QED
      BY <2>1, <2>3, <3>1
  <2>4. CASE \E s \in Face!Sizes, found \in BOOLEAN :
                /\ found = here \/ "detector" \in Faults
                /\ Face!FrameAnswers(s, found)
    <3>1. PICK found \in BOOLEAN :
                /\ found = here \/ "detector" \in Faults
                /\ answer' = IF found THEN "face" ELSE "noface"
      BY <2>4 DEF Face!FrameAnswers
    <3>2. Trusted' => found = here
      BY <2>1, <3>1
    <3>3. Trusted' => ~Stale'
      BY <2>1, <3>1, <3>2
    <3>4. QED
      BY <2>1, <3>3
  <2>5. QED
    BY <2>1, <2>2, <2>3, <2>4 DEF DetectAnswers
<1>4. CASE Observe
  BY <1>4, ObserveStep
<1>5. CASE Signal
  BY <1>5 DEF Signal, Terminate
<1>6. CASE Tick
  BY <1>0, <1>6 DEF Tick
<1>7. CASE UserMoves
  BY <1>0, <1>7 DEF UserMoves
<1>8. CASE UNCHANGED vars
  BY <1>8 DEF vars
<1>9. QED
  BY <1>1, <1>2, <1>3, <1>4, <1>5, <1>6, <1>7, <1>8 DEF Next, Daemon

LEMMA NoticePreserved ==
    ASSUME IInv, PaceInv, StaleInv, NoticeInv, [Next]_vars
    PROVE  NoticeInv'
<1>0. /\ clock \in Nat /\ since \in Nat /\ since <= clock
      /\ state = "away_grace" => grace_started \in Nat /\ grace_started <= clock
      /\ pc \in Timed => due \in Nat /\ clock <= due
      /\ pc \in {"detect", "observe"} => due <= clock + MaxDetect
      /\ pc = "dispatch" => due <= clock + MaxDispatch
      /\ child # "none" <=> pc = "dispatch"
  BY DEF IInv, TypeOK, Fsm!TypeOK, DueInv, GraceInv, ChildInv, StaleInv
<1> USE DEF NoticeInv, Trusted, Behind, NextLook, RelightBound, Timed, world, fsm, hypr
<1>1. CASE SetupEnds \/ DetectRaised \/ Close
  BY <1>0, <1>1 DEF SetupEnds, ConfigRejected, PreflightRefuses, DetectRaised, Raise,
     Close, Terminate
<1>2. CASE EnterLoop
  BY <1>0, <1>2 DEF EnterLoop, Fsm!Reset
<1>3. CASE LoopTop
  BY <1>0, <1>3 DEF LoopTop
<1>4. CASE Detect
  BY <1>0, <1>4 DEF Detect
<1>5. CASE Observe
  <2>1. /\ pc = "observe" /\ clock \in Nat /\ due \in Nat /\ clock <= due
        /\ UNCHANGED <<clock, here, since>>
    BY <1>5, ObserveStep
  <2>2. /\ answer = "face" \/ answer = "noface"
        /\ answer = "face" => state' = "present"
        /\ answer = "noface" =>
             \/ /\ state \in {"unknown", "present"}
                /\ state' = "away_grace" /\ grace_started' = clock
             \/ state = "away_grace" /\ state' = "away"
             \/ /\ state = "away_grace"
                /\ state' = "away_grace" /\ grace_started' = grace_started
             \/ state = "away" /\ state' = "away"
    BY <1>5, ObserveStep
  <2>3. \/ /\ pc' = "dispatch" /\ due' = clock + MaxDispatch
           /\ \/ state' = "away" /\ state # "away" /\ child' = "off"
              \/ state' = "present" /\ state = "away" /\ child' = "on"
        \/ pc' = "wait" /\ due' = clock + Interval /\ child' = "none"
        \/ pc' = "close" /\ child' = "none"
    BY <1>5, ObserveStep
  <2>4. /\ Trusted /\ here /\ answer = "noface" => due - since <= MaxDetect
        /\ Trusted /\ ~here /\ answer = "face" => due - since <= MaxDetect
    BY <2>1 DEF StaleInv, Stale
  <2>5. CASE here
    <3>1. CASE answer = "face"
      BY <1>0, <2>1, <2>2, <2>3, <2>4, <2>5, <3>1
    <3>2. CASE answer = "noface"
      BY <1>0, <2>1, <2>2, <2>3, <2>4, <2>5, <3>2
    <3>3. QED
      BY <2>2, <3>1, <3>2
  <2>6. CASE ~here
    <3>1. CASE answer = "face"
      BY <1>0, <2>1, <2>2, <2>3, <2>4, <2>6, <3>1
    <3>2. CASE answer = "noface"
      BY <1>0, <2>1, <2>2, <2>3, <2>4, <2>6, <3>2
    <3>3. QED
      BY <2>2, <3>1, <3>2
  <2>7. QED
    BY <2>5, <2>6
<1>6. CASE CommandEnds
  BY <1>0, <1>6 DEF CommandEnds, Sleep, Hypr!Succeeds, Hypr!Fails
<1>7. CASE Wake
  BY <1>0, <1>7 DEF Wake
<1>8. CASE Signal
  BY <1>0, <1>8 DEF Signal, Terminate
<1>9. CASE Tick
  BY <1>0, <1>9 DEF Tick, Urgent
<1>10. CASE UserMoves
  BY <1>0, <1>10 DEF UserMoves, PaceInv
<1>11. CASE UNCHANGED vars
  BY <1>11 DEF vars
<1>12. QED
  BY <1>1, <1>2, <1>3, <1>4, <1>5, <1>6, <1>7, <1>8, <1>9, <1>10, <1>11 DEF Next, Daemon

PunctualInv == PaceInv /\ StaleInv /\ NoticeInv

LEMMA Punctual == Spec => []PunctualInv
<1>1. Init => PunctualInv
  BY DEF Init, Fsm!Init, Hypr!Init, PunctualInv, PaceInv, StaleInv, Stale, NoticeInv
<1>2. IInv /\ PunctualInv /\ [Next]_vars => PunctualInv'
  BY PacePreserved, StalePreserved, NoticePreserved DEF PunctualInv
<1>3. QED
  BY Invariance, <1>1, <1>2, PTL DEF Spec

(* As long as the network reads every frame right, somebody who left is    *)
(* declared away in time: whichever opens, reads and commands fail, and    *)
(* whatever frames were on their way.  A grace period of 0 needs two looks *)
(* and so one Interval more.                                               *)
THEOREM DeclaredAwayInTime ==
    ASSUME "detector" \notin Faults, Grace > 0
    PROVE  Spec => []AwayInTime
<1>1. ASSUME IInv, PunctualInv PROVE AwayInTime
  <2> SUFFICES ASSUME Looping, ~here, state # "away"
               PROVE  clock - since < AwayBound
    BY <1>1 DEF AwayInTime, IInv, TypeOK, Fsm!TypeOK, AwayBound
  <2>0. /\ pc \in Timed \cup {"top"}
        /\ state \in {"unknown", "present", "away_grace"}
        /\ clock \in Nat /\ since \in Nat
        /\ pc \in Timed => due \in Nat /\ clock <= due
        /\ state = "away_grace" => grace_started \in Nat
        /\ Trusted
    BY <1>1 DEF Looping, Timed, IInv, TypeOK, Fsm!TypeOK, Fsm!States, DueInv, GraceInv,
       Trusted
  <2>1. CASE state = "away_grace"
    <3>1. grace_started - since <= NextLook + MaxDetect
      BY <1>1, <2>0, <2>1 DEF PunctualInv, NoticeInv
    <3>2. clock - grace_started <= LastMiss + Interval + MaxDetect /\ LastMiss = Grace - 1
      BY <1>1, <2>0, <2>1 DEF PunctualInv, PaceInv, LastMiss, Timed
    <3>3. QED
      BY <2>0, <2>1, <3>1, <3>2 DEF NextLook, AwayBound
  <2>2. CASE state # "away_grace"
    <3>1. Behind
      BY <2>0, <2>2 DEF Behind
    <3>2. clock - since <= NextLook + MaxDetect
      BY <1>1, <2>0, <3>1 DEF PunctualInv, NoticeInv, NextLook, Timed
    <3>3. QED
      BY <2>0, <3>2 DEF NextLook, AwayBound
  <2>3. QED
    BY <2>1, <2>2
<1>2. QED
  BY Invariance, Punctual, <1>1, PTL

(* With a camera, a network and a hyprctl that work, the screen of somebody *)
(* who came back is lit in time, even when the away command was under way   *)
(* on the strength of an older frame.                                       *)
THEOREM RelitAfterReturn ==
    ASSUME Faults \cap {"camera", "detector", "hyprctl"} = {}
    PROVE  Spec => []RelitInTime
<1>1. ASSUME IInv, ScreenInv, PunctualInv PROVE RelitInTime
  <2> SUFFICES ASSUME Looping, here, screen # "on"
               PROVE  clock - since <= RelightBound
    BY <1>1 DEF RelitInTime, IInv, TypeOK, Fsm!TypeOK, RelightBound
  <2>0. /\ pc \in Timed \cup {"top"}
        /\ screen = "off"
        /\ clock \in Nat /\ since \in Nat
        /\ pc \in Timed => due \in Nat /\ clock <= due
        /\ child \in {"off", "on", "none"}
        /\ child # "none" <=> pc = "dispatch"
        /\ Trusted
    BY <1>1 DEF Looping, Timed, IInv, TypeOK, Fsm!TypeOK, Hypr!TypeOK, Hypr!Commands,
       DueInv, ChildInv, Trusted
  <2>1. CASE child = "on"
    <3>1. due - since <= RelightBound /\ clock <= due /\ due \in Nat
      BY <1>1, <2>0, <2>1 DEF PunctualInv, NoticeInv, Timed
    <3>2. QED
      BY <2>0, <3>1 DEF RelightBound
  <2>2. CASE child # "on"
    <3>1. Behind
      BY <1>1, <2>0, <2>2 DEF ScreenInv, Behind
    <3>2. clock - since <= NextLook + MaxDetect
      BY <1>1, <2>0, <3>1 DEF PunctualInv, NoticeInv, NextLook, Timed
    <3>3. QED
      BY <2>0, <3>2 DEF NextLook, RelightBound
  <2>3. QED
    BY <2>1, <2>2
<1>2. "hyprctl" \notin Faults
  OBVIOUS
<1>3. Init => ScreenInv
  BY DEF Init, ScreenInv, Fsm!Init, Hypr!Init
<1>4. IInv /\ ScreenInv /\ [Next]_vars => ScreenInv'
  BY <1>2, ScreenPreserved
<1>5. QED
  BY Invariance, Punctual, <1>1, <1>3, <1>4, PTL DEF Spec

(* When a detector call is shorter than the grace period and the camera    *)
(* and the network can be relied on, the away command is never issued over *)
(* somebody who sat there for the whole grace period: the misses that led  *)
(* to it are at most one detector call older than the present scene.       *)
THEOREM AwayMeansNobody ==
    ASSUME Faults \cap {"camera", "detector"} = {}, MaxDetect < Grace
    PROVE  Spec => AwayMeansLeft
<1>1. ASSUME IInv, PunctualInv, [Next]_vars, Left
      PROVE  ~here \/ clock - since < Grace
  <2>1. Observe
    BY <1>1, LeftIsObserved
  <2>2. answer = "noface"
    <3>1. child' = "off" /\ child = "none"
      BY <1>1 DEF Left
    <3>2. QED
      BY <1>1, <2>1, <3>1, ObserveStep
  <2>3. pc = "observe" /\ clock <= due /\ clock \in Nat /\ due \in Nat /\ since \in Nat
    BY <1>1, <2>1, ObserveStep DEF PunctualInv, StaleInv
  <2>4. here => due - since <= MaxDetect
    BY <1>1, <2>2, <2>3 DEF PunctualInv, StaleInv, Stale, Trusted
  <2>5. QED
    BY <2>3, <2>4
<1>2. QED
  BY Invariance, Punctual, <1>1, PTL DEF Spec, AwayMeansLeft

==============================================================================
