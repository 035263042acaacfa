----------------------------- MODULE PresenceFSM -----------------------------
(***************************************************************************)
(* The four-state presence machine of project-b/presenced/fsm.py.  Time is *)
(* counted in integer ticks; "clock" is the reading time.monotonic() gives *)
(* at the moment observe() is called.  This module has no next-state       *)
(* relation of its own: FsmHistory drives it with arbitrary observations   *)
(* and Presenced drives it from the daemon's loop.                         *)
(***************************************************************************)
EXTENDS Integers

CONSTANT Grace          \* grace_period_s

VARIABLES
    state,              \* PresenceFSM.state
    last_seen,          \* PresenceFSM.last_seen (written, never read)
    grace_started,      \* PresenceFSM._grace_started, None when unset
    clock               \* time.monotonic()

fsm == <<state, last_seen, grace_started>>

ASSUME GraceAssumption == Grace \in Int

None == -1              \* Python's None: not a clock reading

States == {"unknown", "present", "away_grace", "away"}

TypeOK ==
    /\ state \in States
    /\ clock \in Nat
    /\ last_seen \in Nat
    /\ grace_started \in Nat \cup {None}

(* __init__: the clock keeps its value, everything else is reset. *)
Init ==
    /\ state = "unknown"
    /\ last_seen = clock
    /\ grace_started = None

(* The same reset as a step, for a process that builds its FSM while running. *)
Reset ==
    /\ state' = "unknown"
    /\ last_seen' = clock
    /\ grace_started' = None

(* "self._grace_started or t": None and 0.0 are both falsy. *)
Started == IF grace_started \in {None, 0} THEN clock ELSE grace_started

GraceElapsed == clock - Started >= Grace

(* Slip: a face during the grace period does not cancel it. *)
FaceSeenTooLate ==
    /\ last_seen' = clock
    /\ IF state = "away_grace"
         THEN UNCHANGED <<state, grace_started>>
         ELSE state' = "present" /\ grace_started' = None

FaceSeen ==
    /\ state' = "present"
    /\ last_seen' = clock
    /\ grace_started' = None

FaceLost ==
    /\ state \in {"unknown", "present"}
    /\ state' = "away_grace"
    /\ grace_started' = clock
    /\ UNCHANGED last_seen

DeclareAway ==
    /\ state = "away_grace"
    /\ GraceElapsed
    /\ state' = "away"
    /\ UNCHANGED <<last_seen, grace_started>>

(* Slip: every miss restarts the grace period. *)
Restarted == clock
StillRunning == grace_started

StillMissing ==
    /\ \/ state = "away"
       \/ state = "away_grace" /\ ~GraceElapsed
    /\ grace_started' = StillRunning
    /\ UNCHANGED <<state, last_seen>>

observe(face) ==
    \/ face /\ FaceSeen
    \/ ~face /\ (FaceLost \/ DeclareAway \/ StillMissing)

(* observe() returned a Transition from one state to another. *)
Transition(frm, to) == state = frm /\ state' = to /\ frm # to

==============================================================================
