------------------------------ MODULE FsmHistory ------------------------------
(***************************************************************************)
(* PresenceFSM under every sequence of observations, with the sequence     *)
(* itself recorded.  The machine keeps one timestamp and one enum; what a  *)
(* user relies on is a statement about the whole history of frames, so the *)
(* specification is written over the history.                              *)
(***************************************************************************)
EXTENDS PresenceFSM, Sequences

CONSTANTS
    FirstReading,       \* the clock when the machine is built
    MaxTime,            \* bound: last clock reading
    MaxObs              \* bound: number of observations

(* time.monotonic() of a running machine is never exactly zero; the code   *)
(* treats a grace period that began at reading 0 as one that never began.  *)
ASSUME ReadingAssumption == FirstReading \in Nat \ {0}
ASSUME BoundAssumption == MaxTime \in Nat /\ MaxObs \in Nat

VARIABLE obs            \* every call observe(face) so far, with its reading

vars == <<fsm, clock, obs>>

HInit ==
    /\ clock = FirstReading
    /\ Init
    /\ obs = << >>

Observe(face) ==
    /\ Len(obs) < MaxObs
    /\ observe(face)
    /\ obs' = Append(obs, [face |-> face, t |-> clock])
    /\ UNCHANGED clock

Tick ==
    /\ clock < MaxTime
    /\ clock' = clock + 1
    /\ UNCHANGED <<fsm, obs>>

Next == Tick \/ \E face \in BOOLEAN : Observe(face)

Spec == HInit /\ [][Next]_vars

------------------------------------------------------------------------------

HTypeOK ==
    /\ TypeOK
    /\ obs \in Seq([face : BOOLEAN, t : Nat])

(* From observation i on, every frame was without a face. *)
Missing(i) == \A k \in i..Len(obs) : ~obs[k].face

(* The current unbroken run of misses spans at least the grace period. *)
LongGone ==
    \E i, j \in DOMAIN obs : i < j /\ Missing(i) /\ obs[j].t - obs[i].t >= Grace

LastFace == obs # << >> /\ obs[Len(obs)].face

(* fsm.py as a function of the history: the state says PRESENT exactly     *)
(* after a face, AWAY exactly when two misses of the current unbroken run  *)
(* are a grace period apart, AWAY_GRACE for shorter runs, UNKNOWN before   *)
(* the first frame.  A face in between, a grace timestamp kept across a    *)
(* face, refreshed by a miss or started by the wrong frame would break it. *)
StateFromHistory ==
    state = IF obs = << >> THEN "unknown"
            ELSE IF LastFace THEN "present"
            ELSE IF LongGone THEN "away"
            ELSE "away_grace"

==============================================================================
