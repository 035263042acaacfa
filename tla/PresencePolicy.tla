---------------------------- MODULE PresencePolicy ----------------------------
(***************************************************************************)
(* What the presence daemon promises, without frames, clocks or threads:   *)
(* it alternates between declaring the user gone and back, each change     *)
(* gives at most the one command that belongs to it, commands never        *)
(* overlap, and once it was told to stop it finishes at most the look it   *)
(* had begun and exits.  Presenced is shown to implement it.               *)
(***************************************************************************)

VARIABLES
    phase,              \* the life of the process
    gone,               \* the user was declared away
    cmd                 \* the command that runs, or "none"

vars == <<phase, gone, cmd>>

Init == phase = "starting" /\ gone = FALSE /\ cmd = "none"

Begin ==
    /\ phase = "starting"
    /\ phase' \in {"watching", "exited"}
    /\ UNCHANGED <<gone, cmd>>

(* "finishing": a look is in flight; "closed": none will follow. *)
Stop ==
    /\ phase = "watching"
    /\ phase' \in {"finishing", "closed"}
    /\ UNCHANGED <<gone, cmd>>

LookEnds == phase' = IF phase = "finishing" THEN "closed" ELSE phase

Declare ==
    /\ phase \in {"watching", "finishing"}
    /\ cmd = "none"
    /\ gone' = ~gone
    /\ cmd' \in {"none", IF gone THEN "on" ELSE "off"}
    /\ LookEnds

NothingNew ==
    /\ phase = "finishing"
    /\ LookEnds
    /\ UNCHANGED <<gone, cmd>>

Done ==
    /\ cmd # "none"
    /\ cmd' = "none"
    /\ UNCHANGED <<phase, gone>>

Exit ==
    /\ phase \in {"watching", "finishing", "closed"}
    /\ cmd = "none"
    /\ phase' = "exited"
    /\ UNCHANGED <<gone, cmd>>

Next == Begin \/ Stop \/ Declare \/ NothingNew \/ Done \/ Exit

(* A command ends, and a daemon that was told to stop gets to its end. *)
Ending == phase \in {"finishing", "closed"} /\ (Exit \/ NothingNew)

Spec == Init /\ [][Next]_vars /\ WF_vars(Done) /\ WF_vars(Ending)

==============================================================================
