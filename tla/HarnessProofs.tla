---------------------------- MODULE HarnessProofs ----------------------------
(***************************************************************************)
(* What the verdict of the concurrency harness means, whenever presenced   *)
(* crashes and is restarted and whichever bench fails.                     *)
(***************************************************************************)
EXTENDS Harness, TLAPS

Places ==
    {"checks", "stop", "solo", "copy_solo", "start_corun", "corun_started", "corun",
     "copy_corun", "corun_over", "stop_presenced", "start_presenced",
     "presenced_started", "llama_stopped", "verdict", "exit"}

Writers == Labels \cup {"baseline"}

TypeInv ==
    /\ pc \in Places
    /\ unit \in {"inactive", "active", "auto-restart"}
    /\ asleep \in Nat /\ restart_in \in Nat /\ apart \in Nat
    /\ copied \in [Labels -> {"none"} \cup Writers]
    /\ results \in Seq(Writers) /\ Len(results) > 0

(* The environment as it was, as the harness has it, and as it leaves it. *)
EnvInv ==
    /\ pc = "checks" => manager_env \in [Names -> {"own", "unset"}]
    /\ pc \notin {"checks", "exit"} =>
         /\ manager_env \in [Names -> {"no-op", "unset", "own", "harness"}]
         /\ Quiet(manager_env)
    /\ NoOpsAreGone

(* No process of before the harness is left, and none waits to come back. *)
UnitInv ==
    /\ NoSideEffects
    /\ pc \in {"solo", "copy_solo"} => unit = "inactive"

(* Each bench runs and is copied once, and a bench that succeeded has the  *)
(* newest result until it is copied.                                       *)
CopyInv ==
    /\ pc \in {"checks", "stop", "solo"} => passed = {}
    /\ pc \in {"copy_solo", "start_corun", "corun_started", "corun"} => passed \subseteq {"solo"}
    /\ pc \in {"checks", "stop", "solo", "copy_solo"} => copied["solo"] = "none"
    /\ pc \in {"checks", "stop", "solo", "copy_solo", "start_corun", "corun_started",
               "corun", "copy_corun"} => copied["corun"] = "none"
    /\ pc = "copy_solo" /\ "solo" \in passed => Last(results) = "solo"
    /\ pc = "copy_corun" /\ "corun" \in passed => Last(results) = "corun"
    /\ passed \subseteq Labels
    /\ SuccessIsCopied

(* Whoever was alive at the first reading and has died since is not        *)
(* restarted before the second, if that comes before RestartSec is over.   *)
SurvivalInv ==
    /\ pc \notin {"llama_stopped", "verdict", "exit"} => ~p_alive_pre
    /\ pc = "llama_stopped" =>
         /\ asleep <= apart
         /\ p_alive_pre /\ apart < 5 =>
              /\ same => unit = "active"
              /\ ~same => unit = "auto-restart" /\ restart_in > asleep
    /\ SurvivalIsReal

IInv == TypeInv /\ EnvInv /\ UnitInv /\ CopyInv

------------------------------------------------------------------------------

LEMMA LastOfAppend ==
    ASSUME NEW S, NEW s \in Seq(S), NEW x \in S
    PROVE  /\ Append(s, x) \in Seq(S) /\ Len(Append(s, x)) > 0
           /\ Last(Append(s, x)) = x
<1>1. Append(s, x) \in Seq(S) /\ Len(Append(s, x)) = Len(s) + 1
      /\ Append(s, x)[Len(s) + 1] = x /\ Len(s) \in Nat
  OBVIOUS
<1>2. QED
  BY <1>1 DEF Last

LEMMA LastInRange ==
    ASSUME NEW S, NEW s \in Seq(S), Len(s) > 0
    PROVE  Last(s) \in S
  BY DEF Last

LEMMA LessIsNat == ASSUME NEW n \in Nat PROVE Less(n) \in Nat /\ Less(n) <= n
  BY DEF Less

(* Whoever is executed with the no-ops set is quiet. *)
LEMMA NoOpsAreQuiet ==
    /\ NoOps \in [Names -> {"no-op", "unset", "own", "harness"}]
    /\ Quiet(NoOps)
  BY DEF Quiet, NoOps, YunetModel, Names, Actions, Signature, Model

LEMMA InitHolds == Init => IInv /\ SurvivalInv
<1> SUFFICES ASSUME Init PROVE IInv /\ SurvivalInv
  OBVIOUS
<1>1. results \in Seq(Writers) /\ Len(results) > 0
  BY DEF Init, Writers
<1>2. TypeInv
  BY <1>1 DEF Init, TypeInv, Places, Labels
<1>3. EnvInv /\ UnitInv
  BY DEF Init, EnvInv, UnitInv, NoOpsAreGone, NoSideEffects
<1>4. CopyInv
  BY DEF Init, CopyInv, SuccessIsCopied, Labels
<1>5. SurvivalInv
  BY DEF Init, SurvivalInv, SurvivalIsReal
<1>6. QED
  BY <1>2, <1>3, <1>4, <1>5 DEF IInv

------------------------------------------------------------------------------

LEMMA TypePreserved == TypeInv /\ [Next]_vars => TypeInv'
<1> SUFFICES ASSUME TypeInv, [Next]_vars PROVE TypeInv'
  OBVIOUS
<1> USE StopAssumption DEF TypeInv, Places, At, Then, history
<1>1. CASE ChecksFail \/ Neutralise
  BY <1>1 DEF ChecksFail, Neutralise, service, bench, survival
<1>2. CASE StopFirst
  BY <1>2 DEF StopFirst, StopAnyhow, Stop, service, bench, survival
<1>3. ASSUME NEW label \in Labels, Bench(label) PROVE TypeInv'
  <2>1. label \in Writers
    BY DEF Writers
  <2>2. results' \in Seq(Writers) /\ Len(results') > 0
    BY <1>3, <2>1, LastOfAppend DEF Bench, BenchRefuses, BenchWrites
  <2>3. QED
    BY <1>3, <2>2 DEF Bench, service, survival, Labels
<1>4. CASE Copy
  <2>1. Newest \in Writers
    BY LastInRange DEF Newest
  <2>2. QED
    BY <1>4, <2>1 DEF Copy, Copies, service, survival, Labels
<1>5. CASE StartCorun \/ StartPresenced
  BY <1>5 DEF StartCorun, StartPresenced, Start, Exec, service, bench, survival
<1>6. CASE CorunStarted
  BY <1>6 DEF CorunStarted, ExitOnError, restore_env, service, bench, survival
<1>7. CASE CorunOver \/ StopPresenced
  BY <1>7 DEF CorunOver, StopPresenced, Exec, Stop, bench, survival
<1>8. CASE StopLlama
  BY <1>8 DEF StopLlama, service, bench
<1>9. CASE StartLlama
  BY <1>9 DEF StartLlama, service, bench
<1>10. CASE Verdict
  BY <1>10 DEF Verdict, Stop, bench, survival
<1>11. CASE Crash
  BY <1>11 DEF Crash, bench, script, survival, RestartSec
<1>12. CASE Restart
  BY <1>12 DEF Restart, Exec, bench, script, survival
<1>13. CASE Tick
  BY <1>13, LessIsNat DEF Tick, bench, survival
<1>14. CASE UNCHANGED vars
  BY <1>14 DEF vars, service, bench, survival, script
<1>15. QED
  BY <1>1, <1>2, <1>3, <1>4, <1>5, <1>6, <1>7, <1>8, <1>9, <1>10, <1>11, <1>12,
     <1>13, <1>14 DEF Next, Script, Labels

LEMMA EnvPreserved == TypeInv /\ EnvInv /\ [Next]_vars => EnvInv'
<1> SUFFICES ASSUME TypeInv, EnvInv, [Next]_vars PROVE EnvInv'
  OBVIOUS
<1> USE DEF EnvInv, NoOpsAreGone, Then, At
<1>1. CASE ChecksFail \/ Neutralise
  BY <1>1, NoOpsAreQuiet DEF ChecksFail, Neutralise
<1>2. CASE CorunStarted \/ Verdict
  <2>1. CASE pc' = "exit"
    <3>1. manager_env' = [v \in Names |-> IF v = Signature THEN manager_env[v] ELSE "unset"]
          /\ manager_env[Signature] = "unset"
      BY <1>2, <2>1 DEF CorunStarted, Verdict, ExitOnError, restore_env, Quiet
    <3>2. QED
      BY <2>1, <3>1
  <2>2. CASE pc' # "exit"
    BY <1>2, <2>2 DEF CorunStarted, Verdict
  <2>3. QED
    BY <2>1, <2>2
<1>3. CASE Bench("solo") \/ Bench("corun") \/ Copy
  BY <1>3 DEF Bench, Copy, Copies
<1>4. CASE StopFirst \/ StartCorun \/ CorunOver \/ StopPresenced \/ StartPresenced
           \/ StopLlama \/ StartLlama
  BY <1>4 DEF StopFirst, StartCorun, CorunOver, StopPresenced, StartPresenced,
              StopLlama, StartLlama
<1>5. CASE Crash \/ Restart \/ Tick \/ UNCHANGED vars
  BY <1>5 DEF Crash, Restart, Tick, vars, script
<1>6. QED
  BY <1>1, <1>2, <1>3, <1>4, <1>5 DEF Next, Script

LEMMA UnitPreserved == TypeInv /\ EnvInv /\ UnitInv /\ [Next]_vars => UnitInv'
<1> SUFFICES ASSUME TypeInv, EnvInv, UnitInv, [Next]_vars PROVE UnitInv'
  OBVIOUS
<1> USE DEF UnitInv, NoSideEffects, Then, At
<1>1. pc \notin {"checks", "exit"} => Quiet(manager_env)
  BY DEF EnvInv
<1>2. CASE ChecksFail \/ Neutralise \/ CorunStarted
  BY <1>2 DEF ChecksFail, Neutralise, CorunStarted, service
<1>3. CASE StopFirst \/ StopPresenced \/ Verdict
  BY <1>3 DEF StopFirst, StopPresenced, Verdict, StopAnyhow, Stop
<1>4. CASE Bench("solo") \/ Bench("corun") \/ Copy
  BY <1>4 DEF Bench, Copy, Copies, service
<1>5. CASE StartCorun \/ CorunOver \/ StartPresenced
  BY <1>1, <1>5 DEF StartCorun, CorunOver, StartPresenced, Start, Exec, service
<1>6. CASE StopLlama \/ StartLlama
  BY <1>6 DEF StopLlama, StartLlama, service
<1>7. CASE Crash \/ Restart
  BY <1>1, <1>7 DEF Crash, Restart, Exec, script
<1>8. CASE Tick \/ UNCHANGED vars
  BY <1>8 DEF Tick, vars, service, script
<1>9. QED
  BY <1>2, <1>3, <1>4, <1>5, <1>6, <1>7, <1>8 DEF Next, Script

LEMMA CopyPreserved == TypeInv /\ CopyInv /\ [Next]_vars => CopyInv'
<1> SUFFICES ASSUME TypeInv, CopyInv, [Next]_vars PROVE CopyInv'
  OBVIOUS
<1> USE DEF CopyInv, SuccessIsCopied, Then, At, Labels
<1>1. ASSUME NEW label \in Labels, Bench(label) PROVE CopyInv'
  <2>1. rc' = 0 => Last(results') = label
    <3>1. label \in Writers
      BY DEF Writers
    <3>2. rc' = 0 => results' = Append(results, label)
      BY <1>1 DEF Bench, BenchRefuses, BenchWrites
    <3>3. QED
      <4>1. rc' = 0 => Last(Append(results, label)) = label
        BY <3>1, LastOfAppend DEF TypeInv
      <4>2. QED
        BY <3>2, <4>1
  <2>2. copied' = copied /\ copied[label] = "none"
        /\ passed' \subseteq passed \cup {label}
        /\ (label \in passed' => rc' = 0 \/ label \in passed)
    BY <1>1 DEF Bench
  <2>3. CASE label = "solo"
    <3>1. pc = "solo" /\ pc' = "copy_solo"
      BY <1>1, <2>3 DEF Bench
    <3>2. QED
      BY <2>1, <2>2, <2>3, <3>1
  <2>4. CASE label = "corun"
    <3>1. pc = "corun" /\ pc' = "copy_corun"
      BY <1>1, <2>4 DEF Bench
    <3>2. QED
      BY <2>1, <2>2, <2>4, <3>1
  <2>5. QED
    BY <2>3, <2>4
<1>2. CASE Copy
  BY <1>2 DEF Copy, Copies, Newest, TypeInv
<1>3. CASE ChecksFail \/ Neutralise \/ StopFirst \/ StartCorun \/ CorunStarted
  BY <1>3 DEF ChecksFail, Neutralise, StopFirst, StartCorun, CorunStarted, bench
<1>4. CASE CorunOver \/ StopPresenced \/ StartPresenced \/ StopLlama \/ StartLlama
           \/ Verdict
  BY <1>4 DEF CorunOver, StopPresenced, StartPresenced, StopLlama, StartLlama,
              Verdict, bench
<1>5. CASE Crash \/ Restart \/ Tick \/ UNCHANGED vars
  BY <1>5 DEF Crash, Restart, Tick, vars, bench, script
<1>6. QED
  BY <1>1, <1>2, <1>3, <1>4, <1>5 DEF Next, Script

LEMMA SurvivalPreserved == TypeInv /\ SurvivalInv /\ [Next]_vars => SurvivalInv'
<1> SUFFICES ASSUME TypeInv, SurvivalInv, [Next]_vars PROVE SurvivalInv'
  OBVIOUS
<1> USE StopAssumption DEF SurvivalInv, SurvivalIsReal, Then, At, RestartSec, TypeInv, history
<1>1. CASE ChecksFail \/ Neutralise \/ StopFirst \/ StartCorun \/ CorunStarted
  BY <1>1 DEF ChecksFail, Neutralise, StopFirst, StartCorun, CorunStarted, survival
<1>2. CASE Bench("solo") \/ Bench("corun") \/ Copy
  BY <1>2 DEF Bench, Copy, Copies, survival
<1>3. CASE CorunOver \/ StopPresenced \/ StartPresenced
  BY <1>3 DEF CorunOver, StopPresenced, StartPresenced, survival
<1>4. CASE StopLlama
  <2>1. pc' = "llama_stopped" /\ asleep' <= apart' /\ unit' = unit
    BY <1>4 DEF StopLlama, service
  <2>2. (p_alive_pre' => unit = "active") /\ same'
    BY <1>4, Zenon DEF StopLlama
  <2>3. QED
    BY <2>1, <2>2
<1>5. CASE StartLlama
  BY <1>5 DEF StartLlama
<1>6. CASE Verdict
  BY <1>6 DEF Verdict, survival
<1>7. CASE Crash
  <2>1. /\ UNCHANGED <<pc, asleep, p_alive_pre, p_alive_post, apart>>
        /\ unit = "active" /\ unit' = "auto-restart" /\ restart_in' = 5
    BY <1>7 DEF Crash, script, survival
  <2>2. same' <=> same /\ pc # "llama_stopped"
    BY <1>7, Zenon DEF Crash
  <2>3. QED
    BY <2>1, <2>2
<1>8. CASE Restart
  BY <1>8 DEF Restart, script, survival
<1>9. CASE Tick
  BY <1>9 DEF Tick, Less, Labels, survival
<1>10. CASE UNCHANGED vars
  BY <1>10 DEF vars, service, script, survival
<1>11. QED
  BY <1>1, <1>2, <1>3, <1>4, <1>5, <1>6, <1>7, <1>8, <1>9, <1>10 DEF Next, Script

------------------------------------------------------------------------------

LEMMA Invariant == Spec => []IInv
<1>1. Init => IInv
  BY InitHolds
<1>2. IInv /\ [Next]_vars => IInv'
  BY TypePreserved, EnvPreserved, UnitPreserved, CopyPreserved DEF IInv
<1>3. QED
  BY <1>1, <1>2, PTL DEF Spec

(* From the solo bench on, presenced only runs with the no-op actions and  *)
(* cut off from the compositor, however often it fails and is restarted.   *)
THEOREM PresencedIsQuiet == Spec => []NoSideEffects
<1>1. IInv => NoSideEffects
  BY DEF IInv, UnitInv
<1>2. QED
  BY <1>1, Invariant, PTL

(* The solo bench has the NPU to itself: no restart of a presenced that    *)
(* had failed before falls into it.                                        *)
THEOREM SoloBenchIsSolo == Spec => []SoloIsSolo
<1>1. IInv => SoloIsSolo
  BY DEF IInv, UnitInv, SoloIsSolo
<1>2. QED
  BY <1>1, Invariant, PTL

(* The verdict shows each bench that succeeded its own result, although    *)
(* only the newest file of the directory is looked at.                     *)
THEOREM OwnResultIsCopied == Spec => []SuccessIsCopied
<1>1. IInv => SuccessIsCopied
  BY DEF IInv, CopyInv
<1>2. QED
  BY <1>1, Invariant, PTL

(* On each way out the user manager has lost the no-op actions.            *)
THEOREM NoOpsDoNotStay == Spec => []NoOpsAreGone
<1>1. IInv => NoOpsAreGone
  BY DEF IInv, EnvInv
<1>2. QED
  BY <1>1, Invariant, PTL

(* However long llama-speculative takes to stop: "alive before and after"  *)
(* means that presenced did not die in between, if the readings are closer *)
(* together than the unit's RestartSec.                                    *)
THEOREM AliveTwiceIsSurvival == Spec => []SurvivalIsReal
<1>1. Init => TypeInv /\ SurvivalInv
  BY InitHolds DEF IInv
<1>2. TypeInv /\ SurvivalInv /\ [Next]_vars => (TypeInv /\ SurvivalInv)'
  BY TypePreserved, SurvivalPreserved
<1>3. SurvivalInv => SurvivalIsReal
  BY DEF SurvivalInv
<1>4. QED
  BY <1>1, <1>2, <1>3, PTL DEF Spec
==============================================================================
