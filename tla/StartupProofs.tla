---------------------------- MODULE StartupProofs ----------------------------
(***************************************************************************)
(* Proof that presenced.service never reaches systemd's start limit, for *)
(* every RestartSec and limit that LimitAssumption admits, and of  *)
(* what a deep probe's exit says about its inference.                    *)
(***************************************************************************)
EXTENDS Startup, TLAPS

(* While starts are counted, each of them has taken RestartSec seconds off*)
(* the interval, except for what the present restart has yet to wait.    *)
Owed == IF at = "auto-restart" THEN restart_in ELSE RestartSec

Paced ==
    counted # 0 /\ since <= LimitIntervalSec =>
        counted * RestartSec <= since + Owed

Counters == counted \in Nat /\ since \in Nat /\ restart_in \in Nat

IInv == Counters /\ Paced /\ NeverGivesUp

LEMMA OneMore ==
    ASSUME NEW a \in Nat, NEW b \in Nat
    PROVE  a * b \in Nat /\ (a + 1) * b = a * b + b
  BY SMT

LEMMA Monotone ==
    ASSUME NEW a \in Nat, NEW b \in Nat, NEW c \in Nat, a >= b PROVE a * c >= b * c
  BY SMT

LEMMA Limits ==
    /\ RestartSec \in Nat /\ LimitIntervalSec \in Nat /\ LimitBurst \in Nat
    /\ LimitBurst * RestartSec > LimitIntervalSec
  BY LimitAssumption

LEMMA InitHolds == Init => IInv
  BY DEF Init, IInv, Counters, Paced, NeverGivesUp

(* A step that leaves the counts alone and does not shorten the wait. *)
LEMMA Unhurried ==
    ASSUME IInv, counted' = counted, since' = since, restart_in' \in Nat,
           Owed' >= Owed, at' # "failed"
    PROVE  IInv'
  <1>1. counted * RestartSec \in Nat /\ Owed \in Nat /\ Owed' \in Nat
    BY Limits, OneMore DEF Owed, IInv, Counters
  <1>2. Paced'
    <2> SUFFICES ASSUME counted # 0, since <= LimitIntervalSec
                 PROVE  counted * RestartSec <= since + Owed'
      BY DEF Paced
    <2>1. counted * RestartSec <= since + Owed
      BY DEF IInv, Paced
    <2> QED
      BY <1>1, <2>1 DEF IInv, Counters
  <1> QED
    BY <1>2 DEF IInv, Counters, NeverGivesUp

(* A process that ends leaves the counters alone and begins the wait. *)
LEMMA ExitStep ==
    ASSUME NEW code, IInv, at # "auto-restart", Exit(code) PROVE IInv'
  <1>1. /\ counted' = counted /\ since' = since /\ restart_in' \in Nat
        /\ at' # "failed" /\ Owed = RestartSec /\ Owed' = RestartSec
    BY Limits DEF Exit, RestartDelay, Owed, IInv, Counters
  <1> QED
    BY <1>1, Limits, Unhurried

(* Neither does a step within a process change them. *)
LEMMA GoesStep ==
    ASSUME NEW stage, stage # "auto-restart", stage # "failed", IInv,
           at # "auto-restart", Goes(stage)
    PROVE  IInv'
  <1>1. /\ counted' = counted /\ since' = since /\ restart_in' \in Nat
        /\ at' # "failed" /\ Owed = RestartSec /\ Owed' = RestartSec
    BY DEF Goes, limit, Owed, IInv, Counters
  <1> QED
    BY <1>1, Limits, Unhurried

LEMMA ExecStep == IInv /\ Exec => IInv'
  <1> SUFFICES ASSUME IInv, Exec PROVE IInv'
    OBVIOUS
  <1>1. /\ counted * RestartSec \in Nat
        /\ (counted + 1) * RestartSec = counted * RestartSec + RestartSec
        /\ 1 * RestartSec = RestartSec
    BY Limits, OneMore DEF IInv, Counters
  <1>2. CASE Expired
    <2>1. counted' = 1 /\ since' = 0 /\ at' = "main" /\ restart_in' = restart_in
      BY <1>2 DEF Exec
    <2>2. Paced'
      <3>1. counted' * RestartSec = RestartSec /\ Owed' = RestartSec
        BY <1>1, <2>1 DEF Owed
      <3> QED
        BY <2>1, <3>1, Limits DEF Paced
    <2> QED
      BY <2>1, <2>2 DEF IInv, Counters, NeverGivesUp
  <1>3. CASE ~Expired
    <2>1. counted # 0 /\ since <= LimitIntervalSec
      BY <1>3, Limits DEF Expired, IInv, Counters
    <2>2. counted * RestartSec <= since
      <3>1. Owed = 0
        BY DEF Exec, Owed
      <3>2. counted * RestartSec <= since + Owed
        BY <2>1 DEF IInv, Paced
      <3> QED
        BY <1>1, <3>1, <3>2 DEF IInv, Counters
    <2>3. counted < LimitBurst
      <3>1. counted >= LimitBurst => counted * RestartSec >= LimitBurst * RestartSec
        BY Limits, Monotone DEF IInv, Counters
      <3>2. LimitBurst * RestartSec \in Nat
        BY Limits, OneMore
      <3> QED
        BY <1>1, <2>1, <2>2, <3>1, <3>2, Limits DEF IInv, Counters
    <2>4. counted' = counted + 1 /\ since' = since /\ at' = "main" /\ restart_in' = restart_in
      BY <1>3, <2>3 DEF Exec
    <2>5. Paced'
      BY <1>1, <2>2, <2>4, Limits DEF Paced, Owed, IInv, Counters
    <2> QED
      BY <2>4, <2>5 DEF IInv, Counters, NeverGivesUp
  <1> QED
    BY <1>2, <1>3

(* A second passes: what is no longer owed has been waited for. *)
LEMMA SecondStep == IInv /\ Second => IInv'
  <1> SUFFICES ASSUME IInv, Second PROVE IInv'
    OBVIOUS
  <1>1. counted * RestartSec \in Nat /\ Owed \in Nat
    BY Limits, OneMore DEF Owed, IInv, Counters
  <1>2. /\ counted' = counted /\ at' = at
        /\ restart_in' \in Nat /\ restart_in' >= restart_in - 1
        /\ since' \in Nat
        /\ since' <= LimitIntervalSec => since' = since + 1 /\ since <= LimitIntervalSec
    BY Limits DEF Second, IInv, Counters
  <1>3. Owed' \in Nat /\ Owed' >= Owed - 1
    BY <1>2, Limits DEF Owed, IInv, Counters
  <1>4. Paced'
    <2> SUFFICES ASSUME counted # 0, since' <= LimitIntervalSec
                 PROVE  counted * RestartSec <= since' + Owed'
      BY <1>2 DEF Paced
    <2>1. counted * RestartSec <= since + Owed
      BY <1>2 DEF IInv, Paced
    <2> QED
      BY <1>1, <1>2, <1>3, <2>1 DEF IInv, Counters
  <1> QED
    BY <1>2, <1>4 DEF IInv, Counters, NeverGivesUp

LEMMA ProcessStep == IInv /\ Process => IInv'
  <1> SUFFICES ASSUME IInv, Process PROVE IInv'
    OBVIOUS
  <1>1. CASE main
    BY <1>1, ExitStep, GoesStep DEF main
  <1>2. CASE probe
    BY <1>2, ExitStep, GoesStep DEF probe
  <1>3. CASE preflight
    BY <1>3, ExitStep, GoesStep DEF preflight
  <1>4. CASE _loop
    BY <1>4, ExitStep, GoesStep DEF _loop
  <1>5. CASE Examine
    BY <1>5, GoesStep DEF Examine
  <1>6. CASE TimesOut
    BY <1>6, GoesStep DEF TimesOut
  <1>7. CASE Fails
    BY <1>7, ExitStep DEF Fails, Failure, Report
  <1>8. CASE Succeeds
    BY <1>8, GoesStep DEF Succeeds, Following
  <1>9. CASE deep_probe
    BY <1>9, ExitStep DEF deep_probe, Report
  <1> QED
    BY <1>1, <1>2, <1>3, <1>4, <1>5, <1>6, <1>7, <1>8, <1>9 DEF Process

LEMMA StepHolds == IInv /\ [Next]_vars => IInv'
  <1> SUFFICES ASSUME IInv, [Next]_vars PROVE IInv'
    OBVIOUS
  <1>1. CASE SessionChanges
    BY <1>1 DEF SessionChanges, limit, IInv, Counters, Paced, Owed, NeverGivesUp
  <1>2. CASE XrtSmiEnds
    BY <1>2, GoesStep DEF XrtSmiEnds
  <1>3. CASE UNCHANGED vars
    BY <1>3 DEF vars, limit, IInv, Counters, Paced, Owed, NeverGivesUp
  <1> QED
    BY <1>1, <1>2, <1>3, ExecStep, SecondStep, ProcessStep DEF Next

(* presenced.service:21: the unit is never given up, whatever RestartSec *)
(* is, as long as the limit's number of restarts takes longer than its   *)
(* interval.                                                             *)
THEOREM RestartsForever == Spec => []NeverGivesUp
  <1>1. Init => IInv
    BY InitHolds
  <1>2. IInv /\ [Next]_vars => IInv'
    BY StepHolds
  <1>3. IInv => NeverGivesUp
    BY DEF IInv
  <1> QED
    BY <1>1, <1>2, <1>3, PTL DEF Spec

------------------------------------------------------------------------------

Untried == r.verdict = "unknown" /\ ~r.error /\ r.offloaded_ops = 0 /\ r.fallback_ops = 0

Deep == {"examine", "xrt-smi", "import", "providers", "model", "session", "run", "report"}

(* A deep probe is nothing else until it has reported, and what a stage  *)
(* needs was found by the ones before it.                                *)
ProbeInv ==
    "--probe-npu" \in args =>
      /\ at \in {"auto-restart", "failed", "main", "exited"} \cup Deep
      /\ at \in Deep => Untried
      /\ at \in Deep \ {"report"} => ran = "none"
      /\ at \in {"run", "report"} => active \in {"vitis", "cpu"}
      /\ at = "report" => ran \in {active, "cpu"}
      /\ at \in {"auto-restart", "main"} => Untried /\ ran = "none"
      /\ at = "exited" => r.verdict # "unknown" /\ Told

LEMMA ArgsStay == [Next]_vars => args' = args
  <1> SUFFICES ASSUME [Next]_vars PROVE args' = args
    OBVIOUS
  <1>1. CASE SessionChanges \/ Exec \/ Second \/ UNCHANGED vars
    BY <1>1 DEF SessionChanges, Exec, Second, vars
  <1>2. CASE main \/ probe \/ preflight \/ _loop
    BY <1>2 DEF main, probe, preflight, _loop
  <1>3. CASE Examine \/ XrtSmiEnds \/ TimesOut \/ Succeeds
    BY <1>3 DEF Examine, XrtSmiEnds, TimesOut, Succeeds, session
  <1>4. CASE Fails \/ deep_probe
    BY <1>4 DEF Fails, deep_probe, Report, session
  <1> QED
    BY <1>1, <1>2, <1>3, <1>4 DEF Next, Process

LEMMA ProbeStep == ProbeInv /\ [Next]_vars => ProbeInv'
  <1> SUFFICES ASSUME ProbeInv, [Next]_vars, "--probe-npu" \in args PROVE ProbeInv'
    BY ArgsStay DEF ProbeInv
  <1> USE DEF ProbeInv, Deep, deep, session, ByHand
  <1>1. CASE SessionChanges \/ Second \/ UNCHANGED vars
    BY <1>1 DEF SessionChanges, Second, vars, Untried, Told
  <1>2. CASE Exec
    BY <1>2 DEF Exec, Untried
  <1>3. CASE main \/ Examine \/ XrtSmiEnds \/ TimesOut
    BY <1>3 DEF main, Examine, XrtSmiEnds, TimesOut, Goes, Untried
  <1>4. CASE probe \/ preflight \/ _loop
    BY <1>4 DEF probe, preflight, _loop
  <1>5. CASE Succeeds
    BY <1>5 DEF Succeeds, Following, Goes, Untried
  <1>6. CASE Fails
    <2>1. at \in Deep \ {"report"} /\ Failure[at] # "unknown"
      BY <1>6 DEF Fails, Failure
    <2>2. /\ at' = "exited" /\ rc' = 1 /\ ran' = "none"
          /\ r' = [verdict |-> Failure[at], error |-> TRUE,
                   offloaded_ops |-> 0, fallback_ops |-> 0]
      BY <1>6, <2>1 DEF Fails, Report, Exit
    <2> QED
      BY <2>1, <2>2 DEF Told
  <1>7. CASE deep_probe
    <2>1. active \in {"vitis", "cpu"} /\ ran \in {active, "cpu"}
      BY <1>7 DEF deep_probe
    <2>2. at' = "exited" /\ active' = active /\ ran' = ran
      BY <1>7 DEF deep_probe, Report, Exit
    <2>3. CASE active = "vitis"
      <3>1. rc' = 0 /\ r' = [verdict |-> "npu-active", error |-> FALSE,
                             offloaded_ops |-> 1, fallback_ops |-> 0]
        BY <1>7, <2>3 DEF deep_probe, Report, Exit
      <3> QED
        BY <2>1, <2>2, <2>3, <3>1 DEF Told
    <2>4. CASE active # "vitis"
      <3>1. rc' = 2 /\ r' = [verdict |-> "cpu-fallback", error |-> FALSE,
                             offloaded_ops |-> 0, fallback_ops |-> 1]
        BY <1>7, <2>4 DEF deep_probe, Report, Exit
      <3> QED
        BY <2>1, <2>2, <2>4, <3>1 DEF Told
    <2> QED
      BY <2>3, <2>4
  <1> QED
    BY <1>1, <1>2, <1>3, <1>4, <1>5, <1>6, <1>7 DEF Next, Process

(* xdna_probe.py:147-149: a deep probe that exits has reported, whichever*)
(* stage failed; no inference is reported that was not done, none as a   *)
(* fallback that had operators on the NPU, and none as a failure that was*)
(* done.                                                                 *)
THEOREM ExitTellsTheRun ==
    Spec => []("--probe-npu" \in args /\ at = "exited" => r.verdict # "unknown" /\ Told)
  <1>1. Init => ProbeInv
    BY DEF Init, ProbeInv, Untried, Deep
  <1>2. ProbeInv => ("--probe-npu" \in args /\ at = "exited" => r.verdict # "unknown" /\ Told)
    BY DEF ProbeInv
  <1> QED
    BY <1>1, <1>2, ProbeStep, PTL DEF Spec

==============================================================================
