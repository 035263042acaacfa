------------------------------- MODULE Harness -------------------------------
(***************************************************************************)
(* The concurrency harness, bench/scripts/concurrency-run.fish: it benches *)
(* llama-speculative without and with presenced, then stops each service   *)
(* while the other runs, and writes a verdict.  Around it live the user    *)
(* manager, whose environment it borrows, presenced.service, which may     *)
(* fail and is restarted meanwhile, and the directory of bench results.    *)
(*                                                                         *)
(* Tick is a second of the sleeps and of RestartSec; benches take as long  *)
(* as they take.  Nobody else starts or stops the services.                *)
(***************************************************************************)
EXTENDS Naturals, Sequences, SequencesExt

CONSTANT MaxStop        \* seconds after which systemd kills a llama that does not stop

VARIABLES
    manager_env,    \* environment of the user manager, by name
    unit,           \* presenced.service: "inactive", "active", "auto-restart"
    restart_in,     \* seconds until it is restarted
    quiet,          \* the running presenced was started with the no-op actions
    llama,          \* llama-speculative.service is active
    results,        \* bench/results/*.json by the run that wrote them, oldest first
    rc,             \* of the last bench.fish
    copied,         \* whose result bench-<label>.json is, "none" before the copy
    passed,         \* labels of the benches that ended with rc 0
    pc, asleep,     \* where the script is, seconds left of its sleep
    p_alive_pre, p_alive_post,  \* readings of the survival test
    apart,          \* history: seconds between the two readings
    same,           \* history: no presenced has died between them
    prior_env       \* history: manager_env before the harness

service == <<unit, restart_in, quiet>>
bench == <<results, rc, copied, passed>>
survival == <<p_alive_pre, p_alive_post>>
script == <<pc, asleep>>
history == <<apart, same>>
vars == <<manager_env, service, llama, bench, script, survival, history, prior_env>>

ASSUME StopAssumption == MaxStop \in Nat

Actions == {"PRESENCED_AWAY_ACTION", "PRESENCED_PRESENT_ACTION"}
Signature == "HYPRLAND_INSTANCE_SIGNATURE"
Model == "PRESENCED_YUNET_MODEL"
Names == Actions \cup {Signature, Model}
Labels == {"solo", "corun"}

RestartAtOnce == 1      \* A slip.
RestartSec == 5

Init ==
    /\ manager_env \in [Names -> {"own", "unset"}]
    /\ prior_env = manager_env
    /\ unit \in {"inactive", "active"} /\ restart_in = 0 /\ quiet = FALSE
    /\ llama = TRUE
    /\ results = <<"baseline">> /\ rc = 0
    /\ copied = [label \in Labels |-> "none"] /\ passed = {}
    /\ pc = "checks" /\ asleep = 0
    /\ p_alive_pre = FALSE /\ p_alive_post = FALSE
    /\ apart = 0 /\ same = FALSE

------------------------------------------------------------------------------
(* systemd --user. *)

Quiet(env) == env[Signature] = "unset" /\ \A v \in Actions : env[v] = "no-op"

Exec ==
    /\ unit' = "active" /\ restart_in' = 0
    /\ quiet' = Quiet(manager_env)

Start == IF unit = "active" THEN UNCHANGED service ELSE Exec

Stop == unit' = "inactive" /\ restart_in' = 0 /\ UNCHANGED quiet

(* The process exits with a failure, before or after it entered its loop. *)
Crash ==
    /\ unit = "active"
    /\ unit' = "auto-restart" /\ restart_in' = RestartSec
    /\ same' = (same /\ pc # "llama_stopped")
    /\ UNCHANGED <<manager_env, quiet, llama, bench, script, survival, apart, prior_env>>

Restart ==
    /\ unit = "auto-restart" /\ restart_in = 0
    /\ Exec
    /\ UNCHANGED <<manager_env, llama, bench, script, survival, history, prior_env>>

------------------------------------------------------------------------------
(* The script: one action from one sleep to the next. *)

At(place) == pc = place /\ asleep = 0
Then(place, seconds) == pc' = place /\ asleep' = seconds

(* A tool, a service or a file is missing: nothing was touched yet. *)
ChecksFail ==
    /\ At("checks")
    /\ Then("exit", 0)
    /\ UNCHANGED <<manager_env, service, llama, bench, survival, history, prior_env>>

(* The model that the environment names, or the one of the repository. *)
YunetModel == IF manager_env[Model] = "own" THEN "own" ELSE "harness"

(* A slip: the bridge is not cut off. *)
ActionsOnly ==
    [v \in Names |-> IF v \in Actions THEN "no-op"
                     ELSE IF v = Model THEN YunetModel ELSE manager_env[v]]
NoOps ==
    [v \in Names |-> IF v \in Actions THEN "no-op"
                     ELSE IF v = Model THEN YunetModel ELSE "unset"]

Neutralise ==
    /\ At("checks")
    /\ manager_env' = NoOps
    /\ Then("stop", 0)
    /\ UNCHANGED <<service, llama, bench, survival, history, prior_env>>

(* Event fish_exit.  The values kept in env_restore_* are local to the     *)
(* script's top level; the function sees them empty and restores none, and *)
(* that of the model is not kept at all.                                   *)
restore_env ==
    manager_env' = [v \in Names |-> IF v = Signature THEN manager_env[v] ELSE "unset"]

(* A slip: the unit is only stopped when it is active. *)
StopIfActive == IF unit = "active" THEN Stop ELSE UNCHANGED service
StopAnyhow == Stop

StopFirst ==
    /\ At("stop")
    /\ StopAnyhow
    /\ Then("solo", 1)
    /\ UNCHANGED <<manager_env, llama, bench, survival, history, prior_env>>

(* bench.fish: it fails at once when a model or a tool is missing, or runs *)
(* all prompts and writes its result at its end; a prompt whose run failed *)
(* is a null in it.                                                        *)
BenchRefuses == rc' = 1 /\ UNCHANGED results
BenchWrites(label) == rc' = 0 /\ results' = Append(results, label)

(* Warm-up, traces and the bench.                                          *)
Bench(label) ==
    /\ At(label)
    /\ BenchRefuses \/ BenchWrites(label)
    /\ pc' = IF label = "solo" THEN "copy_solo" ELSE "copy_corun"
    /\ passed' = IF rc' = 0 THEN passed \cup {label} ELSE passed
    /\ UNCHANGED <<manager_env, service, llama, copied, asleep, survival, history, prior_env>>

Copies(label, source) ==
    /\ copied' = [copied EXCEPT ![label] = source]
    /\ UNCHANGED <<manager_env, service, llama, results, rc, passed, asleep, survival, history, prior_env>>

(* A slip: ls -tr, the oldest comes first. *)
Oldest == Head(results)
Newest == Last(results)

(* The newest result is copied, whatever bench.fish returned; run_bench's  *)
(* own status is not looked at.                                            *)
Copy ==
    \/ At("copy_solo") /\ Copies("solo", Newest) /\ pc' = "start_corun"
    \/ At("copy_corun") /\ Copies("corun", Newest) /\ pc' = "corun_over"

StartCorun ==
    /\ At("start_corun")
    /\ Start
    /\ Then("corun_started", 3)
    /\ UNCHANGED <<manager_env, llama, bench, survival, history, prior_env>>

(* A slip: the way out on the error does not restore. *)
NothingRestored == UNCHANGED manager_env
ExitOnError == restore_env

CorunStarted ==
    /\ At("corun_started")
    /\ IF unit = "active"
       THEN Then("corun", 0) /\ UNCHANGED manager_env
       ELSE Then("exit", 0) /\ ExitOnError
    /\ UNCHANGED <<service, llama, bench, survival, history, prior_env>>

(* stop; start; sleep 3 *)
CorunOver ==
    /\ At("corun_over")
    /\ Exec
    /\ Then("stop_presenced", 3)
    /\ UNCHANGED <<manager_env, llama, bench, survival, history, prior_env>>

StopPresenced ==
    /\ At("stop_presenced")
    /\ Stop
    /\ Then("start_presenced", 2)
    /\ UNCHANGED <<manager_env, llama, bench, survival, history, prior_env>>

StartPresenced ==
    /\ At("start_presenced")
    /\ Start
    /\ Then("presenced_started", 3)
    /\ UNCHANGED <<manager_env, llama, bench, survival, history, prior_env>>

(* p_alive_pre is read; systemctl returns when llama-server has stopped,   *)
(* which systemd alone limits, by killing it.                              *)
StopLlama ==
    /\ At("presenced_started")
    /\ p_alive_pre' = (unit = "active")
    /\ llama' = FALSE
    /\ \E seconds \in 0..MaxStop :
          Then("llama_stopped", seconds + 3) /\ apart' = seconds + 3
    /\ same' = TRUE
    /\ UNCHANGED <<manager_env, service, bench, p_alive_post, prior_env>>

StartLlama ==
    /\ At("llama_stopped")
    /\ p_alive_post' = (unit = "active")
    /\ llama' = TRUE
    /\ Then("verdict", 5)
    /\ UNCHANGED <<manager_env, service, bench, p_alive_pre, history, prior_env>>

Verdict ==
    /\ At("verdict")
    /\ Stop
    /\ restore_env
    /\ Then("exit", 0)
    /\ UNCHANGED <<llama, bench, survival, history, prior_env>>

Script ==
    \/ ChecksFail \/ Neutralise \/ StopFirst \/ Bench("solo") \/ Bench("corun") \/ Copy
    \/ StartCorun \/ CorunStarted \/ CorunOver \/ StopPresenced \/ StartPresenced
    \/ StopLlama \/ StartLlama \/ Verdict

------------------------------------------------------------------------------

Less(seconds) == IF seconds = 0 THEN 0 ELSE seconds - 1

(* Time passes in the sleeps and in the benches; a due restart comes first. *)
Tick ==
    /\ asleep > 0 \/ pc \in Labels
    /\ ~(unit = "auto-restart" /\ restart_in = 0)
    /\ asleep' = Less(asleep)
    /\ restart_in' = Less(restart_in)
    /\ UNCHANGED <<manager_env, unit, quiet, llama, bench, pc, survival, history, prior_env>>

Next == Script \/ Crash \/ Restart \/ Tick

Spec == Init /\ [][Next]_vars

------------------------------------------------------------------------------
(* Properties. *)

(* concurrency-run.fish:66: from the solo bench on, every presenced that   *)
(* runs, restarted ones included, runs with the no-op actions and without  *)
(* hyprctl.                                                                *)
NoSideEffects ==
    pc \notin {"checks", "stop", "exit"} /\ unit = "active" => quiet

(* concurrency-run.fish:4: no presenced runs at any time of the solo bench, *)
(* not even one that had crashed before and was waiting for its restart.   *)
SoloIsSolo == pc \in {"solo", "copy_solo"} => unit # "active"

(* A bench that succeeded is in the verdict with its own numbers. *)
SuccessIsCopied ==
    \A label \in passed : copied[label] \in {"none", label}

(* concurrency-run.fish:9 and :26, "both services survive each other being  *)
(* killed".  Of a presenced that is alive at both readings this is true, in *)
(* spite of its crashes and restarts, as long as the readings are less than *)
(* the unit's five seconds apart.  The script does not see to that: when    *)
(* llama takes two seconds or more to stop, a process that has died and     *)
(* come back passes for a survivor.                                         *)
SurvivalIsReal ==
    pc \in {"verdict", "exit"} /\ p_alive_pre /\ p_alive_post /\ apart < 5 => same

(* What the harness has set does not outlive it, on whichever way it ends. *)
NoOpsAreGone == pc = "exit" => \A v \in Names : manager_env[v] \notin {"no-op", "harness"}

(* concurrency-run.fish:69: "restored to their prior values at exit". *)
EnvRestored == pc = "exit" => manager_env = prior_env
==============================================================================
