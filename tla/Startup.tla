------------------------------- MODULE Startup -------------------------------
(***************************************************************************)
(* How presenced gets into its loop, and what its probes of the NPU say:   *)
(* main() of project-b/presenced/__main__.py with config.py, preflight.py  *)
(* and xdna_probe.py.  Without flags it is the service, which its unit     *)
(* starts again when it fails; with flags it is run by hand, once.  The    *)
(* two share nothing but the session, so a behaviour follows one of them.  *)
(* What the session offers comes and goes meanwhile.  When the first look  *)
(* has opened the camera, Presenced has the rest.                          *)
(*                                                                         *)
(* Importing onnxruntime succeeds or raises ImportError here, and xrt-smi  *)
(* writes text.                                                            *)
(***************************************************************************)
EXTENDS Integers

CONSTANTS
    RestartSec,         \* of presenced.service
    LimitIntervalSec,   \* of the user manager: so many starts
    LimitBurst          \* in such a time, and no more

(* A unit that reaches the start limit stays failed. *)
ASSUME LimitAssumption ==
    /\ RestartSec \in Nat \ {0} /\ LimitIntervalSec \in Nat
    /\ LimitBurst \in Nat \ {0} /\ LimitBurst * RestartSec > LimitIntervalSec

VARIABLES
    args,           \* flags of the process
    there,          \* what the session offers
    at,             \* stage of main(), or the state of a unit without process
    cfg,            \* what Config.from_env found
    restart_in,     \* seconds until the unit is started
    counted, since, \* starts counted by the limit, seconds since the first
    status,         \* the last verdict of probe()
    r, rc,          \* DeepProbeResult; exit code of the process run by hand
    active, ran     \* its session's first provider, and what ran the operators

limit == <<restart_in, counted, since>>
deep == <<r, active, ran>>
vars == <<args, there, at, cfg, limit, status, rc, deep>>

Flags == {"--probe-npu", "--probe-only", "--dry-run"}

(* "config" is an environment that parses and names "yunet", "model" a     *)
(* file that PRESENCED_YUNET_MODEL names.                                  *)
Needed == {"config", "video", "camera", "model"}

None == -1

Init ==
    /\ args \in SUBSET Flags
    /\ there \in SUBSET Needed
    /\ at = "auto-restart" /\ cfg = "ok"
    /\ restart_in = 0 /\ counted = 0 /\ since = 0
    /\ status = "none" /\ rc = None
    /\ r = [verdict |-> "unknown", error |-> FALSE, offloaded_ops |-> 0, fallback_ops |-> 0]
    /\ active = "none" /\ ran = "none"

(* The groups of a process are those of its login. *)
SessionChanges ==
    /\ \E thing \in Needed \ {"video"} :
          there' = IF thing \in there THEN there \ {thing} ELSE there \cup {thing}
    /\ UNCHANGED <<args, at, cfg, limit, status, rc, deep>>

------------------------------------------------------------------------------
(* The unit: Restart=on-failure. *)

ByHand == args # {}

(* A slip: no RestartSec in the unit, which makes it 100 ms. *)
AtOnce == 0
RestartDelay == RestartSec

Exit(code) ==
    /\ UNCHANGED <<counted, since>>
    /\ IF ByHand
       THEN at' = "exited" /\ rc' = code /\ UNCHANGED restart_in
       ELSE /\ at' = IF code = 0 THEN "inactive" ELSE "auto-restart"
            /\ restart_in' = RestartDelay
            /\ UNCHANGED rc

Goes(stage) == at' = stage /\ UNCHANGED <<limit, rc>>

Expired == counted = 0 \/ since > LimitIntervalSec

(* A process keeps the environment it was started with: one that from_env  *)
(* or basicConfig does not take ("no_number"), or no backend's name.       *)
Exec ==
    /\ at = "auto-restart" /\ restart_in = 0
    /\ at' = IF Expired \/ counted < LimitBurst THEN "main" ELSE "failed"
    /\ counted' = IF Expired THEN 1 ELSE counted + 1
    /\ since' = IF Expired THEN 0 ELSE since
    /\ cfg' \in IF "config" \in there THEN {"ok"} ELSE {"no_number", "no_backend"}
    /\ UNCHANGED <<args, there, restart_in, status, rc, deep>>

Second ==
    /\ ~ByHand
    /\ restart_in > 0 \/ (counted > 0 /\ since <= LimitIntervalSec)
    /\ restart_in' = IF restart_in = 0 THEN 0 ELSE restart_in - 1
    /\ since' = IF since > LimitIntervalSec THEN since ELSE since + 1
    /\ UNCHANGED <<args, there, at, cfg, counted, status, rc, deep>>

------------------------------------------------------------------------------
(* main() *)

main ==
    /\ at = "main"
    /\ IF "--probe-npu" \in args THEN Goes("examine")
       ELSE IF cfg = "no_number" THEN Exit(1)
       ELSE Goes("probe")
    /\ UNCHANGED <<args, there, cfg, status, deep>>

Parts == {"device", "xrt-smi", "xbutil", "onnxruntime_vitisai", "pyxrt"}

Verdict(has) ==
    LET xrt == has \cap {"xrt-smi", "xbutil"} # {}
    IN CASE "device" \notin has -> "no-device"
         [] "device" \in has /\ "onnxruntime_vitisai" \in has -> "runtime-available"
         [] OTHER -> IF xrt /\ "pyxrt" \in has THEN "npu-active-open-stack"
                     ELSE IF xrt THEN "xrt-only-no-inference-runtime"
                     ELSE "device-only-no-userspace"

(* A slip: without an NPU there is nothing to do. *)
NpuNeeded == "--probe-only" \in args \/ status' = "no-device"
ProbeOnly == "--probe-only" \in args

probe ==
    /\ at = "probe"
    /\ status' \in {Verdict(has) : has \in SUBSET Parts}
    /\ IF ProbeOnly THEN Exit(0) ELSE Goes("preflight")
    /\ UNCHANGED <<args, there, cfg, deep>>

preflight ==
    /\ at = "preflight"
    /\ IF ~({"video", "camera"} \subseteq there) THEN Exit(2)
       ELSE IF "--dry-run" \in args THEN Exit(0)
       ELSE Goes("loop")
    /\ UNCHANGED <<args, there, cfg, status, deep>>

(* build() and the first look: what has gone since the preflight raises. *)
_loop ==
    /\ at = "loop"
    /\ IF cfg = "no_backend" \/ ~({"model", "camera"} \subseteq there) THEN Exit(1)
       ELSE Goes("looking")
    /\ UNCHANGED <<args, there, cfg, status, deep>>

------------------------------------------------------------------------------
(* deep_probe() *)

session == <<args, there, cfg, status>>

(* Versions are read from whatever xrt-smi writes, whatever its status. *)
Examine ==
    /\ at = "examine"
    /\ \E next \in {"xrt-smi", "import"} : Goes(next)
    /\ UNCHANGED <<session, deep>>

XrtSmiEnds ==
    /\ at = "xrt-smi"
    /\ Goes("import")
    /\ UNCHANGED <<session, deep>>

(* A slip: TimeoutExpired is not caught. *)
TimesOutUncaught ==
    /\ at = "xrt-smi"
    /\ Exit(1)
    /\ UNCHANGED <<session, deep>>

TimesOut ==
    /\ at = "xrt-smi"
    /\ Goes("import")
    /\ UNCHANGED <<session, deep>>

Failure ==
    [import |-> "onnxruntime-unavailable", providers |-> "vitis-ep-unavailable",
     model |-> "probe-model-missing", session |-> "session-create-failed",
     run |-> "inference-failed"]

Following ==
    [import |-> "providers", providers |-> "model", model |-> "session",
     session |-> "run", run |-> "report"]

Report(verdict, error, offloaded, fallback, code) ==
    /\ Exit(code)
    /\ r' = [verdict |-> verdict, error |-> error,
             offloaded_ops |-> offloaded, fallback_ops |-> fallback]
    /\ UNCHANGED <<session, active, ran>>

Fails == at \in DOMAIN Failure /\ Report(Failure[at], TRUE, 0, 0, 1)

(* onnxruntime keeps the order asked for and leaves out a provider that    *)
(* does not come up; one that does may still take no operator.             *)
Succeeds ==
    /\ at \in DOMAIN Following
    /\ Goes(Following[at])
    /\ active' \in IF at = "session" THEN {"vitis", "cpu"} ELSE {active}
    /\ ran' \in IF at = "run" THEN {active, "cpu"} ELSE {ran}
    /\ UNCHANGED <<session, r>>

deep_probe ==
    /\ at = "report"
    /\ IF active = "vitis" THEN Report("npu-active", FALSE, 1, 0, 0)
       ELSE Report("cpu-fallback", FALSE, 0, 1, 2)

------------------------------------------------------------------------------

Process ==
    \/ main \/ probe \/ preflight \/ _loop
    \/ Examine \/ TimesOut \/ Fails \/ Succeeds \/ deep_probe

Next == SessionChanges \/ Exec \/ Second \/ Process \/ XrtSmiEnds

(* The process runs, time passes, systemd starts what is due, and Python's *)
(* timeout fires; xrt-smi need not end.                                    *)
Spec ==
    /\ Init /\ [][Next]_vars
    /\ WF_vars(Process) /\ WF_vars(Exec) /\ WF_vars(Second)

------------------------------------------------------------------------------
(* Properties. *)

(* presenced.service:2, "CPU-first, NPU-opportunistic", and :20: whatever  *)
(* was missing at first or went away between a check and its use, once     *)
(* everything is there to stay the service gets into its loop and stays    *)
(* there.  No NPU is needed for it, and no start is the last one: what is  *)
(* refused has to end as a failure, and restarts must not reach the limit. *)
ComesUp == ~ByHand /\ <>[](there = Needed) => <>[](at = "looking")

(* presenced.service:21: five seconds keep the unit below the start limit,  *)
(* however often and for whatever reason it ends.                          *)
NeverGivesUp == at # "failed"

(* What a deep probe may be trusted with: code 1 exactly when no inference *)
(* was done (xdna_probe.py:147, "cannot probe"); code 2 and a fallback     *)
(* count only of one that the CPU did all of (:149).  An inference with    *)
(* operators on the NPU is never reported as anything less.  The converse  *)
(* is not true: line 146 says of code 0 "at least one op offloaded", but   *)
(* line 204 gives it as soon as the provider leads the session, whatever   *)
(* ran the operators.                                                      *)
Told ==
    /\ rc \in 0..2
    /\ rc = 1 <=> ran = "none"
    /\ rc = 2 \/ r.fallback_ops > 0 => ran = "cpu"
    /\ ran = "vitis" => rc = 0 /\ r.offloaded_ops > 0

(* __main__.py:68-74: a deep probe ends and has reported, whichever of its *)
(* stages fails and also when xrt-smi hangs.                               *)
ProbeReports ==
    "--probe-npu" \in args ~> at = "exited" /\ r.verdict # "unknown" /\ Told
==============================================================================
