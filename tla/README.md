# A verification project for npu-twin

TLA+ models of the parts of npu-twin that decide, wait, remember or share
something; TLC runs that explore them on small instances; and theorems that
TLAPS proves for every value of the constants. The models are translated from
the source; documents, comments and tests only supply what the program
promises.

To check a run, in this directory: `tlc -workers 2 -config <run>.cfg <Module>.tla`.
To check the proofs: `tlapm <Module>Proofs.tla`.

1. [The system](#1-the-system)
2. [Modules and code](#2-modules-and-code)
3. [Runs](#3-runs)
4. [Fairness](#4-fairness)
5. [Proofs](#5-proofs)
6. [Findings](#6-findings)
7. [Assumptions](#7-assumptions)
8. [Not modelled](#8-not-modelled)
9. [Plan](#9-plan)

## 1. The system

npu-twin is three loosely coupled things on one laptop: a speculative-decoding
service on the GPU (project A), a daemon that switches the screen when the user
leaves (project B), and a Llama model whose matrix products run on the NPU
(project C), with a harness that measures how A and B get along.

| Component | State it keeps | Operations | What makes it hard | Correct when |
|---|---|---|---|---|
| Presence FSM, `presenced/fsm.py` | `state`, grace timestamp | `observe(face, now)` | Its state depends on a whole history of frames and readings | It says AWAY exactly when the current run of misses spans the grace period |
| YuNet, `presenced/face.py` | camera handle, network, remembered frame size | `detect`, `close`, lazy opening inside `detect` | Partly opened after a failure; the remembered size must follow the camera | Only frames of an open camera are judged, by a network of their size; `close` releases everything |
| HyprBridge, `presenced/hypr.py` | a child process | `dispatch` | The child may fail, or not start; it is awaited without a timeout | One command at a time, one per transition |
| Daemon, `presenced/__main__.py` | FSM, detector, bridge, `stop` event, position in the loop | start, look, observe, dispatch, sleep, signal, close | The frame is older than the judgement; signals at any point; exceptions from a thread | The screen follows the user within bounds; a stop ends it soon; nothing is left behind |
| Getting started, `config.py`, `preflight.py`, first half of `main` | none; configuration, stage | parse, probe, check, build | What was checked may be gone when it is used; the unit tries again | The service comes up when everything is there, and is never given up |
| NPU probes, `presenced/xdna_probe.py` | the result under construction | `probe`, `deep_probe` | A hanging tool; five stages that can each fail | A report on every path, which takes no fallback or failure for more than it was and no inference on the NPU for less |
| Unit and desktop scripts, `contrib/`, `scripts/demo.fish` | unit state, journal, widget | start, stop, crash, restart, poll, toggle | Test and action are separate commands; the state is read back from log lines | Status is the FSM's state; readers catch up; a wanted service comes back |
| GEMV kernel, `m6-llm/npu_gemv.py` | object fifos, worker state over calls | fill A, fill b, forward, compute, drain | Five engines that meet only in bounded fifos | Every tile of C is the sum of its own row; nothing leaks into the next call; no deadlock |
| GEMV host, the same file | row cursor, device tensors, result | `gemv` | Blocks limited by a DMA wrap count, last block shorter; every block another run of a kernel whose worker may live on | Every block fits the device; every row is in its place, as the engines computed it |
| Model, `m6-llm/llama_npu.py` | K and V lists per layer, `pos` | `forward_token`, `reset` | 2 x n_layers lists and a counter that nothing ties together | All layers read the whole context, each token at its position |
| Generation and chat, the same file | `first`, tokens fed, printed text | `generate`, `chat_repl`, `sample_next`, `main` | The dialogue is only what has been fed; rounded sums at the edge of the nucleus; characters split over tokens | Whole turns only, logits of the whole dialogue, the smallest nucleus, nothing garbled on the screen |
| Harness, `bench/scripts/concurrency-run.fish` | borrowed manager environment, result files, readings | stop, bench, copy, start, readings, verdict | presenced crashes and is restarted meanwhile; several ways out | The numbers are what they are labelled; the environment is given back |

They interact as follows. The daemon calls the FSM on its event loop, the
detector in a thread, and the bridge as an awaited child process. systemd starts, stops
and restarts the daemon and keeps its journal; the widget and the demo read
both, the toggle key acts on the unit. The harness drives both services
through systemd and passes settings to presenced through the environment of the user
manager. The chat calls the model; the model calls `gemv` for every product;
`gemv` calls the compiled kernel once per block of rows.

## 2. Modules and code

Names are the source's where TLA+ allows it. `PROJECT.json` maps every
definition to its lines. Definitions whose comment calls them a slip are not
part of a specification: each is a plausible bug that must violate the property
it is there for.

**Presence daemon**

- `PresenceFSM` - `observe` as the actions `FaceSeen`, `FaceLost`,
  `DeclareAway`, `StillMissing`. No next-state relation of its own.
- `FsmHistory` - drives it with every sequence of frames at every reading and
  records them in `obs`. `FsmHistoryProofs` has its theorems.
- `YuNet` - one action per way a `detect()` can end. `cap` distinguishes
  "none", "unopened" (a `VideoCapture` that failed) and "open"; `det` is the
  size the network has, `size` the one the code believes it has.
- `HyprBridge` - the child process and what it does to the screen.
- `Presenced` - composes the three above by INSTANCE. `pc` is the place in `main`/`_loop`:
  `boot`, `top` (the `while` test), `detect` (in the thread), `observe` (the
  answer is there, the loop has not run yet), `dispatch` (awaiting hyprctl), `wait`,
  `close` (the `finally`), `exit`. `due` is the latest end of the pending step, so
  `Tick` expresses how long each may take. `here` is the user.
- `PresencePolicy` - the abstract specification: commands alternate and never
  overlap, and after a stop request at most the look in flight is finished.
  `Presenced` implements it (`PolicySpec`). `PresencedProofs` has the theorems
  of both, and of `YuNet` as the daemon uses it.
- `Startup` - everything before the first frame: flags, configuration, the NPU
  probes, preflight, build, and the unit that starts it again, with systemd's
  start limit. `there` is what the session offers and changes at any moment;
  `at` is the stage of the process or the state of a unit without one. From
  `looking` on `Presenced` has the process. `StartupProofs` has its theorems.
- `PresencedService` - unit, journal, widget, toggle. The daemon is reduced to
  its FSM and its commands. `Window` is journalctl's `-n`.
  `PresencedServiceProofs` has its theorem.

**NPU product**

- `GemvKernel` - the engines of one run of the compiled kernel: `FillA`,
  `FillB`, `Forward`, `Drain`, and `core_fn` in four actions; acquire and release are
  separate, an acquired element stays in its fifo. A tile is named by row and
  column; a C buffer holds the sequence of products accumulated into it. `Load`
  puts a program on the device, whose worker holds nothing yet or, when it is
  the one that ran last, a buffer of C with what that run left. No next-state
  relation of its own.
- `Gemv` - EXTENDS it with the host loop of `gemv`, over several calls of any
  of the shapes: `NextBlock` loads and invokes the kernel, the engines run, `Copy`
  takes over what was drained. An accepted call is one whose rows are whole tiles.
  `GemvProofs` has the lemmas about the kernel's steps and the theorems of the two together.

**Llama**

- `LlamaNPU` - `forward_token` as `Begin`, one `Layer` per layer, `Return`; a
  key is its token and the position it was rotated by, a layer's result is what
  its attention read.
- `LlamaContext` - the abstract model: a token joins the context, the logits
  are those of the context. `LlamaNPU` implements it (`ContextSpec`).
- `LlamaChat` - EXTENDS `LlamaNPU` with `main`, `generate` and `chat_repl`. Blocks of the template and the
  user's text are one token each.
- `Conversation` - the abstract dialogue: opening once, whole turns, bounded
  replies. `LlamaChat` implements it (`ConversationSpec`). `LlamaChatProofs`
  has the theorems of all four.
- `Sampling` - the nucleus of `sample_next` as a pure function of
  probabilities, their order and top_p; `LlamaChat` EXTENDS it and states where
  it is used, and `LlamaChatProofs` has its theorems.
- `StreamDecode` (`MCStreamDecode` gives it a vocabulary) - decoding the growing reply and
  writing the difference. A byte is reduced to its role in UTF-8.
  `StreamDecodeProofs` has its theorems.

**Harness**

- `Harness` - the script from one sleep to the next, the manager's
  environment, presenced's unit with its restart timer, the directory of
  results, the two readings of the survival test. `HarnessProofs` has its
  theorems.

## 3. Runs

| Run | Asks | Bounds, and why they are enough |
|---|---|---|
| `fsm_history` | Is the state the stated function of the history? | 6 frames over 7 readings, grace 3: runs of misses shorter than, equal to and longer than the period, interrupted by a face or not, and two frames at one reading. |
| `presenced_timely` | With everything healthy: does the screen follow the user in `AwayBound` and `RelightBound` ticks, and only the user? | Grace 2, interval, detector and command one tick, 14 readings. The bounds are 8 and 5 ticks, so an absence and a return both run out within the horizon. |
| `presenced_faults` | What remains when model file, camera, detector, hyprctl and setup all fail at will? | The same latencies, 8 readings, frames of two sizes that both differ from the network's 320x320. Every exit path is reached well before the horizon. |
| `service` | Crashes, restarts, stops, presses and polls around the daemon. | Two journal lines: a transition and the line of its command, the least a reader can do with. A longer window only adds lines of earlier processes. |
| `startup` | Does the service get into its loop, for any order of failures, and does every call by hand end as it should? | The unit's own numbers: restarts 5 s apart, five starts in 10 s. All sets of flags, all that can be missing, each thing coming and going at any moment. |
| `gemv` | Host and kernel: all interleavings of the engines within blocks of a matrix, call after call. | Rows of three tiles through fifos of depth 2, so that a row is longer than a fifo; blocks of up to three tiles, more than there are buffers of C; matrices of none, a partial block, two exact blocks and more with a shorter last one, and one that is refused. Two calls, so that the second meets what the first leaves on the device. |
| `llama_chat` | The model under both one-shot and chat use; the nucleus. | Two layers (one that feeds another), replies of up to three tokens of two kinds, caches of 24 tokens: two full turns, or more short ones, with resets and aborts between. For the nucleus all distributions of 0 to 3 units over four tokens, every order, every top_p. |
| `stream_decode` | All replies of up to four tokens. | Eight tokens: a plain character, leads of two and three bytes, continuation, a genuine U+FFFD, and tokens that end one character and begin or continue another. |
| `harness` | What numbers and flags of the verdict mean. | All prior environments, presenced failing at any moment, llama taking any time to stop up to the 90 s after which systemd kills it (`llama-speculative.service` sets no `TimeoutStopSec`). |
| `yunet_missing_camera`, `service_widget`, `harness_env` | The three findings of section 6. | The smallest instances that show them. |

What the passing runs show, beyond types:

- **FSM.** `StateFromHistory`.
- **Daemon.** `AwayInTime`, `RelitInTime` (worst-case latencies, composed from
  the latencies of the parts), `ScreenFollowsFsm`, `AwayMeansLeft` (no command
  over somebody who sat there for the whole period - only with a camera that
  delivers), `AwayOnlyAfterGrace` (under all faults, and measured from when the
  frame was captured), `StopInTime`, `StopIsHonoured`, `LeavesNothing`,
  `ObservedCameraOpen` (the half-open state that the first finding is about
  never reaches the FSM, because the first exception ends the loop),
  `DetectorSized`, `PolicySpec`.
- **Start.** `ComesUp` (once everything is there to stay, the service gets into
  its loop and stays), `NeverGivesUp` (no number of failed starts reaches the
  start limit), `ProbeReports` (a deep probe ends with a report, also when
  xrt-smi hangs; code 1 is given exactly when no inference was done, code 2
  only when the CPU did all of one, and an inference on the NPU is never
  reported as less. That code 0 means an operator on the NPU is not claimed,
  because the code does not see to it: section 6).
- **Service.** `StatusIsMode`, `WidgetSettles`, `StaysUp`.
- **Product.** `TilesAreProducts`, `CallEndsClean` (only the drain is awaited,
  yet no input of the run is left), `BlocksFit`, `ReturnsProduct` (the result on
  the host, as the engines computed it), `CallReturns` (every accepted call
  returns, so the engines never wait for one another).
- **Llama.** `CacheIsContext`, `SampledFromDialog`, `PromptIsWellFormed`,
  `ContextSpec`, `ConversationSpec`, `TurnEnds`; `NucleusIsSmallest`;
  `NeverGarbled`, `NothingElseHeldBack`, `WrittenInFull`.
- **Harness.** `NoSideEffects`, `SoloIsSolo`, `SuccessIsCopied`,
  `SurvivalIsReal`, `NoOpsAreGone`.

`CHECK_DEADLOCK FALSE` stands where the program really ends (the end of the calls of `gemv`, of a reply, of the chat, of the harness) and in `fsm_history`, which ends at its bounds.

Counters are bounded by `Horizon`, `MaxTime`, `MaxObs`, `MaxCalls`, `Shapes`,
`MaxPos`, `MaxNew`, `max_new`, `MaxMass`, `Window`, and named as bounds where they are declared.

## 4. Fairness

Fairness is stated only for what the environment really keeps going.

- `Presenced`: weak fairness of the daemon's own next step and of `Tick`. The
  kernel schedules the process, `detect()` returns (MaxDetect), hyprctl exits
  (MaxDispatch), the sleep has a timeout. No fairness for the user or for signals.
- `PresencedService`: restart timer, the exit after SIGTERM (which
  `StopIsHonoured` of `Presenced` justifies), commands and looks in flight end,
  waybar polls every two seconds (`config.jsonc`), a pressed toggle acts. No
  fairness of `BeginLook`, `Crash`, or of presses.
- `Startup`: the process goes on, systemd starts a unit whose time has come,
  time passes, and the timeout of `subprocess.run` fires. None for
  `XrtSmiEnds`: a hanging tool is the case `ProbeReports` is about. None for
  what comes and goes in the session.
- `Gemv`: the host runs, and each engine and the core proceed while they can,
  each with a fairness of its own. No fairness for the next call.
- `LlamaChat`: the process runs on; the user need not type, nothing need fail.
- `FsmHistory`, `LlamaNPU`, `StreamDecode`, `Harness`: safety only, no fairness.

## 5. Proofs

| Module | Theorem | For every |
|---|---|---|
| `FsmHistoryProofs` | `TypeCorrect`, `HistoryDetermines` | grace period, number of frames, monotone readings after zero |
| `PresencedProofs` | `TypeCorrect`, `AwayCommandAfterGrace`, `StopLatency`, `ObservationsAreReal`, `NothingIsLeft`, `NetworkFitsFrame` | set of faults, latencies, interval, grace period, frame sizes |
| | `ScreenFollows` | the same without hyprctl faults |
| | `DeclaredAwayInTime` | the same without faults of the network, and with a grace period that is not zero |
| | `RelitAfterReturn` | the same without faults of camera, network and hyprctl |
| | `AwayMeansNobody` | the same without faults of camera and network, and with detector calls shorter than the grace period |
| | `ImplementsPolicy` | the same as the first; safety part of `PolicySpec` |
| `PresencedServiceProofs` | `StatusIsTrue` | window of at least two journal lines |
| `StartupProofs` | `RestartsForever`, `ExitTellsTheRun` | restart delay and start limit that satisfy `LimitAssumption` |
| `GemvProofs` | `TypeCorrect`, `ProductsAreRight`, `CallsAreIndependent`, `EveryBlockFits`, `ResultIsProduct`, `NoDeadlock`, `CallsAreFinite` | tile, block, repeat limit that satisfy `TilingAssumption`, fifo depth, shapes, number of calls |
| `LlamaChatProofs` | `CacheHoldsContext`, `ModelIsContext` | number of layers and context length, for the model under arbitrary calls |
| | `ChatCacheIsContext`, `ChatKeepsContext`, `SampledFromWhole`, `PromptHoldsWholeTurns`, `ChatIsConversation`, `TurnNeverStuck`, `TurnsAreFinite` | number of layers, context length, reply length, template with or without system text, set of reply tokens |
| | `KeepIsSmallest`, `NucleusAtSampling` | number of tokens, probabilities, order of equal ones, top_p |
| `StreamDecodeProofs` | `ScreenIsPrefix`, `RestIsShown`, `ReplyIsWritten` | set of tokens (each any sequence of bytes), length of reply |
| `HarnessProofs` | `PresencedIsQuiet`, `SoloBenchIsSolo`, `OwnResultIsCopied`, `NoOpsDoNotStay`, `AliveTwiceIsSurvival` | bound on the time that stopping llama takes |

`TypeCorrect` of `FsmHistoryProofs` is for the reader of that proof; no run
repeats it.

Each proof has an inductive invariant, `IInv` where it has one name; none of
the properties is inductive alone. All of them were model-checked on the
instances of section 3 first.

- **FSM.** `StateFromHistory` says nothing of the timestamp. `IInv` adds that
  readings are ordered (`Ordered`) and that during an absence `grace_started`
  is the reading of the first miss of the current run (`GraceFromHistory`).
  `ReadingAssumption`, readings after zero, is needed for `or t`.
- **Daemon.** `DueInv` bounds the pending step by its latency and places `due`
  after the clock; `GraceInv` relates the grace timestamp to `seen`, the
  capture time of the last face, while a newer answer is in flight; `StopInv`
  bounds, per place in the loop, how long ago the stop was set; `CameraInv` and
  `ChildInv` say where a camera or child can exist. `ScreenInv` adds which
  command runs in which state. `ImplementsPolicy` has one step per action, each a step of the policy or a
  stutter.
- **Detector.** `DetectorSized` says nothing of the remembered size.
  `DetectorInv` ties the three sizes together: without a camera there is no
  network and nothing is remembered; otherwise what is remembered is the
  network's size, and the last frame had it.
- **Timeliness.** The bounds are about the age of a change of the scene, and
  hold because each place in the loop has a deadline of its own. `PaceInv` bounds the
  sleep and, during a grace period, the next look; `StaleInv` says that an
  answer about an earlier scene belongs to a detector call that had begun
  before the change, `NoticeInv` by when the loop is where while the FSM is
  still `Behind`, by when the grace period has begun and by when a command
  that lights the screen is through. The three theorems only add up the
  deadlines. `Trusted` is what each needs of the environment: nobody is invented, and,
  for those who came back, nobody missed. With a grace period of 0 the machine still
  needs two looks, and `AwayBound` is too small by one tick. `AwayMeansLeft` fails when a
  detector call outlasts the grace period.
- **Status.** `JournalInv`: while the service is active, the last transition
  among the lines of the window is the running process's. A process that has
  taken one only ever adds a transition with at most the bridge's line after
  it, and both fit.
- **Restarts.** `NeverGivesUp` says nothing of the counter. `IInv` adds that the
  starts counted so far are paid for in seconds: `Paced` says that `since` is at
  least `RestartSec` times the starts but one, less what the running wait still
  owes (`Owed`). A start that would exceed the limit then comes after the
  interval is over, because `LimitBurst * RestartSec > LimitIntervalSec`.
- **Deep probe.** `ProbeInv` says, stage by stage, what an earlier stage has
  established: no report yet, a session with a provider from `run` on, operators
  run by that provider or the CPU at `report`, and none before. `ExitTellsTheRun` is
  the safety half of `ProbeReports`; that the process ends is the other half.
- **Kernel.** `StreamInv` says that the elements of each fifo follow one
  another without a gap, up to what the filling side sends next, and that both
  streams arrive at the core at the same tile, the one it works on next. That
  is why tiles of A and b that never meet on their way pair up. `TapInv` says
  where a finished fill stands, `CoreInv` ties the worker's place to what it
  holds, `RowInv` gives the contents of every buffer in use or drained.
- **Host.** `IInv` is the kernel's invariant with three parts of its own:
  `IdleInv`, while the host is not waiting the device has drained all of C;
  `BlockInv`, a block is whole tiles within the limit and the kernel runs as
  many rows of tiles; `LoopInv`, `start` is a multiple of the tile and all rows
  before it hold their products. When a block is copied the kernel's invariant
  says of every drained tile that it is `Row(call, r)`, which is what `C_t`
  asks for. That a loaded kernel may find its worker in mid-row is excluded by
  `CallEndsClean`, which `StreamInv` implies of a drained call.
- **Progress of the product.** `NoDeadlock` states what each engine and the core wait for
  (`Ready`): while rows are missing, the tile the core stands at is in a fifo
  or still to be sent through an empty one, and when it wants a buffer of C and
  none is drained, all are free. `CallsAreFinite` counts the steps that are
  left (`Work`): each step of the device takes one off a natural number.
  Together they are the argument for `CallReturns` at every size; the step from
  there to the liveness property is left to TLC.
- **Model.** `CacheIsContext` says nothing of a call under way. `CacheInv` adds that
  the layers a call has passed are one token ahead of `pos`, `ReadInv` that
  those layers, and after the call the logits, have read the whole context. A
  call's last step is then `LlamaContext`'s, all others stutter.
- **Chat.** `ReplInv` says in which places tokens wait to be fed and that
  no call runs where the user is asked; `DialogInv` that what is fed, with
  what waits, has the shape of a dialogue (`Shaped`): one opening, every reply
  closed, the last one open exactly in the places that reply.
- **Progress of a turn.** `Steps` counts the layers left of the call under way,
  for each token that may still be fed a whole call, and the places of the program still
  ahead. Every step of a turn lowers it (`TurnsAreFinite`), and in no place of a
  turn is none possible (`TurnNeverStuck`); the step from there to `TurnEnds` is left to TLC.
- **Nucleus.** Three lemmas about the sums, each by induction on a number of tokens: a
  running sum grows by the probability it takes in (`CumSteps`), the first k
  tokens of the order have k elements and the k-th running sum as their mass
  (`FirstAreCounted`), and no other k tokens have more (`FirstAreHeaviest`). So
  `cut`, which counts the running sums below top_p, is one behind the last of
  them (`CutIsBehind`): a set of fewer tokens has at most the mass of that many
  first ones, which is below top_p.
- **Stream.** Bytes only add to the text of a decoder (`DecodeByteGrows`,
  `TextGrows`); what may still change is the one replacement character for
  a character under way, which `rstrip` takes off (`RstripOfBroken`). So what is safe
  once stays at the beginning of every later decoding (`SafeStaysSafe`), and `IInv` is that
  `printed` and, during the reply, `stdout` are the safe part of all bytes so far.
- **Folds.** A nucleus and a reply are computed by folds of the community modules, which are
  recursive functions. The provers cannot apply an induction theorem that takes
  a predicate; `SetInduction` is the same principle for sets of numbers, from `NatLessThanWellFounded`
  and `WFMin`. `FoldingExists` and `SummingExists` show by it that the
  function a fold chooses exists, `DecodeIsRun` and `SumUnfolds` what it
  then computes. Both modules state `SetInduction`, so that each can be read alone.
- **Harness.** `IInv` has a part for each property: `EnvInv` the manager's environment per place of the
  script, `UnitInv` what runs or waits, `CopyInv` which result is the newest
  when it is copied. `SurvivalInv` compares the restart timer of a presenced
  that died after the first reading with what the script has yet to sleep: the
  timer stays ahead of it when the readings are less than `RestartSec` apart. The
  theorem assumes nothing of how long llama takes to stop; the property carries
  the bound, and with a distance of five seconds TLC finds it violated.

Assumptions of the proofs are the named ASSUMEs of the modules; TLC evaluates
them in every run of a module that extends them.

**Only model-checked:**

- Liveness: `StopIsHonoured`, `ComesUp`, `ProbeReports`, `WidgetSettles`, `StaysUp`,
  `CallReturns`, `TurnEnds` and the fairness part of `PolicySpec`. It needs
  ENABLED, which TLAPS does not reach.

Every other property of a passing run is stated by a theorem.

## 6. Findings

1. **`presenced/face.py:55`** (run `yunet_missing_camera`). `_cap` is assigned
   before `isOpened()` is tested. After a failed open a second `detect()` skips
   the initialisation, reads from the unopened capture and answers "no face",
   where `test_face_yunet.py:147` expects a missing camera to raise. The daemon
   does not run into it (`ObservedCameraOpen`): its first exception ends the loop.
2. **`contrib/waybar/presenced.sh:25`** (run `service_widget`). The grep pattern
   begins with `-`, is taken for options and matches nothing; the widget of an
   active service always shows "unknown". `demo.fish:86` escapes the same
   pattern.
3. **`bench/scripts/concurrency-run.fish:70`** (run `harness_env`). The prior
   values are `set -l` at the top level of the script, out of sight of the function that
   restores them; line 69 says they are restored. What the harness itself sets
   is removed on every way out (`NoOpsAreGone`); what was there before is lost,
   and of `PRESENCED_YUNET_MODEL` (line 84) not even a copy is made.

Disagreements seen while reading, without a run of their own:

- `demo.fish:88` reports the last transition in the journal, which after a
  restart may be the previous process's, where line 91 means to say that there
  is none yet. `StatusIsMode` is stated for a process that has taken one.
- A daemon that dies while the screen is off is restarted in UNKNOWN and leaves
  it off until the user has been away and back once more.
- A failed camera read counts as an absence (`face.py:64`); `AwayMeansLeft`
  therefore needs a camera that delivers, and says nothing of one that stalls.
- A failed hyprctl is not repeated (`hypr.py:33`); `ScreenFollowsFsm` is stated
  for one that works.
- The comment at `llama_npu.py:222` says that all but the last prompt token are
  fed; the code feeds all, which is right.
- `concurrency-run.fish:134` copies the newest result even when the bench
  failed without writing one.
- `preflight.fish:3` and `demo.fish:28` speak of an exit code 2; line 123
  returns 0 instead.
- `xdna_probe.py:146` says of exit code 0 "at least one op offloaded"; lines
  204-208 give it, and `offloaded_ops` 1, to every session that VitisAI leads,
  also when the CPU ran every operator (`active = "vitis"`, `ran = "cpu"` in
  `Startup`; the comment at line 200 admits the heuristic). For such a run line
  149 would have code 2. `ProbeReports` therefore says nothing of code 0. Line
  147 has code 1 for what cannot be imported; it is also given to a missing
  model, a session that is not created and a failed inference, so that what
  holds is only its "cannot probe".
- `concurrency-run.fish:26` means by survival "both services survive each other
  being killed". The two readings are the stop of llama and three seconds apart
  (line 177), and presenced is restarted five seconds after it died: when llama
  takes two seconds or more to stop, a presenced that died is active again at the
  second reading and passes for a survivor. Nothing in the script bounds the stop.
  `SurvivalIsReal` is stated for readings closer together than that.
- `__main__.py:68` says that `check-npu-status.fish` reads the JSON of the deep
  probe; that script runs `npu_probe_verdict.py`. The deep probe always looks at
  `/dev/accel/accel0`, whatever `PRESENCED_XDNA_DEVICE` says.
- `project-b/README.md` gives defaults of 0.5 s between frames and
  `hyprctl dispatch dpms off`; `config.py` has 1.0 s and `dpms off`.
- `llama_npu.py --raw` with an empty prompt takes `np.argmax` of None.
- A camera unplugged and plugged in again is never opened again (`face.py:63`):
  its reads fail, which counts as an absence.
- `measure-latency.py` takes percentiles of an empty list when no frame was read.
- `concurrency-run.fish:6` and the main README speak of 2 Hz; the unit sets an interval
  of one second.

## 7. Assumptions

- Clock readings are positive integers; a tick stands for any unit. The sleep
  takes exactly its interval, and the event loop does not sit on work that is
  due (`Urgent`). Scheduling delay counts as part of `MaxDetect` or `MaxDispatch`.
- A frame shows the scene at the moment it is read; buffering inside OpenCV is
  not modelled. A sound detector answers exactly whether somebody is there.
- hyprctl takes at most `MaxDispatch`. One that hangs blocks the daemon,
  because `communicate()` has no timeout; only systemd's stop timeout ends it.
- `away_action` and `present_action` have their defaults.
- In `Startup`: `import onnxruntime` succeeds or raises ImportError (any other
  exception would end the probe without a report), what xrt-smi writes is text,
  and an xrt-smi that is killed at the timeout dies. systemd's start limit
  is its default of five starts in ten seconds. The probe run by hand and the
  service share only the session, so a behaviour follows one process at a time.
- In `PresencedService` hyprctl works, and the start limit is left to `Startup`. A start job waits for a running stop
  job, as systemd queues it.
- Whether the compiled kernel's worker lives on between two runs of the same
  program, or is started anew with buffers that hold anything, is left open:
  `Invoke` may `Load` or not. Fifo elements keep their order; `Depth` is
  whatever depth the fifos are built with.
- A run of the kernel on a block the device cannot take does not return.
- Special tokens do not occur in the user's text, and the model answers with no
  token of the template but those that stop a reply; `sample_next` would pass on a
  begin-of-text or header token, and nothing in the code tests for it. In `Sampling` a probability
  is a number of units, which need not sum to the unit of top_p: that stands for
  rounding. Of UTF-8 there are no four-byte characters and no ranges of continuation bytes:
  a lead and its continuations are complete or broken by their number.
- `Harness`: nobody else starts or stops the services; the script is not
  killed; llama-speculative does not crash by itself; the values of the script's environment are those
  of the manager.

## 8. Not modelled

- Which strings `config.py` takes for numbers, how the group is looked up, the
  regular expressions on the text of xrt-smi.
- Project A's server, its bench's parsing and averages, its smoke test and
  downloads: third-party program and text processing. `Harness` has the bench
  as one step.
- Traces, warm-up, health readings and the arithmetic of the verdict.
- Numerics: bf16 products, softmax, rotary embedding (only the position it
  uses), temperature and the draw from the nucleus, weight loading.
- `preflight.fish`, `check-npu-status.fish`, `build-probe-onnx.py`, `fetch-yunet.sh`, `measure-latency.py`, the run scripts and
  verification scripts of project C: straight lines without state.
- Recorded results, logs, styling, the two systemd units' static settings.

## 9. Plan

Done, in this order: the FSM over its history; detector, bridge and daemon with
the policy it implements; the service around it; kernel and host of the
product, then composed; model, chat, nucleus and stream; harness; start and
probes; proofs of the FSM, the daemon, the product and the restarts; then of the
daemon's timeliness and its detector, the service's status, the deep probe, the
progress of the product, model and chat with their refinements, and the
harness; then of the nucleus and the stream, by induction over their folds.

Every invariant and every action property of the passing runs is now a
theorem, and so is the safety part of `PolicySpec`. Left, all in
the models: the demo's verdict over its four sections, the health readings of
the harness, and the bench's results file, each in the module that has its
environment, with the invariants of its proofs extended.
