# A verification project for sdr-pi

sdr-pi is a receive-only software-defined-radio agent in three tiers: a daemon
on the P201 radio board that owns the AD9361 receiver (`sdr-system/sdrd`, C), a
controller on the host that plans, authorises and executes sweeps and captures
(`raspberry-pi/sdr-agent/controller`, Rust), and a planner worker that runs a
language-model agent (`raspberry-pi/sdr-agent/planner-worker`, Node.js), with a
web console in front. This directory holds TLA+ models of its parts, the TLC
runs that check them on small instances, and TLAPS proofs for any instance.

## Inventory

| component | state | operations | interacts with | hard behaviour | correct when |
|---|---|---|---|---|---|
| sdrd server (`main.c`) | `worker_active`, `active_generation`, `stop_requested` | accept, serve cancel client, spawn worker, shut down | clients over TCP; worker thread; adapter | two threads, one signal, detached workers | one worker at a time; cancels reach the right session; shutdown waits for the worker |
| sdrd session layer (`sdrd.c`) | `sdrd_session_t` per connection | START/APPLY/CAPTURE*/STOP/QUIT, close | server loop, adapter | every failure path stops and restores | the radio comes home, replies are true |
| sdrd IIO adapter (`sdrd_iio.c`) | buffer, cancel latch, `capture_active`, `sequence`, capture files, the radio itself | snapshot, apply, capture, cancel, stop, restore | libiio | cancel from another thread, partial attribute writes | no destroyed buffer is cancelled, no cancel is lost, no partial file stays |
| run lease (`run-lease.mjs`) | owner | acquire, release | one-shot planner, session runtime | released from promise chains and dispose | one inference, never leaked |
| session runtime and server (`session-*.mjs`) | agent, active, queued, pending requests, contexts | open, prompt, steer, follow_up, abort, clear_queue, close; agent events; dispose | console over a Unix socket; Pi Agent | promises that settle after abort, close or disconnect | every accepted request is planned, reported or withdrawn, once |
| one-shot planner (`main.mjs`) | its lease and timer | one request per connection | controller runner | timer against late result | ends, gives the lease back |
| execution client (`execution.rs`, `sdr.rs`) | request ids, socket, deadline | execute_capture, cancel, observe | sdrd | late replies, server_busy after QUIT, cancel on a second connection | authorised captures only, restoration proven |
| sweep engine (`sweep.rs`) | points, candidates, SigMF files | validate, expand, run, aggregate, merge | sdrd | one point of many failing, edges of the band | covers the band, bounded, files complete |
| runner and policy (`runner.rs`, `policy.rs`) | audit log, plan, authorisation | run_once | planner, sdrd, sweep engine | crash between audit and execution | nothing executes unaudited or unauthorised |
| cruise control (`autonomy.rs`) | budget and mode | start, observe, stop | console | limits | stops at its budget |
| terminal console (`bin/sdr-agent.rs`) | conversation, session, executor, autonomy | operator commands, planner events, executor results | planner session, executor thread | three event sources, stop and renew | an operator's stop wins |
| web console (`web-console`) | conversations in memory and in `state.json`, one terminal handle, one task per terminal, the SQLite index of captures, the provider file | create, switch, command, compact, evict; terminal start, output, exit; capture list and delete; provider save, delete, query; restart | console child, browsers, SigMF files | replaced terminals that still print, lost shutdown messages, a crash at any point, two requests at once | one terminal at a time, no survey twice, index and files agree, a key goes where it was entered for |
| recognizer, p201pro-rust, harness, deployment | - | - | - | - | not modelled (a model runtime, a historical benchmark, packaging) |

`PROJECT.json` lists the same components with their sources, and under
`hazards` what in this code is hard to test, each at its line.

## Modules

| module | what it is |
|---|---|
| `Sdrd` | the daemon: acceptor thread, worker thread, sessions, adapter, radio |
| `RxOwnership` | what the daemon promises about the radio, without threads or attributes |
| `MCSdrd` | instances of `Sdrd` for TLC |
| `SdrdProofs` | the inductive invariant of `Sdrd` and theorems about threads, buffer and radio |
| `SdrdRefinementProofs` | theorems about what clients are shown, and that `Sdrd` implements `RxOwnership` |
| `PlannerWorker` | lease, one-shot planner, session server and runtime |
| `MCPlannerWorker` | instances for TLC |
| `PlannerWorkerProofs` | theorems about `PlannerWorker` |
| `Console` | the terminal console with its cruise control, and its view of worker and radio |
| `MCConsole` | instances for TLC |
| `ConsoleProofs` | theorems about `Console` |
| `Survey` | the arithmetic of a survey: policy, sweep plan, points, candidates, the next observation, the web console's checks |
| `Controller` | one run of the controller (`runner.rs`) or one job of the console's hardware thread, over the execution client and the sweep engine, against sdrd |
| `MCController` | instances for TLC |
| `SurveyProofs` | lemmas about `Survey`: the centres, their number, the plan checks, the windows, the median, the runs, the candidates and the observation made of them |
| `ControllerProofs` | theorems about `Controller` |
| `Inspections` | the observation the console carries from turn to turn, over `Survey` |
| `MCInspections` | an instance for TLC |
| `WebConsole` | conversations and terminals of the web console |
| `MCWebConsole` | an instance for TLC |
| `WebConsoleProofs` | theorems about `WebConsole` |
| `WebStores` | its capture index with the SigMF files, and its provider configuration |
| `MCWebStores` | instances for TLC |
| `WebStoresProofs` | theorems about `WebStores` |

`Sdrd` implements `RxOwnership`, and `Controller` uses the radio as
`RxOwnership` promises it (`RadioAsPromised`), which is how the two are composed:
a behaviour of sdrd that the controller's properties depend on is one sdrd is
checked to have.

### Sdrd

One action is the code between two accesses to state the other thread shares.

* The *acceptor* (`acceptor`) is `run_server`: it tests `stop_requested` only at
  the top of its loop, accepts, reads the first line itself, executes
  CANCEL_SESSION in place (`CancelCheck`, then `CancelLatch` with
  `runtime.mutex` held in between) and otherwise answers `server_busy` or spawns
  the worker. A signal may fall between the test and `accept()` (`StopSignal`).
* A *worker* (`pc[c]`) is `serve_client`: `recv` waits for a line, `publish`
  copies the generation of an owned session to the runtime, `check` and `refill`
  are the two halves of a capture around the cancel latch, `transfer` the
  inline encoding, `close` is `sdrd_session_close` called for the reason
  `why[c]`, `reply` the send, `clear` and `release` the way out.
* The *session* is `sdrd_session_t` without `current_state` and
  `last_request_id`: the first is never read for a decision, the second makes a
  request be refused, which `Inform` covers with every other refusal.
* The *radio* is six attributes in the order `adapter_apply_profile` and
  `adapter_restore` write them. `Written(t, k)` is the radio when the first k
  writes of target t took effect; a failing apply or restore chooses k. In an
  automatic gain mode the hardware gain belongs to the AD9361 and is not
  written, which is why restoring depends on the order. A profile writes one
  abstract setting to all attributes.
* `files` holds the capture files by directory, generation, sequence number and
  command, with a flag for a partial one. `O_EXCL` cannot fail within a daemon
  run: `sequence` only grows.
* `cancel_requested` is a flag in the code; the model stores which generation's
  cancel set it, so that a property can ask.

Bounds: two connection slots (an old worker ending while a new client comes),
two generations, one feature directory, one manual and one automatic setting,
`FailAt` = {0, 3, 6} (nothing written; gain mode written but not the gain; all
written and the read-back fails), `MaxSequence` = 2 captures (1 where the second
adds nothing). `ReuseConnection` says whether a client starts a second session
on its connection; this repository's clients do not.

### PlannerWorker

One action is a socket event, an agent event or a settled promise with the
microtasks after it, which is how Node interleaves them. `phase[o]` follows the
run of owner `o` from the call of `agent.prompt` (`called`, before the first
event), through `running` to `ended` (agent_end seen, promise not settled) and
`idle`. `stale[r]` says that the runtime's agent or generation is no longer the
one the run closed over, the test `#runPrompt` makes in its promise chain.
`releaseRun` is the field, `released` the closure's flag: they differ after
`PromptBusy`, where `#prompt` overwrites the field. `fate` is what the client
has been told of each request. `inbox` is the agent's own queue, external to
this repository: the runtime adds to it and clears it, and the agent takes from
it; nothing in the runtime empties it at the end of a run.

Bounds: two session connections (one being disposed of while the next is
served), one one-shot connection, three requests, a queue limit of 1 for
`MAX_SESSION_QUEUE`, which is small enough to be reached with few requests.

### Console

The console is one thread. `app` is the `ConsoleApp` object with the
`CruiseControl` inside it; a method is an operator from record to record with
the method's name, and a method that returns an error sets `app.exit`, because
every caller passes it on and the process ends. `pc` is the place in `run`: the
priority stop (`top`, `clear`), `poll` (`frames`), `advance_auto` (`auto`),
`recv_timeout` and `handle_input` (`input`, one action per command), and `close`.
A pass of a handler is atomic except where `command()` waits for a response
(`await`): `renew` closes the session, moves to the next generation and opens
it, and handles whatever frame comes before each response. A method asks for a
renewal with `app.want`, always as its last call, and `Returns` begins it or
fails when a step is active.

The environment: `sdr` is what the next use of the radio finds ("sick": the
health check fails, "refused": the sweep plan, the inspection's report or the
cruise's next request is refused), `valid` whether `validate_request` accepts a
typed instruction, `cancelled` whether SDRD accepted CANCEL_SESSION. A hardware thread
ends when it likes. The worker is `PlannerWorker` seen from one connection: it
answers commands in order, its run may take queued messages, propose once for
each, and end; what an ended run leaves in the agent's queue the next run takes.
A prompt may be refused because the one-shot planner holds the lease.

Bounds: three lines (two where liveness is checked), two requests, one waiting line (`TERMINAL_INPUT_QUEUE_LIMIT`), a worker
queue of one, cruises of two steps and two retries, with a byte budget that one
capture leaves partly used and two overrun. Two requests are enough for a plan
and the plan of a queued message, which is where the console's trouble is.

Left out: one-shot mode, a console without `--sdrd` (its branches refuse before
anything changes), thinking and search events (they check a request id and
print), the persisted history, and command-line parsing.

### Survey, Controller, Inspections

`Survey` has no state. Its operators have the names of the functions and the
order of their checks; frequencies are integers, rounding is the code's
(`\div`, `CeilDiv`). `validate_request`, `validate_action`, `validate_plan`,
`validate_initial_survey` and `validate_sweep_plot` are the five places that
bound a survey, each with limits of its own.

`Controller` starts as a runner (`run_once`) or as a hardware thread of the
console, which has its action and its authorization already (`caller`). `pc` is
the step of `run_once` and then of the client: `engine` (authorization and plan
validated), `connect`, `start`, `work` (one point, or the capture), `stop`,
`quit`, `abort` (the clean-up of an error), `finish` (the dataset), `report`,
`settle` (the retried observation after a capture) and `observe_after` (the
single one after a sweep). `log` is the audit file; an append may fail, and then
the run fails. Every request to sdrd may be refused, answered, or carried out
with its reply lost; the controller may be killed at every step. sdrd is
`worker` (whose connection its worker thread serves), `owner` and `place`;
the worker may still be
serving a client that has gone. `Release` is the worker's end after
the connection closes, the moment `server_busy` is about.

Bounds: a band of 40 units with windows of 10 and up to `MAX_POINTS` = 5 points,
`MAX_CANDIDATES` = 1 (so that a second run of active points is dropped), three
power levels around `Threshold` = 1, a tuner that reads back -1, 1 or 2 off with
a tolerance of 1 (both accepted extremes and a refusal), `MAX_BUSY_RETRIES` = 3,
and a runner whose `--sweep-point-timeout-ms` is four times the policy's 250 ms
(`sweep_point_timeout_ms` = 8 against `SURVEY_POINT_TIMEOUT_MS` = 2). sdrd may be
busy for longer than all retries. Proposals lie on both sides of each limit; one
has four points, which fit in the duration with the policy's timeout and not with
the runner's. `MCNarrowLimits` are limits with a bandwidth below the planner's
window.

`Inspections` is the console's `submit` and what `poll_sweep` makes of a report,
with time in units of 500 ms, two candidates and six turns.

### WebConsole

`mem` is `Inner` as `state.json` would hold it, `disk` the file; `used` is the
order of use, which decides who is evicted. `runtime` is the handle, an index
into `actor`, the tasks: one per `spawn_agent_process`, also those replaced
before they began. A task waits at `process_gate` (`gate`), claims the survey,
starts its child (`start`), announces it, serves (`serve`), closes its child
(`close`) and records the exit; `queue` is its channel and `open` whether a
sender is left. HTTP handlers run under the state mutex and are one action each.
The last line a reader has not recorded yet is `out`, so a terminal that has
ended may still print. `request` is the conversation `runtime-request.json` was
written for. `Restart` is a crash or a stop with a new start: children go with
the service (its control group, and their standard input closes).
`begin_runtime_shutdown` takes the handle and awaits the send in one step. A
state file that cannot be written is left out.

Bounds: three conversations, three tasks, three calls, `MAX_SESSIONS` = 2 (so
that one is evicted), compaction after one event, a channel of one, one restart.

### WebStores

A scan writes a data and a metadata file (`file`), then prints its plot
(`pipe`), which becomes a row. A deletion reads its row, removes the two files
and deletes the row in steps of their own, and a deferred SQLite transaction
whose snapshot is stale may not write (`MayCommit`, external). `sweep` numbers
start again in every terminal. The provider half keeps the saved configuration,
saves and a query in flight, and `entered`, the pairs of URL and key that the
operator typed.

Bounds: two of everything, with symmetry. The two halves share no
variable, so a behaviour of `MCWebStores` exercises one of them (`part`), which
adds their states instead of multiplying them.

## Runs

| run | shows |
|---|---|
| `sdrd` | OneWorker, CancelSeesLiveBuffer, CancelReachesRefill, RestorationOwed, RepliesTruthful, NoPartialFiles, NoUseAfterExit, SnapshotKept hold with reused connections and all failures, and the daemon implements `RxOwnership` (ImplementsOwnership) |
| `sdrd_liveness` | RequestAnswered and Shutdown under fairness, unless a client stays and never takes its reply; with a connection per session a latched cancel names the owned session (CancelCorrelated) |
| `planner_worker` | OneInference, LeaseAccounted, RequestAccounted, OnePlan |
| `planner_worker_liveness` | LeaseComesBack under fairness |
| `console` | ConsoleInv (CurrentGeneration, ProtocolHolds, StopDiscards) and NothingUnapproved with every command (/pause, the same call as /stop, is in `console_liveness`) and every kind of plan |
| `console_liveness` | CruiseEnds, although the model may stream for ever, and DeferredRenewal, if every run of the model ends |
| `console_execution_gate` | *violated*: the plan of a queued message starts a capture beside the running sweep |
| `controller` | AuditBeforeAction; OutcomeTrue (ExecutedMeansRestored, BusyIsRetried); DatasetMatches; the bounds of policy, engine, report and next request agree (PolicyWithinEngine, SurveyCovers, CandidatesRight, ReportUsable); RadioAsPromised; and however a run ends, sdrd is free in the end (EndsReleased) |
| `observation_ages` | *violated*: inspections age the other candidates until the policy refuses the console's own request |
| `web_console` | TerminalAlone (OneTerminal, RequestOwned), SurveyOnce, WebInv (StoredStaysStored, HandleIsActive) through switches, compactions and a restart; under fairness a replaced terminal ends (DisownedEnds) and the current one gets its turn (CurrentGetsTurn) |
| `web_stores` | StoresInv (IndexedFilesKept, StaysDeletable), DeletedWithFiles, KeyStaysHome |
| `web_capture_index` | *violated*: the first scan of a conversation's second terminal takes the index row of the first one's |

Every property of a passing run has a mutant in `PROJECT.json`: a plausible bug
in a mapped definition under which TLC finds the property violated; a property
of several named parts has one for each part. The mutated
forms stand next to the definitions, marked "Mutant".

### Divergences without a run

These properties are stated in the modules as well, most of them after a sentence
of the documentation, and TLC finds them violated; they need only a cfg.

* `InlineFilesTransient` (`Sdrd`): when an inline capture ends in
  `adapter_contract_violation` the handler does not unlink the file
  (`sdrd.c:954-960`), against `sdr-system/sdrd/README.md:115`.
* `QueueBounded` (`PlannerWorker`): `queued` is reset at the end of a run while
  the agent keeps what a failed run left (`session-runtime.mjs:212,269`), so the
  queue outgrows the four messages of `SDR_AGENT_PROJECT_CHECKLIST.md:65`.
* `StopCancelsModel` (`Console`, under `FairSpec`, inputs `auto` and `pause`):
  `request_agent_abort` sends nothing while any abort is unanswered, also one of
  a run that has ended, so a stop may not reach the run it waits for
  (`sdr-agent.rs:1434`), against `SDR_AGENT_RUNTIME_DESIGN.md:119`.
* `FaultLocks` (`Console`, four lines of `text` and `approve`): the error path of
  `poll_execution` sets `Faulted` without a renewal (`sdr-agent.rs:1253`), so a
  second pending plan can still be approved, against `sdr-agent/README.md:159`.
* `FaultBlocksOwnership` (`Sdrd`): `faulted` belongs to a connection, so the next
  one owns a radio that was not restored and takes its state for the original
  (`main.c:108`), against `SDRD_CONTROL_PLANE_DESIGN.md:47`.
* `CancelCorrelated` (`Sdrd`) with `ReuseConnection` = TRUE: `active_generation`
  outlives STOP_SESSION (`main.c:145`), against `sdr-system/sdrd/README.md:72`.
  With a connection per session it holds (`sdrd_liveness`).
* `StopRenews` (`Console`): a stop that meets a sweep before agent_end ends the
  console with an error (`sdr-agent.rs:1430`), and `StopInvalidates`: a plan is
  approved between /stop and agent_end (`sdr-agent.rs:679`), both against
  `SDR_AGENT_RUNTIME_DESIGN.md:119`.
* `ByteBudget` (`Console`): captures are not compared with the remaining budget
  (`sdr-agent.rs:701`), against `AGX_FRAMEWORK_VALIDATION_2026-09-01.md:269`.
* `HandleReceives` (`WebConsole`): a terminal that could not start leaves its
  handle behind, and commands are refused with "try again later" until the
  operator switches away and back (`web-console/src/main.rs:1253`).

The models also have these behaviours, which no document denies:

* A centre that reads back below the band (a survey from 70 MHz, 2 Hz tolerance)
  makes the plot and the next request invalid, and the error of `submit` ends
  the console (`sdr-agent.rs:547`); ReportUsable excludes it by its premise.
* The policy accepts steps below twice the tolerance, and then the read-backs of
  a survey need not ascend. The plot and the next request are refused as above,
  and the band of a candidate, whose ends come from the first and the last point
  of its run, may leave out under 4 Hz of the window of a point between them
  (`sweep.rs:1005`). CandidatesRight says so with `error_hz`; with read-backs that
  ascend nothing is left out. The proof attempt showed it, and the order of five
  points one unit apart in `MCController` has TLC reach it.
* The policy allows a survey dwell up to its limit, the engine 1000 ms; the
  refusal ends the console (`sdr-agent.rs:844`). And the policy counts 250 ms for
  a point (`policy.rs:296`) where the runner's plan has `--sweep-point-timeout-ms`,
  up to 5000 (`runner.rs:311`), so with a longer one the engine refuses for its
  duration (`sweep.rs:850`) a survey the policy accepted. PolicyWithinEngine states
  both, and that there is no third reason.
* The planner is shown candidates of at most 10 MHz, a constant (`sweep.rs:155`;
  `sdr-agent/README.md:282` calls it the configured policy boundary), while a
  request may have any `max_bandwidth_hz` from 200 kHz up (`policy.rs:188`). With a
  limit below 10 MHz a wide candidate makes the next request one that
  `validate_request` refuses (`policy.rs:222`), and `submit` ends the console.
  ReportUsable gives the exact condition, proved for every limit; the run has a
  limit equal to the window, as every configuration of the repository, and with
  `Limits <- MCNarrowLimits` in its cfg TLC reaches both sides of the condition.
* `send_all` has no timeout (`main.c:48`): a client that stays connected and does
  not read keeps the worker, its session, the radio and, after SIGTERM, the
  daemon. RequestAnswered and Shutdown name this exception.
* The 20 retries of 10 ms after a capture are no bound on the time sdrd's worker
  takes to end, so a good capture may be reported as failed with `server_busy`
  (`execution.rs:331`); the radio is then home (BusyIsRetried).
* The observation after a sweep meets `server_busy` and is not retried, so a
  finished sweep is reported as failed (`runner.rs:385`).
* A dataset is complete and no row names it when the checks after the sweep fail,
  a stop comes, or the sweep was an inspection (`sdr-agent.rs:1009`).
* A save that reused the stored key may end after a delete of the configuration
  and bring the key back (`web-console/src/main.rs:885`).
* A client that connects to sdrd and sends nothing delays a cancel by
  `client_timeout_ms` (`main.c:340`).
* /resume in an active step ends the console (`sdr-agent.rs:228`), and so may a
  message an ended run left in the agent's queue (`sdr-agent.rs:1851`).

### Fairness

`Sdrd`: weak fairness of the two threads, except of a worker that sends a reply.
It is justified because their other waits have a limit: `SO_RCVTIMEO` is set on
every client socket, and the IIO context has a timeout, so a refill returns. There
is no `SO_SNDTIMEO`, so a send may never end while its client stays (`Sending`);
the acceptor's own replies are one short line on a new socket, which its buffer
takes. Strong fairness
of the worker's three lock acquisitions: a mutex is not kept from a waiting
thread for ever although cancel clients may keep coming. `Accept` and the
signal are not fair. `Shutdown` allows the acceptor to be left in `accept()`:
that is what the code does when the signal falls just before it.

`PlannerWorker`: the one-shot timer fires; an aborted run comes to its end (the
Pi Agent's promise); a promise that can settle does; dispose goes on when the
agent is idle. Nothing is assumed of clients, nor of a run nobody aborts: an
interactive run has no timer and may keep the lease.

`Console`: the loop goes on (its only wait is `recv_timeout`, or a response the
worker owes), the worker answers, hardware threads end because their sockets
have timeouts, the clock reaches the duration of a cruise, and an aborted run
ends. A run that nobody aborts may go on for ever; DeferredRenewal has the end of
the runs as its premise, since a stop may fail to abort one (StopCancelsModel).
Nobody has to type, and the retry timer is not fair.

`Controller`: every request has a socket timeout, so the run goes on, and sdrd
sees every close (`Release`), at no particular time. The client that sdrd
may still be serving when the process starts has already gone.

`WebConsole`: tokio's mutex is first come, first served, which is the strong
fairness of `claim_initial_survey`; a task's waits are bounded by timers, so its
steps are weakly fair, with one exception: the write to a child's standard input
(`web-console/src/main.rs:1369,1376`) has no timer and ends because sdr-agent reads its
input in a thread of its own. Readers read to the end of their stream. No call of a
browser is assumed, nor that a child ends by itself.

## Proofs

The proof modules show these properties of the runs for every number of
connections, requests, conversations, scans and terminals, every band, step and
limit, and every other bound:

| module | theorem | property |
|---|---|---|
| `SdrdProofs` | TypeCorrect, SingleWorker, AdapterOutlivesWorkers, CancelIsSafe, CancelIsNotLost, RadioComesHome, SnapshotSurvives | TypeOK, OneWorker, NoUseAfterExit, CancelSeesLiveBuffer, CancelReachesRefill, RestorationOwed, SnapshotKept |
| `SdrdRefinementProofs` | PartialFilesRemoved, RepliesAreTrue, CancelNamesOwner (one session per connection), OwnershipImplemented | NoPartialFiles, RepliesTruthful, CancelCorrelated, ImplementsOwnership |
| `PlannerWorkerProofs` | TypeCorrect, Serialized, LeaseSound, NoRequestLost, OnePlanEach | TypeOK, OneInference, LeaseAccounted, RequestAccounted, OnePlan |
| `ControllerProofs` | AuditedBeforeAction, OutcomesTrue, DatasetSound, PolicyAgrees, BandCovered, CandidatesAreRuns, ReportsUsable, RadioRespected | AuditBeforeAction, OutcomeTrue, DatasetMatches, PolicyWithinEngine, SurveyCovers, CandidatesRight, ReportUsable, RadioAsPromised |
| `ConsoleProofs` | ConsoleSound, ApprovedOnly | ConsoleInv, NothingUnapproved |
| `WebConsoleProofs` | TerminalIsAlone, SurveyStartedOnce, WebStateSound | TerminalAlone, SurveyOnce, WebInv |
| `WebStoresProofs` | IndexSound, KeysStayHome, DeletionComplete | StoresInv, KeyStaysHome, DeletedWithFiles |

None of these properties but KeyStaysHome is inductive alone. Each module
strengthens them to an invariant `IInv` (theorem `Inductive`), which TLC checked
on the instances of the runs before it was proved.

* `Sdrd`. A worker exists only while `worker_active` (SlotInv);
  `capture_active` is set exactly while a worker refills, and the buffer exists
  from the opening of a capture (CaptureInv); inside a handler the session is
  owned, an owned session owes a restore, and one owed without ownership has
  failed (SessionInv); gain mode and gain of the radio and of every owed
  snapshot agree, every owed snapshot is the original state while no restore has
  failed, and with nothing owed the radio is there (RadioInv). RadioInv needs
  the gain clause: writing a state back reaches it only if its automatic gain is
  the AGC's (`WrittenAll`). The proof works per worker: a step of worker c
  changes only c's part (`WorkerFrame`), every other slot is free (`Alone`), so
  each conjunct is shown for c alone and lifted.
* What clients are shown. A reply exists only at the place that sends it
  (ReplyInv), so the state it speaks of is the one in which it was made.
  CancelInv says that without reused connections `active_generation` is that of
  the existing worker's session or 0, and that the cancel client holds the mutex
  on that value; this is what fails when a connection is reused.
* The refinement of `RxOwnership` maps the owner to the connection whose session
  is owned. Every action of the daemon is shown to be one abstract action or a
  stutter; the few that move the owner (START_SESSION, the ends of a session)
  have a lemma each, and the rest keep the mapped values.
* `PlannerWorker`. A computing run has not released (LeaseInv), and a runtime is
  active from prompt to agent_end and keeps the lease while its run is current
  (RunInv); `OtherRuntime` is the frame. For OnePlan, a request is held by one
  runtime only, in one of the places from which it may be planned, and a request
  that is planned is held nowhere (PlanInv).
* `Controller`. What holds at every place of a run before the ones the
  properties speak of: where the connection is open and the radio owned
  (RadioInv), what the SigMF pair is (FileInv), the audit log place by place
  (AuditInv), what the policy has accepted for which health (PolicyInv), how
  many points of which validated plan have been taken (PointsInv), and what the
  report is made from: the centres of the points are the plan's, the profile of
  an inspection is one the policy accepted, and the request's observation is in
  place until the report replaces it (ReportInv). A capture that failed on a busy
  sdrd has used all its retries, with the radio home (BusyInv).
* `Survey`. `expand_centers` is a loop; what it pushes is shown by the least
  index at which the statement would fail (`LeastNumber`: a set of naturals that
  is not empty has a least element), which gives the k-th centre, their number,
  and the two cases of the last one. From that follow that policy, engine and
  web console count the same points, and that windows of 80 per cent of the rate
  around centres that read back within the tolerance leave no frequency out.
* The candidates (`SurveyProofs`, second half). That a power exists which the
  median's definition describes is shown by the least power with more than half
  of the points up to it (`MedianIs`); fewer than half of the points are then
  above the floor (`FewActive`). The pass of `merge_candidates` over the points
  is a recursion; that it has a solution is shown by the least number of points
  for which it would have none (`RangesExist`), and what it has found after i
  points is the invariant `Found`: the ranges are runs of active points, apart
  from each other, which no active point extends unless it is still to come, and
  no active point so far is left out. After the last point they are exactly the
  maximal runs (`RunsFound`), in order (`ListedInOrder`), so the n-th candidate
  is made of the n-th run (`CandidateIs`). CandidatesRight (`CandidatesSound`)
  and ReportUsable (`PlotUsable`, `InspectionUsable`) follow by arithmetic.
* `Console`. The methods of `ConsoleApp` are shown first, each with what it may
  change: a quiet one neither sends nor asks for a renewal, one that moves sends
  at most one command, and all of them leave a fit console (Fit: threads, plan,
  requests and commands are of the current generation, an active cruise has a
  step and a retry left). Between console and worker every command is under way
  once, on the wire or as a response, and is one the console knows or the one
  `command()` waits for (Flow), so no response is unknown or stale. The model's
  run is a token in one place, the prompt on the wire, the worker, or the frame
  that ends it, and the console's cycle is open while it exists (Token); so a
  renewal, which needs an idle console, closes a session without a run, and the
  worker cannot refuse it (Opened says which session is open around a renewal).
  GenInv bounds the generations: what may still renew, two for a line or a stop,
  one for a cruise, for a deferred renewal and for the one under way, is paid
  for by the lines typed. NothingUnapproved is shown with the same case split,
  from what a method may start (`Started`, `Cruises`).
* `WebConsole`. Only the holder of `process_gate` is past it (ActorInv); memory
  and `state.json` are sound each by itself, so that a restart from either is
  (StoreInv); the handle's task has not been let go and is the active
  conversation's (HandleInv); a survey pending in memory or on disk has not been
  started, and no task that is past its claim is about to start it (SurveyInv).
* `WebStores`. A plot on its way has both files and was never stored (PipeInv),
  ids grow (RowInv), and a deletion has announced its scan, has removed the
  files it is past, and has its row in the table while its snapshot is current
  (DelInv).

The assumptions are the ASSUMEs of the modules, which TLC evaluates in every
run. Those of `Survey` and `Controller` say more than types: `Threshold`, the
tolerance (2 Hz), the planner's window (10 MHz) and the frame size are positive,
a request file holds an observation of the right shape, the policy's timeout of a
point and the runner's are within the engine's (250 ms and an option of 1 to 5000
in 1 to 5000), a settle time and a point's timeout fit in the longest duration
(`MAX_SETTLE_MS + MAX_POINT_TIMEOUT_MS <= MAX_DURATION_MS`: 1000 and 5000 ms
against the 300 s of `sweep.rs`), the least bandwidth is ten tolerances or more
(200 kHz against 2 Hz), frequencies are unsigned, and the web
console's initial step is a multiple of four whose rate and bandwidth the engine
accepts (8 MHz steps and 10 MHz windows in `web-console/src/main.rs`).

Only model-checked:

* the liveness properties RequestAnswered, Shutdown, LeaseComesBack, CruiseEnds,
  DeferredRenewal, EndsReleased, DisownedEnds and CurrentGetsTurn: reasoning with
  fairness is outside this prover;
* the violated properties, for which one counterexample is the point.

## Not modelled

sdrd: configuration parsing and the status probe, numeric bounds of requests
(they refuse without effect), response wording, base64, sample values, clock
times. A second SIGTERM (with a one-shot handler it kills the process) and a
power failure: nothing is persisted that a restart reads, except that a capture
file left behind makes a later `O_EXCL` open or `rmdir` fail, which `OpenFails`
and `TransferFails` allow.

Controller and consoles: labels and texts, the size of a frame, the replay
adapter (a test double), the terminal's persisted history, the texts and ids of
conversations (an id is the millisecond of its creation), the event stream to
browsers, the parsing of a provider's model list, static files, and a
`state.json` that cannot be written.

The recognizer calls a model runtime and returns what it says; p201pro-rust is a
historical benchmark; providers and web search are remote services; deployment
scripts and the AGX harness are packaging and tests.

## Plan

1. The console's persisted history (`persist_terminal_session`) with crashes.
2. The recognizer's validation of a model's answer against its manifest.
