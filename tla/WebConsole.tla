----------------------------- MODULE WebConsole -----------------------------
(***************************************************************************)
(* The supervisor of the web console (web-console/src/main.rs): the        *)
(* conversations it stores, the one terminal process it runs for the       *)
(* active one, and the state file it restarts from.                        *)
(*                                                                         *)
(* A terminal is owned by a process_actor task.  Every spawn makes a new   *)
(* actor; the actors queue at process_gate and only the holder of the gate *)
(* has a child.  The HTTP handlers, the actors and the readers of a        *)
(* child's output share Inner under a mutex; a step is what one of them    *)
(* does under one lock.  The handle in Inner names a session, not an       *)
(* actor, and is compared by session id.                                   *)
(*                                                                         *)
(* Of a conversation the model keeps what the supervisor acts on: its      *)
(* status, the one-shot initial survey and how many events it has had      *)
(* since the last compaction.  Texts and times are left out;               *)
(* last_used_at_ms is the order of the sequence used, which also says      *)
(* which conversations exist, and an id, which is the time of creation, is *)
(* the number of the creation.  "connected" stands for connected and error *)
(* and "settled" for complete, failed and skipped: nothing here tells them *)
(* apart.                                                                  *)
(***************************************************************************)
EXTENDS Naturals, Sequences, FiniteSets, SequencesExt

CONSTANTS
    Created,       \* bound: conversations that are ever created
    Tasks,         \* bound: process_actor tasks alive at one time
    MaxCalls,      \* bound: requests that change a conversation
    Asked,         \* bound: "pending" if a creation may ask for the survey, "settled" if not
    MAX_SESSIONS,
    COMPACT_AT_EVENTS,
    ChannelBound,  \* mpsc::channel(16) of a terminal
    MaxRestarts    \* bound: restarts of the service

ASSUME WebConsoleAssumption ==
    /\ {Created, Tasks, MaxCalls, COMPACT_AT_EVENTS, ChannelBound} \subseteq Nat \ {0}
    /\ MaxRestarts \in Nat
    /\ Asked \subseteq {"pending", "settled"}
    /\ MAX_SESSIONS \in Nat \ {0, 1}

VARIABLES
    mem,       \* Inner.persisted
    disk,      \* state.json
    runtime,   \* Inner.runtime: the actor that holds the receiver, or None
    actor,     \* the process_actor tasks and their children
    request,   \* whose observation runtime-request.json holds, or None
    calls,     \* requests served so far
    made,      \* conversations created so far
    surveys,   \* history: terminals started with an initial survey, per session
    restarts   \* restarts so far

vars == <<mem, disk, runtime, actor, request, calls, made, surveys, restarts>>

-----------------------------------------------------------------------------
Sessions == 1..Created
Actors == 1..Tasks
None == 0

Statuses == {"starting", "connected", "exited", "stored"}
SurveyStatuses == {"pending", "running", "settled"}

\* What a terminal prints: a line to show, one that reports how the initial
\* survey ended, a record (sweep plot, model input, thinking, observation) that
\* is saved with the conversation and not shown, and one that is refused.
Lines == {"text", "survey", "record", "refused"}

Session == [status : Statuses, survey : SurveyStatuses, since : 0..COMPACT_AT_EVENTS]

Persisted == [active : Sessions \cup {None}, used : Seq(Sessions),
              session : [Sessions -> Session]]

\* "gate": waits for process_gate; "socket": waits for the planner's socket;
\* "started", "run": the child's lifetime; "closing": /stop and /quit are sent.
Phases == {"gate", "socket", "started", "run", "closing", "ended"}
Holding == {"socket", "started", "run", "closing"}

Actor == [session : Sessions \cup {None}, phase : Phases, open : BOOLEAN,
          queue : Seq({"input", "shutdown"}), survey : BOOLEAN, child : BOOLEAN, out : Lines \cup {"none"}]

FreeActor == [session |-> None, phase |-> "ended", open |-> FALSE, queue |-> <<>>,
              survey |-> FALSE, child |-> FALSE, out |-> "none"]

NewSession(survey) ==
    [status |-> "starting", survey |-> survey, since |-> 0]

TypeOK ==
    /\ mem \in Persisted
    /\ disk \in Persisted
    /\ \A store \in {mem, disk} :
        /\ Len(store.used) <= MAX_SESSIONS
        /\ IsInjective(store.used)
        /\ store.active = None <=> store.used = <<>>
        /\ store.used # <<>> => store.active \in ToSet(store.used)
    /\ runtime \in Actors \cup {None}
    /\ actor \in [Actors -> Actor]
    /\ \A a \in Actors : Len(actor[a].queue) <= ChannelBound + 1
    /\ request \in Sessions \cup {None}
    /\ calls \in 0..MaxCalls
    /\ made \in 0..Created
    /\ surveys \in [Sessions -> 0..2]
    /\ restarts \in 0..MaxRestarts

-----------------------------------------------------------------------------
(* Conversations *)

Exists(store, s) == s \in ToSet(store.used)

Smaller(m, n) == IF m < n THEN m ELSE n

\* The supervisor only asks whether the count has reached its limit.
push_event(x) == [x EXCEPT !.since = Smaller(@ + 1, COMPACT_AT_EVENTS)]

compact_session(x) == [x EXCEPT !.since = 0]

\* last_used_at_ms := now
Touch(used, s) == Append(RemoveAt(used, SelectInSeq(used, LAMBDA t : t = s)), s)

\* The least recently used conversation that is not active.
select_evict_id(store) ==
    SelectInSeq(store.used, LAMBDA s : s # store.active)

\* Mutant: makes room one conversation too late.
Evict_late(store) ==
    IF Len(store.used) <= MAX_SESSIONS THEN store
    ELSE [store EXCEPT !.used = RemoveAt(@, select_evict_id(store))]

Evict(store) ==
    IF Len(store.used) < MAX_SESSIONS THEN store
    ELSE [store EXCEPT !.used = RemoveAt(@, select_evict_id(store))]

\* The part of deactivate_current that concerns the conversation.
Deactivate(store) ==
    IF store.active = None THEN store
    ELSE [store EXCEPT !.session[store.active] =
            [compact_session(@) EXCEPT !.status = "stored"]]

-----------------------------------------------------------------------------
(* Terminals *)

\* A task that has ended, whose output is read and whose handle is gone is
\* forgotten, and its slot can be used again.
Forget(act) ==
    IF act.phase = "ended" /\ act.out = "none" /\ ~act.open THEN FreeActor ELSE act

Spare(acts) == {a \in Actors : acts[a] = FreeActor}

Slot(acts) == CHOOSE a \in Spare(acts) : TRUE

spawn_agent_process(acts, a, s) ==
    [acts EXCEPT ![a] = [FreeActor EXCEPT !.session = s, !.phase = "gate", !.open = TRUE]]

CanSend(act) == act.phase # "ended" /\ Len(act.queue) < ChannelBound

\* Mutant: the replaced handle is kept somewhere and told nothing.
Release_kept(acts, a) == acts

\* runtime.take() and try_send(Shutdown): a full channel loses the message,
\* but the sender is dropped and the receiver ends with None.
Release(acts, a) ==
    IF a = None THEN acts
    ELSE [acts EXCEPT ![a] = Forget([acts[a] EXCEPT
            !.open = FALSE,
            !.queue = IF CanSend(acts[a]) THEN Append(@, "shutdown") ELSE @])]

RuntimeSession == IF runtime = None THEN None ELSE actor[runtime].session

\* The state file is written beside itself and renamed.
persist_locked == disk' = mem'

Call == calls < MaxCalls /\ calls' = calls + 1

-----------------------------------------------------------------------------
(* HTTP handlers *)

create_session(survey) ==
    LET s    == made + 1
        kept == Deactivate(Evict(mem))
    IN  /\ s \in Sessions
        /\ Spare(actor) # {}
        /\ mem' = [active |-> s, used |-> Append(kept.used, s),
                   session |-> [kept.session EXCEPT ![s] = NewSession(survey)]]
        /\ runtime' = Slot(actor)
        /\ actor' = spawn_agent_process(Release(actor, runtime), runtime', s)
        /\ persist_locked
        /\ made' = s
        /\ Call
        /\ UNCHANGED <<request, surveys, restarts>>

activate_session(s) ==
    /\ Exists(mem, s)
    /\ mem.active # s
    /\ Spare(actor) # {}
    /\ mem' = [Deactivate(mem) EXCEPT !.active = s, !.used = Touch(@, s),
                                      !.session[s].status = "starting"]
    /\ runtime' = Slot(actor)
    /\ actor' = spawn_agent_process(Release(actor, runtime), runtime', s)
    /\ persist_locked
    /\ Call
    /\ UNCHANGED <<request, made, surveys, restarts>>

\* Mutant: any conversation that exists may be written to.
IsActive_exists(s) == Exists(mem, s)

IsActive(s) == mem.active = s

\* A terminal is spawned when the handle is not this conversation's, and
\* another one when the history is compacted.  A refused command is shown but
\* not saved.
send_command(s) ==
    LET spawns   == RuntimeSession # s
        acts1    == IF spawns THEN spawn_agent_process(actor, Slot(actor), s) ELSE actor
        run1     == IF spawns THEN Slot(actor) ELSE runtime
        compacts == mem.session[s].since >= COMPACT_AT_EVENTS
        run2     == IF compacts THEN Slot(acts1) ELSE run1
        acts2    == IF compacts THEN spawn_agent_process(Release(acts1, run1), run2, s)
                    ELSE acts1
        sent     == CanSend(acts2[run2])
    IN  /\ IsActive(s)
        /\ spawns => Spare(actor) # {}
        /\ compacts => Spare(acts1) # {}
        /\ mem' = [mem EXCEPT
             !.used = Touch(@, s),
             !.session[s] = push_event(IF compacts THEN compact_session(@) ELSE @)]
        /\ runtime' = run2
        /\ actor' = IF sent THEN [acts2 EXCEPT ![run2].queue = Append(@, "input")]
                    ELSE acts2
        /\ IF sent THEN persist_locked ELSE UNCHANGED disk
        /\ Call
        /\ UNCHANGED <<request, made, surveys, restarts>>

-----------------------------------------------------------------------------
(* What an actor or a reader records *)

\* Mutant: the status changes whoever prints.
Recorded_anyone(store, s, line, current) ==
    IF ~Exists(store, s) \/ line = "record" THEN store
    ELSE LET x == push_event(store.session[s])
         IN  [store EXCEPT !.session[s] =
                [x EXCEPT !.status = "connected",
                          !.survey = IF line = "survey" THEN "settled" ELSE @]]

\* record_process_output of a line for session s: only the session of the
\* current handle changes its status, and not by a record.
Recorded(store, s, line, current) ==
    IF ~Exists(store, s) \/ line = "record" THEN store
    ELSE LET x == push_event(store.session[s])
         IN  [store EXCEPT !.session[s] =
                [x EXCEPT !.status = IF current /\ line # "refused" THEN "connected" ELSE @,
                          !.survey = IF line = "survey" THEN "settled" ELSE @]]

record_process_output(s, line) ==
    /\ mem' = Recorded(mem, s, line, RuntimeSession = s)
    /\ IF Exists(mem, s) THEN persist_locked ELSE UNCHANGED disk

\* record_runtime_exit: the handle is dropped when it names the same session.
ExitRecorded(store, s, current) ==
    IF ~Exists(store, s) THEN store
    ELSE LET x == push_event(store.session[s])
         IN  [store EXCEPT !.session[s] =
                [x EXCEPT !.status = IF current THEN "exited" ELSE @,
                          !.survey = IF @ = "running" THEN "settled" ELSE @]]

record_runtime_exit(s) ==
    /\ mem' = ExitRecorded(mem, s, RuntimeSession = s)
    /\ persist_locked
    /\ runtime' = IF RuntimeSession = s THEN None ELSE runtime

-----------------------------------------------------------------------------
(* process_actor *)

\* Mutants: no gate; a gate that is left when the shutdown begins.
GateFree_open == TRUE
GateFree_closing == \A a \in Actors : actor[a].phase \notin Holding \ {"closing"}

GateFree == \A a \in Actors : actor[a].phase \notin Holding

\* Drops the handle's sender of the actor that runtime' no longer names.
Disown(acts, a) ==
    IF a = None THEN acts ELSE [acts EXCEPT ![a] = Forget([@ EXCEPT !.open = FALSE])]

\* The gate is acquired, the conversation's settings are read (the model takes
\* every conversation to have an observation to restore) and the initial survey
\* is claimed.
claim_initial_survey(a) ==
    LET s == actor[a].session
        claimed == Exists(mem, s) /\ mem.session[s].survey = "pending"
    IN  /\ actor[a].phase = "gate"
        /\ GateFree
        /\ mem' = IF claimed THEN [mem EXCEPT !.session[s].survey = "running"] ELSE mem
        /\ IF claimed THEN persist_locked ELSE UNCHANGED disk
        /\ actor' = [actor EXCEPT ![a].phase = "socket", ![a].survey = claimed]
        /\ UNCHANGED <<runtime, request, calls, made, surveys, restarts>>

\* The end of the task, which frees the gate; a line of the child that is
\* still in the pipe is left to its reader.
Ended(acts, a, line) ==
    [acts EXCEPT ![a] = Forget([FreeActor EXCEPT
        !.session = acts[a].session, !.open = acts[a].open, !.out = line])]

\* Of the initial survey, only a terminal that was told to run it reports.
CanPrint(act) == IF act.survey THEN Lines ELSE Lines \ {"survey"}
Leftovers(act) == (CanPrint(act) \ {"record", "refused"}) \cup {"none"}

\* The planner socket does not appear, the request cannot be prepared or the
\* program cannot be started: the actor returns and the handle stays.
StartFails(a) ==
    /\ actor[a].phase = "socket"
    /\ record_process_output(actor[a].session, "text")
    /\ actor' = Ended(actor, a, "none")
    /\ UNCHANGED <<runtime, request, calls, made, surveys, restarts>>

\* All terminals share runtime-request.json.
prepare_runtime_request(s) == request' = s
cleanup_runtime_request == request' = None

StartChild(a) ==
    /\ actor[a].phase = "socket"
    /\ actor' = [actor EXCEPT ![a].phase = "started", ![a].child = TRUE]
    /\ prepare_runtime_request(actor[a].session)
    /\ surveys' = IF actor[a].survey
                  THEN [surveys EXCEPT ![actor[a].session] = Smaller(@ + 1, 2)]
                  ELSE surveys
    /\ UNCHANGED <<mem, disk, runtime, calls, made, restarts>>

Announce(a) ==
    /\ actor[a].phase = "started"
    /\ record_process_output(actor[a].session, "text")
    /\ actor' = [actor EXCEPT ![a].phase = "run"]
    /\ UNCHANGED <<runtime, request, calls, made, surveys, restarts>>

\* An input line is written to the child; writing to a dead one is recorded.
Deliver(a) ==
    /\ actor[a].phase = "run"
    /\ actor[a].queue # <<>>
    /\ Head(actor[a].queue) = "input"
    /\ actor' = [actor EXCEPT ![a].queue = Tail(@)]
    /\ IF actor[a].child THEN UNCHANGED <<mem, disk>>
       ELSE record_process_output(actor[a].session, "text")
    /\ UNCHANGED <<runtime, request, calls, made, surveys, restarts>>

\* Mutant: a channel without senders is not noticed.
ToldToStop_message(act) == act.queue # <<>> /\ Head(act.queue) = "shutdown"

\* rx.recv() returns Shutdown, or None once every sender is gone.
ToldToStop(act) ==
    \/ act.queue # <<>> /\ Head(act.queue) = "shutdown"
    \/ act.queue = <<>> /\ ~act.open

Close(a) ==
    /\ actor[a].phase = "run"
    /\ ToldToStop(actor[a])
    /\ actor' = [actor EXCEPT ![a].phase = "closing"]
    /\ UNCHANGED <<mem, disk, runtime, request, calls, made, surveys, restarts>>

\* The child quits within four seconds or is killed.
Closed(a) ==
    /\ actor[a].phase = "closing"
    /\ \E line \in Leftovers(actor[a]) : actor' = Ended(actor, a, line)
    /\ cleanup_runtime_request
    /\ UNCHANGED <<mem, disk, runtime, calls, made, surveys, restarts>>

Reap(a) ==
    /\ actor[a].phase = "run"
    /\ ~actor[a].child
    /\ record_runtime_exit(actor[a].session)
    /\ \E line \in Leftovers(actor[a]) :
        actor' = Ended(IF runtime' = runtime THEN actor ELSE Disown(actor, runtime), a, line)
    /\ cleanup_runtime_request
    /\ UNCHANGED <<calls, made, surveys, restarts>>

\* read_process_stream: a line of the child is recorded ...
read_process_stream(a, line) ==
    /\ actor[a].child
    /\ line \in CanPrint(actor[a])
    /\ record_process_output(actor[a].session, line)
    /\ UNCHANGED <<runtime, actor, request, calls, made, surveys, restarts>>

\* ... and the last one may be recorded after the actor has ended.
ReadLeftover(a) ==
    /\ actor[a].out # "none"
    /\ record_process_output(actor[a].session, actor[a].out)
    /\ actor' = [actor EXCEPT ![a] = Forget([@ EXCEPT !.out = "none"])]
    /\ UNCHANGED <<runtime, request, calls, made, surveys, restarts>>

-----------------------------------------------------------------------------
(* The child, and the service as a process *)

ChildExits(a) ==
    /\ actor[a].child
    /\ actor' = [actor EXCEPT ![a].child = FALSE]
    /\ UNCHANGED <<mem, disk, runtime, request, calls, made, surveys, restarts>>

\* SIGTERM, and again after the HTTP server has drained; requests in flight
\* are still served.
begin_runtime_shutdown ==
    /\ runtime # None
    /\ actor[runtime].phase = "ended" \/ CanSend(actor[runtime])
    /\ actor' = Release(actor, runtime)
    /\ runtime' = None
    /\ UNCHANGED <<mem, disk, request, calls, made, surveys, restarts>>

\* Mutant: an interrupted survey is tried again.
load_state_again(store) ==
    [store EXCEPT !.session = [s \in Sessions |->
        [store.session[s] EXCEPT !.survey = IF @ = "running" THEN "pending" ELSE @]]]

\* A survey that was running when the state was saved has failed.
load_state(store) ==
    [store EXCEPT !.session = [s \in Sessions |->
        [store.session[s] EXCEPT !.survey = IF @ = "running" THEN "settled" ELSE @]]]

restore_active_runtime(store) ==
    IF store.active = None THEN store
    ELSE [store EXCEPT !.session[store.active] =
            [compact_session(@) EXCEPT !.status = "starting"]]

\* The process ends at any point, by itself or by a crash, its children with
\* it, and the next one starts from the state file.
Restart ==
    LET acts == [a \in Actors |-> FreeActor]
    IN  /\ restarts < MaxRestarts
        /\ restarts' = restarts + 1
        /\ mem' = restore_active_runtime(load_state(disk))
        /\ runtime' = IF disk.active = None THEN None ELSE Slot(acts)
        /\ actor' = IF disk.active = None THEN acts
                    ELSE spawn_agent_process(acts, Slot(acts), disk.active)
        /\ UNCHANGED <<disk, request, calls, made, surveys>>

-----------------------------------------------------------------------------
EmptyState == [active |-> None, used |-> <<>>,
               session |-> [s \in Sessions |-> NewSession("settled")]]

Init ==
    /\ mem = EmptyState
    /\ disk = EmptyState
    /\ runtime = None
    /\ actor = [a \in Actors |-> FreeActor]
    /\ request = None
    /\ calls = 0
    /\ made = 0
    /\ surveys = [s \in Sessions |-> 0]
    /\ restarts = 0

ActorStep(a) ==
    \/ StartFails(a) \/ StartChild(a) \/ Announce(a)
    \/ Deliver(a) \/ Close(a) \/ Closed(a) \/ Reap(a)

Next ==
    \/ \E survey \in Asked : create_session(survey)
    \/ \E s \in Sessions : activate_session(s) \/ send_command(s)
    \/ \E a \in Actors :
        \/ claim_initial_survey(a)
        \/ ActorStep(a)
        \/ ReadLeftover(a)
        \/ \E line \in Lines : read_process_stream(a, line)
        \/ ChildExits(a)
    \/ begin_runtime_shutdown
    \/ Restart

Spec == Init /\ [][Next]_vars

(***************************************************************************)
(* tokio runs a task that is ready, its mutex is granted in the order of   *)
(* the waiters, and the waits of an actor have timers (50 polls of the     *)
(* socket, four seconds for the child), except stdin.write_all, which ends *)
(* because sdr-agent reads its standard input in a thread of its own until *)
(* it exits.  The operator, the machine and else the child owe nothing.    *)
(***************************************************************************)
Fairness ==
    \A a \in Actors :
        SF_vars(claim_initial_survey(a)) /\ WF_vars(ActorStep(a)) /\ WF_vars(ReadLeftover(a))

FairSpec == Spec /\ Fairness

-----------------------------------------------------------------------------
(* At most one terminal process lives at a time, through every switch,     *)
(* compaction and restart: the planner worker's session.sock has one       *)
(* interactive owner.                                                      *)
OneTerminal == Cardinality({a \in Actors : actor[a].child}) <= 1

(* No conversation's initial survey is started twice: not by switching     *)
(* away and back, not by a terminal that failed to start, not by a restart *)
(* of the service between the claim and the result.                        *)
SurveyOnce == \A s \in Sessions : surveys[s] <= 1

(* While a terminal runs, runtime-request.json, which all of them share,   *)
(* holds the restored observation of its own conversation: neither the     *)
(* start nor the cleanup of another terminal replaces or removes it.       *)
RequestOwned ==
    \A a \in Actors : actor[a].child => request = actor[a].session

(* A terminal that runs has both to itself, the worker's socket and the    *)
(* request file, while others are being replaced.                          *)
TerminalAlone == OneTerminal /\ RequestOwned

(* A conversation that is not the active one shows "stored" and keeps      *)
(* showing it, whatever its old terminal still prints or how it ends.      *)
StoredStaysStored ==
    \A s \in ToSet(mem.used) : s # mem.active => mem.session[s].status = "stored"

(* The terminal handle that commands are sent to belongs to the active     *)
(* conversation.                                                           *)
HandleIsActive == runtime # None => actor[runtime].session = mem.active

(* Memory and state.json agree on at most MAX_SESSIONS conversations, and  *)
(* only the active one of them is live: no other has a status but "stored" *)
(* or a handle, whatever the terminals of the past still do.               *)
WebInv == TypeOK /\ StoredStaysStored /\ HandleIsActive

(* No terminal that is no longer the current one keeps the gate for ever,  *)
(* whether its Shutdown message was delivered, lost in a full channel, or  *)
(* never sent because the exit of an earlier terminal of the same          *)
(* conversation dropped its handle.                                        *)
DisownedEnds == []<>(\A a \in Actors : actor[a].phase \in Holding => runtime = a)

(* The terminal of the active conversation does not wait at the gate for   *)
(* ever, even when terminals that were replaced before they began still    *)
(* queue there.                                                            *)
CurrentGetsTurn == []<>(runtime # None => actor[runtime].phase # "gate")

(* A refused command may be retried later: the handle of the active        *)
(* conversation always leads to a task that still receives.                *)
HandleReceives == runtime # None => actor[runtime].phase # "ended"

=============================================================================
