--------------------------- MODULE ConsoleProofs ---------------------------
(***************************************************************************)
(* Proofs about module Console, for every number of requests and lines,    *)
(* every limit and budget and every set of proposals and inputs.           *)
(*                                                                         *)
(* The console's own state is fit by itself: what runs, waits or is known  *)
(* belongs to the current generation.  The rest is about what is under way *)
(* between console and worker.  Every command is under way once and is     *)
(* known to the console, one way or the other; a model run is a token that *)
(* is in one place, the prompt on the wire, the worker, or the frame that  *)
(* ends it, and the console's cycle is open while the token exists; so     *)
(* what a renewal closes has no run.  The generations are bounded by what  *)
(* the operator has typed.                                                 *)
(***************************************************************************)
EXTENDS Console, Integers, SequenceTheorems, TLAPS

CruiseType == [auto : BOOLEAN, active : BOOLEAN, steps : 0..MaxSteps, used : Nat,
               sdr : 0..RetryLimit, planner : 0..RetryLimit]

\* What the two hardware threads may be.
Captures == Work({"capture"}) \cup {NoWork}
Sweeps == Work({"initial", "survey", "inspect"}) \cup {NoWork}

App == [gen : Generations, next : 1..(MaxRequests + 1), state : States,
        cycle : BOOLEAN, seen : BOOLEAN, deferred : BOOLEAN, due : BOOLEAN, expired : BOOLEAN,
        requests : SUBSET [id : Ids, gen : Generations, faulted : BOOLEAN],
        pending : Plans \cup {NoPlan}, commands : SUBSET Commands,
        execution : Captures, sweep : Sweeps,
        cruise : CruiseType, wire : Seq(Commands), want : {"no", "idle", "holding"},
        exit : Exits]

Run == {"prompt", "queue", "abort"}
Sync == {"open", "close", "state"}

\* An active cruise has a step, a byte and a retry left.
CruiseFit(c) == c.active => c.steps < MaxSteps /\ c.sdr < RetryLimit /\ c.planner < RetryLimit

\* What a ConsoleApp is in every state and inside every method.
Fit(a) ==
    /\ a \in App
    /\ CruiseFit(a.cruise)
    /\ \A w \in {a.execution, a.sweep} : w # NoWork => w.gen = a.gen
    /\ a.pending # NoPlan => a.pending.gen = a.gen /\ a.pending.action \in Executable
    /\ \A q \in a.requests : q.gen = a.gen
    /\ \A c \in a.commands : c.gen = a.gen /\ c.kind \in Run

Calls == [cmd : Commands, state : States, effect : {"none", "manual", "cruise"},
          then : {"top", "auto", "input", "clear", "closed"}]
Workers == [open : Generations \cup {0}, active : BOOLEAN, current : Ids \cup {0},
            submitted : BOOLEAN, aborted : BOOLEAN, inbox : SUBSET Ids, queued : 0..QueueLimit]
Places == {"top", "frames", "auto", "input", "await", "clear", "closing", "closed", "gone"}

Types ==
    /\ pc \in Places
    /\ call \in Calls
    /\ lines \in Seq(AllInputs) /\ Len(lines) <= InputLimit
    /\ stop \in BOOLEAN
    /\ typed \in 0..MaxLines
    /\ frames \in Seq(Frames)
    /\ worker \in Workers

\* A stop is carried out.
Clearing == pc = "clear" \/ (pc = "await" /\ call.then = "clear")

LoopInv ==
    /\ app.exit \notin {"unknown response", "stale response", "close refused"}
    /\ pc # "gone" => app.exit = "no" /\ app.want = "no"
    /\ Clearing => stop /\ lines = <<>>

IsResponse(f) == f.type = "response"

\* The command that command() waits for, and whether it renews.
NoCmd == [kind |-> "none", gen |-> 0, id |-> 0]
Waited == IF pc = "await" THEN call.cmd ELSE NoCmd
Renews(k) == k.kind \in {"close", "open"}

\* A command that is under way, when the console is a and waits for k.
Known(c, a, k) ==
    /\ c.gen <= a.gen /\ c.id < a.next
    /\ c.kind \in Sync => c = k
    /\ c.kind \in Run /\ c.gen = a.gen => c \in a.commands
    /\ c.kind \in {"prompt", "queue"} => c.id \in Ids

\* Every command is under way once, and is known.
Flow(a, fr, k) ==
    /\ \A i \in 1..Len(a.wire) : Known(a.wire[i], a, k)
    /\ \A i \in 1..Len(fr) : IsResponse(fr[i]) => Known(fr[i].cmd, a, k)
    /\ \A i, j \in 1..Len(a.wire) : a.wire[i] = a.wire[j] => i = j
    /\ \A i, j \in 1..Len(fr) :
           IsResponse(fr[i]) /\ IsResponse(fr[j]) /\ fr[i].cmd = fr[j].cmd => i = j
    /\ \A i \in 1..Len(fr), j \in 1..Len(a.wire) :
           IsResponse(fr[i]) => fr[i].cmd # a.wire[j]

\* A frame that ends a run, or says that there is none.
Ending(f) == f.type = "end" \/ (IsResponse(f) /\ f.cmd.kind = "prompt" /\ ~f.ok)
GenOf(f) == IF IsResponse(f) THEN f.cmd.gen ELSE f.gen

\* The token of the model's run is in one place, and the cycle is open.
Token(a, fr, w) ==
    /\ \A i, j \in 1..Len(a.wire) :
           a.wire[i].kind = "prompt" /\ a.wire[j].kind = "prompt" => i = j
    /\ \A i \in 1..Len(a.wire) : a.wire[i].kind = "prompt" =>
           a.cycle /\ a.wire[i].gen = a.gen /\ ~w.active /\ \A j \in 1..Len(fr) : ~Ending(fr[j])
    /\ w.active => a.cycle /\ w.current \in Ids /\ \A j \in 1..Len(fr) : ~Ending(fr[j])
    /\ \A i, j \in 1..Len(fr) : Ending(fr[i]) /\ Ending(fr[j]) => i = j
    /\ \A i \in 1..Len(fr) : Ending(fr[i]) => a.cycle /\ GenOf(fr[i]) = a.gen
    /\ \A i \in 1..Len(fr) : fr[i].type = "plan" =>
           w.active \/ \E j \in 1..Len(fr) : i < j /\ Ending(fr[j])

\* The worker's session, around a renewal.
Opened(a, fr, w, k) ==
    /\ ~Renews(k) => w.open = a.gen
    /\ w.active => w.open = a.gen
    /\ \A i \in 1..Len(a.wire) : a.wire[i].kind = "close" => w.open = a.gen
    /\ \A i \in 1..Len(a.wire) : a.wire[i].kind = "open" => w.open = 0
    /\ \A i \in 1..Len(fr) : IsResponse(fr[i]) /\ fr[i].cmd.kind = "close" =>
           fr[i].ok /\ w.open = 0
    /\ \A i \in 1..Len(fr) : IsResponse(fr[i]) /\ fr[i].cmd.kind = "open" /\ fr[i].ok =>
           w.open = a.gen

FlowInv ==
    /\ pc = "await" => call.cmd.gen = app.gen /\ call.cmd.kind \in Sync /\ call.cmd.id = 0
    /\ Renews(Waited) => ~Busy(app)
    /\ Flow(app, frames, Waited)
    /\ Token(app, frames, worker)
    /\ Opened(app, frames, worker, Waited)

\* What may still renew: a line or a stop twice, a cruise, a deferred renewal
\* and the one under way once.
One(b) == IF b THEN 1 ELSE 0
Due ==
    2 * Len(lines) + 2 * One(stop /\ ~Clearing) + One(app.deferred) + One(app.cruise.active)
      + One(Waited.kind = "close") + One(pc = "await" /\ call.effect = "cruise")

GenInv == app.gen + Due <= 2 * typed + 1

IInv == Fit(app) /\ Types /\ LoopInv /\ (pc # "gone" => FlowInv /\ GenInv)

-----------------------------------------------------------------------------
(* The methods of the console.                                             *)

\* What the assumption says of each bound.
LEMMA Constants ==
    /\ MaxRequests \in Nat /\ MaxLines \in Nat /\ InputLimit \in Nat /\ QueueLimit \in Nat
    /\ MaxSteps \in Nat \ {0} /\ Budget \in Nat /\ AutoBytes \in Nat /\ SweepBytes \in Nat
    /\ RetryLimit \in Nat \ {0}
  BY ConsoleAssumption

\* Nothing pending and nothing running are told from a plan and a thread.
LEMMA Nothing ==
    /\ NoPlan \notin Plans
    /\ \A kinds : "none" \notin kinds => NoWork \notin Work(kinds)
  BY DEF NoPlan, Plans, NoWork, Work, Ids

\* The counters of a cruise.
LEMMA CruiseIs ==
    ASSUME NEW c \in CruiseType, CruiseFit(c)
    PROVE  /\ CruiseStop(c) \in CruiseType /\ ~CruiseStop(c).active
           /\ SwitchToStepApproval(c) \in CruiseType /\ ~SwitchToStepApproval(c).active
           /\ c.active =>
                RecordSdrUnavailable(c) \in CruiseType /\ CruiseFit(RecordSdrUnavailable(c))
           /\ c.active =>
                RecordPlannerMissing(c) \in CruiseType /\ CruiseFit(RecordPlannerMissing(c))
           /\ \A n \in Nat : c.active =>
                RecordExecution(c, n) \in CruiseType /\ CruiseFit(RecordExecution(c, n))
           /\ [c EXCEPT !.planner = 0] \in CruiseType /\ CruiseFit([c EXCEPT !.planner = 0])
           /\ [c EXCEPT !.planner = 0].active = c.active
           /\ [c EXCEPT !.sdr = 0] \in CruiseType /\ CruiseFit([c EXCEPT !.sdr = 0])
           /\ [c EXCEPT !.sdr = 0].active = c.active
<1>1. CruiseStop(c) \in CruiseType /\ ~CruiseStop(c).active
  BY DEF CruiseStop, CruiseType
<1>2. SwitchToStepApproval(c) \in CruiseType /\ ~SwitchToStepApproval(c).active
  BY DEF SwitchToStepApproval, CruiseType
<1>3. ASSUME c.active
      PROVE  RecordSdrUnavailable(c) \in CruiseType /\ CruiseFit(RecordSdrUnavailable(c))
  <2> DEFINE e == c.active /\ ~Exhausted(c.sdr + 1)
             b == [c EXCEPT !.sdr = c.sdr + 1, !.active = e]
  <2>1. e \in BOOLEAN /\ (e => c.sdr + 1 < RetryLimit) /\ c.sdr + 1 \in 0..RetryLimit
    BY <1>3, Constants DEF CruiseType, CruiseFit, Exhausted
  <2>2. RecordSdrUnavailable(c) = b
    BY DEF RecordSdrUnavailable
  <2> HIDE DEF e
  <2>3. b \in CruiseType /\ b.active = e
    BY <2>1 DEF CruiseType
  <2>4. b.sdr = c.sdr + 1 /\ b.steps = c.steps /\ b.planner = c.planner
    BY DEF CruiseType
  <2> HIDE DEF b
  <2> QED BY <1>3, <2>1, <2>2, <2>3, <2>4 DEF CruiseFit
<1>4. ASSUME c.active
      PROVE  RecordPlannerMissing(c) \in CruiseType /\ CruiseFit(RecordPlannerMissing(c))
  <2> DEFINE e == c.active /\ ~Exhausted(c.planner + 1)
             b == [c EXCEPT !.planner = c.planner + 1, !.active = e]
  <2>1. e \in BOOLEAN /\ (e => c.planner + 1 < RetryLimit) /\ c.planner + 1 \in 0..RetryLimit
    BY <1>4, Constants DEF CruiseType, CruiseFit, Exhausted
  <2>2. RecordPlannerMissing(c) = b
    BY DEF RecordPlannerMissing
  <2> HIDE DEF e
  <2>3. b \in CruiseType /\ b.active = e
    BY <2>1 DEF CruiseType
  <2>4. b.planner = c.planner + 1 /\ b.steps = c.steps /\ b.sdr = c.sdr
    BY DEF CruiseType
  <2> HIDE DEF b
  <2> QED BY <1>4, <2>1, <2>2, <2>3, <2>4 DEF CruiseFit
<1>5. ASSUME c.active, NEW n \in Nat
      PROVE  RecordExecution(c, n) \in CruiseType /\ CruiseFit(RecordExecution(c, n))
  <2> DEFINE e == c.steps + 1 < MaxSteps /\ c.used + n < Budget
             b == [c EXCEPT !.steps = c.steps + 1, !.used = c.used + n, !.active = e]
  <2>1. /\ e \in BOOLEAN /\ (e => c.steps + 1 < MaxSteps) /\ c.steps + 1 \in 0..MaxSteps
        /\ c.used + n \in Nat
    BY <1>5, Constants DEF CruiseType, CruiseFit
  <2>2. RecordExecution(c, n) = b
    BY DEF RecordExecution
  <2> HIDE DEF e
  <2>3. b \in CruiseType /\ b.active = e
    BY <2>1 DEF CruiseType
  <2>4. b.steps = c.steps + 1 /\ b.sdr = c.sdr /\ b.planner = c.planner
    BY DEF CruiseType
  <2> HIDE DEF b
  <2> QED BY <1>5, <2>1, <2>2, <2>3, <2>4 DEF CruiseFit
<1>6. /\ [c EXCEPT !.planner = 0] \in CruiseType /\ CruiseFit([c EXCEPT !.planner = 0])
      /\ [c EXCEPT !.planner = 0].active = c.active
      /\ [c EXCEPT !.sdr = 0] \in CruiseType /\ CruiseFit([c EXCEPT !.sdr = 0])
      /\ [c EXCEPT !.sdr = 0].active = c.active
  BY Constants DEF CruiseType, CruiseFit
<1> QED BY <1>1, <1>2, <1>3, <1>4, <1>5, <1>6

Forbidden == {"unknown response", "stale response", "close refused"}

\* A method that neither talks to the worker nor asks for a renewal.
Quiet(a, b) ==
    /\ Fit(b)
    /\ b.gen = a.gen /\ b.next = a.next /\ b.cycle = a.cycle /\ b.deferred = a.deferred
    /\ b.requests = a.requests /\ b.commands = a.commands /\ b.wire = a.wire
    /\ b.want = a.want
    /\ b.cruise.active => a.cruise.active
    /\ b.exit = a.exit \/ b.exit \notin Forbidden

\* Such methods follow one another.
LEMMA QuietTwice ==
    ASSUME NEW a, NEW b, NEW c, Quiet(a, b), Quiet(b, c)
    PROVE  Quiet(a, c)
  BY DEF Quiet

\* The fields of a console that is fit.
LEMMA Fields ==
    ASSUME NEW a, Fit(a)
    PROVE  /\ a \in App /\ a.cruise \in CruiseType /\ CruiseFit(a.cruise) /\ a.state \in States
           /\ a.due \in BOOLEAN /\ a.seen \in BOOLEAN /\ a.pending \in Plans \cup {NoPlan}
           /\ a.execution \in Captures /\ a.sweep \in Sweeps
           /\ a.exit \in Exits /\ a.gen \in Generations
           /\ NoWork \in Captures /\ NoWork \in Sweeps
  BY DEF Fit, App, Captures, Sweeps

\* Nothing starts.
Idles(a, b) == b.execution \in {a.execution, NoWork} /\ b.sweep \in {a.sweep, NoWork}

\* The fields that such a method leaves alone.
Rest(a, b) ==
    /\ b.gen = a.gen /\ b.next = a.next /\ b.cycle = a.cycle /\ b.deferred = a.deferred
    /\ b.requests = a.requests /\ b.commands = a.commands /\ b.wire = a.wire
    /\ b.want = a.want

\* A method that starts nothing is quiet if it keeps to its fields.
LEMMA QuietIf ==
    ASSUME NEW a, Fit(a), NEW b \in App, Rest(a, b), Idles(a, b),
           CruiseFit(b.cruise), b.cruise.active => a.cruise.active,
           b.pending \in {a.pending, NoPlan},
           b.exit = a.exit \/ b.exit \notin Forbidden
    PROVE  Quiet(a, b)
  BY DEF Fit, Rest, Idles, Quiet

\* The process ends with an error of its own.
LEMMA Failed ==
    ASSUME NEW a, Fit(a), NEW why \in Exits \ Forbidden
    PROVE  Quiet(a, Fail(a, why)) /\ Idles(a, Fail(a, why)) /\ Fail(a, why).exit = why
<1> DEFINE b == Fail(a, why)
<1>1. a \in App
  BY Fields
<1>2. b \in App /\ Rest(a, b) /\ Idles(a, b)
  BY <1>1 DEF App, Fail, Rest, Idles
<1>3. b.cruise = a.cruise /\ b.pending = a.pending /\ b.exit = why
  BY <1>1 DEF App, Fail
<1> HIDE DEF b
<1>4. Quiet(a, b)
  BY <1>2, <1>3, Fields, QuietIf
<1> QED BY <1>2, <1>3, <1>4 DEF b

\* The cruise is changed, and with it the clock.
LEMMA Cruised ==
    ASSUME NEW a, Fit(a), NEW cr \in CruiseType, CruiseFit(cr), cr.active => a.cruise.active
    PROVE  /\ Quiet(a, [a EXCEPT !.cruise = cr]) /\ Idles(a, [a EXCEPT !.cruise = cr])
           /\ [a EXCEPT !.cruise = cr].cruise = cr
           /\ Quiet(a, [a EXCEPT !.cruise = cr, !.due = TRUE])
           /\ Idles(a, [a EXCEPT !.cruise = cr, !.due = TRUE])
           /\ Quiet(a, [a EXCEPT !.cruise = cr, !.due = FALSE])
           /\ Idles(a, [a EXCEPT !.cruise = cr, !.due = FALSE])
<1>1. a \in App
  BY Fields
<1>2. ASSUME NEW b, b \in {[a EXCEPT !.cruise = cr], [a EXCEPT !.cruise = cr, !.due = TRUE],
                           [a EXCEPT !.cruise = cr, !.due = FALSE]}
      PROVE  Quiet(a, b) /\ Idles(a, b) /\ b.cruise = cr
  <2>1. b \in App
    <3>1. CASE b = [a EXCEPT !.cruise = cr]
      BY <1>1, <3>1 DEF App
    <3>2. CASE b = [a EXCEPT !.cruise = cr, !.due = TRUE]
      BY <1>1, <3>2 DEF App
    <3>3. CASE b = [a EXCEPT !.cruise = cr, !.due = FALSE]
      BY <1>1, <3>3 DEF App
    <3> QED BY <1>2, <3>1, <3>2, <3>3
  <2>2. Rest(a, b) /\ Idles(a, b)
    BY <1>1, <1>2 DEF App, Rest, Idles
  <2>3. b.cruise = cr /\ b.pending = a.pending /\ b.exit = a.exit
    BY <1>1, <1>2 DEF App
  <2>4. Quiet(a, b)
    BY <2>1, <2>2, <2>3, QuietIf
  <2> QED BY <2>2, <2>3, <2>4
<1> QED BY <1>2, Zenon

\* The cruise and the state are changed.
LEMMA CruisedTo ==
    ASSUME NEW a, Fit(a), NEW cr \in CruiseType, CruiseFit(cr), cr.active => a.cruise.active,
           NEW st \in States
    PROVE  /\ Quiet(a, [a EXCEPT !.state = st, !.cruise = cr])
           /\ Idles(a, [a EXCEPT !.state = st, !.cruise = cr])
<1> DEFINE b == [a EXCEPT !.state = st, !.cruise = cr]
<1>1. a \in App
  BY Fields
<1>2. b \in App /\ Rest(a, b) /\ Idles(a, b)
  BY <1>1 DEF App, Rest, Idles
<1>3. b.cruise = cr /\ b.pending = a.pending /\ b.exit = a.exit
  BY <1>1 DEF App
<1> HIDE DEF b
<1>4. Quiet(a, b)
  BY <1>2, <1>3, QuietIf
<1> QED BY <1>2, <1>4 DEF b

\* A thread has ended, or was cancelled, and its handle is taken.
LEMMA Taken ==
    ASSUME NEW a, Fit(a)
    PROVE  /\ Quiet(a, [a EXCEPT !.execution = NoWork]) /\ Idles(a, [a EXCEPT !.execution = NoWork])
           /\ Quiet(a, [a EXCEPT !.sweep = NoWork]) /\ Idles(a, [a EXCEPT !.sweep = NoWork])
           /\ [a EXCEPT !.execution = NoWork].cruise = a.cruise
           /\ [a EXCEPT !.sweep = NoWork].cruise = a.cruise
           /\ [a EXCEPT !.execution = NoWork].exit = a.exit
           /\ [a EXCEPT !.sweep = NoWork].exit = a.exit
<1>1. a \in App /\ NoWork \in Captures /\ NoWork \in Sweeps /\ CruiseFit(a.cruise)
  BY Fields
<1>2. ASSUME NEW b, b \in {[a EXCEPT !.execution = NoWork], [a EXCEPT !.sweep = NoWork]}
      PROVE  Quiet(a, b) /\ Idles(a, b) /\ b.cruise = a.cruise /\ b.exit = a.exit
  <2>1. b \in App
    <3>1. CASE b = [a EXCEPT !.execution = NoWork]
      BY <1>1, <3>1 DEF App
    <3>2. CASE b = [a EXCEPT !.sweep = NoWork]
      BY <1>1, <3>2 DEF App
    <3> QED BY <1>2, <3>1, <3>2
  <2>2. Rest(a, b) /\ Idles(a, b)
    BY <1>1, <1>2 DEF App, Rest, Idles
  <2>3. b.cruise = a.cruise /\ b.pending = a.pending /\ b.exit = a.exit
    BY <1>1, <1>2 DEF App
  <2>4. Quiet(a, b)
    BY <1>1, <2>1, <2>2, <2>3, QuietIf
  <2> QED BY <2>2, <2>3, <2>4
<1> QED BY <1>2, Zenon

\* The state alone is changed.
LEMMA Restated ==
    ASSUME NEW a, Fit(a), NEW st \in States
    PROVE  /\ Quiet(a, [a EXCEPT !.state = st]) /\ Idles(a, [a EXCEPT !.state = st])
           /\ [a EXCEPT !.state = st].cruise = a.cruise
<1> DEFINE b == [a EXCEPT !.state = st]
<1>1. a \in App /\ CruiseFit(a.cruise)
  BY Fields
<1>2. b \in App /\ Rest(a, b) /\ Idles(a, b)
  BY <1>1 DEF App, Rest, Idles
<1>3. b.cruise = a.cruise /\ b.pending = a.pending /\ b.exit = a.exit
  BY <1>1 DEF App
<1> HIDE DEF b
<1>4. Quiet(a, b)
  BY <1>1, <1>2, <1>3, QuietIf
<1> QED BY <1>2, <1>3, <1>4 DEF b

\* What Start may start, for plan p.
Started(a, p, b) ==
    /\ Starts(a.execution, b.execution) =>
           b.execution.id = p.id /\ b.execution.bytes = p.bytes /\ p.action = "capture"
    /\ Starts(a.sweep, b.sweep) =>
           b.sweep.id = p.id /\ b.sweep.bytes = SweepBytes /\ ~OverBudget(a.cruise)

\* Such a method starts no plan.
LEMMA IdleStarts ==
    ASSUME NEW a, NEW b, NEW p, Idles(a, b)
    PROVE  Started(a, p, b)
  BY DEF Idles, Started, Starts

\* start_execution
LEMMA StartExecutionIs ==
    ASSUME NEW a, Fit(a), NEW p \in Plans, p.gen = a.gen, p.action = "capture"
    PROVE  Quiet(a, StartExecution(a, p)) /\ Started(a, p, StartExecution(a, p))
<1>0. a \in App /\ a.cruise \in CruiseType /\ CruiseFit(a.cruise) /\ a.state \in States
  BY Fields
<1>1. CASE a.execution # NoWork
  <2> DEFINE cr == CruiseStop(a.cruise)
  <2>1. cr \in CruiseType /\ CruiseFit(cr) /\ ~cr.active
    BY <1>0, CruiseIs DEF CruiseFit
  <2>2. StartExecution(a, p) = [a EXCEPT !.cruise = cr]
    BY <1>1 DEF StartExecution
  <2> HIDE DEF cr
  <2>3. Quiet(a, StartExecution(a, p)) /\ Idles(a, StartExecution(a, p))
    BY <1>0, <2>1, <2>2, Cruised
  <2> QED BY <2>3, IdleStarts
<1>2. CASE a.execution = NoWork
  <2> DEFINE w == [kind |-> "capture", id |-> p.id, gen |-> p.gen, bytes |-> p.bytes,
                   result |-> "running"]
             b == [a EXCEPT !.execution = w]
  <2>1. StartExecution(a, p) = b
    BY <1>2 DEF StartExecution
  <2>2. w \in Captures /\ w.gen = a.gen /\ w.id = p.id /\ w.bytes = p.bytes
    BY DEF Captures, Work, Plans
  <2> HIDE DEF w
  <2>3. b \in App /\ Rest(a, b)
    BY <1>0, <2>2 DEF App, Rest
  <2>4. /\ b.execution = w /\ b.sweep = a.sweep /\ b.cruise = a.cruise
        /\ b.pending = a.pending /\ b.exit = a.exit
    BY <1>0 DEF App
  <2> HIDE DEF b
  <2>5. Quiet(a, b)
    BY <2>2, <2>3, <2>4 DEF Fit, Rest, Quiet
  <2>6. Started(a, p, b)
    BY <2>2, <2>4 DEF Started, Starts
  <2> QED BY <2>1, <2>5, <2>6
<1> QED BY <1>1, <1>2

\* The clauses of start_planned_survey.
LEMMA StartSweepCases ==
    ASSUME NEW a, NEW p, NEW sdr
    PROVE  /\ HardwareActive(a) => StartSweep(a, p, sdr) = Fail(a, "step active")
           /\ ~HardwareActive(a) /\ sdr = "sick" /\ a.cruise.active => StartSweep(a, p, sdr) =
                [a EXCEPT !.cruise = RecordSdrUnavailable(a.cruise), !.due = FALSE]
           /\ ~HardwareActive(a) /\ sdr = "sick" /\ ~a.cruise.active => StartSweep(a, p, sdr) = a
           /\ ~HardwareActive(a) /\ sdr = "refused" => StartSweep(a, p, sdr) = Fail(a, "sweep plan")
           /\ ~HardwareActive(a) /\ sdr = "healthy" /\ OverBudget(a.cruise) =>
                StartSweep(a, p, sdr) = [a EXCEPT !.cruise = CruiseStop(a.cruise)]
           /\ ~HardwareActive(a) /\ sdr = "healthy" /\ ~OverBudget(a.cruise) =>
                StartSweep(a, p, sdr) = [a EXCEPT
                        !.sweep = [kind |-> p.action, id |-> p.id, gen |-> p.gen,
                                   bytes |-> SweepBytes, result |-> "running"],
                        !.state = IF p.action = "survey" THEN "surveying" ELSE "inspecting"]
<1>1. "sick" # "refused" /\ "healthy" # "sick" /\ "healthy" # "refused"
  OBVIOUS
<1>2. ASSUME HardwareActive(a) PROVE StartSweep(a, p, sdr) = Fail(a, "step active")
  BY <1>2, Zenon DEF StartSweep
<1>3. ASSUME ~HardwareActive(a), sdr = "sick"
      PROVE  StartSweep(a, p, sdr) =
                IF a.cruise.active
                THEN [a EXCEPT !.cruise = RecordSdrUnavailable(a.cruise), !.due = FALSE] ELSE a
  BY <1>1, <1>3, Zenon DEF StartSweep
<1>4. ASSUME ~HardwareActive(a), sdr = "refused"
      PROVE  StartSweep(a, p, sdr) = Fail(a, "sweep plan")
  BY <1>1, <1>4, Zenon DEF StartSweep
<1>5. ASSUME ~HardwareActive(a), sdr = "healthy"
      PROVE  StartSweep(a, p, sdr) =
                IF OverBudget(a.cruise) THEN [a EXCEPT !.cruise = CruiseStop(a.cruise)]
                ELSE [a EXCEPT
                        !.sweep = [kind |-> p.action, id |-> p.id, gen |-> p.gen,
                                   bytes |-> SweepBytes, result |-> "running"],
                        !.state = IF p.action = "survey" THEN "surveying" ELSE "inspecting"]
  BY <1>1, <1>5, Zenon DEF StartSweep
<1> QED BY <1>2, <1>3, <1>4, <1>5, Zenon

\* start_planned_survey and start_candidate_inspection
LEMMA StartSweepIs ==
    ASSUME NEW a, Fit(a), NEW p \in Plans, p.gen = a.gen, p.action \in {"survey", "inspect"},
           NEW sdr \in Sdr
    PROVE  Quiet(a, StartSweep(a, p, sdr)) /\ Started(a, p, StartSweep(a, p, sdr))
<1> DEFINE r == StartSweep(a, p, sdr)
<1> HIDE DEF r
<1>0. a \in App /\ a.cruise \in CruiseType /\ CruiseFit(a.cruise) /\ a.state \in States
  BY Fields
<1>1. CASE HardwareActive(a) \/ sdr = "refused"
  <2>1. PICK why \in Exits \ Forbidden : r = Fail(a, why)
    <3>1. "step active" \in Exits \ Forbidden /\ "sweep plan" \in Exits \ Forbidden
      BY DEF Exits, Forbidden
    <3>2. r = Fail(a, "step active") \/ r = Fail(a, "sweep plan")
      <4>1. CASE HardwareActive(a)
        BY <4>1, StartSweepCases, Zenon DEF r
      <4>2. CASE ~HardwareActive(a)
        <5>1. sdr = "refused"
          BY <1>1, <4>2, Zenon
        <5> QED BY <4>2, <5>1, StartSweepCases DEF r
      <4> QED BY <4>1, <4>2
    <3> QED BY <3>1, <3>2
  <2>2. Quiet(a, r) /\ Idles(a, r)
    BY <2>1, Failed
  <2> QED BY <2>2, IdleStarts DEF r
<1>2. CASE ~HardwareActive(a) /\ sdr = "sick"
  <2>1. CASE a.cruise.active
    <3> DEFINE cr == RecordSdrUnavailable(a.cruise)
    <3>1. cr \in CruiseType /\ CruiseFit(cr)
      BY <1>0, <2>1, CruiseIs
    <3>2. r = [a EXCEPT !.cruise = cr, !.due = FALSE]
      BY <1>2, <2>1, StartSweepCases, Zenon DEF r
    <3> HIDE DEF cr
    <3>3. Quiet(a, r) /\ Idles(a, r)
      BY <2>1, <3>1, <3>2, Cruised
    <3> QED BY <3>3, IdleStarts DEF r
  <2>2. CASE ~a.cruise.active
    <3>1. r = a
      BY <1>2, <2>2, StartSweepCases, Zenon DEF r
    <3>2. Quiet(a, r) /\ Idles(a, r)
      BY <3>1 DEF Quiet, Idles
    <3> QED BY <3>2, IdleStarts DEF r
  <2> QED BY <2>1, <2>2
<1>3. CASE ~HardwareActive(a) /\ sdr = "healthy" /\ OverBudget(a.cruise)
  <2> DEFINE cr == CruiseStop(a.cruise)
  <2>1. cr \in CruiseType /\ CruiseFit(cr) /\ ~cr.active
    BY <1>0, CruiseIs DEF CruiseFit
  <2>2. r = [a EXCEPT !.cruise = cr]
    BY <1>3, StartSweepCases, Zenon DEF r
  <2> HIDE DEF cr
  <2>3. Quiet(a, r) /\ Idles(a, r)
    BY <2>1, <2>2, Cruised
  <2> QED BY <2>3, IdleStarts DEF r
<1>4. CASE ~HardwareActive(a) /\ sdr = "healthy" /\ ~OverBudget(a.cruise)
  <2> DEFINE w == [kind |-> p.action, id |-> p.id, gen |-> p.gen, bytes |-> SweepBytes,
                   result |-> "running"]
             st == IF p.action = "survey" THEN "surveying" ELSE "inspecting"
             b == [a EXCEPT !.sweep = w, !.state = st]
  <2>1. r = b
    BY <1>4, StartSweepCases, Zenon DEF r
  <2>2. w \in Sweeps /\ w.gen = a.gen /\ w.id = p.id /\ w.bytes = SweepBytes
    BY Constants DEF Sweeps, Work, Plans
  <2>3. st \in States
    BY DEF States
  <2> HIDE DEF w, st
  <2>4. b \in App /\ Rest(a, b)
    BY <1>0, <2>2, <2>3 DEF App, Rest
  <2>5. /\ b.execution = a.execution /\ b.sweep = w /\ b.cruise = a.cruise
        /\ b.pending = a.pending /\ b.exit = a.exit
    BY <1>0 DEF App
  <2> HIDE DEF b
  <2>6. Quiet(a, b)
    BY <2>2, <2>4, <2>5 DEF Fit, Rest, Quiet
  <2>7. Started(a, p, b)
    BY <1>4, <2>2, <2>5 DEF Started, Starts
  <2> QED BY <2>1, <2>6, <2>7 DEF r
<1> QED BY <1>1, <1>2, <1>3, <1>4 DEF Sdr

\* A plan is started.
LEMMA StartIs ==
    ASSUME NEW a, Fit(a), NEW p \in Plans, p.gen = a.gen, p.action \in Executable, NEW sdr \in Sdr
    PROVE  Quiet(a, Start(a, p, sdr)) /\ Started(a, p, Start(a, p, sdr))
<1>1. CASE p.action = "capture"
  BY <1>1, StartExecutionIs DEF Start
<1>2. CASE p.action # "capture"
  BY <1>2, StartSweepIs DEF Start, Executable
<1> QED BY <1>1, <1>2

\* reject
LEMMA RejectIs ==
    ASSUME NEW a, Fit(a)
    PROVE  /\ Quiet(a, Reject(a)) /\ Idles(a, Reject(a)) /\ Reject(a).execution = a.execution
           /\ Reject(a).sweep = a.sweep /\ Reject(a).cruise = a.cruise
<1> DEFINE b == Reject(a)
<1>1. a \in App /\ CruiseFit(a.cruise)
  BY Fields
<1>2. b \in App /\ Rest(a, b) /\ Idles(a, b)
  BY <1>1 DEF App, Reject, Rest, Idles
<1>3. /\ b.cruise = a.cruise /\ b.pending = NoPlan /\ b.exit = a.exit
      /\ b.execution = a.execution /\ b.sweep = a.sweep
  BY <1>1 DEF App, Reject
<1> HIDE DEF b
<1>4. Quiet(a, b)
  BY <1>1, <1>2, <1>3, QuietIf
<1> QED BY <1>2, <1>3, <1>4 DEF b

\* approve starts the pending plan or nothing.
LEMMA ApproveIs ==
    ASSUME NEW a, Fit(a), NEW sdr \in Sdr
    PROVE  Quiet(a, Approve(a, sdr)) /\ Started(a, a.pending, Approve(a, sdr))
<1>1. CASE HardwareActive(a) \/ a.pending = NoPlan
  <2>1. Approve(a, sdr) = a
    BY <1>1 DEF Approve
  <2> QED BY <2>1 DEF Quiet, Started, Starts
<1>2. CASE ~(HardwareActive(a) \/ a.pending = NoPlan)
  <2> DEFINE b == Reject(a)
             c == Start(b, a.pending, sdr)
  <2>1. Approve(a, sdr) = c
    BY <1>2 DEF Approve, Reject
  <2>2. /\ Quiet(a, b) /\ b.execution = a.execution /\ b.sweep = a.sweep
        /\ b.cruise = a.cruise
    BY RejectIs
  <2> HIDE DEF b
  <2>3. a.pending \in Plans /\ a.pending.gen = b.gen /\ a.pending.action \in Executable /\ Fit(b)
    BY <1>2, <2>2, Fields DEF Fit, Quiet
  <2>4. Quiet(b, c) /\ Started(b, a.pending, c)
    BY <2>3, StartIs
  <2> HIDE DEF c
  <2>5. Quiet(a, c) /\ Started(a, a.pending, c)
    BY <2>2, <2>4, QuietTwice DEF Started
  <2> QED BY <2>1, <2>5
<1> QED BY <1>1, <1>2

\* A step of a cruise is counted.
LEMMA CompletedIs ==
    ASSUME NEW a, Fit(a), NEW n \in Nat
    PROVE  Quiet(a, Completed(a, n)) /\ Idles(a, Completed(a, n))
<1>1. CASE a.cruise.active
  <2> DEFINE cr == RecordExecution(a.cruise, n)
  <2>1. cr \in CruiseType /\ CruiseFit(cr)
    BY <1>1, Fields, CruiseIs
  <2>2. Completed(a, n) = [a EXCEPT !.cruise = cr, !.due = TRUE]
    BY <1>1 DEF Completed
  <2> HIDE DEF cr
  <2> QED BY <1>1, <2>1, <2>2, Cruised
<1>2. CASE ~a.cruise.active
  BY <1>2 DEF Completed, Quiet, Idles
<1> QED BY <1>1, <1>2

\* Two methods that start nothing.
LEMMA IdleTwice ==
    ASSUME NEW a, NEW b, NEW c, Idles(a, b), Idles(b, c)
    PROVE  Idles(a, c)
  BY DEF Idles

\* The clauses of poll for the execution.
LEMMA PollExecutionCases ==
    ASSUME NEW a, NEW sdr
    PROVE  LET b == [a EXCEPT !.execution = NoWork] IN
           /\ a.execution.result \in {"none", "running"} => PollExecution(a, sdr) = a
           /\ a.execution.result = "done" =>
                PollExecution(a, sdr) = Completed(b, a.execution.bytes)
           /\ a.execution.result = "failed" /\ a.cruise.active /\ sdr = "sick" =>
                PollExecution(a, sdr) =
                    [b EXCEPT !.cruise = RecordSdrUnavailable(b.cruise), !.due = FALSE]
           /\ a.execution.result = "failed" /\ ~(a.cruise.active /\ sdr = "sick") =>
                PollExecution(a, sdr) =
                    [b EXCEPT !.cruise = CruiseStop(b.cruise), !.state = "faulted"]
<1>1. "done" \notin {"none", "running"} /\ "failed" \notin {"none", "running"} /\ "done" # "failed"
  OBVIOUS
<1>2. ASSUME a.execution.result \in {"none", "running"} PROVE PollExecution(a, sdr) = a
  BY <1>1, <1>2, Zenon DEF PollExecution
<1> DEFINE b == [a EXCEPT !.execution = NoWork]
<1>3. ASSUME a.execution.result = "done"
      PROVE  PollExecution(a, sdr) = Completed(b, a.execution.bytes)
  BY <1>1, <1>3, Zenon DEF PollExecution
<1>4. ASSUME a.execution.result = "failed"
      PROVE  PollExecution(a, sdr) =
               IF a.cruise.active /\ sdr = "sick"
               THEN [b EXCEPT !.cruise = RecordSdrUnavailable(b.cruise), !.due = FALSE]
               ELSE [b EXCEPT !.cruise = CruiseStop(b.cruise), !.state = "faulted"]
  BY <1>1, <1>4, Zenon DEF PollExecution
<1> HIDE DEF b
<1>5. /\ a.execution.result = "failed" /\ a.cruise.active /\ sdr = "sick" =>
           PollExecution(a, sdr) =
               [b EXCEPT !.cruise = RecordSdrUnavailable(b.cruise), !.due = FALSE]
      /\ a.execution.result = "failed" /\ ~(a.cruise.active /\ sdr = "sick") =>
           PollExecution(a, sdr) = [b EXCEPT !.cruise = CruiseStop(b.cruise), !.state = "faulted"]
  BY <1>4, Zenon
<1> QED BY <1>2, <1>3, <1>5, Zenon DEF b

\* poll for the execution
LEMMA PollExecutionIs ==
    ASSUME NEW a, Fit(a), NEW sdr \in Sdr
    PROVE  Quiet(a, PollExecution(a, sdr)) /\ Idles(a, PollExecution(a, sdr))
<1> DEFINE b == [a EXCEPT !.execution = NoWork]
           r == PollExecution(a, sdr)
<1> HIDE DEF r
<1>1. Quiet(a, b) /\ Idles(a, b) /\ b.cruise = a.cruise
  BY Taken
<1>2. Fit(b) /\ b.cruise \in CruiseType /\ CruiseFit(b.cruise)
  BY <1>1, Fields DEF Quiet
<1>3. a.execution \in Captures
  BY Fields
<1>4. ASSUME a.execution.result \in {"none", "running"} PROVE r = a
  BY <1>4, PollExecutionCases, Zenon DEF r
<1>5. ASSUME a.execution.result = "done" PROVE r = Completed(b, a.execution.bytes)
  BY <1>5, PollExecutionCases, Zenon DEF r
<1>6. ASSUME a.execution.result = "failed", a.cruise.active, sdr = "sick"
      PROVE  r = [b EXCEPT !.cruise = RecordSdrUnavailable(b.cruise), !.due = FALSE]
  BY <1>6, PollExecutionCases, Zenon DEF r
<1>7. ASSUME a.execution.result = "failed", ~(a.cruise.active /\ sdr = "sick")
      PROVE  r = [b EXCEPT !.cruise = CruiseStop(b.cruise), !.state = "faulted"]
  BY <1>7, PollExecutionCases, Zenon DEF r
<1> HIDE DEF b
<1>8. CASE a.execution.result \in {"none", "running"}
  BY <1>4, <1>8 DEF Quiet, Idles, r
<1>9. CASE a.execution.result = "done"
  <2>1. a.execution.bytes \in Nat
    BY <1>3 DEF Captures, Work, NoWork
  <2>2. Quiet(b, r) /\ Idles(b, r)
    BY <1>2, <1>5, <1>9, <2>1, CompletedIs
  <2> QED BY <1>1, <2>2, QuietTwice, IdleTwice DEF r
<1>10. CASE a.execution.result = "failed" /\ a.cruise.active /\ sdr = "sick"
  <2> DEFINE cr == RecordSdrUnavailable(b.cruise)
  <2>1. cr \in CruiseType /\ CruiseFit(cr) /\ b.cruise.active
    BY <1>1, <1>2, <1>10, CruiseIs
  <2>3. r = [b EXCEPT !.cruise = cr, !.due = FALSE]
    BY <1>6, <1>10
  <2> HIDE DEF cr
  <2>2. Quiet(b, r) /\ Idles(b, r)
    BY <1>2, <2>1, <2>3, Cruised
  <2> QED BY <1>1, <2>2, QuietTwice, IdleTwice DEF r
<1>11. CASE a.execution.result = "failed" /\ ~(a.cruise.active /\ sdr = "sick")
  <2> DEFINE cr == CruiseStop(b.cruise)
  <2>1. cr \in CruiseType /\ CruiseFit(cr) /\ ~cr.active /\ "faulted" \in States
    BY <1>2, CruiseIs DEF CruiseFit, States
  <2>2. r = [b EXCEPT !.state = "faulted", !.cruise = cr]
    BY <1>2, <1>7, <1>11 DEF Fit, App
  <2> HIDE DEF cr
  <2>3. Quiet(b, r) /\ Idles(b, r)
    BY <1>2, <2>1, <2>2, CruisedTo
  <2> QED BY <1>1, <2>3, QuietTwice, IdleTwice DEF r
<1>12. a.execution.result \in {"none", "running", "done", "failed"}
  BY <1>3 DEF Captures, Work, NoWork
<1> QED BY <1>8, <1>9, <1>10, <1>11, <1>12

\* The clauses of poll for the sweep.
LEMMA PollSweepCases ==
    ASSUME NEW a, NEW sdr
    PROVE  LET b == [a EXCEPT !.sweep = NoWork]
               w == a.sweep
               i == [b EXCEPT !.state = "idle"]
               r == PollSweep(a, sdr)
           IN
           /\ w.result \in {"none", "running"} => r = a
           /\ w.result = "done" /\ sdr = "sick" =>
                r = [b EXCEPT !.state = "faulted", !.cruise = CruiseStop(b.cruise)]
           /\ w.result = "done" /\ sdr = "refused" /\ w.kind = "inspect" => r = Fail(i, "candidate")
           /\ w.result = "failed" => r = [b EXCEPT !.state = "holding",
                  !.cruise = IF w.kind = "initial" THEN b.cruise ELSE CruiseStop(b.cruise)]
           /\ w.result = "done" /\ sdr # "sick" /\ ~(sdr = "refused" /\ w.kind = "inspect") =>
                r = IF w.kind = "initial" THEN i ELSE Completed(i, w.bytes)
<1> DEFINE b == [a EXCEPT !.sweep = NoWork]
           w == a.sweep
           i == [b EXCEPT !.state = "idle"]
           r == PollSweep(a, sdr)
<1>1. /\ "done" \notin {"none", "running"} /\ "failed" \notin {"none", "running"}
      /\ "done" # "failed" /\ "sick" # "refused"
  OBVIOUS
<1>2. ASSUME w.result \in {"none", "running"} PROVE r = a
  BY <1>1, <1>2, Zenon DEF PollSweep
<1>3. ASSUME w.result = "done", sdr = "sick"
      PROVE  r = [b EXCEPT !.state = "faulted", !.cruise = CruiseStop(b.cruise)]
  BY <1>1, <1>3, Zenon DEF PollSweep
<1>4. ASSUME w.result = "done", sdr = "refused", w.kind = "inspect"
      PROVE  r = Fail(i, "candidate")
  BY <1>1, <1>4, Zenon DEF PollSweep
<1>5. ASSUME w.result = "failed"
      PROVE  r = [b EXCEPT !.state = "holding",
                   !.cruise = IF w.kind = "initial" THEN b.cruise ELSE CruiseStop(b.cruise)]
  BY <1>1, <1>5, Zenon DEF PollSweep
<1>6. ASSUME w.result = "done", sdr # "sick", ~(sdr = "refused" /\ w.kind = "inspect")
      PROVE  r = IF w.kind = "initial" THEN i ELSE Completed(i, w.bytes)
  BY <1>1, <1>6, Zenon DEF PollSweep
<1> HIDE DEF b, w, i, r
<1>7. /\ w.result \in {"none", "running"} => r = a
      /\ w.result = "done" /\ sdr = "sick" =>
           r = [b EXCEPT !.state = "faulted", !.cruise = CruiseStop(b.cruise)]
      /\ w.result = "done" /\ sdr = "refused" /\ w.kind = "inspect" => r = Fail(i, "candidate")
      /\ w.result = "failed" => r = [b EXCEPT !.state = "holding",
             !.cruise = IF w.kind = "initial" THEN b.cruise ELSE CruiseStop(b.cruise)]
      /\ w.result = "done" /\ sdr # "sick" /\ ~(sdr = "refused" /\ w.kind = "inspect") =>
           r = IF w.kind = "initial" THEN i ELSE Completed(i, w.bytes)
  BY <1>2, <1>3, <1>4, <1>5, <1>6, Zenon
<1> QED BY <1>7, Zenon DEF b, w, i, r

\* poll for the sweep
LEMMA PollSweepIs ==
    ASSUME NEW a, Fit(a), NEW sdr \in Sdr
    PROVE  Quiet(a, PollSweep(a, sdr)) /\ Idles(a, PollSweep(a, sdr))
<1> DEFINE b == [a EXCEPT !.sweep = NoWork]
           w == a.sweep
           i == [b EXCEPT !.state = "idle"]
           r == PollSweep(a, sdr)
<1> HIDE DEF r
<1>1. Quiet(a, b) /\ Idles(a, b)
  BY Taken
<1>2. w \in Sweeps
  BY Fields
<1>3. /\ w.result \in {"none", "running"} => r = a
      /\ w.result = "done" /\ sdr = "sick" =>
           r = [b EXCEPT !.state = "faulted", !.cruise = CruiseStop(b.cruise)]
      /\ w.result = "done" /\ sdr = "refused" /\ w.kind = "inspect" => r = Fail(i, "candidate")
      /\ w.result = "failed" => r = [b EXCEPT !.state = "holding",
             !.cruise = IF w.kind = "initial" THEN b.cruise ELSE CruiseStop(b.cruise)]
      /\ w.result = "done" /\ sdr # "sick" /\ ~(sdr = "refused" /\ w.kind = "inspect") =>
           r = IF w.kind = "initial" THEN i ELSE Completed(i, w.bytes)
  BY PollSweepCases, Zenon DEF r
<1> HIDE DEF b, w
<1>4. Fit(b) /\ b.cruise \in CruiseType /\ CruiseFit(b.cruise)
  BY <1>1, Fields DEF Quiet
<1>5. Quiet(b, i) /\ Idles(b, i)
  <2>1. "idle" \in States
    BY DEF States
  <2> QED BY <1>4, <2>1, Restated
<1> HIDE DEF i
<1>6. Quiet(a, i) /\ Idles(a, i) /\ Fit(i)
  BY <1>1, <1>5, QuietTwice, IdleTwice DEF Quiet
<1>7. ASSUME NEW cr \in {b.cruise, CruiseStop(b.cruise)}
      PROVE  cr \in CruiseType /\ CruiseFit(cr) /\ (cr.active => b.cruise.active)
  BY <1>4, <1>7, CruiseIs DEF CruiseFit
<1>8. CASE w.result \in {"none", "running"}
  BY <1>3, <1>8 DEF Quiet, Idles, r
<1>9. CASE w.result = "done" /\ sdr = "sick"
  <2> DEFINE cr == CruiseStop(b.cruise)
  <2>1. cr \in CruiseType /\ CruiseFit(cr) /\ (cr.active => b.cruise.active) /\ "faulted" \in States
    BY <1>7 DEF States
  <2>2. r = [b EXCEPT !.state = "faulted", !.cruise = cr]
    BY <1>3, <1>9
  <2> HIDE DEF cr
  <2>3. Quiet(b, r) /\ Idles(b, r)
    BY <1>4, <2>1, <2>2, CruisedTo
  <2> QED BY <1>1, <2>3, QuietTwice, IdleTwice DEF r
<1>10. CASE w.result = "failed"
  <2> DEFINE cr == IF w.kind = "initial" THEN b.cruise ELSE CruiseStop(b.cruise)
  <2>1. cr \in CruiseType /\ CruiseFit(cr) /\ (cr.active => b.cruise.active) /\ "holding" \in States
    BY <1>7 DEF States
  <2>2. r = [b EXCEPT !.state = "holding", !.cruise = cr]
    BY <1>3, <1>10
  <2> HIDE DEF cr
  <2>3. Quiet(b, r) /\ Idles(b, r)
    BY <1>4, <2>1, <2>2, CruisedTo
  <2> QED BY <1>1, <2>3, QuietTwice, IdleTwice DEF r
<1>11. CASE w.result = "done" /\ sdr # "sick"
  <2>1. w.bytes \in Nat /\ "candidate" \in Exits \ Forbidden
    BY <1>2 DEF Sweeps, Work, NoWork, Exits, Forbidden
  <2>2. r \in {i, Fail(i, "candidate"), Completed(i, w.bytes)}
    BY <1>3, <1>11
  <2>3. Quiet(i, r) /\ Idles(i, r)
    <3>1. CASE r = i
      BY <1>6, <3>1 DEF Quiet, Idles
    <3>2. CASE r = Fail(i, "candidate")
      BY <1>6, <2>1, <3>2, Failed
    <3>3. CASE r = Completed(i, w.bytes)
      BY <1>6, <2>1, <3>3, CompletedIs
    <3> QED BY <2>2, <3>1, <3>2, <3>3
  <2> QED BY <1>6, <2>3, QuietTwice, IdleTwice DEF r
<1>12. w.result \in {"none", "running", "done", "failed"}
  BY <1>2 DEF Sweeps, Work, NoWork
<1> QED BY <1>8, <1>9, <1>10, <1>11, <1>12

-----------------------------------------------------------------------------
(* The methods that talk to the worker.                                    *)

\* Command c is sent: its id is new, or it is an abort and none is pending.
\* Only a prompt opens a cycle.
Sends(a, b, c) ==
    /\ c \in Commands /\ c.gen = a.gen
    /\ b.wire = Append(a.wire, c) /\ b.commands = a.commands \cup {c}
    /\ \/ c.kind = "prompt" /\ c.id = a.next /\ b.next = a.next + 1 /\ ~a.cycle /\ b.cycle
       \/ c.kind = "queue" /\ c.id = a.next /\ b.next = a.next + 1 /\ b.cycle = a.cycle
       \/ c.kind = "abort" /\ c.id = 0 /\ b.next = a.next /\ b.cycle = a.cycle /\ ~AbortPending(a)

\* A method that may send one command.
Moves(a, b) ==
    /\ Fit(b) /\ b.gen = a.gen
    /\ \/ \E c : Sends(a, b, c)
       \/ /\ b.wire = a.wire /\ b.commands = a.commands /\ b.next = a.next
          /\ b.cycle = a.cycle
    /\ b.exit = a.exit \/ b.exit \notin Forbidden

\* What such a method leaves alone when it only sends.
Talks(a, b) ==
    /\ b.deferred = a.deferred /\ b.want = a.want /\ b.cruise = a.cruise
    /\ b.execution = a.execution /\ b.sweep = a.sweep /\ b.exit = a.exit

\* ... or ends the process instead.
Speaks(a, b) ==
    /\ b.deferred = a.deferred /\ b.want = a.want /\ b.cruise = a.cruise
    /\ b.execution = a.execution /\ b.sweep = a.sweep

\* How the two kinds of method follow one another.
LEMMA QuietMoves ==
    ASSUME NEW a, NEW b, Quiet(a, b)
    PROVE  Moves(a, b)
  BY DEF Quiet, Moves

\* Likewise, when the quiet one comes first.
LEMMA QuietThenMoves ==
    ASSUME NEW a, NEW b, NEW c, Quiet(a, b), Moves(b, c)
    PROVE  Moves(a, c)
<1>1. ASSUME NEW d, Sends(b, c, d) PROVE Sends(a, c, d)
  BY <1>1 DEF Quiet, Sends, AbortPending
<1> QED BY <1>1 DEF Quiet, Moves

\* A command is written and remembered.
LEMMA SendIs ==
    ASSUME NEW a, Fit(a), NEW kind \in Run, NEW id \in Ids \cup {0}
    PROVE  LET b == Send(a, kind, id)
               c == Cmd(kind, a.gen, id)
           IN  /\ Fit(b) /\ Talks(a, b) /\ b.gen = a.gen /\ b.next = a.next /\ b.cycle = a.cycle
               /\ c \in Commands /\ c.gen = a.gen /\ c.kind = kind /\ c.id = id
               /\ b.wire = Append(a.wire, c) /\ b.commands = a.commands \cup {c}
<1> DEFINE c == Cmd(kind, a.gen, id)
           d == Write(a, c)
           b == [d EXCEPT !.commands = @ \cup {c}]
<1>1. a \in App /\ a.gen \in Generations /\ a.wire \in Seq(Commands)
  BY DEF Fit, App
<1>2. c \in Commands /\ c.gen = a.gen /\ c.kind = kind /\ c.id = id
  BY <1>1 DEF Cmd, Commands, Run
<1>3. Send(a, kind, id) = b
  BY DEF Send
<1> HIDE DEF c
<1>4. Append(a.wire, c) \in Seq(Commands)
  BY <1>1, <1>2
<1>5. /\ d \in App /\ d.gen = a.gen /\ d.next = a.next /\ d.cycle = a.cycle /\ Talks(a, d)
      /\ d.wire = Append(a.wire, c) /\ d.commands = a.commands /\ d.requests = a.requests
      /\ d.pending = a.pending
  BY <1>1, <1>4 DEF Write, App, Talks
<1> HIDE DEF d
<1>6. /\ b \in App /\ b.gen = d.gen /\ b.next = d.next /\ b.cycle = d.cycle /\ Talks(d, b)
      /\ b.wire = d.wire /\ b.commands = a.commands \cup {c} /\ b.requests = d.requests
      /\ b.pending = d.pending
  BY <1>2, <1>5 DEF App, Talks
<1> HIDE DEF b
<1>7. Fit(b)
  BY <1>2, <1>5, <1>6 DEF Fit, Talks
<1>8. Talks(a, b)
  BY <1>5, <1>6 DEF Talks
<1> QED BY <1>2, <1>3, <1>5, <1>6, <1>7, <1>8 DEF c

\* A request is entered.
LEMMA Entered ==
    ASSUME NEW a, Fit(a), ~(a.next > MaxRequests)
    PROVE  LET b == [a EXCEPT !.next = @ + 1, !.requests = @ \cup {NewRequest(a)}]
           IN  /\ Fit(b) /\ Talks(a, b) /\ b.gen = a.gen /\ b.next = a.next + 1
               /\ b.cycle = a.cycle /\ b.wire = a.wire /\ b.commands = a.commands
               /\ a.next \in Ids
<1> DEFINE q == NewRequest(a)
           b == [a EXCEPT !.next = @ + 1, !.requests = @ \cup {q}]
<1>1. a \in App /\ a.next \in 1..(MaxRequests + 1) /\ a.gen \in Generations
  BY DEF Fit, App
<1>2. a.next \in Ids /\ a.next + 1 \in 1..(MaxRequests + 1)
  BY <1>1, Constants DEF Ids
<1>3. q \in [id : Ids, gen : Generations, faulted : BOOLEAN] /\ q.gen = a.gen
  BY <1>1, <1>2 DEF NewRequest
<1> HIDE DEF q
<1>4. /\ b \in App /\ Talks(a, b) /\ b.gen = a.gen /\ b.next = a.next + 1
      /\ b.cycle = a.cycle /\ b.wire = a.wire /\ b.commands = a.commands
      /\ b.requests = a.requests \cup {q} /\ b.pending = a.pending
  BY <1>1, <1>2, <1>3 DEF App, Talks
<1> HIDE DEF b
<1>5. Fit(b)
  BY <1>3, <1>4 DEF Fit, Talks
<1> QED BY <1>2, <1>4, <1>5 DEF b, q

\* A request that validate_request refuses ends the process.
LEMMA Refused ==
    ASSUME NEW a, Fit(a)
    PROVE  Moves(a, Fail(a, "request")) /\ Speaks(a, Fail(a, "request"))
<1>1. "request" \in Exits \ Forbidden
  BY DEF Exits, Forbidden
<1>2. Quiet(a, Fail(a, "request"))
  BY <1>1, Failed
<1>3. Speaks(a, Fail(a, "request"))
  BY DEF Fit, App, Fail, Speaks
<1> QED BY <1>2, <1>3, QuietMoves

\* queue_model_input
LEMMA QueueIs ==
    ASSUME NEW a, Fit(a), NEW valid \in BOOLEAN
    PROVE  Moves(a, QueueModelInput(a, valid)) /\ Speaks(a, QueueModelInput(a, valid))
<1>1. CASE ~MayQueue(a) \/ a.next > MaxRequests
  BY <1>1 DEF QueueModelInput, Moves, Speaks
<1>2. CASE ~(~MayQueue(a) \/ a.next > MaxRequests) /\ valid
  <2> DEFINE b == [a EXCEPT !.next = @ + 1, !.requests = @ \cup {NewRequest(a)}]
             r == Send(b, "queue", a.next)
             c == Cmd("queue", b.gen, a.next)
  <2>1. QueueModelInput(a, valid) = r
    BY <1>2 DEF QueueModelInput
  <2>2. /\ Fit(b) /\ Talks(a, b) /\ b.gen = a.gen /\ b.next = a.next + 1
        /\ b.cycle = a.cycle /\ b.wire = a.wire /\ b.commands = a.commands
        /\ a.next \in Ids
    BY <1>2, Entered
  <2> HIDE DEF b
  <2>3. "queue" \in Run
    BY DEF Run
  <2>4. /\ Fit(r) /\ Talks(b, r) /\ r.gen = b.gen /\ r.next = b.next /\ r.cycle = b.cycle
        /\ c \in Commands /\ c.gen = b.gen /\ c.kind = "queue" /\ c.id = a.next
        /\ r.wire = Append(b.wire, c) /\ r.commands = b.commands \cup {c}
    BY <2>2, <2>3, SendIs
  <2> HIDE DEF r, c
  <2>5. Sends(a, r, c)
    BY <2>2, <2>4 DEF Sends
  <2>6. Moves(a, r) /\ Speaks(a, r)
    BY <2>2, <2>4, <2>5 DEF Moves, Talks, Speaks
  <2> QED BY <2>1, <2>6
<1>3. CASE ~(~MayQueue(a) \/ a.next > MaxRequests) /\ ~valid
  <2>1. QueueModelInput(a, valid) = Fail(a, "request")
    BY <1>3 DEF QueueModelInput
  <2> QED BY <2>1, Refused
<1> QED BY <1>1, <1>2, <1>3

\* submit
LEMMA SubmitIs ==
    ASSUME NEW a, Fit(a), NEW valid \in BOOLEAN
    PROVE  Moves(a, Submit(a, valid)) /\ Speaks(a, Submit(a, valid))
<1>1. CASE Busy(a) \/ a.next > MaxRequests
  BY <1>1 DEF Submit, Moves, Speaks
<1>2. CASE ~(Busy(a) \/ a.next > MaxRequests) /\ valid
  <2> DEFINE e == [a EXCEPT !.next = @ + 1, !.requests = @ \cup {NewRequest(a)}]
             b == [e EXCEPT !.cycle = TRUE, !.seen = FALSE]
             r == Send(b, "prompt", a.next)
             c == Cmd("prompt", b.gen, a.next)
  <2>0. a \in App
    BY DEF Fit
  <2>1. Submit(a, valid) = r
    <3>1. b = [a EXCEPT !.next = @ + 1, !.requests = @ \cup {NewRequest(a)},
                        !.cycle = TRUE, !.seen = FALSE]
      BY <2>0 DEF App
    <3> HIDE DEF b
    <3> QED BY <1>2, <3>1 DEF Submit
  <2>2. /\ Fit(e) /\ Talks(a, e) /\ e.gen = a.gen /\ e.next = a.next + 1
        /\ e.wire = a.wire /\ e.commands = a.commands /\ a.next \in Ids
    BY <1>2, Entered
  <2> HIDE DEF e
  <2>3. /\ b \in App /\ Talks(e, b) /\ b.gen = e.gen /\ b.next = e.next /\ b.wire = e.wire
        /\ b.commands = e.commands /\ b.requests = e.requests /\ b.pending = e.pending
    BY <2>2 DEF Fit, App, Talks
  <2>4. b.cycle
    BY <2>2 DEF Fit, App
  <2> HIDE DEF b
  <2>5. Fit(b)
    BY <2>2, <2>3 DEF Fit, Talks
  <2>6. "prompt" \in Run
    BY DEF Run
  <2>7. /\ Fit(r) /\ Talks(b, r) /\ r.gen = b.gen /\ r.next = b.next /\ r.cycle = b.cycle
        /\ c \in Commands /\ c.gen = b.gen /\ c.kind = "prompt" /\ c.id = a.next
        /\ r.wire = Append(b.wire, c) /\ r.commands = b.commands \cup {c}
    BY <2>2, <2>5, <2>6, SendIs
  <2> HIDE DEF r, c
  <2>8. Sends(a, r, c)
    BY <1>2, <2>2, <2>3, <2>4, <2>7 DEF Sends, Busy
  <2>9. Moves(a, r) /\ Speaks(a, r)
    BY <2>2, <2>3, <2>7, <2>8 DEF Moves, Talks, Speaks
  <2> QED BY <2>1, <2>9
<1>3. CASE ~(Busy(a) \/ a.next > MaxRequests) /\ ~valid
  <2>1. Submit(a, valid) = Fail(a, "request")
    BY <1>3 DEF Submit
  <2> QED BY <2>1, Refused
<1> QED BY <1>1, <1>2, <1>3

\* request_agent_abort
LEMMA AbortIs ==
    ASSUME NEW a, Fit(a)
    PROVE  /\ Moves(a, RequestAgentAbort(a)) /\ Talks(a, RequestAgentAbort(a))
           /\ RequestAgentAbort(a).cycle = a.cycle
<1>1. CASE AbortPending(a)
  BY <1>1 DEF RequestAgentAbort, Moves, Talks
<1>2. CASE ~AbortPending(a)
  <2> DEFINE r == Send(a, "abort", 0)
             c == Cmd("abort", a.gen, 0)
  <2>1. RequestAgentAbort(a) = r
    BY <1>2 DEF RequestAgentAbort
  <2>2. "abort" \in Run /\ 0 \in Ids \cup {0}
    BY DEF Run
  <2>3. /\ Fit(r) /\ Talks(a, r) /\ r.gen = a.gen /\ r.next = a.next /\ r.cycle = a.cycle
        /\ c \in Commands /\ c.gen = a.gen /\ c.kind = "abort" /\ c.id = 0
        /\ r.wire = Append(a.wire, c) /\ r.commands = a.commands \cup {c}
    BY <2>2, SendIs
  <2> HIDE DEF r, c
  <2>4. Sends(a, r, c)
    BY <1>2, <2>3 DEF Sends
  <2>5. Moves(a, r)
    BY <2>3, <2>4 DEF Moves, Talks
  <2> QED BY <2>1, <2>3, <2>5
<1> QED BY <1>1, <1>2

\* The prompt was refused, or the run ended without a plan.
LEMMA NoNextStepIs ==
    ASSUME NEW a, Fit(a)
    PROVE  Quiet(a, NoNextStep(a)) /\ Idles(a, NoNextStep(a))
<1>1. CASE a.cruise.active
  <2> DEFINE cr == RecordPlannerMissing(a.cruise)
  <2>1. cr \in CruiseType /\ CruiseFit(cr)
    BY <1>1, Fields, CruiseIs
  <2>2. NoNextStep(a) = [a EXCEPT !.cruise = cr, !.due = FALSE]
    BY <1>1 DEF NoNextStep
  <2> HIDE DEF cr
  <2> QED BY <1>1, <2>1, <2>2, Cruised
<1>2. CASE ~a.cruise.active
  BY <1>2 DEF NoNextStep, Quiet, Idles
<1> QED BY <1>1, <1>2

\* What every frame leaves alone.
Common(a, b) ==
    /\ b.gen = a.gen /\ b.deferred = a.deferred /\ b.want = a.want
    /\ b.cruise.active => a.cruise.active

\* agent_end of the current generation
LEMMA HandleEndIs ==
    ASSUME NEW a, Fit(a)
    PROVE  LET b == HandleEnd(a, a.gen)
           IN  /\ Fit(b) /\ Common(a, b) /\ Idles(a, b) /\ b.next = a.next /\ ~b.cycle
               /\ b.wire = a.wire /\ b.commands = a.commands
               /\ b.exit = a.exit \/ b.exit \notin Forbidden
<1> DEFINE b == [a EXCEPT !.cycle = FALSE, !.requests = {}]
           c == IF a.seen THEN b ELSE NoNextStep(b)
           d == [c EXCEPT !.seen = FALSE]
<1>1. a \in App
  BY DEF Fit
<1>2. HandleEnd(a, a.gen) = d
  BY DEF HandleEnd
<1>3. /\ b \in App /\ b.gen = a.gen /\ b.next = a.next /\ b.wire = a.wire /\ b.deferred = a.deferred
      /\ b.commands = a.commands /\ b.want = a.want /\ b.requests = {} /\ b.cruise = a.cruise
      /\ b.execution = a.execution /\ b.sweep = a.sweep /\ b.pending = a.pending
      /\ b.exit = a.exit
  BY <1>1 DEF App
<1>4. ~b.cycle
  BY <1>1 DEF App
<1> HIDE DEF b
<1>5. Fit(b)
  BY <1>3 DEF Fit
<1>6. Quiet(b, c) /\ Idles(b, c)
  BY <1>5, NoNextStepIs DEF Quiet, Idles
<1> HIDE DEF c
<1>7. c \in App
  BY <1>6 DEF Quiet, Fit
<1>8. /\ d \in App /\ d.gen = c.gen /\ d.next = c.next /\ d.wire = c.wire /\ d.deferred = c.deferred
      /\ d.commands = c.commands /\ d.want = c.want /\ d.requests = c.requests
      /\ d.cruise = c.cruise /\ d.cycle = c.cycle
      /\ d.execution = c.execution /\ d.sweep = c.sweep /\ d.pending = c.pending
      /\ d.exit = c.exit
  BY <1>7 DEF App
<1> HIDE DEF d
<1>9. Fit(d)
  BY <1>6, <1>8 DEF Fit, Quiet
<1> QED BY <1>2, <1>3, <1>4, <1>6, <1>8, <1>9 DEF Quiet, Idles, Common

\* The clauses of handle_session_response that a known response meets.
LEMMA ResponseCases ==
    ASSUME NEW a, NEW f
    PROVE  LET c == f.cmd
               r == HandleResponse(a, f)
               b == [a EXCEPT !.commands = @ \ {c}]
               forgotten == [b EXCEPT !.requests = {q \in @ : q.id # c.id}]
           IN
           /\ c \notin a.commands /\ c.gen # a.gen => r = a
           /\ c \in a.commands /\ c.gen = a.gen /\ ~f.ok /\ c.kind = "prompt" =>
                r = NoNextStep([forgotten EXCEPT !.cycle = FALSE, !.seen = FALSE])
           /\ c \in a.commands /\ c.gen = a.gen /\ ~f.ok /\ c.kind = "queue" => r = forgotten
           /\ c \in a.commands /\ c.gen = a.gen /\ ~(~f.ok /\ c.kind \in {"prompt", "queue"}) =>
                r = b
<1> DEFINE c == f.cmd
           r == HandleResponse(a, f)
           b == [a EXCEPT !.commands = @ \ {c}]
           forgotten == [b EXCEPT !.requests = {q \in @ : q.id # c.id}]
<1>1. "prompt" # "queue"
  OBVIOUS
<1>2. ASSUME c \notin a.commands, c.gen # a.gen PROVE r = a
  BY <1>2, Zenon DEF HandleResponse
<1>3. ASSUME c \in a.commands, c.gen = a.gen, ~f.ok, c.kind = "prompt"
      PROVE  r = NoNextStep([forgotten EXCEPT !.cycle = FALSE, !.seen = FALSE])
  BY <1>1, <1>3, Zenon DEF HandleResponse
<1>4. ASSUME c \in a.commands, c.gen = a.gen, ~f.ok, c.kind = "queue"
      PROVE  r = forgotten
  BY <1>1, <1>4, Zenon DEF HandleResponse
<1>5. ASSUME c \in a.commands, c.gen = a.gen, ~(~f.ok /\ c.kind \in {"prompt", "queue"})
      PROVE  r = b
  BY <1>1, <1>5, Zenon DEF HandleResponse
<1> HIDE DEF c, r, b, forgotten
<1>6. /\ c \notin a.commands /\ c.gen # a.gen => r = a
      /\ c \in a.commands /\ c.gen = a.gen /\ ~f.ok /\ c.kind = "prompt" =>
           r = NoNextStep([forgotten EXCEPT !.cycle = FALSE, !.seen = FALSE])
      /\ c \in a.commands /\ c.gen = a.gen /\ ~f.ok /\ c.kind = "queue" => r = forgotten
      /\ c \in a.commands /\ c.gen = a.gen /\ ~(~f.ok /\ c.kind \in {"prompt", "queue"}) => r = b
  BY <1>2, <1>3, <1>4, <1>5, Zenon
<1> QED BY <1>6, Zenon DEF c, r, b, forgotten

\* A command is answered; its request is forgotten; its run has not begun.
Heard(a, c) == [a EXCEPT !.commands = @ \ {c}]
Forgot(a, c) == [Heard(a, c) EXCEPT !.requests = {q \in @ : q.id # c.id}]
Undone(a, c) == [Forgot(a, c) EXCEPT !.cycle = FALSE, !.seen = FALSE]

\* What they leave alone.
LEMMA Answered ==
    ASSUME NEW a, Fit(a), NEW c
    PROVE  /\ \A x \in {Heard(a, c), Forgot(a, c), Undone(a, c)} :
                /\ Fit(x) /\ Common(a, x) /\ Idles(a, x) /\ x.next = a.next
                /\ x.wire = a.wire /\ x.commands = a.commands \ {c} /\ x.exit = a.exit
           /\ Heard(a, c).cycle = a.cycle /\ Forgot(a, c).cycle = a.cycle /\ ~Undone(a, c).cycle
<1> DEFINE b == [a EXCEPT !.commands = @ \ {c}]
           g == [b EXCEPT !.requests = {q \in @ : q.id # c.id}]
           h == [g EXCEPT !.cycle = FALSE, !.seen = FALSE]
           Like(x, y) == /\ y \in App /\ y.gen = x.gen /\ y.deferred = x.deferred
                         /\ y.want = x.want /\ y.cruise = x.cruise /\ y.execution = x.execution
                         /\ y.sweep = x.sweep /\ y.next = x.next /\ y.wire = x.wire
                         /\ y.exit = x.exit /\ y.pending = x.pending
<1>0. a \in App
  BY DEF Fit
<1>1. Like(a, b) /\ b.commands = a.commands \ {c} /\ b.requests = a.requests /\ b.cycle = a.cycle
  BY <1>0 DEF App
<1> HIDE DEF b
<1>2. /\ Like(b, g) /\ g.commands = b.commands /\ g.requests \subseteq b.requests
      /\ g.cycle = b.cycle
  BY <1>1 DEF App
<1> HIDE DEF g
<1>3. Like(g, h) /\ h.commands = g.commands /\ h.requests = g.requests
  BY <1>2 DEF App
<1>4. ~h.cycle
  BY <1>2 DEF App
<1> HIDE DEF h
<1>5. ASSUME NEW x, Like(a, x), x.commands = a.commands \ {c}, x.requests \subseteq a.requests
      PROVE  /\ Fit(x) /\ Common(a, x) /\ Idles(a, x) /\ x.next = a.next
             /\ x.wire = a.wire /\ x.commands = a.commands \ {c} /\ x.exit = a.exit
  BY <1>5 DEF Fit, Common, Idles
<1>6. Like(a, g) /\ Like(a, h)
  BY <1>1, <1>2, <1>3
<1> HIDE DEF Like
<1>7. \A x \in {b, g, h} :
        Like(a, x) /\ x.commands = a.commands \ {c} /\ x.requests \subseteq a.requests
  BY <1>1, <1>2, <1>3, <1>6
<1> QED BY <1>1, <1>2, <1>4, <1>5, <1>7 DEF b, g, h, Heard, Forgot, Undone

\* What a known response does.
Responds(a, f, b) ==
    /\ Fit(b) /\ Common(a, b) /\ Idles(a, b) /\ b.next = a.next /\ b.wire = a.wire
    /\ b.commands = a.commands \ {f.cmd}
    /\ b.cycle = a.cycle \/ (~b.cycle /\ Ending(f))
    /\ Ending(f) => ~b.cycle
    /\ b.exit = a.exit \/ b.exit \notin Forbidden

\* handle_session_response, for a response that is known.
LEMMA ResponseIs ==
    ASSUME NEW a, Fit(a), NEW f, f.type = "response",
           f.cmd.gen = a.gen => f.cmd \in a.commands,
           Ending(f) => f.cmd.gen = a.gen
    PROVE  Responds(a, f, HandleResponse(a, f))
<1> DEFINE c == f.cmd
           r == HandleResponse(a, f)
           b == Heard(a, c)
           g == Forgot(a, c)
           h == Undone(a, c)
           Ok(x) == /\ Fit(x) /\ Common(a, x) /\ Idles(a, x) /\ x.next = a.next
                    /\ x.wire = a.wire /\ x.commands = a.commands \ {c} /\ x.exit = a.exit
<1> HIDE DEF r
<1>1. /\ c \notin a.commands /\ c.gen # a.gen => r = a
      /\ c \in a.commands /\ c.gen = a.gen /\ ~f.ok /\ c.kind = "prompt" => r = NoNextStep(h)
      /\ c \in a.commands /\ c.gen = a.gen /\ ~f.ok /\ c.kind = "queue" => r = g
      /\ c \in a.commands /\ c.gen = a.gen /\ ~(~f.ok /\ c.kind \in {"prompt", "queue"}) => r = b
  BY ResponseCases, Zenon DEF r, Heard, Forgot, Undone
<1>0. /\ \A x \in {b, g, h} :
           /\ Fit(x) /\ Common(a, x) /\ Idles(a, x) /\ x.next = a.next
           /\ x.wire = a.wire /\ x.commands = a.commands \ {c} /\ x.exit = a.exit
      /\ b.cycle = a.cycle /\ g.cycle = a.cycle /\ ~h.cycle
  BY Answered
<1> HIDE DEF b, g, h, c
<1>2. Ok(b) /\ Ok(g) /\ Ok(h) /\ b.cycle = a.cycle /\ g.cycle = a.cycle /\ ~h.cycle
  BY <1>0, Zenon
<1>3. CASE c.gen # a.gen
  <2>1. c \notin a.commands
    BY <1>3 DEF Fit, c
  <2>2. r = a /\ ~Ending(f)
    BY <1>1, <1>3, <2>1 DEF c
  <2> QED BY <2>1, <2>2 DEF Responds, Common, Idles, r, c
<1>4. CASE c.gen = a.gen /\ ~f.ok /\ c.kind = "prompt"
  <2>1. r = NoNextStep(h) /\ Ending(f)
    BY <1>1, <1>4 DEF Ending, IsResponse, c
  <2>2. Quiet(h, r) /\ Idles(h, r)
    BY <1>2, <2>1, NoNextStepIs
  <2>3. Fit(r) /\ ~r.cycle /\ r.next = a.next /\ r.wire = a.wire /\ r.commands = a.commands \ {c}
    BY <1>2, <2>2 DEF Quiet
  <2>4. Common(a, r) /\ Idles(a, r) /\ (r.exit = a.exit \/ r.exit \notin Forbidden)
    BY <1>2, <2>2, IdleTwice DEF Quiet, Common
  <2> QED BY <2>1, <2>3, <2>4 DEF Responds, r, c
<1>5. CASE c.gen = a.gen /\ ~(~f.ok /\ c.kind = "prompt")
  <2>1. (r = g \/ r = b) /\ ~Ending(f)
    BY <1>1, <1>5 DEF Ending, IsResponse, c
  <2>2. Ok(r) /\ r.cycle = a.cycle
    BY <1>2, <2>1
  <2> QED BY <2>1, <2>2 DEF Responds, r, c
<1> QED BY <1>3, <1>4, <1>5

\* A plan of the current generation is noted, and what becomes of it then.
Noted(a) == [a EXCEPT !.seen = TRUE, !.cruise.planner = 0]
Chosen(a, p, sdr) ==
    CASE a.cruise.active /\ a.cruise.auto -> Cruise(Noted(a), p, sdr)
      [] ~a.cruise.auto /\ p.action \in Executable ->
           IF a.pending = NoPlan THEN [Noted(a) EXCEPT !.pending = p]
           ELSE Fail(Noted(a), "plan pending")
      [] OTHER -> Noted(a)

\* The clauses of plan_proposed.
LEMMA PlanCases ==
    ASSUME NEW a, NEW p, NEW sdr
    PROVE  LET c == Chosen(a, p, sdr)
               r == HandlePlan(a, p, sdr)
           IN  \/ r = a \/ r = Fail(a, "unknown request") \/ r = Fail(a, "policy")
               \/ p.gen = a.gen /\ (r = c \/ r = RequestAgentAbort(c))
<1> DEFINE c == Chosen(a, p, sdr)
           r == HandlePlan(a, p, sdr)
           none == ~\E q \in a.requests : q.id = p.id
           bad == \E q \in a.requests : q.id = p.id /\ ~Valid(p, q)
<1>1. ASSUME p.gen # a.gen PROVE r = a
  BY <1>1, Zenon DEF HandlePlan
<1>2. ASSUME p.gen = a.gen, none PROVE r = Fail(a, "unknown request")
  BY <1>2, Zenon DEF HandlePlan
<1>3. ASSUME p.gen = a.gen, bad PROVE r = Fail(a, "policy")
  BY <1>3, Zenon DEF HandlePlan
<1>4. ASSUME p.gen = a.gen, ~none, ~bad
      PROVE  r = IF c.exit = "no" /\ c.cycle /\ p.action \in Executable
                 THEN RequestAgentAbort(c) ELSE c
  BY <1>4, Zenon DEF HandlePlan, Chosen, Noted
<1> HIDE DEF c, r, none, bad
<1>5. \/ r = a \/ r = Fail(a, "unknown request") \/ r = Fail(a, "policy")
      \/ p.gen = a.gen /\ (r = c \/ r = RequestAgentAbort(c))
  BY <1>1, <1>2, <1>3, <1>4
<1> QED BY <1>5 DEF c, r

\* ... and of what is made of the plan.
LEMMA ChosenCases ==
    ASSUME NEW a, NEW p, NEW sdr
    PROVE  LET b == Noted(a)
               c == Chosen(a, p, sdr)
           IN  \/ c = b \/ c = Fail(b, "plan pending")
               \/ p.action \in Executable /\ c = [b EXCEPT !.pending = p]
               \/ a.cruise.active /\ c = Cruise(b, p, sdr)
<1> DEFINE b == Noted(a)
           c == Chosen(a, p, sdr)
<1>1. ASSUME a.cruise.active, a.cruise.auto PROVE c = Cruise(b, p, sdr)
  BY <1>1, Zenon DEF Chosen
<1>2. ASSUME ~a.cruise.auto, p.action \in Executable
      PROVE  c = IF a.pending = NoPlan THEN [b EXCEPT !.pending = p] ELSE Fail(b, "plan pending")
  BY <1>2, Zenon DEF Chosen
<1>3. ASSUME ~(a.cruise.active /\ a.cruise.auto), ~(~a.cruise.auto /\ p.action \in Executable)
      PROVE  c = b
  BY <1>3, Zenon DEF Chosen
<1> HIDE DEF b, c
<1>4. \/ c = b \/ c = Fail(b, "plan pending")
      \/ p.action \in Executable /\ c = [b EXCEPT !.pending = p]
      \/ a.cruise.active /\ c = Cruise(b, p, sdr)
  BY <1>1, <1>2, <1>3
<1> QED BY <1>4 DEF b, c

\* A plan is left for the operator.
LEMMA Pended ==
    ASSUME NEW a, Fit(a), NEW p \in Plans, p.gen = a.gen, p.action \in Executable,
           NEW cr \in CruiseType, CruiseFit(cr), cr.active => a.cruise.active
    PROVE  /\ Quiet(a, [a EXCEPT !.pending = p, !.cruise = cr])
           /\ Idles(a, [a EXCEPT !.pending = p, !.cruise = cr])
<1> DEFINE b == [a EXCEPT !.pending = p, !.cruise = cr]
<1>1. a \in App
  BY Fields
<1>2. b \in App /\ Rest(a, b) /\ Idles(a, b)
  BY <1>1 DEF App, Rest, Idles
<1>3. b.cruise = cr /\ b.pending = p /\ b.exit = a.exit
  BY <1>1 DEF App
<1> HIDE DEF b
<1>4. Quiet(a, b)
  BY <1>2, <1>3 DEF Fit, Rest, Idles, Quiet
<1> QED BY <1>2, <1>4 DEF b

\* A plan is noted.
LEMMA NotedIs ==
    ASSUME NEW a, Fit(a)
    PROVE  /\ Quiet(a, Noted(a)) /\ Noted(a).execution = a.execution /\ Noted(a).sweep = a.sweep
           /\ Noted(a).cruise \in CruiseType /\ CruiseFit(Noted(a).cruise)
           /\ Noted(a).cruise.active = a.cruise.active /\ Noted(a).cruise.used = a.cruise.used
<1> DEFINE cr == [a.cruise EXCEPT !.planner = 0]
           b == [a EXCEPT !.seen = TRUE, !.cruise = cr]
<1>1. a \in App /\ a.cruise \in CruiseType /\ CruiseFit(a.cruise)
  BY Fields
<1>2. cr \in CruiseType /\ CruiseFit(cr) /\ cr.active = a.cruise.active /\ cr.used = a.cruise.used
  BY <1>1, CruiseIs DEF CruiseType
<1>3. Noted(a) = b
  BY DEF Noted
<1> HIDE DEF cr
<1>4. b \in App /\ Rest(a, b) /\ Idles(a, b)
  BY <1>1, <1>2 DEF App, Rest, Idles
<1>5. /\ b.cruise = cr /\ b.pending = a.pending /\ b.exit = a.exit
      /\ b.execution = a.execution /\ b.sweep = a.sweep
  BY <1>1 DEF App
<1> HIDE DEF b
<1>6. Quiet(a, b)
  BY <1>2, <1>4, <1>5, QuietIf
<1> QED BY <1>2, <1>3, <1>5, <1>6

\* The clauses of what a cruise does with a plan.
LEMMA CruiseCases ==
    ASSUME NEW a, NEW p, NEW sdr
    PROVE  LET c == Cruise(a, p, sdr)
           IN  \/ p.action \in Executable /\ c = [a EXCEPT !.pending = p, !.cruise = CruiseStop(@)]
               \/ ~ApprovalRequired(p) /\ p.action \in Executable /\ c = Start(a, p, sdr)
               \/ c = [a EXCEPT !.cruise = CruiseStop(@)]
<1> DEFINE c == Cruise(a, p, sdr)
<1>1. ASSUME ApprovalRequired(p)
      PROVE  c = [a EXCEPT !.pending = p, !.cruise = CruiseStop(@)]
  BY <1>1, Zenon DEF Cruise
<1>2. ASSUME ~ApprovalRequired(p), p.action \in Executable PROVE c = Start(a, p, sdr)
  BY <1>2, Zenon DEF Cruise
<1>3. ASSUME ~ApprovalRequired(p), p.action \notin Executable
      PROVE  c = [a EXCEPT !.cruise = CruiseStop(@)]
  BY <1>3, Zenon DEF Cruise
<1>4. ApprovalRequired(p) => p.action \in Executable
  BY DEF ApprovalRequired, Executable
<1> HIDE DEF c
<1>5. \/ p.action \in Executable /\ c = [a EXCEPT !.pending = p, !.cruise = CruiseStop(@)]
      \/ ~ApprovalRequired(p) /\ p.action \in Executable /\ c = Start(a, p, sdr)
      \/ c = [a EXCEPT !.cruise = CruiseStop(@)]
  BY <1>1, <1>2, <1>3, <1>4
<1> QED BY <1>5 DEF c

\* What a cruise may start.
Cruises(a, b) ==
    /\ Starts(a.execution, b.execution) => a.cruise.active /\ b.execution.bytes <= AutoBytes
    /\ Starts(a.sweep, b.sweep) => a.cruise.active /\ a.cruise.used + b.sweep.bytes <= Budget

\* A method that starts nothing keeps to it.
LEMMA IdleCruises ==
    ASSUME NEW a, NEW b, Idles(a, b)
    PROVE  Cruises(a, b)
  BY DEF Idles, Cruises, Starts

\* What an active cruise does with a plan.
LEMMA CruiseStepIs ==
    ASSUME NEW a, Fit(a), a.cruise.active, NEW p \in Plans, p.gen = a.gen, NEW sdr \in Sdr
    PROVE  Quiet(a, Cruise(a, p, sdr)) /\ Cruises(a, Cruise(a, p, sdr))
<1> DEFINE c == Cruise(a, p, sdr)
           cr == CruiseStop(a.cruise)
<1>1. a.cruise \in CruiseType /\ CruiseFit(a.cruise)
  BY Fields
<1>2. cr \in CruiseType /\ CruiseFit(cr) /\ ~cr.active
  BY <1>1, CruiseIs DEF CruiseFit
<1>3. \/ p.action \in Executable /\ c = [a EXCEPT !.pending = p, !.cruise = cr]
      \/ ~ApprovalRequired(p) /\ p.action \in Executable /\ c = Start(a, p, sdr)
      \/ c = [a EXCEPT !.cruise = cr]
  BY CruiseCases
<1> HIDE DEF c, cr
<1>4. CASE p.action \in Executable /\ c = [a EXCEPT !.pending = p, !.cruise = cr]
  <2>1. Quiet(a, c) /\ Idles(a, c)
    BY <1>2, <1>4, Pended
  <2> QED BY <2>1, IdleCruises DEF c
<1>5. CASE ~ApprovalRequired(p) /\ p.action \in Executable /\ c = Start(a, p, sdr)
  <2>1. Quiet(a, c) /\ Started(a, p, c)
    BY <1>5, StartIs
  <2>2. p.action = "capture" => p.bytes <= AutoBytes
    BY <1>5, Constants DEF ApprovalRequired, Plans
  <2>3. ~OverBudget(a.cruise) => a.cruise.used + SweepBytes <= Budget
    BY <1>1, ConsoleAssumption DEF OverBudget, RemainingBytes, CruiseType
  <2>4. Cruises(a, c)
    BY <2>1, <2>2, <2>3 DEF Started, Cruises
  <2> QED BY <2>1, <2>4 DEF c
<1>6. CASE c = [a EXCEPT !.cruise = cr]
  <2>1. Quiet(a, c) /\ Idles(a, c)
    BY <1>2, <1>6, Cruised
  <2> QED BY <2>1, IdleCruises DEF c
<1> QED BY <1>3, <1>4, <1>5, <1>6

\* plan_proposed
LEMMA PlanIs ==
    ASSUME NEW a, Fit(a), NEW p \in Plans, NEW sdr \in Sdr
    PROVE  LET r == HandlePlan(a, p, sdr)
           IN  Moves(a, r) /\ Common(a, r) /\ Cruises(a, r)
<1> DEFINE b == Noted(a)
           c == Chosen(a, p, sdr)
           r == HandlePlan(a, p, sdr)
<1>1. \/ r = a \/ r = Fail(a, "unknown request") \/ r = Fail(a, "policy")
      \/ p.gen = a.gen /\ (r = c \/ r = RequestAgentAbort(c))
  BY PlanCases
<1>2. \/ c = b \/ c = Fail(b, "plan pending")
      \/ p.action \in Executable /\ c = [b EXCEPT !.pending = p]
      \/ a.cruise.active /\ c = Cruise(b, p, sdr)
  BY ChosenCases
<1>3. /\ Quiet(a, b) /\ b.execution = a.execution /\ b.sweep = a.sweep
      /\ b.cruise \in CruiseType /\ CruiseFit(b.cruise)
      /\ b.cruise.active = a.cruise.active /\ b.cruise.used = a.cruise.used
  BY NotedIs
<1>4. "unknown request" \in Exits \ Forbidden /\ "policy" \in Exits \ Forbidden
      /\ "plan pending" \in Exits \ Forbidden
  BY DEF Exits, Forbidden
<1> HIDE DEF b, c, r
<1>5. ASSUME NEW x, Quiet(a, x) PROVE Moves(a, x) /\ Common(a, x)
  BY <1>5, QuietMoves DEF Quiet, Common
<1>6. CASE r = a
  BY <1>6 DEF Moves, Common, Cruises, Starts, r
<1>7. CASE r = Fail(a, "unknown request") \/ r = Fail(a, "policy")
  <2>1. Quiet(a, r) /\ Idles(a, r)
    BY <1>4, <1>7, Failed
  <2> QED BY <1>5, <2>1, IdleCruises DEF r
<1>8. CASE p.gen = a.gen /\ (r = c \/ r = RequestAgentAbort(c))
  <2>1. Fit(b) /\ p.gen = b.gen
    BY <1>3, <1>8 DEF Quiet
  <2>2. Quiet(b, c) /\ Cruises(b, c)
    <3>1. CASE c = b
      BY <2>1, <3>1 DEF Quiet, Cruises, Starts
    <3>2. CASE c = Fail(b, "plan pending")
      BY <1>4, <2>1, <3>2, Failed, IdleCruises
    <3>3. CASE p.action \in Executable /\ c = [b EXCEPT !.pending = p]
      <4> DEFINE cr == b.cruise
      <4>1. b \in App
        BY <2>1 DEF Fit
      <4>2. [b EXCEPT !.pending = p] = [b EXCEPT !.pending = p, !.cruise = cr]
        BY <4>1 DEF App
      <4>3. cr \in CruiseType /\ CruiseFit(cr) /\ (cr.active => b.cruise.active)
        BY <1>3
      <4> HIDE DEF cr
      <4>4. Quiet(b, c) /\ Idles(b, c)
        BY <2>1, <3>3, <4>2, <4>3, Pended
      <4> QED BY <4>4, IdleCruises
    <3>4. CASE a.cruise.active /\ c = Cruise(b, p, sdr)
      BY <1>3, <2>1, <3>4, CruiseStepIs
    <3> QED BY <1>2, <3>1, <3>2, <3>3, <3>4
  <2>3. Quiet(a, c) /\ Cruises(a, c)
    BY <1>3, <2>2, QuietTwice DEF Cruises
  <2>4. CASE r = c
    BY <1>5, <2>3, <2>4 DEF r
  <2>5. CASE r = RequestAgentAbort(c)
    <3>1. Moves(c, r) /\ Talks(c, r)
      BY <2>3, <2>5, AbortIs DEF Quiet
    <3>2. Moves(a, r)
      BY <2>3, <3>1, QuietThenMoves
    <3>3. Common(a, r) /\ Cruises(a, r)
      BY <2>3, <3>1, <3>2 DEF Quiet, Talks, Common, Cruises, Moves
    <3> QED BY <3>2, <3>3 DEF r
  <2> QED BY <1>8, <2>4, <2>5
<1> QED BY <1>1, <1>6, <1>7, <1>8

\* The two flags that ask for a renewal are the only ones that may change.
Flags(a, b) ==
    /\ Fit(b) /\ b.gen = a.gen /\ b.next = a.next /\ b.cycle = a.cycle /\ b.wire = a.wire
    /\ b.commands = a.commands /\ b.cruise = a.cruise /\ b.execution = a.execution
    /\ b.sweep = a.sweep /\ b.exit = a.exit

\* They are set.
LEMMA Flagged ==
    ASSUME NEW a, Fit(a)
    PROVE  /\ \A w \in {"idle", "holding"} :
                Flags(a, [a EXCEPT !.want = w]) /\ [a EXCEPT !.want = w].deferred = a.deferred
           /\ Flags(a, [a EXCEPT !.deferred = TRUE]) /\ [a EXCEPT !.deferred = TRUE].want = a.want
           /\ Flags(a, [a EXCEPT !.deferred = FALSE])
           /\ ~[a EXCEPT !.deferred = FALSE].deferred
           /\ Flags(a, [a EXCEPT !.deferred = FALSE, !.want = "holding"])
           /\ ~[a EXCEPT !.deferred = FALSE, !.want = "holding"].deferred
<1>1. a \in App
  BY Fields
<1>2. ASSUME NEW w \in {"idle", "holding"}
      PROVE  Flags(a, [a EXCEPT !.want = w]) /\ [a EXCEPT !.want = w].deferred = a.deferred
  <2> DEFINE b == [a EXCEPT !.want = w]
  <2>1. /\ b \in App /\ b.gen = a.gen /\ b.next = a.next /\ b.cycle = a.cycle /\ b.wire = a.wire
        /\ b.commands = a.commands /\ b.cruise = a.cruise /\ b.execution = a.execution
        /\ b.sweep = a.sweep /\ b.exit = a.exit /\ b.pending = a.pending
        /\ b.requests = a.requests /\ b.deferred = a.deferred
    BY <1>1 DEF App
  <2> HIDE DEF b
  <2>2. Fit(b)
    BY <2>1 DEF Fit
  <2> QED BY <2>1, <2>2 DEF Flags, b
<1>3. Flags(a, [a EXCEPT !.deferred = TRUE]) /\ [a EXCEPT !.deferred = TRUE].want = a.want
  <2> DEFINE b == [a EXCEPT !.deferred = TRUE]
  <2>1. /\ b \in App /\ b.gen = a.gen /\ b.next = a.next /\ b.cycle = a.cycle /\ b.wire = a.wire
        /\ b.commands = a.commands /\ b.cruise = a.cruise /\ b.execution = a.execution
        /\ b.sweep = a.sweep /\ b.exit = a.exit /\ b.pending = a.pending
        /\ b.requests = a.requests /\ b.want = a.want
    BY <1>1 DEF App
  <2> HIDE DEF b
  <2>2. Fit(b)
    BY <2>1 DEF Fit
  <2> QED BY <2>1, <2>2 DEF Flags, b
<1>4. Flags(a, [a EXCEPT !.deferred = FALSE]) /\ ~[a EXCEPT !.deferred = FALSE].deferred
  <2> DEFINE b == [a EXCEPT !.deferred = FALSE]
  <2>1. /\ b \in App /\ b.gen = a.gen /\ b.next = a.next /\ b.cycle = a.cycle /\ b.wire = a.wire
        /\ b.commands = a.commands /\ b.cruise = a.cruise /\ b.execution = a.execution
        /\ b.sweep = a.sweep /\ b.exit = a.exit /\ b.pending = a.pending
        /\ b.requests = a.requests
    BY <1>1 DEF App
  <2>2. ~b.deferred
    BY <1>1 DEF App
  <2> HIDE DEF b
  <2>3. Fit(b)
    BY <2>1 DEF Fit
  <2> QED BY <2>1, <2>2, <2>3 DEF Flags, b
<1>5. /\ Flags(a, [a EXCEPT !.deferred = FALSE, !.want = "holding"])
      /\ ~[a EXCEPT !.deferred = FALSE, !.want = "holding"].deferred
  <2> DEFINE b == [a EXCEPT !.deferred = FALSE, !.want = "holding"]
  <2>1. /\ b \in App /\ b.gen = a.gen /\ b.next = a.next /\ b.cycle = a.cycle /\ b.wire = a.wire
        /\ b.commands = a.commands /\ b.cruise = a.cruise /\ b.execution = a.execution
        /\ b.sweep = a.sweep /\ b.exit = a.exit /\ b.pending = a.pending
        /\ b.requests = a.requests
    BY <1>1 DEF App
  <2>2. ~b.deferred
    BY <1>1 DEF App
  <2> HIDE DEF b
  <2>3. Fit(b)
    BY <2>1 DEF Fit
  <2> QED BY <2>1, <2>2, <2>3 DEF Flags, b
<1> QED BY <1>2, <1>3, <1>4, <1>5

\* Nothing is sent.
Still(a, b) ==
    /\ Fit(b) /\ b.gen = a.gen /\ b.next = a.next /\ b.cycle = a.cycle /\ b.wire = a.wire
    /\ b.commands = a.commands
    /\ b.exit = a.exit \/ b.exit \notin Forbidden

\* Such methods follow those that send.
LEMMA MovesThenStill ==
    ASSUME NEW a, NEW b, NEW c, Moves(a, b), Still(b, c)
    PROVE  Moves(a, c)
<1>1. ASSUME NEW x, Sends(a, b, x) PROVE Sends(a, c, x)
  BY <1>1 DEF Still, Sends
<1> QED BY <1>1 DEF Still, Moves

\* A hardware step ends, and perhaps a renewal is asked for: not together with
\* a new deferred one, unless the cycle forbids it.
Ends(a, b) ==
    /\ Still(a, b) /\ Idles(a, b)
    /\ b.cruise.active => a.cruise.active
    /\ b.want = "no" \/ b.cycle \/ (b.deferred => a.deferred)

\* What is quiet and then sets the flags.
LEMMA QuietFlags ==
    ASSUME NEW a, NEW b, NEW c, Quiet(a, b), Idles(a, b), Flags(b, c)
    PROVE  Still(a, c) /\ Idles(a, c) /\ (c.cruise.active => a.cruise.active)
  BY DEF Quiet, Flags, Still, Idles

\* A quiet method ends a step.
LEMMA QuietEnds ==
    ASSUME NEW a, NEW b, Quiet(a, b), Idles(a, b)
    PROVE  Ends(a, b)
  BY DEF Quiet, Ends, Still

\* ... also when it asks for a renewal.
LEMMA RenewedEnds ==
    ASSUME NEW a, NEW b, Quiet(a, b), Idles(a, b)
    PROVE  Ends(a, Renewed(b))
<1> DEFINE c == [b EXCEPT !.want = "holding"]
<1>1. Flags(b, c) /\ c.deferred = b.deferred
  BY Flagged DEF Quiet
<1> HIDE DEF c
<1>2. Ends(a, c)
  BY <1>1, QuietFlags DEF Ends, Quiet
<1>3. Renewed(b) = b \/ Renewed(b) = c
  BY DEF Renewed, c
<1> QED BY <1>2, <1>3, QuietEnds

\* The clauses of stop_sweep and stop_execution.
LEMMA StopSweepCases ==
    ASSUME NEW a, NEW cancelled, NEW sdr
    PROVE  LET r == StopSweep(a, cancelled, sdr)
           IN  r = Renewed([a EXCEPT !.sweep = NoWork]) \/ r = Renewed(PollSweep(a, sdr)) \/ r = a
<1> DEFINE r == StopSweep(a, cancelled, sdr)
<1>1. ASSUME cancelled PROVE r = Renewed([a EXCEPT !.sweep = NoWork])
  BY <1>1, Zenon DEF StopSweep
<1>2. ASSUME ~cancelled, a.sweep.result # "running" PROVE r = Renewed(PollSweep(a, sdr))
  BY <1>2, Zenon DEF StopSweep
<1>3. ASSUME ~cancelled, ~(a.sweep.result # "running") PROVE r = a
  BY <1>3, Zenon DEF StopSweep
<1> HIDE DEF r
<1>4. r = Renewed([a EXCEPT !.sweep = NoWork]) \/ r = Renewed(PollSweep(a, sdr)) \/ r = a
  BY <1>1, <1>2, <1>3, Zenon
<1> QED BY <1>4 DEF r

\* stop_execution
LEMMA StopExecutionCases ==
    ASSUME NEW a, NEW cancelled, NEW sdr
    PROVE  LET b == [a EXCEPT !.execution = NoWork]
               r == StopExecution(a, cancelled, sdr)
           IN  \/ a.cycle /\ r = [b EXCEPT !.deferred = TRUE]
               \/ r = Renewed(b) \/ r = Renewed(PollExecution(a, sdr)) \/ r = a
<1> DEFINE b == [a EXCEPT !.execution = NoWork]
           r == StopExecution(a, cancelled, sdr)
<1>1. ASSUME cancelled
      PROVE  r = IF a.cycle THEN [b EXCEPT !.deferred = TRUE] ELSE Renewed(b)
  BY <1>1, Zenon DEF StopExecution
<1>2. ASSUME ~cancelled, a.execution.result # "running" PROVE r = Renewed(PollExecution(a, sdr))
  BY <1>2, Zenon DEF StopExecution
<1>3. ASSUME ~cancelled, ~(a.execution.result # "running") PROVE r = a
  BY <1>3, Zenon DEF StopExecution
<1> HIDE DEF r, b
<1>4. \/ a.cycle /\ r = [b EXCEPT !.deferred = TRUE]
      \/ r = Renewed(b) \/ r = Renewed(PollExecution(a, sdr)) \/ r = a
  BY <1>1, <1>2, <1>3, Zenon
<1> QED BY <1>4 DEF r, b

\* Both end a step.
LEMMA StopHardware ==
    ASSUME NEW a, Fit(a), NEW cancelled, NEW sdr \in Sdr
    PROVE  Ends(a, StopSweep(a, cancelled, sdr)) /\ Ends(a, StopExecution(a, cancelled, sdr))
<1>1. Ends(a, a)
  BY DEF Ends, Still, Idles
<1>2. Ends(a, StopSweep(a, cancelled, sdr))
  <2> DEFINE b == [a EXCEPT !.sweep = NoWork]
             d == PollSweep(a, sdr)
             r == StopSweep(a, cancelled, sdr)
  <2>1. r = Renewed(b) \/ r = Renewed(d) \/ r = a
    BY StopSweepCases
  <2>2. Quiet(a, b) /\ Idles(a, b) /\ Quiet(a, d) /\ Idles(a, d)
    BY Taken, PollSweepIs
  <2> HIDE DEF b, d, r
  <2>3. Ends(a, r)
    BY <1>1, <2>1, <2>2, RenewedEnds
  <2> QED BY <2>3 DEF r
<1>3. Ends(a, StopExecution(a, cancelled, sdr))
  <2> DEFINE b == [a EXCEPT !.execution = NoWork]
             d == PollExecution(a, sdr)
             e == [b EXCEPT !.deferred = TRUE]
             r == StopExecution(a, cancelled, sdr)
  <2>1. (a.cycle /\ r = e) \/ r = Renewed(b) \/ r = Renewed(d) \/ r = a
    BY StopExecutionCases
  <2>2. Quiet(a, b) /\ Idles(a, b) /\ Quiet(a, d) /\ Idles(a, d)
    BY Taken, PollExecutionIs
  <2> HIDE DEF b, d
  <2>3. Flags(b, e)
    BY <2>2, Flagged DEF Quiet
  <2> HIDE DEF e, r
  <2>4. ASSUME a.cycle PROVE Ends(a, e)
    <3>1. Still(a, e) /\ Idles(a, e) /\ (e.cruise.active => a.cruise.active)
      BY <2>2, <2>3, QuietFlags
    <3>2. e.cycle
      BY <2>4, <3>1 DEF Still
    <3> QED BY <3>1, <3>2 DEF Ends
  <2>5. Ends(a, r)
    BY <1>1, <2>1, <2>2, <2>4, RenewedEnds
  <2> QED BY <2>5 DEF r
<1> QED BY <1>2, <1>3

\* stop ends the cruise, and asks for a renewal now or later.
Halts(a, b) ==
    /\ Moves(a, b) /\ Idles(a, b) /\ ~b.cruise.active
    /\ b.want = "no" \/ b.cycle \/ (b.deferred => a.deferred)

\* The console with its cruise stopped, and the run aborted.
Halted(a) == [a EXCEPT !.cruise = CruiseStop(@)]
Aborting(a) == IF a.cycle THEN [RequestAgentAbort(a) EXCEPT !.deferred = TRUE] ELSE a

\* The clauses of stop.
LEMMA StopCases ==
    ASSUME NEW a, NEW cancelled, NEW sdr
    PROVE  LET c == Aborting(Halted(a))
               r == Stop(a, cancelled, sdr)
           IN  \/ r = StopSweep(c, cancelled, sdr) \/ r = StopExecution(c, cancelled, sdr)
               \/ r = c \/ (~c.cycle /\ r = Renewed([c EXCEPT !.deferred = FALSE]))
<1> DEFINE c == Aborting(Halted(a))
           r == Stop(a, cancelled, sdr)
<1>1. ASSUME c.sweep # NoWork PROVE r = StopSweep(c, cancelled, sdr)
  BY <1>1, Zenon DEF Stop, Aborting, Halted
<1>2. ASSUME c.sweep = NoWork, c.execution # NoWork PROVE r = StopExecution(c, cancelled, sdr)
  BY <1>2, Zenon DEF Stop, Aborting, Halted
<1>3. ASSUME c.sweep = NoWork, c.execution = NoWork
      PROVE  r = IF c.cycle THEN c ELSE Renewed([c EXCEPT !.deferred = FALSE])
  BY <1>3, Zenon DEF Stop, Aborting, Halted
<1> HIDE DEF r, c
<1>4. \/ r = StopSweep(c, cancelled, sdr) \/ r = StopExecution(c, cancelled, sdr)
      \/ r = c \/ (~c.cycle /\ r = Renewed([c EXCEPT !.deferred = FALSE]))
  BY <1>1, <1>2, <1>3, Zenon
<1> QED BY <1>4 DEF r, c

\* stop
LEMMA StopIs ==
    ASSUME NEW a, Fit(a), a.want = "no", NEW cancelled, NEW sdr \in Sdr
    PROVE  Halts(a, Stop(a, cancelled, sdr))
<1> DEFINE b == Halted(a)
           d == RequestAgentAbort(b)
           e == [d EXCEPT !.deferred = TRUE]
           c == Aborting(b)
           f == [c EXCEPT !.deferred = FALSE]
           r == Stop(a, cancelled, sdr)
<1>1. \/ r = StopSweep(c, cancelled, sdr) \/ r = StopExecution(c, cancelled, sdr)
      \/ r = c \/ (~c.cycle /\ r = Renewed(f))
  BY StopCases
<1>2. Quiet(a, b) /\ Idles(a, b) /\ ~b.cruise.active
  <2> DEFINE cr == CruiseStop(a.cruise)
  <2>1. cr \in CruiseType /\ CruiseFit(cr) /\ ~cr.active
    BY Fields, CruiseIs DEF CruiseFit
  <2>2. b = [a EXCEPT !.cruise = cr]
    BY DEF Halted
  <2> HIDE DEF cr, b
  <2> QED BY <2>1, <2>2, Cruised
<1>3. c = IF b.cycle THEN e ELSE b
  BY DEF Aborting
<1> HIDE DEF b, c, r
<1>4. Moves(b, d) /\ Talks(b, d) /\ d.cycle = b.cycle
  BY <1>2, AbortIs DEF Quiet
<1> HIDE DEF d
<1>5. Flags(d, e) /\ e.want = d.want
  BY <1>4, Flagged DEF Moves
<1> HIDE DEF e
<1>6. Moves(b, e) /\ Idles(b, e) /\ e.cruise = b.cruise /\ e.want = b.want /\ e.cycle = b.cycle
  <2>1. Moves(b, e)
    BY <1>4, <1>5, MovesThenStill DEF Flags, Still
  <2> QED BY <1>4, <1>5, <2>1 DEF Flags, Talks, Idles
<1>7. /\ Moves(b, c) /\ Idles(b, c) /\ c.cruise = b.cruise /\ c.want = b.want /\ c.cycle = b.cycle
      /\ ~c.cycle => c.deferred = b.deferred
  <2>1. CASE b.cycle
    BY <1>3, <1>6, <2>1
  <2>2. CASE ~b.cycle
    BY <1>2, <1>3, <2>2 DEF Quiet, Moves, Idles
  <2> QED BY <2>1, <2>2
<1>8. Moves(a, c) /\ Idles(a, c)
  BY <1>2, <1>7, QuietThenMoves, IdleTwice
<1>9. Fit(c) /\ ~c.cruise.active /\ c.want = "no" /\ (c.cycle \/ c.deferred = a.deferred)
  BY <1>2, <1>7 DEF Quiet, Moves
<1>10. ASSUME NEW x, Ends(c, x) PROVE Halts(a, x)
  <2>1. Moves(a, x) /\ Idles(a, x)
    BY <1>8, <1>10, MovesThenStill, IdleTwice DEF Ends
  <2> QED BY <1>9, <1>10, <2>1 DEF Ends, Still, Halts
<1>11. CASE r = StopSweep(c, cancelled, sdr) \/ r = StopExecution(c, cancelled, sdr)
  BY <1>9, <1>10, <1>11, StopHardware DEF r
<1>12. CASE r = c
  BY <1>8, <1>9, <1>12 DEF Halts, r
<1>13. CASE ~c.cycle /\ r = Renewed(f)
  <2> DEFINE g == [f EXCEPT !.want = "holding"]
  <2>1. Flags(c, f) /\ ~f.deferred
    BY <1>9, Flagged
  <2> HIDE DEF f
  <2>2. Flags(f, g) /\ g.deferred = f.deferred
    BY <2>1, Flagged DEF Flags
  <2>3. r = f \/ r = g
    BY <1>13 DEF Renewed
  <2> HIDE DEF g
  <2>4. Flags(c, r) /\ ~r.deferred
    BY <2>1, <2>2, <2>3 DEF Flags
  <2>5. Ends(c, r)
    BY <1>9, <2>4 DEF Flags, Ends, Still, Idles
  <2> QED BY <1>10, <2>5 DEF r
<1> QED BY <1>1, <1>11, <1>12, <1>13

\* manual, while a step is active, stops; otherwise it asks for a renewal.
LEMMA EnableIs ==
    ASSUME NEW a, Fit(a), a.want = "no", NEW cancelled, NEW sdr \in Sdr
    PROVE  LET b == EnableStepApproval(a, cancelled, sdr)
           IN  /\ Moves(a, b) /\ Idles(a, b) /\ (b.cruise.active => a.cruise.active)
               /\ b.want = "no" \/ b.cycle \/ (b.deferred => a.deferred)
<1> DEFINE b == EnableStepApproval(a, cancelled, sdr)
           cr == SwitchToStepApproval(a.cruise)
           e == [a EXCEPT !.cruise = cr]
           d == [e EXCEPT !.want = "idle"]
<1>1. ASSUME ~a.cruise.auto, ~a.cruise.active PROVE b = a
  BY <1>1, Zenon DEF EnableStepApproval
<1>2. ASSUME a.cruise.auto \/ a.cruise.active, Busy(a) PROVE b = Stop(a, cancelled, sdr)
  BY <1>2, Zenon DEF EnableStepApproval
<1>3. ASSUME a.cruise.auto \/ a.cruise.active, ~Busy(a)
      PROVE  b = [a EXCEPT !.cruise = SwitchToStepApproval(@), !.want = "idle"]
  BY <1>3, Zenon DEF EnableStepApproval
<1>4. a \in App
  BY Fields
<1>5. [a EXCEPT !.cruise = SwitchToStepApproval(@), !.want = "idle"] = d
  BY <1>4 DEF App
<1>6. cr \in CruiseType /\ CruiseFit(cr) /\ ~cr.active
  BY Fields, CruiseIs DEF CruiseFit
<1> HIDE DEF cr, b
<1>7. Quiet(a, e) /\ Idles(a, e)
  BY <1>6, Cruised
<1> HIDE DEF e
<1>8. Flags(e, d) /\ d.deferred = e.deferred
  BY <1>7, Flagged DEF Quiet
<1> HIDE DEF d
<1>9. CASE b = a
  BY <1>9 DEF Moves, Idles, b
<1>10. CASE b = Stop(a, cancelled, sdr)
  <2>1. Halts(a, b)
    BY <1>10, StopIs
  <2> QED BY <2>1 DEF Halts, b
<1>11. CASE b = d
  <2>1. Still(a, b) /\ Idles(a, b) /\ (b.cruise.active => a.cruise.active)
    BY <1>7, <1>8, <1>11, QuietFlags
  <2>2. b.deferred => a.deferred
    BY <1>7, <1>8, <1>11 DEF Quiet
  <2>3. Moves(a, b)
    BY <2>1 DEF Still, Moves
  <2> QED BY <2>1, <2>2, <2>3 DEF b
<1>12. b = a \/ b = Stop(a, cancelled, sdr) \/ b = d
  BY <1>1, <1>2, <1>3, <1>5, Zenon
<1> QED BY <1>9, <1>10, <1>11, <1>12

\* auto and resume ask for a renewal.
LEMMA AskIs ==
    ASSUME NEW a, Fit(a), NEW b, b = a \/ b = [a EXCEPT !.want = "idle"]
    PROVE  /\ Moves(a, b) /\ Idles(a, b) /\ b.cruise = a.cruise /\ b.deferred = a.deferred
           /\ b.exit = a.exit
<1> DEFINE d == [a EXCEPT !.want = "idle"]
<1>1. Flags(a, d) /\ d.deferred = a.deferred
  BY Flagged
<1>2. b = a \/ b = d
  OBVIOUS
<1> HIDE DEF d
<1> QED BY <1>1, <1>2 DEF Flags, Moves, Idles

\* poll's renewal comes after both threads, when a deferred one can be had.
LEMMA PolledIs ==
    ASSUME NEW a, Fit(a), a.want = "no", NEW sdr1 \in Sdr, NEW sdr2 \in Sdr
    PROVE  LET r == Polled(a, sdr1, sdr2)
           IN  /\ Still(a, r) /\ Idles(a, r) /\ (r.cruise.active => a.cruise.active)
               /\ \/ r.want = "no" /\ r.deferred = a.deferred
                  \/ a.deferred /\ ~r.deferred
<1> DEFINE b == PollExecution(a, sdr1)
           c == PollSweep(b, sdr2)
           d == [c EXCEPT !.deferred = FALSE, !.want = "holding"]
           r == Polled(a, sdr1, sdr2)
<1>1. r = IF c.exit = "no" /\ ~Busy(c) /\ c.deferred THEN d ELSE c
  BY DEF Polled
<1> HIDE DEF r
<1>2. Quiet(a, b) /\ Idles(a, b)
  BY PollExecutionIs
<1> HIDE DEF b
<1>3. Quiet(b, c) /\ Idles(b, c)
  BY <1>2, PollSweepIs DEF Quiet
<1> HIDE DEF c
<1>4. Quiet(a, c) /\ Idles(a, c)
  BY <1>2, <1>3, QuietTwice, IdleTwice
<1>5. Flags(c, d) /\ ~d.deferred
  BY <1>4, Flagged DEF Quiet
<1> HIDE DEF d
<1>6. CASE r = c
  BY <1>4, <1>6 DEF Quiet, Still, r
<1>7. CASE r = d /\ c.deferred
  <2>1. Still(a, r) /\ Idles(a, r) /\ (r.cruise.active => a.cruise.active)
    BY <1>4, <1>5, <1>7, QuietFlags
  <2>2. a.deferred /\ ~r.deferred
    BY <1>4, <1>5, <1>7 DEF Quiet
  <2> QED BY <2>1, <2>2 DEF r
<1> QED BY <1>1, <1>6, <1>7

\* The clauses of advance_auto.
LEMMA AdvanceCases ==
    ASSUME NEW a, NEW cancelled, NEW sdr
    PROVE  LET b == Halted(a)
               r == AdvanceAuto(a, cancelled, sdr)
           IN  \/ r = a
               \/ a.cruise.active /\ (r = b \/ r = Stop(b, cancelled, sdr))
               \/ /\ a.cruise.active
                  /\ r = [a EXCEPT !.cruise = RecordSdrUnavailable(@), !.due = FALSE]
               \/ r = Submit([a EXCEPT !.cruise.sdr = 0], sdr # "refused")
<1> DEFINE b == Halted(a)
           r == AdvanceAuto(a, cancelled, sdr)
           wait == Busy(a) \/ a.pending # NoPlan \/ ~a.due
<1>1. ASSUME ~a.cruise.active PROVE r = a
  BY <1>1, Zenon DEF AdvanceAuto
<1>2. ASSUME a.cruise.active, Expired(a)
      PROVE  r = IF Busy(a) THEN Stop(b, cancelled, sdr) ELSE b
  BY <1>2, Zenon DEF AdvanceAuto, Halted
<1>3. ASSUME a.cruise.active, ~Expired(a), wait PROVE r = a
  BY <1>3, Zenon DEF AdvanceAuto
<1>4. ASSUME a.cruise.active, ~Expired(a), ~wait
      PROVE  r = IF sdr = "sick"
                 THEN [a EXCEPT !.cruise = RecordSdrUnavailable(@), !.due = FALSE]
                 ELSE Submit([a EXCEPT !.cruise.sdr = 0], sdr # "refused")
  BY <1>4, Zenon DEF AdvanceAuto
<1> HIDE DEF b, r, wait
<1>5. \/ r = a
      \/ a.cruise.active /\ (r = b \/ r = Stop(b, cancelled, sdr))
      \/ /\ a.cruise.active
         /\ r = [a EXCEPT !.cruise = RecordSdrUnavailable(@), !.due = FALSE]
      \/ r = Submit([a EXCEPT !.cruise.sdr = 0], sdr # "refused")
  BY <1>1, <1>2, <1>3, <1>4, Zenon
<1> QED BY <1>5 DEF b, r

\* advance_auto stops an active cruise or goes on with it.
LEMMA AdvanceIs ==
    ASSUME NEW a, Fit(a), a.want = "no", NEW cancelled, NEW sdr \in Sdr
    PROVE  LET r == AdvanceAuto(a, cancelled, sdr)
           IN  /\ Moves(a, r) /\ Idles(a, r) /\ (r.cruise.active => a.cruise.active)
               /\ \/ r.want = "no" /\ r.deferred = a.deferred
                  \/ /\ a.cruise.active /\ ~r.cruise.active
                     /\ r.want = "no" \/ r.cycle \/ (r.deferred => a.deferred)
<1> DEFINE b == Halted(a)
           cr == RecordSdrUnavailable(a.cruise)
           sr == [a.cruise EXCEPT !.sdr = 0]
           d == [a EXCEPT !.cruise = cr, !.due = FALSE]
           e == [a EXCEPT !.cruise = sr]
           r == AdvanceAuto(a, cancelled, sdr)
<1>1. \/ r = a \/ (a.cruise.active /\ (r = b \/ r = Stop(b, cancelled, sdr)))
      \/ (a.cruise.active /\ r = d) \/ r = Submit(e, sdr # "refused")
  BY AdvanceCases
<1>2. a.cruise \in CruiseType /\ CruiseFit(a.cruise)
  BY Fields
<1>3. Quiet(a, b) /\ Idles(a, b) /\ ~b.cruise.active
  <2> DEFINE cs == CruiseStop(a.cruise)
  <2>1. cs \in CruiseType /\ CruiseFit(cs) /\ ~cs.active
    BY <1>2, CruiseIs DEF CruiseFit
  <2>2. b = [a EXCEPT !.cruise = cs]
    BY DEF Halted
  <2> HIDE DEF cs, b
  <2> QED BY <2>1, <2>2, Cruised
<1>4. a.cruise.active => cr \in CruiseType /\ CruiseFit(cr)
  BY <1>2, CruiseIs
<1>5. sr \in CruiseType /\ CruiseFit(sr) /\ (sr.active => a.cruise.active)
  BY <1>2, CruiseIs
<1> HIDE DEF cr, sr, b, r
<1>6. a.cruise.active => Quiet(a, d) /\ Idles(a, d)
  BY <1>4, Cruised
<1>7. Quiet(a, e) /\ Idles(a, e)
  BY <1>5, Cruised
<1> HIDE DEF d, e
<1>8. ASSUME NEW x, Quiet(a, x), Idles(a, x), r = x
      PROVE  /\ Moves(a, r) /\ Idles(a, r) /\ (r.cruise.active => a.cruise.active)
             /\ r.want = "no" /\ r.deferred = a.deferred
  BY <1>8, QuietMoves DEF Quiet
<1>9. CASE r = a
  BY <1>9 DEF Moves, Idles, r
<1>10. CASE a.cruise.active /\ r = Stop(b, cancelled, sdr)
  <2>1. Halts(b, r)
    BY <1>3, <1>10, StopIs DEF Quiet
  <2>2. Moves(a, r) /\ Idles(a, r) /\ ~r.cruise.active
    BY <1>3, <2>1, QuietThenMoves, IdleTwice DEF Halts
  <2>3. r.want = "no" \/ r.cycle \/ (r.deferred => a.deferred)
    BY <1>3, <2>1 DEF Quiet, Halts
  <2> QED BY <1>10, <2>2, <2>3 DEF r
<1>11. CASE r = Submit(e, sdr # "refused")
  <2>1. Moves(e, r) /\ Speaks(e, r)
    <3>1. (sdr # "refused") \in BOOLEAN
      OBVIOUS
    <3> QED BY <1>7, <1>11, <3>1, SubmitIs DEF Quiet
  <2>2. Moves(a, r) /\ Idles(a, r)
    BY <1>7, <2>1, QuietThenMoves DEF Speaks, Idles
  <2>3. (r.cruise.active => a.cruise.active) /\ r.want = "no" /\ r.deferred = a.deferred
    BY <1>7, <2>1 DEF Speaks, Quiet
  <2> QED BY <2>2, <2>3 DEF r
<1>12. CASE (a.cruise.active /\ r = b) \/ (a.cruise.active /\ r = d)
  BY <1>3, <1>6, <1>8, <1>12 DEF r
<1> QED BY <1>1, <1>9, <1>10, <1>11, <1>12

-----------------------------------------------------------------------------
(* What is under way between console and worker.                          *)

-----------------------------------------------------------------------------
(* What is under way between console and worker.                           *)

\* A command is written at the end of the wire, a frame read at its head.
LEMMA AppendIs ==
    ASSUME NEW S, NEW s \in Seq(S), NEW e \in S
    PROVE  /\ Append(s, e) \in Seq(S) /\ Len(Append(s, e)) = Len(s) + 1 /\ Len(s) \in Nat
           /\ Append(s, e)[Len(s) + 1] = e
           /\ \A i \in 1..Len(s) : Append(s, e)[i] = s[i]
           /\ \A i \in 1..Len(Append(s, e)) : i \in 1..Len(s) \/ i = Len(s) + 1
  OBVIOUS

\* Tail shifts.
LEMMA TailIs ==
    ASSUME NEW S, NEW s \in Seq(S), s # <<>>
    PROVE  /\ Tail(s) \in Seq(S) /\ Len(Tail(s)) = Len(s) - 1 /\ Len(s) \in Nat /\ Len(s) >= 1
           /\ Head(s) = s[1] /\ s[1] \in S
           /\ \A i \in 1..Len(Tail(s)) : i + 1 \in 1..Len(s) /\ i + 1 # 1 /\ Tail(s)[i] = s[i + 1]
  OBVIOUS

\* The three kinds of frame.
LEMMA FrameIs ==
    ASSUME NEW f \in Frames
    PROVE  /\ f.type \in {"response", "plan", "end"}
           /\ IsResponse(f) => f.cmd \in Commands /\ f.ok \in BOOLEAN
           /\ f.type = "plan" => f.plan \in Plans
           /\ f.type = "end" => f.gen \in Generations
  BY DEF Frames, IsResponse

\* A method that may send one command keeps every command under way once.
LEMMA MovesFlow ==
    ASSUME NEW a, Fit(a), NEW b, Moves(a, b), NEW fr \in Seq(Frames), NEW k, Flow(a, fr, k)
    PROVE  Flow(b, fr, k)
<1>0. a.wire \in Seq(Commands) /\ a.next \in 1..(MaxRequests + 1) /\ a.gen \in Nat
  BY DEF Fit, App, Generations
<1>1. CASE b.wire = a.wire /\ b.commands = a.commands /\ b.next = a.next
  BY <1>1 DEF Moves, Flow, Known
<1>2. ASSUME NEW c, Sends(a, b, c) PROVE Flow(b, fr, k)
  <2>1. c \in Commands /\ b.gen = a.gen /\ b.wire = Append(a.wire, c)
    BY <1>2 DEF Sends, Moves
  <2>2. Known(c, b, k)
    <3>1. c.kind \in Run /\ c.kind \notin Sync
      BY <1>2 DEF Sends, Run, Sync
    <3>2. c.id < b.next
      BY <1>0, <1>2, Constants DEF Sends
    <3>3. c.kind \in {"prompt", "queue"} => c.id \in Ids
      BY <1>0, <1>2, <2>1 DEF Sends, Commands
    <3> QED BY <1>0, <1>2, <2>1, <3>1, <3>2, <3>3 DEF Known, Sends
  <2>3. ASSUME NEW x \in Commands, Known(x, a, k) PROVE Known(x, b, k) /\ x # c
    <3>1. x # c
      <4>1. CASE c.kind = "abort"
        BY <1>2, <2>3, <4>1 DEF Sends, Known, Run, AbortPending
      <4>2. CASE c.kind # "abort"
        BY <1>0, <1>2, <2>3, <4>2, Constants DEF Sends, Known
      <4> QED BY <4>1, <4>2
    <3>2. x.id < b.next
      <4>1. x.id < a.next /\ x.id \in Nat
        BY <2>3 DEF Known, Commands, Ids
      <4>2. b.next \in {a.next, a.next + 1}
        BY <1>2 DEF Sends
      <4> QED BY <1>0, <4>1, <4>2, Constants
    <3>3. Known(x, b, k)
      BY <1>2, <2>1, <2>3, <3>2 DEF Known, Sends
    <3> QED BY <3>1, <3>3
  <2> DEFINE n == Len(a.wire)
  <2>4. /\ Len(b.wire) = n + 1 /\ n \in Nat /\ b.wire[n + 1] = c
        /\ \A i \in 1..n : b.wire[i] = a.wire[i]
        /\ \A i \in 1..Len(b.wire) : i \in 1..n \/ i = n + 1
    BY <1>0, <2>1, AppendIs
  <2> HIDE DEF n
  <2>5. \A i \in 1..n : Known(a.wire[i], a, k) /\ a.wire[i] \in Commands
    BY <1>0 DEF Flow, n
  <2>6. \A i \in 1..Len(fr) : IsResponse(fr[i]) => Known(fr[i].cmd, a, k) /\ fr[i].cmd \in Commands
    BY FrameIs DEF Flow
  <2>7. \A i \in 1..Len(b.wire) : Known(b.wire[i], b, k)
    BY <2>2, <2>3, <2>4, <2>5
  <2>8. \A i \in 1..Len(fr) : IsResponse(fr[i]) => Known(fr[i].cmd, b, k) /\ fr[i].cmd # c
    BY <2>3, <2>6
  <2>9. \A i, j \in 1..Len(b.wire) : b.wire[i] = b.wire[j] => i = j
    <3>1. \A i \in 1..n : b.wire[i] # c
      BY <2>3, <2>4, <2>5
    <3>2. \A i, j \in 1..n : b.wire[i] = b.wire[j] => i = j
      BY <2>4 DEF Flow, n
    <3> QED BY <2>4, <3>1, <3>2
  <2>10. \A i \in 1..Len(fr), j \in 1..Len(b.wire) : IsResponse(fr[i]) => fr[i].cmd # b.wire[j]
    <3>1. \A i \in 1..Len(fr), j \in 1..n : IsResponse(fr[i]) => fr[i].cmd # b.wire[j]
      BY <2>4 DEF Flow, n
    <3> QED BY <2>4, <2>8, <3>1
  <2>11. \A i, j \in 1..Len(fr) :
             IsResponse(fr[i]) /\ IsResponse(fr[j]) /\ fr[i].cmd = fr[j].cmd => i = j
    BY DEF Flow
  <2> QED BY <2>7, <2>8, <2>9, <2>10, <2>11 DEF Flow
<1> QED BY <1>1, <1>2 DEF Moves

\* ... and the token in one place.
LEMMA MovesToken ==
    ASSUME NEW a, Fit(a), NEW b, Moves(a, b), NEW fr, NEW w, Token(a, fr, w)
    PROVE  Token(b, fr, w)
<1>0. a.wire \in Seq(Commands) /\ b.gen = a.gen
  BY DEF Fit, App, Moves
<1>1. CASE b.wire = a.wire /\ b.cycle = a.cycle
  BY <1>0, <1>1 DEF Token
<1>2. ASSUME NEW c, Sends(a, b, c) PROVE Token(b, fr, w)
  <2> DEFINE n == Len(a.wire)
  <2>1. c \in Commands /\ b.wire = Append(a.wire, c)
    BY <1>2 DEF Sends
  <2>2. /\ Len(b.wire) = n + 1 /\ n \in Nat /\ b.wire[n + 1] = c
        /\ \A i \in 1..n : b.wire[i] = a.wire[i]
        /\ \A i \in 1..Len(b.wire) : i \in 1..n \/ i = n + 1
    BY <1>0, <2>1, AppendIs
  <2>3. CASE c.kind = "prompt"
    <3>1. ~a.cycle /\ b.cycle /\ c.gen = a.gen
      BY <1>2, <2>3 DEF Sends
    <3>2. /\ ~w.active /\ \A j \in 1..Len(fr) : ~Ending(fr[j])
          /\ \A i \in 1..n : a.wire[i].kind # "prompt"
          /\ \A i \in 1..Len(fr) : fr[i].type # "plan"
      BY <3>1 DEF Token
    <3>3. \A i \in 1..Len(b.wire) : b.wire[i].kind = "prompt" => i = n + 1
      BY <2>2, <3>2
    <3> HIDE DEF n
    <3> QED BY <1>0, <2>2, <3>1, <3>2, <3>3 DEF Token
  <2>4. CASE c.kind # "prompt"
    <3>1. b.cycle = a.cycle
      BY <1>2, <2>4 DEF Sends
    <3>2. \A i \in 1..Len(b.wire) : b.wire[i].kind = "prompt" => i \in 1..n /\ b.wire[i] = a.wire[i]
      BY <2>2, <2>4
    <3> HIDE DEF n
    <3> QED BY <1>0, <3>1, <3>2 DEF Token, n
  <2> QED BY <2>3, <2>4
<1> QED BY <1>1, <1>2 DEF Moves

\* ... and the session as it is.
LEMMA MovesOpened ==
    ASSUME NEW a, Fit(a), NEW b, Moves(a, b), NEW fr, NEW w, NEW k, Opened(a, fr, w, k)
    PROVE  Opened(b, fr, w, k)
<1>0. a.wire \in Seq(Commands) /\ b.gen = a.gen
  BY DEF Fit, App, Moves
<1>1. CASE b.wire = a.wire
  BY <1>0, <1>1 DEF Opened
<1>2. ASSUME NEW c, Sends(a, b, c) PROVE Opened(b, fr, w, k)
  <2> DEFINE n == Len(a.wire)
  <2>1. c \in Commands /\ b.wire = Append(a.wire, c) /\ c.kind \notin Sync
    BY <1>2 DEF Sends, Sync
  <2>2. /\ Len(b.wire) = n + 1 /\ n \in Nat /\ b.wire[n + 1] = c
        /\ \A i \in 1..n : b.wire[i] = a.wire[i]
        /\ \A i \in 1..Len(b.wire) : i \in 1..n \/ i = n + 1
    BY <1>0, <2>1, AppendIs
  <2>3. \A i \in 1..Len(b.wire) : b.wire[i].kind \in Sync => i \in 1..n /\ b.wire[i] = a.wire[i]
    BY <2>1, <2>2
  <2> HIDE DEF n
  <2> QED BY <1>0, <2>3 DEF Opened, Sync, n
<1> QED BY <1>1, <1>2 DEF Moves

\* A frame is read that is no response: what is left is still known.
LEMMA DropFlow ==
    ASSUME NEW a, NEW b, b.wire = a.wire, b.gen = a.gen, b.next = a.next, b.commands = a.commands,
           NEW fr \in Seq(Frames), fr # <<>>, NEW k, Flow(a, fr, k)
    PROVE  Flow(b, Tail(fr), k)
<1> DEFINE t == Tail(fr)
<1>1. \A i \in 1..Len(t) : i + 1 \in 1..Len(fr) /\ t[i] = fr[i + 1]
  BY TailIs
<1> HIDE DEF t
<1>2. Flow(b, t, k)
  <2>1. \A i \in 1..Len(b.wire) : Known(b.wire[i], b, k)
    BY DEF Flow, Known
  <2>2. \A i \in 1..Len(t) : IsResponse(t[i]) => Known(t[i].cmd, b, k)
    BY <1>1 DEF Flow, Known
  <2>3. \A i, j \in 1..Len(b.wire) : b.wire[i] = b.wire[j] => i = j
    BY DEF Flow
  <2>4. \A i, j \in 1..Len(t) :
             IsResponse(t[i]) /\ IsResponse(t[j]) /\ t[i].cmd = t[j].cmd => i = j
    BY <1>1 DEF Flow
  <2>5. \A i \in 1..Len(t), j \in 1..Len(b.wire) : IsResponse(t[i]) => t[i].cmd # b.wire[j]
    BY <1>1 DEF Flow
  <2> QED BY <2>1, <2>2, <2>3, <2>4, <2>5 DEF Flow
<1> QED BY <1>2 DEF t

\* A response is read: no other command under way is its.
LEMMA ResponseFlow ==
    ASSUME NEW a, NEW b, NEW fr \in Seq(Frames), fr # <<>>, IsResponse(Head(fr)),
           b.wire = a.wire, b.gen = a.gen, b.next = a.next,
           b.commands = a.commands \ {Head(fr).cmd}, NEW k, Flow(a, fr, k)
    PROVE  Flow(b, Tail(fr), k)
<1> DEFINE t == Tail(fr)
<1>1. /\ \A i \in 1..Len(t) : i + 1 \in 1..Len(fr) /\ i + 1 # 1 /\ t[i] = fr[i + 1]
      /\ Head(fr) = fr[1] /\ 1 \in 1..Len(fr)
  BY TailIs
<1> HIDE DEF t
<1>2. ASSUME NEW x, Known(x, a, k), x # fr[1].cmd PROVE Known(x, b, k)
  BY <1>1, <1>2 DEF Known
<1>3. \A i \in 1..Len(a.wire) : Known(a.wire[i], a, k) /\ a.wire[i] # fr[1].cmd
  BY <1>1 DEF Flow
<1>4. \A i \in 1..Len(t) : IsResponse(t[i]) => Known(t[i].cmd, a, k) /\ t[i].cmd # fr[1].cmd
  BY <1>1 DEF Flow
<1>5. Flow(b, t, k)
  <2>1. \A i \in 1..Len(b.wire) : Known(b.wire[i], b, k)
    BY <1>2, <1>3
  <2>2. \A i \in 1..Len(t) : IsResponse(t[i]) => Known(t[i].cmd, b, k)
    BY <1>2, <1>4
  <2>3. \A i, j \in 1..Len(b.wire) : b.wire[i] = b.wire[j] => i = j
    BY DEF Flow
  <2>4. \A i, j \in 1..Len(t) :
             IsResponse(t[i]) /\ IsResponse(t[j]) /\ t[i].cmd = t[j].cmd => i = j
    <3> SUFFICES ASSUME NEW i \in 1..Len(t), NEW j \in 1..Len(t),
                        IsResponse(t[i]), IsResponse(t[j]), t[i].cmd = t[j].cmd
                 PROVE  i = j
      OBVIOUS
    <3>1. i + 1 \in 1..Len(fr) /\ j + 1 \in 1..Len(fr) /\ t[i] = fr[i + 1] /\ t[j] = fr[j + 1]
      BY <1>1
    <3>2. i + 1 = j + 1
      BY <3>1 DEF Flow
    <3> QED BY <3>2
  <2>5. \A i \in 1..Len(t), j \in 1..Len(b.wire) : IsResponse(t[i]) => t[i].cmd # b.wire[j]
    BY <1>1 DEF Flow
  <2> QED BY <2>1, <2>2, <2>3, <2>4, <2>5 DEF Flow
<1> QED BY <1>5 DEF t

\* The token, when a frame is read that does not carry it.
LEMMA DropToken ==
    ASSUME NEW a, NEW b, b.wire = a.wire, b.gen = a.gen, b.cycle = a.cycle,
           NEW fr \in Seq(Frames), fr # <<>>, NEW w, Token(a, fr, w)
    PROVE  Token(b, Tail(fr), w)
<1> DEFINE t == Tail(fr)
<1>1. /\ \A i \in 1..Len(t) : i + 1 \in 1..Len(fr) /\ t[i] = fr[i + 1]
      /\ Len(t) = Len(fr) - 1 /\ Len(fr) \in Nat
  BY TailIs
<1> HIDE DEF t
<1>2. \A i \in 1..Len(t) : t[i].type = "plan" =>
           w.active \/ \E j \in 1..Len(t) : i < j /\ Ending(t[j])
  <2> SUFFICES ASSUME NEW i \in 1..Len(t), t[i].type = "plan", ~w.active
               PROVE  \E j \in 1..Len(t) : i < j /\ Ending(t[j])
    OBVIOUS
  <2>1. PICK m \in 1..Len(fr) : i + 1 < m /\ Ending(fr[m])
    BY <1>1 DEF Token
  <2>2. m - 1 \in 1..Len(t) /\ i < m - 1 /\ (m - 1) + 1 = m
    BY <1>1, <2>1
  <2> QED BY <1>1, <2>1, <2>2
<1>3. \A i \in 1..Len(t) : Ending(t[i]) => a.cycle /\ GenOf(t[i]) = a.gen
  BY <1>1 DEF Token
<1>4. \A i, j \in 1..Len(t) : Ending(t[i]) /\ Ending(t[j]) => i = j
  BY <1>1 DEF Token
<1>5. (\A j \in 1..Len(fr) : ~Ending(fr[j])) => \A j \in 1..Len(t) : ~Ending(t[j])
  BY <1>1
<1>6. Token(b, t, w)
  BY <1>2, <1>3, <1>4, <1>5 DEF Token
<1> QED BY <1>6 DEF t

\* ... and when it is read with it: then there is no other.
LEMMA EndToken ==
    ASSUME NEW a, NEW b, b.wire = a.wire, NEW fr \in Seq(Frames), fr # <<>>, Ending(Head(fr)),
           NEW w, Token(a, fr, w)
    PROVE  Token(b, Tail(fr), w)
<1> DEFINE t == Tail(fr)
<1>1. /\ \A i \in 1..Len(t) : i + 1 \in 1..Len(fr) /\ i + 1 # 1 /\ t[i] = fr[i + 1]
      /\ 1 \in 1..Len(fr) /\ Ending(fr[1]) /\ Len(fr) \in Nat
  BY TailIs
<1> HIDE DEF t
<1>2. ~w.active /\ \A i \in 1..Len(a.wire) : a.wire[i].kind # "prompt"
  BY <1>1 DEF Token
<1>3. \A i \in 1..Len(t) : ~Ending(t[i])
  BY <1>1 DEF Token
<1>4. \A i \in 1..Len(t) : t[i].type # "plan"
  <2> SUFFICES ASSUME NEW i \in 1..Len(t), t[i].type = "plan" PROVE FALSE
    OBVIOUS
  <2>1. PICK m \in 1..Len(fr) : i + 1 < m /\ Ending(fr[m])
    BY <1>1, <1>2 DEF Token
  <2>2. m = 1
    BY <1>1, <2>1 DEF Token
  <2> QED BY <2>1, <2>2
<1>5. Token(b, t, w)
  BY <1>2, <1>3, <1>4 DEF Token
<1> QED BY <1>5 DEF t

\* The session, when a frame is read.
LEMMA DropOpened ==
    ASSUME NEW a, NEW b, b.wire = a.wire, b.gen = a.gen,
           NEW fr \in Seq(Frames), fr # <<>>, NEW w, NEW k, Opened(a, fr, w, k)
    PROVE  Opened(b, Tail(fr), w, k)
<1> DEFINE t == Tail(fr)
<1>1. \A i \in 1..Len(t) : i + 1 \in 1..Len(fr) /\ t[i] = fr[i + 1]
  BY TailIs
<1> HIDE DEF t
<1>2. Opened(b, t, w, k)
  BY <1>1 DEF Opened
<1> QED BY <1>2 DEF t

\* While command() waits for nothing, only commands of the run are under way.
LEMMA NoSync ==
    ASSUME NEW a, NEW fr, Flow(a, fr, NoCmd)
    PROVE  /\ \A i \in 1..Len(a.wire) : a.wire[i].kind \notin Sync
           /\ \A i \in 1..Len(fr) : IsResponse(fr[i]) => fr[i].cmd.kind \notin Sync
<1>1. NoCmd.kind \notin Sync
  BY DEF NoCmd, Sync
<1> QED BY <1>1 DEF Flow, Known

\* command() writes its command.
LEMMA Written ==
    ASSUME NEW a, a.wire \in Seq(Commands), a.next \in Nat \ {0}, a.gen \in Nat,
           NEW c \in Commands, c.kind \in Sync, c.id = 0, c.gen = a.gen,
           NEW b, b.wire = Append(a.wire, c), b.gen = a.gen, b.next = a.next,
           b.commands = a.commands, b.cycle = a.cycle,
           NEW fr \in Seq(Frames), Flow(a, fr, NoCmd), NEW w, Token(a, fr, w),
           IF c.kind = "open" THEN w.open = 0 /\ ~w.active ELSE w.open = a.gen
    PROVE  Flow(b, fr, c) /\ Token(b, fr, w) /\ Opened(b, fr, w, c)
<1> DEFINE n == Len(a.wire)
<1>1. /\ Len(b.wire) = n + 1 /\ n \in Nat /\ b.wire[n + 1] = c
      /\ \A i \in 1..n : b.wire[i] = a.wire[i]
      /\ \A i \in 1..Len(b.wire) : i \in 1..n \/ i = n + 1
  BY AppendIs
<1>2. /\ \A i \in 1..n : a.wire[i].kind \notin Sync
      /\ \A i \in 1..Len(fr) : IsResponse(fr[i]) => fr[i].cmd.kind \notin Sync
  BY NoSync
<1>3. c.kind \notin Run /\ "prompt" \notin Sync
  BY DEF Sync, Run
<1>4. Known(c, b, c)
  BY <1>3 DEF Known, Sync
<1>5. ASSUME NEW x, Known(x, a, NoCmd), x.kind \notin Sync PROVE Known(x, b, c) /\ x # c
  BY <1>5 DEF Known
<1>6. \A i \in 1..n : Known(a.wire[i], a, NoCmd)
  BY DEF Flow
<1>7. \A i \in 1..Len(fr) : IsResponse(fr[i]) => Known(fr[i].cmd, a, NoCmd)
  BY DEF Flow
<1>8. Flow(b, fr, c)
  <2>1. \A i \in 1..Len(b.wire) : Known(b.wire[i], b, c)
    BY <1>1, <1>2, <1>4, <1>5, <1>6
  <2>2. \A i \in 1..Len(fr) : IsResponse(fr[i]) => Known(fr[i].cmd, b, c) /\ fr[i].cmd # c
    BY <1>2, <1>5, <1>7
  <2>3. \A i, j \in 1..Len(b.wire) : b.wire[i] = b.wire[j] => i = j
    <3>1. \A i \in 1..n : b.wire[i] # c
      BY <1>1, <1>2, <1>5, <1>6
    <3>2. \A i, j \in 1..n : b.wire[i] = b.wire[j] => i = j
      BY <1>1 DEF Flow
    <3> HIDE DEF n
    <3> QED BY <1>1, <3>1, <3>2
  <2>4. \A i \in 1..Len(fr), j \in 1..Len(b.wire) : IsResponse(fr[i]) => fr[i].cmd # b.wire[j]
    <3>1. \A i \in 1..Len(fr), j \in 1..n : IsResponse(fr[i]) => fr[i].cmd # b.wire[j]
      BY <1>1 DEF Flow
    <3> HIDE DEF n
    <3> QED BY <1>1, <2>2, <3>1
  <2>5. \A i, j \in 1..Len(fr) :
             IsResponse(fr[i]) /\ IsResponse(fr[j]) /\ fr[i].cmd = fr[j].cmd => i = j
    BY DEF Flow
  <2> QED BY <2>1, <2>2, <2>3, <2>4, <2>5 DEF Flow
<1>9. Token(b, fr, w)
  <2>1. \A i \in 1..Len(b.wire) : b.wire[i].kind = "prompt" => i \in 1..n /\ b.wire[i] = a.wire[i]
    BY <1>1, <1>3
  <2> HIDE DEF n
  <2> QED BY <2>1 DEF Token, n
<1>10. Opened(b, fr, w, c)
  <2>1. \A i \in 1..Len(b.wire) : b.wire[i].kind \in Sync => b.wire[i] = c
    BY <1>1, <1>2
  <2>2. c.kind \in Sync /\ {"open", "close"} \subseteq Sync
    BY DEF Sync
  <2>3. ~Renews(c) => w.open = b.gen
    BY DEF Renews
  <2>4. w.active => w.open = b.gen
    OBVIOUS
  <2>5. \A i \in 1..Len(b.wire) : b.wire[i].kind = "close" => w.open = b.gen
    BY <2>1, <2>2
  <2>6. \A i \in 1..Len(b.wire) : b.wire[i].kind = "open" => w.open = 0
    BY <2>1, <2>2
  <2> QED BY <1>2, <2>2, <2>3, <2>4, <2>5, <2>6 DEF Opened
<1> QED BY <1>8, <1>9, <1>10

\* command() has read its response, and the generation may have moved on.
LEMMA AwaitedFlow ==
    ASSUME NEW a, a.wire \in Seq(Commands), a.gen \in Nat,
           NEW b, b.wire = a.wire, b.next = a.next,
           (b.gen = a.gen /\ b.commands = a.commands) \/ b.gen = a.gen + 1,
           NEW k, NEW fr \in Seq(Frames), fr # <<>>, IsResponse(Head(fr)), Head(fr).cmd = k,
           Flow(a, fr, k)
    PROVE  Flow(b, Tail(fr), NoCmd)
<1> DEFINE t == Tail(fr)
<1>1. /\ \A i \in 1..Len(t) : i + 1 \in 1..Len(fr) /\ i + 1 # 1 /\ t[i] = fr[i + 1]
      /\ Head(fr) = fr[1] /\ 1 \in 1..Len(fr) /\ t \in Seq(Frames)
  BY TailIs
<1> HIDE DEF t
<1>2. ASSUME NEW x \in Commands, Known(x, a, k), x # k PROVE Known(x, b, NoCmd)
  <2>1. x.gen \in Nat
    BY DEF Commands, Generations
  <2> QED BY <1>2, <2>1 DEF Known
<1>3. \A i \in 1..Len(a.wire) : a.wire[i] \in Commands /\ Known(a.wire[i], a, k) /\ a.wire[i] # k
  BY <1>1 DEF Flow
<1>4. \A i \in 1..Len(t) : IsResponse(t[i]) =>
          t[i].cmd \in Commands /\ Known(t[i].cmd, a, k) /\ t[i].cmd # k
  <2>1. \A i \in 1..Len(t) : t[i] \in Frames
    BY <1>1
  <2>2. \A i \in 1..Len(t) : IsResponse(t[i]) => t[i].cmd \in Commands
    BY <2>1, FrameIs
  <2> QED BY <1>1, <2>2 DEF Flow
<1>5. Flow(b, t, NoCmd)
  <2>1. \A i \in 1..Len(b.wire) : Known(b.wire[i], b, NoCmd)
    BY <1>2, <1>3
  <2>2. \A i \in 1..Len(t) : IsResponse(t[i]) => Known(t[i].cmd, b, NoCmd)
    BY <1>2, <1>4
  <2>3. \A i, j \in 1..Len(b.wire) : b.wire[i] = b.wire[j] => i = j
    BY DEF Flow
  <2>4. \A i, j \in 1..Len(t) :
             IsResponse(t[i]) /\ IsResponse(t[j]) /\ t[i].cmd = t[j].cmd => i = j
    <3> SUFFICES ASSUME NEW i \in 1..Len(t), NEW j \in 1..Len(t),
                        IsResponse(t[i]), IsResponse(t[j]), t[i].cmd = t[j].cmd
                 PROVE  i = j
      OBVIOUS
    <3>1. i + 1 \in 1..Len(fr) /\ j + 1 \in 1..Len(fr) /\ t[i] = fr[i + 1] /\ t[j] = fr[j + 1]
      BY <1>1
    <3>2. i + 1 = j + 1
      BY <3>1 DEF Flow
    <3> QED BY <3>2
  <2>5. \A i \in 1..Len(t), j \in 1..Len(b.wire) : IsResponse(t[i]) => t[i].cmd # b.wire[j]
    <3>1. \A i \in 1..Len(fr), j \in 1..Len(a.wire) : IsResponse(fr[i]) => fr[i].cmd # a.wire[j]
      BY DEF Flow
    <3> QED BY <1>1, <3>1
  <2> QED BY <2>1, <2>2, <2>3, <2>4, <2>5 DEF Flow
<1> QED BY <1>5 DEF t

\* Without a cycle there is no token.
LEMMA IdleToken ==
    ASSUME NEW a, NEW b, b.wire = a.wire, ~a.cycle,
           NEW fr \in Seq(Frames), fr # <<>>, NEW w, Token(a, fr, w)
    PROVE  Token(b, Tail(fr), w) /\ ~w.active
<1> DEFINE t == Tail(fr)
<1>1. \A i \in 1..Len(t) : i + 1 \in 1..Len(fr) /\ t[i] = fr[i + 1]
  BY TailIs
<1> HIDE DEF t
<1>2. /\ ~w.active /\ \A j \in 1..Len(fr) : ~Ending(fr[j]) /\ fr[j].type # "plan"
      /\ \A i \in 1..Len(a.wire) : a.wire[i].kind # "prompt"
  BY DEF Token
<1>3. \A j \in 1..Len(t) : ~Ending(t[j]) /\ t[j].type # "plan"
  BY <1>1, <1>2
<1>4. Token(b, t, w)
  BY <1>2, <1>3 DEF Token
<1> QED BY <1>2, <1>4 DEF t

\* The worker answers the next command on the wire.
LEMMA AnswerFlow ==
    ASSUME NEW a, a.wire \in Seq(Commands), a.wire # <<>>,
           NEW b, b.wire = Tail(a.wire), b.gen = a.gen, b.next = a.next, b.commands = a.commands,
           NEW fr \in Seq(Frames), NEW f \in Frames, IsResponse(f), f.cmd = Head(a.wire),
           NEW k, Flow(a, fr, k)
    PROVE  Flow(b, Append(fr, f), k)
<1> DEFINE t == Tail(a.wire)
           g == Append(fr, f)
           n == Len(fr)
<1>1. /\ \A i \in 1..Len(t) : i + 1 \in 1..Len(a.wire) /\ i + 1 # 1 /\ t[i] = a.wire[i + 1]
      /\ Head(a.wire) = a.wire[1] /\ 1 \in 1..Len(a.wire)
  BY TailIs
<1>2. /\ Len(g) = n + 1 /\ n \in Nat /\ g[n + 1] = f
      /\ \A i \in 1..n : g[i] = fr[i]
      /\ \A i \in 1..Len(g) : i \in 1..n \/ i = n + 1
  BY AppendIs
<1> HIDE DEF t, g
<1>3. ASSUME NEW x, Known(x, a, k) PROVE Known(x, b, k)
  BY <1>3 DEF Known
<1>4. /\ \A i \in 1..Len(a.wire) : Known(a.wire[i], a, k)
      /\ \A i \in 1..n : IsResponse(fr[i]) => Known(fr[i].cmd, a, k)
  BY DEF Flow
<1>5. \A i \in 1..Len(t) : t[i] # f.cmd
  BY <1>1 DEF Flow
<1>6. \A i \in 1..n : IsResponse(fr[i]) => fr[i].cmd # f.cmd
  BY <1>1 DEF Flow
<1>7. \A i \in 1..Len(b.wire) : Known(b.wire[i], b, k)
  BY <1>1, <1>3, <1>4 DEF t
<1>8. \A i \in 1..Len(g) : IsResponse(g[i]) => Known(g[i].cmd, b, k)
  BY <1>1, <1>2, <1>3, <1>4
<1>9. \A i, j \in 1..Len(b.wire) : b.wire[i] = b.wire[j] => i = j
  <2> SUFFICES ASSUME NEW i \in 1..Len(t), NEW j \in 1..Len(t), t[i] = t[j] PROVE i = j
    BY DEF t
  <2>1. i + 1 \in 1..Len(a.wire) /\ j + 1 \in 1..Len(a.wire) /\ a.wire[i + 1] = a.wire[j + 1]
    BY <1>1
  <2>2. i + 1 = j + 1
    BY <2>1 DEF Flow
  <2> QED BY <2>2
<1>10. \A i, j \in 1..Len(g) :
           IsResponse(g[i]) /\ IsResponse(g[j]) /\ g[i].cmd = g[j].cmd => i = j
  <2>1. \A i, j \in 1..n :
           IsResponse(fr[i]) /\ IsResponse(fr[j]) /\ fr[i].cmd = fr[j].cmd => i = j
    BY DEF Flow
  <2> HIDE DEF n
  <2> QED BY <1>2, <1>6, <2>1
<1>11. \A i \in 1..Len(g), j \in 1..Len(b.wire) : IsResponse(g[i]) => g[i].cmd # b.wire[j]
  <2>1. \A i \in 1..n, j \in 1..Len(a.wire) : IsResponse(fr[i]) => fr[i].cmd # a.wire[j]
    BY DEF Flow
  <2>2. \A i \in 1..n, j \in 1..Len(t) : IsResponse(fr[i]) => fr[i].cmd # t[j]
    BY <1>1, <2>1
  <2> HIDE DEF n
  <2> QED BY <1>2, <1>5, <2>2 DEF t
<1> QED BY <1>7, <1>8, <1>9, <1>10, <1>11 DEF Flow, g

\* The token, when the worker answers: an accepted prompt hands it to the
\* worker, a refused one sends it back.
LEMMA AnswerToken ==
    ASSUME NEW a, a.wire \in Seq(Commands), a.wire # <<>>,
           NEW b, b.wire = Tail(a.wire), b.gen = a.gen, b.cycle = a.cycle,
           NEW fr \in Seq(Frames), NEW f \in Frames, IsResponse(f), f.cmd = Head(a.wire),
           NEW w, NEW v, Token(a, fr, w),
           IF f.cmd.kind = "prompt" /\ f.ok THEN v.active /\ v.current \in Ids
           ELSE v.active = w.active /\ (w.active => v.current = w.current)
    PROVE  Token(b, Append(fr, f), v)
<1> DEFINE t == Tail(a.wire)
           g == Append(fr, f)
           n == Len(fr)
<1>1. /\ \A i \in 1..Len(t) : i + 1 \in 1..Len(a.wire) /\ i + 1 # 1 /\ t[i] = a.wire[i + 1]
      /\ Head(a.wire) = a.wire[1] /\ 1 \in 1..Len(a.wire)
  BY TailIs
<1>2. /\ Len(g) = n + 1 /\ n \in Nat /\ g[n + 1] = f
      /\ \A i \in 1..n : g[i] = fr[i]
      /\ \A i \in 1..Len(g) : i \in 1..n \/ i = n + 1
      /\ n + 1 \in 1..Len(g) /\ \A i \in 1..n : i < n + 1 /\ i \in 1..Len(g)
  BY AppendIs
<1>3. f.type = "response"
  BY DEF IsResponse
<1> HIDE DEF t, g
<1>4. \A i, j \in 1..Len(t) : t[i].kind = "prompt" /\ t[j].kind = "prompt" => i = j
  <2> SUFFICES ASSUME NEW i \in 1..Len(t), NEW j \in 1..Len(t),
                      t[i].kind = "prompt", t[j].kind = "prompt"
               PROVE  i = j
    OBVIOUS
  <2>1. i + 1 = j + 1
    BY <1>1 DEF Token
  <2> QED BY <2>1
<1>5. CASE f.cmd.kind = "prompt"
  <2>1. /\ a.cycle /\ f.cmd.gen = a.gen /\ ~w.active
        /\ \A j \in 1..n : ~Ending(fr[j])
    BY <1>1, <1>5 DEF Token
  <2>2. \A i \in 1..Len(t) : t[i].kind # "prompt"
    BY <1>1, <1>5 DEF Token
  <2>3. CASE f.ok
    <3>1. v.active /\ v.current \in Ids
      BY <1>5, <2>3
    <3>2. ~Ending(f)
      BY <1>3, <2>3 DEF Ending
    <3>3. \A j \in 1..Len(g) : ~Ending(g[j])
      BY <1>2, <2>1, <3>2
    <3> QED BY <2>1, <2>2, <3>1, <3>3 DEF Token, g, t
  <2>4. CASE ~f.ok
    <3>1. v.active = w.active
      BY <2>4
    <3>2. Ending(f) /\ GenOf(f) = a.gen
      BY <1>5, <2>1, <2>4 DEF Ending, GenOf
    <3>3. \A j \in 1..Len(g) : Ending(g[j]) => j = n + 1
      BY <1>2, <2>1
    <3>4. \A i \in 1..Len(g) : g[i].type = "plan" => \E j \in 1..Len(g) : i < j /\ Ending(g[j])
      BY <1>2, <1>3, <3>2
    <3>5. \A i \in 1..Len(g) : Ending(g[i]) => a.cycle /\ GenOf(g[i]) = a.gen
      BY <1>2, <2>1, <3>2, <3>3
    <3>6. \A i, j \in 1..Len(g) : Ending(g[i]) /\ Ending(g[j]) => i = j
      BY <3>3
    <3> QED BY <2>1, <2>2, <3>1, <3>4, <3>5, <3>6 DEF Token, g, t
  <2> QED BY <2>3, <2>4
<1>6. CASE f.cmd.kind # "prompt"
  <2>1. v.active = w.active /\ (w.active => v.current = w.current) /\ ~Ending(f)
    BY <1>3, <1>6 DEF Ending
  <2>2. \A j \in 1..Len(g) : Ending(g[j]) => j \in 1..n /\ g[j] = fr[j]
    BY <1>2, <2>1
  <2>3. (\A j \in 1..n : ~Ending(fr[j])) => \A j \in 1..Len(g) : ~Ending(g[j])
    BY <2>2
  <2>4. \A i \in 1..Len(g) : g[i].type = "plan" =>
            w.active \/ \E j \in 1..Len(g) : i < j /\ Ending(g[j])
    <3> SUFFICES ASSUME NEW i \in 1..Len(g), g[i].type = "plan", ~w.active
                 PROVE  \E j \in 1..Len(g) : i < j /\ Ending(g[j])
      OBVIOUS
    <3>1. i \in 1..n /\ fr[i].type = "plan"
      BY <1>2, <1>3
    <3>2. PICK m \in 1..n : i < m /\ Ending(fr[m])
      BY <3>1 DEF Token
    <3> QED BY <1>2, <3>2
  <2>5. \A i \in 1..Len(g) : Ending(g[i]) => a.cycle /\ GenOf(g[i]) = a.gen
    BY <2>2 DEF Token
  <2>6. \A i, j \in 1..Len(g) : Ending(g[i]) /\ Ending(g[j]) => i = j
    BY <2>2 DEF Token
  <2>7. \A i \in 1..Len(t) : t[i].kind = "prompt" =>
            a.cycle /\ t[i].gen = a.gen /\ ~w.active /\ \A j \in 1..Len(g) : ~Ending(g[j])
    BY <1>1, <2>3 DEF Token
  <2>8. w.active => a.cycle /\ w.current \in Ids /\ \A j \in 1..Len(g) : ~Ending(g[j])
    BY <2>3 DEF Token
  <2> QED BY <1>4, <2>1, <2>4, <2>5, <2>6, <2>7, <2>8 DEF Token, g, t
<1> QED BY <1>5, <1>6

-----------------------------------------------------------------------------
(* The worker.                                                             *)

\* The clauses of what the worker does.
LEMMA PerformedCases ==
    ASSUME NEW w, NEW c
    PROVE  LET v == Performed(w, c)
           IN  /\ c.kind = "open" => v = [w EXCEPT !.open = c.gen, !.inbox = {}]
               /\ c.kind = "prompt" =>
                    v = [w EXCEPT !.active = TRUE, !.current = c.id, !.submitted = FALSE,
                                  !.aborted = FALSE]
               /\ c.kind = "queue" => v = [w EXCEPT !.inbox = @ \cup {c.id}, !.queued = @ + 1]
               /\ c.kind = "abort" =>
                    v = [w EXCEPT !.inbox = {}, !.queued = 0, !.aborted = w.active]
               /\ c.kind = "close" =>
                    v = [w EXCEPT !.open = 0, !.current = 0, !.inbox = {}, !.queued = 0]
               /\ c.kind = "state" => v = w
<1> DEFINE v == Performed(w, c)
<1>1. /\ "open" # "prompt" /\ "open" # "queue" /\ "open" # "abort" /\ "open" # "close"
      /\ "prompt" # "queue" /\ "prompt" # "abort" /\ "prompt" # "close" /\ "queue" # "abort"
      /\ "queue" # "close" /\ "abort" # "close" /\ "state" # "open" /\ "state" # "prompt"
      /\ "state" # "queue" /\ "state" # "abort" /\ "state" # "close"
  OBVIOUS
<1>2. ASSUME c.kind = "open" PROVE v = [w EXCEPT !.open = c.gen, !.inbox = {}]
  BY <1>1, <1>2, Zenon DEF Performed
<1>3. ASSUME c.kind = "prompt"
      PROVE  v = [w EXCEPT !.active = TRUE, !.current = c.id, !.submitted = FALSE,
                           !.aborted = FALSE]
  BY <1>1, <1>3, Zenon DEF Performed
<1>4. ASSUME c.kind = "queue" PROVE v = [w EXCEPT !.inbox = @ \cup {c.id}, !.queued = @ + 1]
  BY <1>1, <1>4, Zenon DEF Performed
<1>5. ASSUME c.kind = "abort"
      PROVE  v = [w EXCEPT !.inbox = {}, !.queued = 0, !.aborted = w.active]
  BY <1>1, <1>5, Zenon DEF Performed
<1>6. ASSUME c.kind = "close"
      PROVE  v = [w EXCEPT !.open = 0, !.current = 0, !.inbox = {}, !.queued = 0]
  BY <1>1, <1>6, Zenon DEF Performed
<1>7. ASSUME c.kind = "state" PROVE v = w
  BY <1>1, <1>7, Zenon DEF Performed
<1> QED BY <1>2, <1>3, <1>4, <1>5, <1>6, <1>7, Zenon

\* The clauses of when it does it.
LEMMA AcceptsCases ==
    ASSUME NEW w, NEW c
    PROVE  /\ c.kind = "open" => (Accepts(w, c) <=> w.open = 0)
           /\ c.kind = "close" => (Accepts(w, c) <=> w.open = c.gen /\ ~w.active)
           /\ c.kind = "queue" =>
                (Accepts(w, c) <=> w.open = c.gen /\ w.active /\ w.queued < QueueLimit)
           /\ c.kind = "prompt" => (Accepts(w, c) <=> w.open = c.gen /\ ~w.active)
<1>1. /\ "open" # "close" /\ "open" # "queue" /\ "close" # "queue"
      /\ "open" \notin {"state", "abort"} /\ "open" \notin {"prompt", "close"}
      /\ "close" \notin {"state", "abort"} /\ "close" \in {"prompt", "close"}
      /\ "queue" \notin {"state", "abort"} /\ "queue" \notin {"prompt", "close"}
      /\ "prompt" \notin {"state", "abort"} /\ "prompt" \in {"prompt", "close"}
      /\ "prompt" # "open" /\ "prompt" # "queue"
  OBVIOUS
<1>2. ASSUME c.kind = "open" PROVE Accepts(w, c) = (w.open = 0)
  BY <1>1, <1>2, Zenon DEF Accepts
<1>3. ASSUME c.kind = "close" PROVE Accepts(w, c) = (w.open = c.gen /\ ~w.active)
  BY <1>1, <1>3, Zenon DEF Accepts
<1>4. ASSUME c.kind = "queue"
      PROVE  Accepts(w, c) = (w.open = c.gen /\ w.active /\ w.queued < QueueLimit)
  BY <1>1, <1>4, Zenon DEF Accepts
<1>5. ASSUME c.kind = "prompt" PROVE Accepts(w, c) = (w.open = c.gen /\ ~w.active)
  BY <1>1, <1>5, Zenon DEF Accepts
<1> QED BY <1>2, <1>3, <1>4, <1>5, Zenon

\* What the worker becomes.
LEMMA PerformedIs ==
    ASSUME NEW w \in Workers, NEW c \in Commands, Accepts(w, c),
           c.kind \in {"prompt", "queue"} => c.id \in Ids
    PROVE  LET v == Performed(w, c)
           IN  /\ v \in Workers
               /\ v.open = (IF c.kind = "open" THEN c.gen
                            ELSE IF c.kind = "close" THEN 0 ELSE w.open)
               /\ IF c.kind = "prompt" THEN v.active /\ v.current \in Ids
                  ELSE v.active = w.active /\ (c.kind # "close" => v.current = w.current)
<1> DEFINE v == Performed(w, c)
<1> HIDE DEF v
<1>1. CASE c.kind = "open"
  <2>1. v = [w EXCEPT !.open = c.gen, !.inbox = {}]
    BY <1>1, PerformedCases, Zenon DEF v
  <2>2. c.gen \in Generations
    BY DEF Commands
  <2>3. v \in Workers
    BY <2>1, <2>2 DEF Workers
  <2>4. v.open = c.gen /\ v.active = w.active /\ v.current = w.current
    BY <2>1 DEF Workers
  <2> QED BY <1>1, <2>3, <2>4 DEF v
<1>2. CASE c.kind = "prompt"
  <2>1. v = [w EXCEPT !.active = TRUE, !.current = c.id, !.submitted = FALSE, !.aborted = FALSE]
    BY <1>2, PerformedCases, Zenon DEF v
  <2>2. c.id \in Ids
    BY <1>2
  <2>3. v \in Workers
    BY <2>1, <2>2 DEF Workers
  <2>4. v.active
    BY <2>1 DEF Workers
  <2>5. v.open = w.open /\ v.current = c.id
    BY <2>1 DEF Workers
  <2> QED BY <1>2, <2>2, <2>3, <2>4, <2>5 DEF v
<1>3. CASE c.kind = "queue"
  <2>1. v = [w EXCEPT !.inbox = w.inbox \cup {c.id}, !.queued = w.queued + 1]
    BY <1>3, PerformedCases, Zenon DEF v
  <2>2. c.id \in Ids /\ w.queued < QueueLimit
    BY <1>3, AcceptsCases
  <2>3. w.inbox \cup {c.id} \in SUBSET Ids /\ w.queued + 1 \in 0..QueueLimit
    BY <2>2, Constants DEF Workers
  <2>4. v \in Workers
    BY <2>1, <2>3 DEF Workers
  <2>5. v.open = w.open /\ v.current = w.current /\ v.active = w.active
    BY <2>1 DEF Workers
  <2> QED BY <1>3, <2>4, <2>5 DEF v
<1>4. CASE c.kind = "abort"
  <2>1. v = [w EXCEPT !.inbox = {}, !.queued = 0, !.aborted = w.active]
    BY <1>4, PerformedCases, Zenon DEF v
  <2>2. 0 \in 0..QueueLimit /\ w.active \in BOOLEAN
    BY Constants DEF Workers
  <2>3. v \in Workers
    BY <2>1, <2>2 DEF Workers
  <2>4. v.open = w.open /\ v.current = w.current /\ v.active = w.active
    BY <2>1 DEF Workers
  <2> QED BY <1>4, <2>3, <2>4 DEF v
<1>5. CASE c.kind = "close"
  <2>1. v = [w EXCEPT !.open = 0, !.current = 0, !.inbox = {}, !.queued = 0]
    BY <1>5, PerformedCases, Zenon DEF v
  <2>2. 0 \in 0..QueueLimit
    BY Constants
  <2>3. v \in Workers
    BY <2>1, <2>2 DEF Workers
  <2>4. v.open = 0 /\ v.active = w.active
    BY <2>1 DEF Workers
  <2> QED BY <1>5, <2>3, <2>4 DEF v
<1>6. CASE c.kind = "state"
  <2>1. v = w
    BY <1>6, PerformedCases, Zenon DEF v
  <2> QED BY <1>6, <2>1 DEF v
<1>7. c.kind \in {"open", "close", "state", "prompt", "queue", "abort"}
  BY DEF Commands
<1> QED BY <1>1, <1>2, <1>3, <1>4, <1>5, <1>6, <1>7

\* The worker answers f and becomes v.
Answers(w, f, v) ==
    \/ f.ok /\ Accepts(w, f.cmd) /\ v = Performed(w, f.cmd)
    \/ ~f.ok /\ (~Accepts(w, f.cmd) \/ f.cmd.kind \in {"prompt", "open"}) /\ v = w

\* Then the session is as the console has to know it.
LEMMA AnswerOpened ==
    ASSUME NEW a, a.wire \in Seq(Commands), a.wire # <<>>,
           NEW b, b.wire = Tail(a.wire), b.gen = a.gen,
           NEW fr \in Seq(Frames), NEW f \in Frames, IsResponse(f), f.cmd = Head(a.wire),
           NEW k, k.kind \in Sync => k.gen = a.gen, Renews(k) => ~a.cycle, Flow(a, fr, k),
           NEW w \in Workers, NEW v, Answers(w, f, v), Token(a, fr, w), Opened(a, fr, w, k)
    PROVE  Opened(b, Append(fr, f), v, k)
<1> DEFINE t == Tail(a.wire)
           g == Append(fr, f)
           n == Len(fr)
           c == f.cmd
<1>1. /\ \A i \in 1..Len(t) : i + 1 \in 1..Len(a.wire) /\ i + 1 # 1 /\ t[i] = a.wire[i + 1]
      /\ Head(a.wire) = a.wire[1] /\ 1 \in 1..Len(a.wire)
  BY TailIs
<1>2. /\ Len(g) = n + 1 /\ n \in Nat /\ g[n + 1] = f
      /\ \A i \in 1..n : g[i] = fr[i]
      /\ \A i \in 1..Len(g) : i \in 1..n \/ i = n + 1
  BY AppendIs
<1>3. c = a.wire[1] /\ c \in Commands /\ Known(c, a, k)
  BY <1>1, FrameIs DEF Flow
<1> HIDE DEF t, g, c
<1>4. \A i \in 1..Len(t) : t[i] # c /\ (t[i].kind \in Sync => t[i] = k)
  BY <1>1, <1>3 DEF Flow, Known
<1>5. \A i \in 1..n : IsResponse(fr[i]) =>
          fr[i].cmd # c /\ (fr[i].cmd.kind \in Sync => fr[i].cmd = k)
  BY <1>1, <1>3 DEF Flow, Known
<1>6. c.kind \in Sync => c = k
  BY <1>3 DEF Known
<1>7. {"open", "close"} \subseteq Sync
  BY DEF Sync
<1>8. CASE c.kind = "close"
  <2>1. c = k /\ Renews(k) /\ ~a.cycle /\ k.gen = a.gen
    BY <1>6, <1>7, <1>8 DEF Renews
  <2>2. ~w.active /\ w.open = c.gen
    BY <1>1, <1>3, <1>8, <2>1 DEF Token, Opened
  <2>3. Accepts(w, c)
    BY <1>8, <2>2, AcceptsCases
  <2>4. f.ok /\ v = Performed(w, c)
    BY <1>8, <2>3 DEF Answers, c
  <2>5. v.open = 0 /\ v.active = w.active
    BY <1>3, <1>8, <2>3, <2>4, PerformedIs
  <2>6. \A i \in 1..Len(t) : t[i].kind \notin {"open", "close"}
    BY <1>4, <1>7, <2>1
  <2>7. \A i \in 1..Len(g) : IsResponse(g[i]) /\ g[i].cmd.kind \in {"open", "close"} => g[i] = f
    BY <1>2, <1>5, <1>7, <2>1
  <2> QED BY <1>8, <2>1, <2>2, <2>4, <2>5, <2>6, <2>7 DEF Opened, g, t, c
<1>9. CASE c.kind = "open"
  <2>1. c = k /\ Renews(k) /\ ~a.cycle /\ k.gen = a.gen
    BY <1>6, <1>7, <1>9 DEF Renews
  <2>2. ~w.active /\ w.open = 0
    BY <1>1, <1>3, <1>9, <2>1 DEF Token, Opened
  <2>3. Accepts(w, c)
    BY <1>9, <2>2, AcceptsCases
  <2>4. v.active = w.active /\ (f.ok => v.open = a.gen)
    <3>1. CASE f.ok
      <4>1. v = Performed(w, c)
        BY <3>1 DEF Answers, c
      <4> QED BY <1>3, <1>9, <2>1, <2>3, <4>1, PerformedIs
    <3>2. CASE ~f.ok
      BY <3>2 DEF Answers
    <3> QED BY <3>1, <3>2
  <2>6. \A i \in 1..Len(t) : t[i].kind \notin {"open", "close"}
    BY <1>4, <1>7, <2>1
  <2>7. \A i \in 1..Len(g) : IsResponse(g[i]) /\ g[i].cmd.kind \in {"open", "close"} => g[i] = f
    BY <1>2, <1>5, <1>7, <2>1
  <2> QED BY <1>9, <2>1, <2>2, <2>4, <2>6, <2>7 DEF Opened, g, t, c
<1>10. CASE c.kind \notin {"open", "close"}
  <2>1. v.open = w.open /\ (v.active => w.active \/ (c.kind = "prompt" /\ f.ok))
    <3>1. CASE f.ok
      <4>1. v = Performed(w, c) /\ Accepts(w, c)
        BY <3>1 DEF Answers, c
      <4>2. c.kind \in {"prompt", "queue"} => c.id \in Ids
        BY <1>3 DEF Known
      <4> QED BY <1>3, <1>10, <3>1, <4>1, <4>2, PerformedIs
    <3>2. CASE ~f.ok
      BY <3>2 DEF Answers
    <3> QED BY <3>1, <3>2
  <2>2. v.active => w.open = a.gen
    <3>1. w.active => w.open = a.gen
      BY DEF Opened
    <3>2. ASSUME c.kind = "prompt", f.ok PROVE w.open = a.gen
      <4>1. Accepts(w, c)
        BY <3>2 DEF Answers, c
      <4>2. c.gen = a.gen
        BY <1>1, <1>3, <3>2 DEF Token
      <4> QED BY <3>2, <4>1, <4>2, AcceptsCases
    <3> QED BY <2>1, <3>1, <3>2
  <2>3. \A i \in 1..Len(g) : IsResponse(g[i]) /\ g[i].cmd.kind \in {"open", "close"} =>
            i \in 1..n /\ g[i] = fr[i]
    BY <1>2, <1>10 DEF c
  <2>4. \A i \in 1..Len(t) : i + 1 \in 1..Len(a.wire) /\ t[i] = a.wire[i + 1]
    BY <1>1
  <2>5. \A i \in 1..Len(t) : /\ t[i].kind = "close" => w.open = a.gen
                             /\ t[i].kind = "open" => w.open = 0
    BY <2>4 DEF Opened
  <2>6. \A i \in 1..Len(g) : /\ IsResponse(g[i]) /\ g[i].cmd.kind = "close" =>
                                  g[i].ok /\ w.open = 0
                             /\ IsResponse(g[i]) /\ g[i].cmd.kind = "open" /\ g[i].ok =>
                                  w.open = a.gen
    BY <2>3 DEF Opened
  <2>7. ~Renews(k) => w.open = a.gen
    BY DEF Opened
  <2> QED BY <2>1, <2>2, <2>5, <2>6, <2>7 DEF Opened, g, t
<1> QED BY <1>8, <1>9, <1>10

\* The worker writes a frame that answers no command.
LEMMA EventFlow ==
    ASSUME NEW a, NEW fr \in Seq(Frames), NEW f \in Frames, ~IsResponse(f), NEW k, Flow(a, fr, k),
           NEW w, NEW v, v.open = w.open, v.active => w.active, Opened(a, fr, w, k)
    PROVE  Flow(a, Append(fr, f), k) /\ Opened(a, Append(fr, f), v, k)
<1> DEFINE g == Append(fr, f)
           n == Len(fr)
<1>1. /\ Len(g) = n + 1 /\ n \in Nat /\ g[n + 1] = f
      /\ \A i \in 1..n : g[i] = fr[i]
      /\ \A i \in 1..Len(g) : i \in 1..n \/ i = n + 1
  BY AppendIs
<1>2. \A i \in 1..Len(g) : IsResponse(g[i]) => i \in 1..n /\ g[i] = fr[i]
  BY <1>1
<1> HIDE DEF g
<1>3. Flow(a, g, k)
  BY <1>2 DEF Flow
<1>4. Opened(a, g, v, k)
  BY <1>2 DEF Opened
<1> QED BY <1>3, <1>4 DEF g

\* The token stays with a worker that proposes.
LEMMA ProposeToken ==
    ASSUME NEW a, NEW fr \in Seq(Frames), NEW f \in Frames, f.type = "plan",
           NEW w, w.active, NEW v, v.active, v.current = w.current, Token(a, fr, w)
    PROVE  Token(a, Append(fr, f), v)
<1> DEFINE g == Append(fr, f)
           n == Len(fr)
<1>1. /\ Len(g) = n + 1 /\ n \in Nat /\ g[n + 1] = f
      /\ \A i \in 1..n : g[i] = fr[i]
      /\ \A i \in 1..Len(g) : i \in 1..n \/ i = n + 1
  BY AppendIs
<1>2. ~Ending(f)
  BY DEF Ending, IsResponse
<1>3. /\ \A j \in 1..n : ~Ending(fr[j])
      /\ a.cycle /\ w.current \in Ids
      /\ \A i \in 1..Len(a.wire) : a.wire[i].kind # "prompt"
  BY DEF Token
<1> HIDE DEF g
<1>4. \A j \in 1..Len(g) : ~Ending(g[j])
  BY <1>1, <1>2, <1>3
<1>5. Token(a, g, v)
  BY <1>3, <1>4 DEF Token
<1> QED BY <1>5 DEF g

\* ... and goes back with the frame that ends the run.
LEMMA FinishToken ==
    ASSUME NEW a, NEW fr \in Seq(Frames), NEW f \in Frames, f.type = "end", f.gen = a.gen,
           NEW w, w.active, NEW v, ~v.active, Token(a, fr, w)
    PROVE  Token(a, Append(fr, f), v)
<1> DEFINE g == Append(fr, f)
           n == Len(fr)
<1>1. /\ Len(g) = n + 1 /\ n \in Nat /\ g[n + 1] = f
      /\ \A i \in 1..n : g[i] = fr[i] /\ i < n + 1
      /\ \A i \in 1..Len(g) : i \in 1..n \/ i = n + 1
      /\ n + 1 \in 1..Len(g)
  BY AppendIs
<1>2. Ending(f) /\ GenOf(f) = a.gen /\ f.type # "plan"
  BY DEF Ending, IsResponse, GenOf
<1>3. /\ \A j \in 1..n : ~Ending(fr[j])
      /\ a.cycle /\ w.current \in Ids
      /\ \A i \in 1..Len(a.wire) : a.wire[i].kind # "prompt"
  BY DEF Token
<1> HIDE DEF g
<1>4. \A j \in 1..Len(g) : Ending(g[j]) => j = n + 1
  BY <1>1, <1>3
<1>5. \A i \in 1..Len(g) : g[i].type = "plan" => \E j \in 1..Len(g) : i < j /\ Ending(g[j])
  BY <1>1, <1>2
<1>6. \A i \in 1..Len(g) : Ending(g[i]) => a.cycle /\ GenOf(g[i]) = a.gen
  BY <1>1, <1>2, <1>3, <1>4
<1>7. \A i, j \in 1..Len(g) : Ending(g[i]) /\ Ending(g[j]) => i = j
  BY <1>4
<1>8. Token(a, g, v)
  BY <1>3, <1>5, <1>6, <1>7 DEF Token
<1> QED BY <1>8 DEF g

-----------------------------------------------------------------------------
(* A handler returns, and the loop goes on.                                *)

\* A renewal begins.
CloseOf(a) == Cmd("close", a.gen, 0)
Closing(a) == [Write(a, CloseOf(a)) EXCEPT !.want = "no"]
CallOf(a, effect, next) ==
    [cmd |-> CloseOf(a), state |-> a.want, effect |-> effect, then |-> next]

\* The clauses of a handler's return.
LEMMA ReturnsCases ==
    ASSUME NEW b, NEW effect, NEW next, Returns(b, effect, next)
    PROVE  \/ b.exit # "no" /\ app' = b /\ pc' = "gone" /\ call' = call
           \/ app' = Fail(b, "renew refused") /\ pc' = "gone" /\ call' = call
           \/ /\ b.exit = "no" /\ b.want # "no" /\ ~Busy(b)
              /\ app' = Closing(b) /\ pc' = "await" /\ call' = CallOf(b, effect, next)
           \/ /\ b.exit = "no" /\ b.want = "no" /\ pc' = next /\ call' = call
              /\ app' = IF effect = "manual" THEN Effect(b, effect) ELSE b
<1>1. CASE b.exit # "no"
  BY <1>1, Zenon DEF Returns
<1>2. CASE b.exit = "no" /\ b.want # "no" /\ RenewRefused(b)
  BY <1>2, Zenon DEF Returns
<1>3. CASE b.exit = "no" /\ b.want # "no" /\ ~RenewRefused(b)
  BY <1>3, Zenon DEF Returns, RenewRefused, Closing, CloseOf, CallOf
<1>4. CASE b.exit = "no" /\ b.want = "no"
  BY <1>4, Zenon DEF Returns
<1> QED BY <1>1, <1>2, <1>3, <1>4, Zenon

\* The clauses of what follows a renewal.
LEMMA EffectCases ==
    ASSUME NEW a, NEW effect
    PROVE  /\ effect = "manual" => Effect(a, effect) = [a EXCEPT !.cruise = SwitchToStepApproval(@)]
           /\ effect = "cruise" =>
                Effect(a, effect) =
                    [a EXCEPT !.cruise = CruiseStart, !.due = TRUE, !.expired = FALSE]
           /\ effect = "none" => Effect(a, effect) = a
<1>1. "manual" # "cruise" /\ "none" # "manual" /\ "none" # "cruise"
  OBVIOUS
<1>2. ASSUME effect = "manual"
      PROVE  Effect(a, effect) = [a EXCEPT !.cruise = SwitchToStepApproval(@)]
  BY <1>1, <1>2, Zenon DEF Effect
<1>3. ASSUME effect = "cruise"
      PROVE  Effect(a, effect) = [a EXCEPT !.cruise = CruiseStart, !.due = TRUE, !.expired = FALSE]
  BY <1>1, <1>3, Zenon DEF Effect
<1>4. ASSUME effect = "none" PROVE Effect(a, effect) = a
  BY <1>1, <1>4, Zenon DEF Effect
<1> QED BY <1>2, <1>3, <1>4, Zenon

\* Only the cruise and its clocks change.
Steers(a, b) ==
    /\ Fit(b) /\ b.gen = a.gen /\ b.next = a.next /\ b.cycle = a.cycle /\ b.wire = a.wire
    /\ b.commands = a.commands /\ b.execution = a.execution /\ b.sweep = a.sweep
    /\ b.deferred = a.deferred /\ b.want = a.want /\ b.exit = a.exit

\* A cruise that begins is fit.
LEMMA CruiseBegins == CruiseStart \in CruiseType /\ CruiseFit(CruiseStart)
<1>1. /\ CruiseDefault \in CruiseType /\ CruiseDefault.steps = 0 /\ CruiseDefault.sdr = 0
      /\ CruiseDefault.planner = 0
  BY Constants DEF CruiseDefault, CruiseType
<1>2. /\ CruiseStart \in CruiseType /\ CruiseStart.steps = 0 /\ CruiseStart.sdr = 0
      /\ CruiseStart.planner = 0
  BY <1>1 DEF CruiseStart, CruiseType
<1> QED BY <1>2, Constants DEF CruiseFit

\* What follows a renewal.
LEMMA EffectIs ==
    ASSUME NEW a, Fit(a), NEW effect \in {"none", "manual", "cruise"}
    PROVE  /\ Steers(a, Effect(a, effect))
           /\ effect # "cruise" => (Effect(a, effect).cruise.active => a.cruise.active)
<1>1. a \in App /\ a.cruise \in CruiseType /\ CruiseFit(a.cruise)
  BY Fields
<1>2. ASSUME NEW cr \in CruiseType, CruiseFit(cr), NEW b,
             b = [a EXCEPT !.cruise = cr]
             \/ b = [a EXCEPT !.cruise = cr, !.due = TRUE, !.expired = FALSE]
      PROVE  Steers(a, b) /\ b.cruise = cr
  <2>1. b \in App
    <3>1. CASE b = [a EXCEPT !.cruise = cr]
      BY <1>1, <1>2, <3>1 DEF App
    <3>2. CASE b = [a EXCEPT !.cruise = cr, !.due = TRUE, !.expired = FALSE]
      BY <1>1, <1>2, <3>2 DEF App
    <3> QED BY <1>2, <3>1, <3>2
  <2>2. /\ b.gen = a.gen /\ b.next = a.next /\ b.cycle = a.cycle /\ b.wire = a.wire
        /\ b.commands = a.commands /\ b.execution = a.execution /\ b.sweep = a.sweep
        /\ b.deferred = a.deferred /\ b.want = a.want /\ b.exit = a.exit
        /\ b.requests = a.requests /\ b.pending = a.pending /\ b.cruise = cr
    BY <1>1, <1>2 DEF App
  <2>3. Fit(b)
    BY <1>2, <2>1, <2>2 DEF Fit
  <2> QED BY <2>2, <2>3 DEF Steers
<1>3. CASE effect = "manual"
  <2> DEFINE cr == SwitchToStepApproval(a.cruise)
             b == Effect(a, effect)
  <2>1. cr \in CruiseType /\ CruiseFit(cr) /\ ~cr.active
    BY <1>1, CruiseIs DEF CruiseFit
  <2>2. b = [a EXCEPT !.cruise = cr]
    BY <1>3, EffectCases
  <2> HIDE DEF cr, b
  <2>3. Steers(a, b) /\ b.cruise = cr
    BY <1>2, <2>1, <2>2
  <2> QED BY <2>1, <2>3 DEF b
<1>4. CASE effect = "cruise"
  <2> DEFINE b == Effect(a, effect)
  <2>1. b = [a EXCEPT !.cruise = CruiseStart, !.due = TRUE, !.expired = FALSE]
    BY <1>4, EffectCases
  <2> HIDE DEF b
  <2>2. Steers(a, b)
    BY <1>2, <2>1, CruiseBegins
  <2> QED BY <1>4, <2>2 DEF b
<1>5. CASE effect = "none"
  BY <1>5, EffectCases DEF Steers
<1> QED BY <1>3, <1>4, <1>5

\* renew writes close_session.
LEMMA ClosingIs ==
    ASSUME NEW b, Fit(b)
    PROVE  /\ Fit(Closing(b)) /\ CloseOf(b) \in Commands
           /\ CloseOf(b).kind = "close" /\ CloseOf(b).gen = b.gen /\ CloseOf(b).id = 0
           /\ Closing(b).wire = Append(b.wire, CloseOf(b)) /\ Closing(b).want = "no"
           /\ Closing(b).gen = b.gen /\ Closing(b).next = b.next /\ Closing(b).cycle = b.cycle
           /\ Closing(b).commands = b.commands /\ Closing(b).execution = b.execution
           /\ Closing(b).sweep = b.sweep /\ Closing(b).deferred = b.deferred
           /\ Closing(b).cruise = b.cruise /\ Closing(b).exit = b.exit
<1> DEFINE c == CloseOf(b)
           r == Closing(b)
           s == Append(b.wire, c)
<1>1. b \in App /\ b.gen \in Generations
  BY Fields
<1>2. c \in Commands /\ c.kind = "close" /\ c.gen = b.gen /\ c.id = 0
  BY <1>1 DEF CloseOf, Cmd, Commands
<1> HIDE DEF c
<1>3. s \in Seq(Commands)
  BY <1>1, <1>2 DEF App
<1>4. r = [[b EXCEPT !.wire = s] EXCEPT !.want = "no"]
  BY DEF Closing, Write, c
<1> HIDE DEF r, s
<1>5. r \in App
  BY <1>1, <1>3, <1>4 DEF App
<1>6. /\ r.wire = s /\ r.want = "no" /\ r.gen = b.gen /\ r.next = b.next /\ r.cycle = b.cycle
      /\ r.commands = b.commands /\ r.execution = b.execution /\ r.sweep = b.sweep
      /\ r.deferred = b.deferred /\ r.cruise = b.cruise /\ r.exit = b.exit
      /\ r.requests = b.requests /\ r.pending = b.pending
  BY <1>1, <1>4 DEF App
<1>7. Fit(r)
  BY <1>5, <1>6 DEF Fit
<1> QED BY <1>2, <1>6, <1>7 DEF r, s, c

\* A method has returned and nothing is waited for: what goes on.
LEMMA Returned ==
    ASSUME NEW b, Fit(b), NEW effect \in {"none", "manual", "cruise"}, NEW next \in Places,
           next \notin {"await", "gone"}, Returns(b, effect, next), call \in Calls,
           b.want # "no" => next \in {"top", "auto", "input", "clear", "closed"},
           b.exit \notin Forbidden, NEW fr \in Seq(Frames), NEW w,
           Flow(b, fr, NoCmd), Token(b, fr, w), Opened(b, fr, w, NoCmd)
    PROVE  /\ Fit(app') /\ call' \in Calls /\ pc' \in {"await", "gone", next}
           /\ app'.exit \notin Forbidden /\ app'.gen = b.gen /\ app'.deferred = b.deferred
           /\ app'.execution = b.execution /\ app'.sweep = b.sweep
           /\ app'.cruise.active => b.cruise.active
           /\ pc' # "gone" => app'.exit = "no" /\ app'.want = "no"
           /\ pc' = "await" => /\ call'.cmd.gen = app'.gen /\ call'.cmd.kind = "close"
                               /\ call'.cmd.id = 0 /\ call'.then = next /\ call'.effect = effect
                               /\ ~Busy(app') /\ b.want # "no" /\ ~b.cycle
           /\ pc' # "gone" => LET k == IF pc' = "await" THEN call'.cmd ELSE NoCmd
                              IN  Flow(app', fr, k) /\ Token(app', fr, w) /\ Opened(app', fr, w, k)
<1> DEFINE k == IF pc' = "await" THEN call'.cmd ELSE NoCmd
<1>1. CASE b.exit # "no" /\ app' = b /\ pc' = "gone" /\ call' = call
  BY <1>1
<1>2. CASE app' = Fail(b, "renew refused") /\ pc' = "gone" /\ call' = call
  <2>1. "renew refused" \in Exits \ Forbidden
    BY DEF Exits, Forbidden
  <2>2. Quiet(b, app') /\ app'.exit = "renew refused"
    BY <1>2, <2>1, Failed
  <2>3. app'.execution = b.execution /\ app'.sweep = b.sweep /\ app'.cruise = b.cruise
    <3>1. b \in App
      BY Fields
    <3> QED BY <1>2, <3>1 DEF Fail, App
  <2> QED BY <1>2, <2>1, <2>2, <2>3 DEF Quiet
<1>3. CASE /\ b.exit = "no" /\ b.want # "no" /\ ~Busy(b)
           /\ app' = Closing(b) /\ pc' = "await" /\ call' = CallOf(b, effect, next)
  <2> DEFINE c == CloseOf(b)
             d == Closing(b)
  <2>1. /\ Fit(d) /\ c \in Commands /\ c.kind = "close" /\ c.gen = b.gen /\ c.id = 0
        /\ d.wire = Append(b.wire, c) /\ d.want = "no" /\ d.gen = b.gen /\ d.next = b.next
        /\ d.cycle = b.cycle /\ d.commands = b.commands /\ d.execution = b.execution
        /\ d.sweep = b.sweep /\ d.deferred = b.deferred /\ d.cruise = b.cruise
        /\ d.exit = b.exit
    BY ClosingIs
  <2>2. /\ b.wire \in Seq(Commands) /\ b.next \in Nat \ {0} /\ b.gen \in Nat
        /\ b.want \in {"idle", "holding"}
    BY <1>3, Constants, Fields DEF App, Generations
  <2>3. /\ call'.cmd = c /\ call'.then = next /\ call'.effect = effect /\ call'.state = b.want
        /\ call' = [cmd |-> c, state |-> b.want, effect |-> effect, then |-> next]
    BY <1>3 DEF CallOf
  <2> HIDE DEF c, d
  <2>4. call' \in Calls
    BY <1>3, <2>1, <2>2, <2>3 DEF Calls, States
  <2>5. w.open = b.gen
    BY DEF Opened, Renews, NoCmd
  <2>6. c.kind \in Sync
    BY <2>1 DEF Sync
  <2>7. Flow(d, fr, c) /\ Token(d, fr, w) /\ Opened(d, fr, w, c)
    BY <2>1, <2>2, <2>5, <2>6, Written
  <2>8. app' = d /\ k = c
    BY <1>3, <2>3 DEF d
  <2>9. ~Busy(d) /\ ~b.cycle
    BY <1>3, <2>1 DEF Busy, HardwareActive
  <2> HIDE DEF k
  <2> QED BY <1>3, <2>1, <2>3, <2>4, <2>7, <2>8, <2>9 DEF k
<1>4. CASE /\ b.exit = "no" /\ b.want = "no" /\ pc' = next /\ call' = call
           /\ app' = IF effect = "manual" THEN Effect(b, effect) ELSE b
  <2>1. Steers(b, app') /\ (app'.cruise.active => b.cruise.active)
    <3>1. CASE effect = "manual"
      BY <1>4, <3>1, EffectIs
    <3>2. CASE effect # "manual"
      BY <1>4, <3>2 DEF Steers
    <3> QED BY <3>1, <3>2
  <2>2. Moves(b, app')
    BY <2>1 DEF Steers, Moves
  <2>3. Flow(app', fr, NoCmd) /\ Token(app', fr, w) /\ Opened(app', fr, w, NoCmd)
    BY <2>2, MovesFlow, MovesToken, MovesOpened
  <2>4. k = NoCmd
    BY <1>4
  <2> HIDE DEF k
  <2> QED BY <1>4, <2>1, <2>3, <2>4 DEF Steers, k
<1> HIDE DEF k
<1> QED BY <1>1, <1>2, <1>3, <1>4, ReturnsCases

Nexts == {"top", "auto", "input", "clear", "closed"}
Effects == {"none", "manual", "cruise"}

\* What is waited for, before and after a step.
LEMMA WaitedIs ==
    /\ pc = "await" => Waited = call.cmd
    /\ pc # "await" => Waited = NoCmd /\ Waited.kind = "none" /\ ~Renews(Waited)
    /\ pc' = "await" => Waited' = call'.cmd
    /\ pc' # "await" => Waited' = NoCmd /\ Waited'.kind = "none" /\ ~Renews(Waited')
  BY DEF Waited, NoCmd, Renews

\* The debt after a handler's return is the debt before it.
LEMMA ReturnedGen ==
    ASSUME GenInv, Types, pc \notin {"await", "gone", "clear"}, Fit(app),
           NEW b, NEW effect \in Effects, NEW next \in Nexts,
           app'.gen = app.gen, app'.deferred = b.deferred, app'.cruise.active => b.cruise.active,
           pc' \in {"await", next},
           pc' = "await" => /\ call'.cmd.kind = "close" /\ call'.then = next
                            /\ call'.effect = effect /\ b.want # "no" /\ ~b.cycle,
           UNCHANGED <<stop, typed>>, lines' \in Seq(AllInputs), NEW paid \in Nat,
           2 * Len(lines') + 2 * One(stop /\ next # "clear") + paid
             <= 2 * Len(lines) + 2 * One(stop),
           One(b.deferred) + One(b.cruise.active) + One(b.want # "no" /\ ~b.cycle)
               + One(b.want # "no" /\ effect = "cruise")
             <= One(app.deferred) + One(app.cruise.active) + paid
    PROVE  GenInv'
<1> DEFINE s == One(stop)
           d == One(app.deferred)
           c == One(app.cruise.active)
           s1 == One(stop /\ next # "clear")
           d1 == One(b.deferred)
           c1 == One(b.cruise.active)
           k1 == One(b.want # "no" /\ ~b.cycle)
           x1 == One(b.want # "no" /\ effect = "cruise")
           s2 == One(stop' /\ ~Clearing')
           d2 == One(app'.deferred)
           c2 == One(app'.cruise.active)
           k2 == One(Waited'.kind = "close")
           x2 == One(pc' = "await" /\ call'.effect = "cruise")
<1>1. Len(lines) \in Nat /\ Len(lines') \in Nat /\ app.gen \in Nat /\ typed \in Nat
  BY Fields DEF Types, Generations
<1>2. Due = 2 * Len(lines) + 2 * s + d + c
  <2>1. One(stop /\ ~Clearing) = One(stop)
    BY DEF One, Clearing
  <2>2. One(Waited.kind = "close") = 0
    BY WaitedIs DEF One
  <2>3. One(pc = "await" /\ call.effect = "cruise") = 0
    BY DEF One
  <2>4. One(stop) \in Nat /\ One(app.deferred) \in Nat /\ One(app.cruise.active) \in Nat
    BY DEF One
  <2> QED BY <1>1, <2>1, <2>2, <2>3, <2>4 DEF Due
<1>3. s2 <= s1
  BY DEF One, Clearing
<1>4. d2 = d1
  BY DEF One
<1>5. c2 <= c1
  BY DEF One
<1>6. k2 <= k1
  BY WaitedIs DEF One
<1>7. x2 <= x1
  BY DEF One
<1>8. /\ s \in Nat /\ d \in Nat /\ c \in Nat /\ s1 \in Nat /\ d1 \in Nat /\ c1 \in Nat
      /\ k1 \in Nat /\ x1 \in Nat /\ s2 \in Nat /\ d2 \in Nat /\ c2 \in Nat /\ k2 \in Nat
      /\ x2 \in Nat
  BY DEF One
<1>9. Due' = 2 * Len(lines') + 2 * s2 + d2 + c2 + k2 + x2
  BY DEF Due
<1>10. app.gen + Due <= 2 * typed + 1
  BY DEF GenInv
<1>11. 2 * Len(lines') + 2 * s1 + paid <= 2 * Len(lines) + 2 * s
  OBVIOUS
<1>12. d1 + c1 + k1 + x1 <= d + c + paid
  OBVIOUS
<1> HIDE DEF s, d, c, s1, d1, c1, k1, x1, s2, d2, c2, k2, x2
<1>13. Due' <= Due
  BY <1>1, <1>2, <1>3, <1>4, <1>5, <1>6, <1>7, <1>8, <1>9, <1>11, <1>12
<1>14. Due \in Nat /\ Due' \in Nat
  BY <1>1, <1>2, <1>8, <1>9
<1>15. app'.gen + Due' <= 2 * typed' + 1
  BY <1>1, <1>10, <1>13, <1>14
<1> QED BY <1>15 DEF GenInv

\* A handler that does not wait and sends at most one command.
LEMMA StepIs ==
    ASSUME IInv, pc \notin {"await", "gone", "clear"},
           NEW b, NEW effect \in Effects, NEW next \in Nexts, Returns(b, effect, next),
           Moves(app, b), b.cruise.active => app.cruise.active,
           UNCHANGED <<stop, typed, frames, worker>>, lines' \in Seq(AllInputs),
           Len(lines') <= Len(lines), next = "clear" => stop /\ lines' = <<>>, NEW paid \in Nat,
           2 * Len(lines') + 2 * One(stop /\ next # "clear") + paid
             <= 2 * Len(lines) + 2 * One(stop),
           One(b.deferred) + One(b.cruise.active) + One(b.want # "no" /\ ~b.cycle)
               + One(b.want # "no" /\ effect = "cruise")
             <= One(app.deferred) + One(app.cruise.active) + paid
    PROVE  IInv' /\ app'.execution = b.execution /\ app'.sweep = b.sweep
<1>1. Fit(app) /\ Types /\ LoopInv /\ FlowInv /\ GenInv
  BY DEF IInv
<1>2. Fit(b) /\ b.gen = app.gen /\ b.exit \notin Forbidden
  BY <1>1 DEF Moves, LoopInv, Forbidden
<1>3. /\ Flow(app, frames, NoCmd) /\ Token(app, frames, worker)
      /\ Opened(app, frames, worker, NoCmd)
  BY <1>1, WaitedIs DEF FlowInv
<1>4. frames \in Seq(Frames) /\ call \in Calls
  BY <1>1 DEF Types
<1>5. Flow(b, frames, NoCmd) /\ Token(b, frames, worker) /\ Opened(b, frames, worker, NoCmd)
  BY <1>1, <1>3, <1>4, MovesFlow, MovesToken, MovesOpened
<1>6. next \in Places /\ next \notin {"await", "gone"}
  BY DEF Places, Nexts
<1>7. /\ Fit(app') /\ call' \in Calls /\ pc' \in {"await", "gone", next}
      /\ app'.exit \notin Forbidden /\ app'.gen = b.gen /\ app'.deferred = b.deferred
      /\ app'.execution = b.execution /\ app'.sweep = b.sweep
      /\ app'.cruise.active => b.cruise.active
      /\ pc' # "gone" => app'.exit = "no" /\ app'.want = "no"
      /\ pc' = "await" => /\ call'.cmd.gen = app'.gen /\ call'.cmd.kind = "close"
                          /\ call'.cmd.id = 0 /\ call'.then = next /\ call'.effect = effect
                          /\ ~Busy(app') /\ b.want # "no" /\ ~b.cycle
      /\ pc' # "gone" => LET k == IF pc' = "await" THEN call'.cmd ELSE NoCmd
                         IN  /\ Flow(app', frames, k) /\ Token(app', frames, worker)
                             /\ Opened(app', frames, worker, k)
  BY <1>2, <1>4, <1>5, <1>6, Returned DEF Effects, Nexts
<1>8. Types'
  <2>1. pc' \in Places
    BY <1>6, <1>7 DEF Places
  <2>2. Len(lines') <= InputLimit
    BY <1>1, Constants DEF Types
  <2> QED BY <1>1, <1>7, <2>1, <2>2 DEF Types
<1>9. LoopInv'
  <2>1. Clearing' => next = "clear"
    BY <1>7 DEF Clearing
  <2> QED BY <1>7, <2>1 DEF LoopInv, Forbidden
<1>10. ASSUME pc' # "gone" PROVE FlowInv'
  <2>1. Waited' = IF pc' = "await" THEN call'.cmd ELSE NoCmd
    BY WaitedIs
  <2>2. Flow(app', frames', Waited') /\ Token(app', frames', worker')
        /\ Opened(app', frames', worker', Waited')
    BY <1>7, <1>10, <2>1
  <2>3. Renews(Waited') => ~Busy(app')
    BY <1>7, WaitedIs
  <2>4. pc' = "await" => call'.cmd.gen = app'.gen /\ call'.cmd.kind \in Sync /\ call'.cmd.id = 0
    BY <1>7 DEF Sync
  <2> QED BY <2>2, <2>3, <2>4 DEF FlowInv
<1>11. ASSUME pc' # "gone" PROVE GenInv'
  BY <1>1, <1>2, <1>7, <1>11, ReturnedGen
<1> QED BY <1>7, <1>8, <1>9, <1>10, <1>11 DEF IInv

-----------------------------------------------------------------------------
(* The actions.                                                            *)

\* What a step may start.
Radio ==
    /\ Starts(app.execution, app'.execution) =>
         \/ Approving(app'.execution)
         \/ app.cruise.active /\ app'.execution.bytes <= AutoBytes
    /\ Starts(app.sweep, app'.sweep) =>
         \/ Approving(app'.sweep)
         \/ app.cruise.active /\ app.cruise.used + app'.sweep.bytes <= Budget

\* A step that starts nothing is allowed.
LEMMA IdleRadio ==
    ASSUME NEW b, Idles(app, b), app'.execution = b.execution, app'.sweep = b.sweep
    PROVE  Radio
  BY DEF Idles, Radio, Starts

\* A line is taken from the queue and carried out.
LEMMA LineStep ==
    ASSUME IInv, NEW l, Line(l), NEW b, NEW effect \in Effects, NEW next \in {"top", "closed"},
           Returns(b, effect, next), Moves(app, b), b.cruise.active => app.cruise.active,
           b.want = "no" \/ b.cycle \/ (b.deferred => app.deferred),
           effect = "cruise" => (b.deferred => app.deferred)
    PROVE  IInv' /\ app'.execution = b.execution /\ app'.sweep = b.sweep
<1>1. /\ pc \notin {"await", "gone", "clear"} /\ UNCHANGED <<stop, typed, frames, worker>>
      /\ lines # <<>> /\ lines' = Tail(lines) /\ next \in Nexts
  BY DEF Line, Nexts
<1>2. lines \in Seq(AllInputs)
  BY DEF IInv, Types
<1>3. /\ lines' \in Seq(AllInputs) /\ Len(lines') = Len(lines) - 1 /\ Len(lines) \in Nat
  BY <1>1, <1>2, TailIs
<1> DEFINE s1 == One(stop /\ next # "clear")
           s == One(stop)
           d == One(app.deferred)
           c == One(app.cruise.active)
           d1 == One(b.deferred)
           c1 == One(b.cruise.active)
           k1 == One(b.want # "no" /\ ~b.cycle)
           x1 == One(b.want # "no" /\ effect = "cruise")
<1>4. s1 <= s /\ s1 \in Nat /\ s \in Nat
  BY DEF One
<1>5. c1 <= c /\ c1 \in {0, 1} /\ c \in {0, 1} /\ d \in {0, 1} /\ d1 \in {0, 1} /\ k1 \in {0, 1}
      /\ x1 \in {0, 1}
  BY DEF One
<1>6. /\ effect = "cruise" => d1 <= d
      /\ effect # "cruise" => x1 = 0
      /\ k1 = 1 => d1 <= d
  BY DEF One
<1> HIDE DEF s1, s, d, c, d1, c1, k1, x1
<1>7. 2 * Len(lines') + 2 * s1 + 2 <= 2 * Len(lines) + 2 * s
  BY <1>3, <1>4
<1>8. d1 + c1 + k1 + x1 <= d + c + 2
  <2>1. CASE effect = "cruise"
    BY <1>5, <1>6, <2>1
  <2>2. CASE effect # "cruise"
    BY <1>5, <1>6, <2>2
  <2> QED BY <2>1, <2>2
<1>9. next # "clear" /\ Len(lines') <= Len(lines) /\ 2 \in Nat
  BY <1>3
<1> USE DEF s1, s, d, c, d1, c1, k1, x1
<1> QED BY <1>1, <1>3, <1>7, <1>8, <1>9, StepIs

\* /text and /follow-up
LEMMA TalkLines ==
    ASSUME IInv, TextLine \/ FollowUpLine
    PROVE  IInv' /\ Radio
<1>1. Fit(app) /\ app.want = "no"
  BY DEF IInv, LoopInv, TextLine, FollowUpLine, Line
<1>2. PICK b, l : Line(l) /\ Returns(b, "none", "top") /\ Moves(app, b) /\ Speaks(app, b)
  <2>1. CASE TextLine
    <3>1. CASE app.cycle
      <4>1. PICK valid \in BOOLEAN :
              Returns(QueueModelInput(app, valid), "none", "top") /\ Line("text")
        BY <2>1, <3>1 DEF TextLine
      <4> QED BY <1>1, <4>1, QueueIs
    <3>2. CASE ~app.cycle
      <4>1. PICK valid \in BOOLEAN :
              Returns(Submit(app, valid), "none", "top") /\ Line("text")
        BY <2>1, <3>2 DEF TextLine
      <4> QED BY <1>1, <4>1, SubmitIs
    <3> QED BY <3>1, <3>2
  <2>2. CASE FollowUpLine
    <3>1. PICK valid \in BOOLEAN :
            Returns(QueueModelInput(app, valid), "none", "top") /\ Line("follow-up")
      BY <2>2 DEF FollowUpLine
    <3> QED BY <1>1, <3>1, QueueIs
  <2> QED BY <2>1, <2>2
<1>3. /\ b.want = "no"
      /\ b.cruise.active => app.cruise.active
      /\ Idles(app, b)
  BY <1>1, <1>2 DEF Speaks, Idles
<1>4. IInv' /\ app'.execution = b.execution /\ app'.sweep = b.sweep
  BY <1>2, <1>3, LineStep DEF Effects
<1> QED BY <1>3, <1>4, IdleRadio

\* /approve
LEMMA ApproveStep ==
    ASSUME IInv, ApproveLine
    PROVE  IInv' /\ Radio
<1>1. Fit(app) /\ app.want = "no"
  BY DEF IInv, LoopInv, ApproveLine, Line
<1>2. PICK sdr \in Sdr : Returns(Approve(app, sdr), "none", "top")
  BY DEF ApproveLine
<1>3. Line("approve")
  BY DEF ApproveLine
<1> DEFINE b == Approve(app, sdr)
<1>4. Quiet(app, b) /\ Started(app, app.pending, b)
  BY <1>1, ApproveIs
<1> HIDE DEF b
<1>5. Moves(app, b)
  BY <1>4, QuietMoves
<1>6. b.want = "no" /\ (b.cruise.active => app.cruise.active)
  BY <1>1, <1>4 DEF Quiet
<1>7. Returns(b, "none", "top")
  BY <1>2 DEF b
<1>8. IInv' /\ app'.execution = b.execution /\ app'.sweep = b.sweep
  BY <1>3, <1>5, <1>6, <1>7, LineStep DEF Effects
<1>9. Radio
  BY <1>3, <1>4, <1>8 DEF Radio, Started, Approving, Line
<1> QED BY <1>8, <1>9

\* /reject
LEMMA RejectStep ==
    ASSUME IInv, RejectLine
    PROVE  IInv' /\ Radio
<1>1. Fit(app) /\ app.want = "no"
  BY DEF IInv, LoopInv, RejectLine, Line
<1> DEFINE b == Reject(app)
<1>2. Returns(b, "none", "top") /\ Line("reject")
  BY DEF RejectLine
<1>3. Quiet(app, b) /\ Idles(app, b)
  BY <1>1, RejectIs
<1> HIDE DEF b
<1>4. Moves(app, b)
  BY <1>3, QuietMoves
<1>5. b.want = "no" /\ (b.cruise.active => app.cruise.active)
  BY <1>1, <1>3 DEF Quiet
<1>6. IInv' /\ app'.execution = b.execution /\ app'.sweep = b.sweep
  BY <1>2, <1>4, <1>5, LineStep DEF Effects
<1> QED BY <1>3, <1>6, IdleRadio

\* /manual
LEMMA ManualStep ==
    ASSUME IInv, ManualLine
    PROVE  IInv' /\ Radio
<1>1. Fit(app) /\ app.want = "no"
  BY DEF IInv, LoopInv, ManualLine, Line
<1>2. PICK ok \in BOOLEAN, sdr \in Sdr :
        Returns(EnableStepApproval(app, ok, sdr), "manual", "top")
  BY DEF ManualLine
<1>3. Line("manual")
  BY DEF ManualLine
<1> DEFINE b == EnableStepApproval(app, ok, sdr)
<1>4. /\ Moves(app, b) /\ Idles(app, b) /\ (b.cruise.active => app.cruise.active)
      /\ b.want = "no" \/ b.cycle \/ (b.deferred => app.deferred)
  BY <1>1, EnableIs
<1>5. Returns(b, "manual", "top")
  BY <1>2
<1> HIDE DEF b
<1>6. IInv' /\ app'.execution = b.execution /\ app'.sweep = b.sweep
  BY <1>3, <1>4, <1>5, LineStep DEF Effects
<1> QED BY <1>4, <1>6, IdleRadio

\* /pause, and /quit while something is active.
LEMMA HaltStep ==
    ASSUME IInv, NEW l, Line(l), NEW ok \in BOOLEAN, NEW sdr \in Sdr,
           NEW next \in {"top", "closed"}, Returns(Stop(app, ok, sdr), "none", next)
    PROVE  IInv' /\ Radio
<1>1. Fit(app) /\ app.want = "no"
  BY DEF IInv, LoopInv, Line
<1> DEFINE b == Stop(app, ok, sdr)
<1>2. Halts(app, b)
  BY <1>1, StopIs
<1>3. Returns(b, "none", next)
  OBVIOUS
<1> HIDE DEF b
<1>4. IInv' /\ app'.execution = b.execution /\ app'.sweep = b.sweep
  BY <1>2, <1>3, LineStep DEF Effects, Halts
<1>5. Idles(app, b)
  BY <1>2 DEF Halts
<1> QED BY <1>4, <1>5, IdleRadio

\* /resume, /auto, and /quit when nothing is active.
LEMMA AskStep ==
    ASSUME IInv, NEW l, Line(l), NEW effect \in Effects, NEW next \in {"top", "closed"},
           NEW b, b = app \/ b = [app EXCEPT !.want = "idle"], Returns(b, effect, next)
    PROVE  IInv' /\ Radio
<1>1. Fit(app)
  BY DEF IInv
<1>2. /\ Moves(app, b) /\ Idles(app, b) /\ b.cruise = app.cruise /\ b.deferred = app.deferred
  BY <1>1, AskIs
<1>3. IInv' /\ app'.execution = b.execution /\ app'.sweep = b.sweep
  BY <1>2, LineStep
<1> QED BY <1>2, <1>3, IdleRadio

\* The lines that ask for a renewal, and the end.
LEMMA AskLines ==
    ASSUME IInv, PauseLine \/ ResumeLine \/ AutoLine \/ QuitLine
    PROVE  IInv' /\ Radio
<1>0. "none" \in Effects /\ "cruise" \in Effects
  BY DEF Effects
<1>1. CASE PauseLine
  <2>1. PICK ok \in BOOLEAN, sdr \in Sdr : Returns(Stop(app, ok, sdr), "none", "top")
    BY <1>1 DEF PauseLine
  <2>2. Line("pause")
    BY <1>1 DEF PauseLine
  <2> QED BY <2>1, <2>2, HaltStep
<1>2. CASE ResumeLine
  <2> DEFINE b == [app EXCEPT !.want = "idle"]
  <2>1. Returns(b, "none", "top") /\ Line("resume")
    BY <1>2 DEF ResumeLine
  <2>2. b = app \/ b = [app EXCEPT !.want = "idle"]
    OBVIOUS
  <2> HIDE DEF b
  <2> QED BY <1>0, <2>1, <2>2, AskStep
<1>3. CASE AutoLine
  <2> DEFINE b == StartAuto(app)
  <2>1. Returns(b, "cruise", "top") /\ Line("auto")
    BY <1>3 DEF AutoLine
  <2>2. b = app \/ b = [app EXCEPT !.want = "idle"]
    BY DEF StartAuto
  <2> HIDE DEF b
  <2> QED BY <1>0, <2>1, <2>2, AskStep
<1>4. CASE QuitLine
  <2>1. PICK ok \in BOOLEAN, sdr \in Sdr :
          Returns(IF Busy(app) THEN Stop(app, ok, sdr) ELSE app, "none", "closed")
    BY <1>4 DEF QuitLine
  <2>2. Line("quit")
    BY <1>4 DEF QuitLine
  <2>3. CASE Busy(app)
    <3>1. Returns(Stop(app, ok, sdr), "none", "closed")
      BY <2>1, <2>3
    <3> QED BY <2>2, <3>1, HaltStep
  <2>4. CASE ~Busy(app)
    <3>1. Returns(app, "none", "closed")
      BY <2>1, <2>4
    <3> QED BY <1>0, <2>2, <3>1, AskStep
  <2> QED BY <2>3, <2>4
<1> QED BY <1>1, <1>2, <1>3, <1>4

\* A step of the loop that takes no line.
LEMMA LoopStep ==
    ASSUME IInv, pc \notin {"await", "gone", "clear"},
           NEW b, NEW next \in Nexts \ {"clear"}, Returns(b, "none", next),
           Moves(app, b), b.cruise.active => app.cruise.active,
           UNCHANGED <<lines, stop, typed, frames, worker>>,
           \/ b.want = "no" /\ b.deferred = app.deferred
           \/ app.deferred /\ ~b.deferred
           \/ /\ app.cruise.active /\ ~b.cruise.active
              /\ b.want = "no" \/ b.cycle \/ (b.deferred => app.deferred)
    PROVE  IInv' /\ app'.execution = b.execution /\ app'.sweep = b.sweep
<1>1. lines \in Seq(AllInputs) /\ Len(lines) \in Nat
  BY DEF IInv, Types
<1> DEFINE s1 == One(stop /\ next # "clear")
           s == One(stop)
           d == One(app.deferred)
           c == One(app.cruise.active)
           d1 == One(b.deferred)
           c1 == One(b.cruise.active)
           k1 == One(b.want # "no" /\ ~b.cycle)
           x1 == One(b.want # "no" /\ "none" = "cruise")
<1>2. s1 = s /\ s \in Nat
  BY DEF One
<1>3. c1 <= c /\ c1 \in {0, 1} /\ c \in {0, 1} /\ d \in {0, 1} /\ d1 \in {0, 1} /\ k1 \in {0, 1}
      /\ x1 = 0
  BY DEF One
<1>4. \/ k1 = 0 /\ d1 = d
      \/ d = 1 /\ d1 = 0
      \/ c = 1 /\ c1 = 0 /\ (k1 = 0 \/ d1 <= d)
  BY DEF One
<1> HIDE DEF s1, s, d, c, d1, c1, k1, x1
<1>5. 2 * Len(lines') + 2 * s1 + 0 <= 2 * Len(lines) + 2 * s
  BY <1>1, <1>2
<1>6. d1 + c1 + k1 + x1 <= d + c + 0
  BY <1>3, <1>4
<1>7. next # "clear" /\ Len(lines') <= Len(lines) /\ 0 \in Nat /\ "none" \in Effects
  BY <1>1 DEF Effects
<1> USE DEF s1, s, d, c, d1, c1, k1, x1
<1> QED BY <1>1, <1>5, <1>6, <1>7, StepIs

\* poll, in the loop and while close waits.
LEMMA PollStep ==
    ASSUME IInv, Poll \/ ClosePolls
    PROVE  IInv' /\ Radio
<1>1. Fit(app) /\ app.want = "no"
  BY DEF IInv, LoopInv, Poll, ClosePolls
<1>2. PICK sdr1 \in Sdr, sdr2 \in Sdr, next \in {"auto", "closed"} :
        Returns(Polled(app, sdr1, sdr2), "none", next)
  BY DEF Poll, ClosePolls
<1> DEFINE b == Polled(app, sdr1, sdr2)
<1>3. /\ Still(app, b) /\ Idles(app, b) /\ (b.cruise.active => app.cruise.active)
      /\ \/ b.want = "no" /\ b.deferred = app.deferred
         \/ app.deferred /\ ~b.deferred
  BY <1>1, PolledIs
<1>4. Returns(b, "none", next)
  BY <1>2
<1> HIDE DEF b
<1>5. Moves(app, b)
  BY <1>3 DEF Still, Moves
<1>6. pc \notin {"await", "gone", "clear"} /\ UNCHANGED <<lines, stop, typed, frames, worker>>
  BY DEF Poll, ClosePolls
<1>7. next \in Nexts \ {"clear"}
  BY DEF Nexts
<1>8. IInv' /\ app'.execution = b.execution /\ app'.sweep = b.sweep
  BY <1>3, <1>4, <1>5, <1>6, <1>7, LoopStep
<1> QED BY <1>3, <1>8, IdleRadio

\* advance_auto
LEMMA AutoIs ==
    ASSUME IInv, AutoStep
    PROVE  IInv' /\ Radio
<1>1. Fit(app) /\ app.want = "no"
  BY DEF IInv, LoopInv, AutoStep
<1>2. PICK ok \in BOOLEAN, sdr \in Sdr : Returns(AdvanceAuto(app, ok, sdr), "none", "input")
  BY DEF AutoStep
<1> DEFINE b == AdvanceAuto(app, ok, sdr)
<1>3. /\ Moves(app, b) /\ Idles(app, b) /\ (b.cruise.active => app.cruise.active)
      /\ \/ b.want = "no" /\ b.deferred = app.deferred
         \/ /\ app.cruise.active /\ ~b.cruise.active
            /\ b.want = "no" \/ b.cycle \/ (b.deferred => app.deferred)
  BY <1>1, AdvanceIs
<1>4. Returns(b, "none", "input")
  BY <1>2
<1> HIDE DEF b
<1>5. pc \notin {"await", "gone", "clear"} /\ UNCHANGED <<lines, stop, typed, frames, worker>>
  BY DEF AutoStep
<1>6. "input" \in Nexts \ {"clear"}
  BY DEF Nexts
<1>7. IInv' /\ app'.execution = b.execution /\ app'.sweep = b.sweep
  BY <1>3, <1>4, <1>5, <1>6, LoopStep
<1> QED BY <1>3, <1>7, IdleRadio

\* A raised priority_stop is carried out.
LEMMA StopStep ==
    ASSUME IInv, pc = "top", stop, lines' = <<>>, UNCHANGED <<stop, typed, frames, worker>>,
           NEW ok \in BOOLEAN, NEW sdr \in Sdr, Returns(Stop(app, ok, sdr), "none", "clear")
    PROVE  IInv' /\ Radio
<1>1. Fit(app) /\ app.want = "no"
  BY DEF IInv, LoopInv
<1> DEFINE b == Stop(app, ok, sdr)
<1>2. Halts(app, b)
  BY <1>1, StopIs
<1>3. Returns(b, "none", "clear")
  OBVIOUS
<1> HIDE DEF b
<1>4. lines \in Seq(AllInputs) /\ Len(lines) \in Nat /\ lines' \in Seq(AllInputs) /\ Len(lines') = 0
  BY DEF IInv, Types
<1> DEFINE s1 == One(stop /\ "clear" # "clear")
           s == One(stop)
           d == One(app.deferred)
           c == One(app.cruise.active)
           d1 == One(b.deferred)
           c1 == One(b.cruise.active)
           k1 == One(b.want # "no" /\ ~b.cycle)
           x1 == One(b.want # "no" /\ "none" = "cruise")
<1>5. s1 = 0 /\ s = 1
  BY DEF One
<1>6. c1 = 0 /\ c \in {0, 1} /\ d \in {0, 1} /\ d1 \in {0, 1} /\ k1 \in {0, 1} /\ x1 = 0
  BY <1>2 DEF One, Halts
<1> HIDE DEF s1, s, d, c, d1, c1, k1, x1
<1>7. 2 * Len(lines') + 2 * s1 + 2 <= 2 * Len(lines) + 2 * s
  BY <1>4, <1>5
<1>8. d1 + c1 + k1 + x1 <= d + c + 2
  BY <1>6
<1>9. /\ "clear" \in Nexts /\ Len(lines') <= Len(lines) /\ 2 \in Nat /\ "none" \in Effects
      /\ pc \notin {"await", "gone", "clear"}
  BY <1>4 DEF Effects, Nexts
<1>10. Moves(app, b) /\ (b.cruise.active => app.cruise.active) /\ Idles(app, b)
  BY <1>2 DEF Halts
<1> USE DEF s1, s, d, c, d1, c1, k1, x1
<1>11. IInv' /\ app'.execution = b.execution /\ app'.sweep = b.sweep
  BY <1>3, <1>4, <1>7, <1>8, <1>9, <1>10, StepIs
<1> QED BY <1>10, <1>11, IdleRadio

\* The debt does not grow where nothing new asks for a renewal.
LEMMA GenKept ==
    ASSUME Types, Fit(app), GenInv, app'.gen = app.gen, app'.deferred => app.deferred,
           app'.cruise.active => app.cruise.active,
           Waited'.kind = "close" => Waited.kind = "close",
           pc' = "await" /\ call'.effect = "cruise" => pc = "await" /\ call.effect = "cruise",
           lines' \in Seq(AllInputs), typed' \in Nat,
           Len(lines') + One(stop' /\ ~Clearing') + typed
             <= Len(lines) + One(stop /\ ~Clearing) + typed'
    PROVE  GenInv'
<1> DEFINE s == One(stop /\ ~Clearing)
           d == One(app.deferred)
           c == One(app.cruise.active)
           k == One(Waited.kind = "close")
           x == One(pc = "await" /\ call.effect = "cruise")
           s2 == One(stop' /\ ~Clearing')
           d2 == One(app'.deferred)
           c2 == One(app'.cruise.active)
           k2 == One(Waited'.kind = "close")
           x2 == One(pc' = "await" /\ call'.effect = "cruise")
<1>1. /\ Len(lines) \in Nat /\ Len(lines') \in Nat /\ app.gen \in Nat /\ typed \in Nat
      /\ typed' \in Nat /\ app'.gen = app.gen
  BY Fields DEF Types, Generations
<1>2. d2 <= d /\ c2 <= c /\ k2 <= k /\ x2 <= x
  BY DEF One
<1>3. /\ s \in Nat /\ d \in Nat /\ c \in Nat /\ k \in Nat /\ x \in Nat
      /\ s2 \in Nat /\ d2 \in Nat /\ c2 \in Nat /\ k2 \in Nat /\ x2 \in Nat
  BY DEF One
<1>4. Due = 2 * Len(lines) + 2 * s + d + c + k + x
  BY DEF Due
<1>5. Due' = 2 * Len(lines') + 2 * s2 + d2 + c2 + k2 + x2
  BY DEF Due
<1>6. app.gen + Due <= 2 * typed + 1
  BY DEF GenInv
<1>7. Len(lines') + s2 + typed <= Len(lines) + s + typed'
  OBVIOUS
<1> HIDE DEF s, d, c, k, x, s2, d2, c2, k2, x2
<1> DEFINE e == Len(lines) + s - typed
           e2 == Len(lines') + s2 - typed'
<1>8. e2 <= e /\ e \in Int /\ e2 \in Int
  BY <1>1, <1>3, <1>7
<1>9. app.gen + (2 * e + d + c + k + x) <= 1
  BY <1>1, <1>3, <1>4, <1>6
<1> HIDE DEF e, e2
<1>10. app.gen + (2 * e2 + d2 + c2 + k2 + x2) <= 1
  BY <1>1, <1>2, <1>3, <1>8, <1>9
<1> DEFINE t2 == typed'
           l2 == Len(lines')
           r2 == d2 + c2 + k2 + x2
           u2 == Due'
           g2 == app'.gen
<1>11. /\ t2 \in Nat /\ l2 \in Nat /\ r2 \in Nat /\ e2 = l2 + s2 - t2 /\ g2 \in Nat
       /\ g2 + (2 * e2 + r2) <= 1
  <2>1. t2 \in Nat /\ l2 \in Nat /\ g2 \in Nat
    BY <1>1
  <2>2. r2 \in Nat
    BY <1>3
  <2>3. e2 = l2 + s2 - t2
    BY DEF e2
  <2>4. g2 + (2 * e2 + r2) <= 1
    BY <1>1, <1>3, <1>8, <1>10
  <2> QED BY <2>1, <2>2, <2>3, <2>4
<1>12. u2 = 2 * l2 + 2 * s2 + r2
  BY <1>1, <1>3, <1>5
<1> HIDE DEF t2, l2, r2, u2, g2
<1>13. g2 + u2 <= 2 * t2 + 1
  BY <1>3, <1>11, <1>12
<1> QED BY <1>13 DEF GenInv, t2, u2, g2

\* The loop goes on without a call.
LEMMA Turn ==
    ASSUME IInv, pc \notin {"await", "gone"}, pc' \in Places \ {"await", "gone", "clear"},
           UNCHANGED <<app, call, lines, typed, frames, worker>>,
           stop' = stop \/ stop' = FALSE, pc = "clear" => stop' = FALSE
    PROVE  IInv' /\ Radio
<1>1. Fit(app) /\ Types /\ LoopInv /\ FlowInv /\ GenInv
  BY DEF IInv
<1>2. Types'
  BY <1>1 DEF Types
<1>3. ~Clearing' /\ LoopInv'
  BY <1>1 DEF LoopInv, Clearing
<1>4. Waited = NoCmd /\ Waited' = NoCmd /\ NoCmd.kind = "none"
  BY WaitedIs DEF NoCmd
<1>5. FlowInv'
  BY <1>1, <1>4 DEF FlowInv, Renews
<1>6. lines' \in Seq(AllInputs) /\ typed' \in Nat /\ Len(lines) \in Nat
  BY <1>1 DEF Types
<1> DEFINE s == One(stop /\ ~Clearing)
           s2 == One(stop' /\ ~Clearing')
<1>7. s2 <= s /\ s \in Nat /\ s2 \in Nat
  BY DEF One, Clearing
<1> HIDE DEF s, s2
<1>8. Len(lines') + s2 + typed <= Len(lines) + s + typed'
  BY <1>6, <1>7
<1> USE DEF s, s2
<1>9. GenInv'
  BY <1>1, <1>4, <1>6, <1>8, GenKept
<1>10. Radio
  BY IdleRadio DEF Idles
<1>11. Fit(app')
  BY <1>1
<1> QED BY <1>2, <1>3, <1>5, <1>9, <1>10, <1>11 DEF IInv

\* The top of the loop.
LEMMA TopStep ==
    ASSUME IInv, Top
    PROVE  IInv' /\ Radio
<1>1. CASE stop
  <2>1. PICK ok \in BOOLEAN, sdr \in Sdr : Returns(Stop(app, ok, sdr), "none", "clear")
    BY <1>1 DEF Top
  <2>2. pc = "top" /\ lines' = <<>> /\ UNCHANGED <<stop, typed, frames, worker>>
    BY <1>1 DEF Top
  <2> QED BY <1>1, <2>1, <2>2, StopStep
<1>2. CASE ~stop
  <2>1. /\ pc = "top" /\ pc' = "frames" /\ UNCHANGED <<app, call, lines, typed, frames, worker>>
        /\ stop' = stop
    BY <1>2 DEF Top
  <2>2. pc' \in Places \ {"await", "gone", "clear"}
    BY <2>1 DEF Places
  <2> QED BY <2>1, <2>2, Turn
<1> QED BY <1>1, <1>2

\* The steps that only move on.
LEMMA TurnSteps ==
    ASSUME IInv, ClearStop \/ NoInput \/ CloseWaits
    PROVE  IInv' /\ Radio
<1>1. /\ pc \notin {"await", "gone"} /\ UNCHANGED <<app, call, lines, typed, frames, worker>>
      /\ stop' = stop \/ stop' = FALSE
      /\ pc = "clear" => stop' = FALSE
  BY DEF ClearStop, NoInput, CloseWaits
<1>2. pc' \in Places \ {"await", "gone", "clear"}
  BY DEF ClearStop, NoInput, CloseWaits, Places
<1> QED BY <1>1, <1>2, Turn

\* The process ends.
LEMMA QuitStep ==
    ASSUME IInv, Quit
    PROVE  IInv' /\ Radio
<1>1. Fit(app) /\ Types /\ LoopInv
  BY DEF IInv
<1>2. "quit" \in Exits \ Forbidden
  BY DEF Exits, Forbidden
<1>3. /\ app' = Fail(app, "quit") /\ pc' = "gone"
      /\ UNCHANGED <<call, lines, stop, typed, frames, worker>>
  BY DEF Quit
<1>4. Quiet(app, app') /\ Idles(app, app') /\ app'.exit = "quit"
  BY <1>1, <1>2, <1>3, Failed
<1>5. Types'
  BY <1>1, <1>3 DEF Types, Places
<1>6. LoopInv'
  BY <1>3, <1>4 DEF LoopInv, Clearing
<1>7. Radio
  BY <1>4, IdleRadio
<1> QED BY <1>3, <1>4, <1>5, <1>6, <1>7 DEF IInv, Quiet

\* The operator types.
LEMMA TypeSteps ==
    ASSUME IInv, TypeStop \/ \E l \in Inputs : Type(l)
    PROVE  IInv' /\ Radio
<1>1. Fit(app) /\ Types /\ LoopInv /\ FlowInv /\ GenInv
  BY DEF IInv, TypeStop, Type
<1>2. /\ UNCHANGED <<app, pc, call, frames, worker>> /\ pc # "gone"
      /\ typed < MaxLines /\ typed' = typed + 1
  BY DEF TypeStop, Type
<1>3. typed' \in 0..MaxLines /\ typed' \in Nat /\ typed \in Nat
  BY <1>1, <1>2, Constants DEF Types
<1>4. Waited' = Waited /\ Clearing' = Clearing /\ FlowInv'
  <2>1. Waited' = Waited /\ Clearing' = Clearing
    BY <1>2 DEF Waited, Clearing
  <2> QED BY <1>1, <1>2, <2>1 DEF FlowInv
<1> DEFINE s == One(stop /\ ~Clearing)
           s2 == One(stop' /\ ~Clearing')
<1>5. s \in {0, 1} /\ s2 \in {0, 1}
  BY DEF One
<1> DEFINE G == /\ Types' /\ LoopInv' /\ lines' \in Seq(AllInputs)
                /\ Len(lines') + s2 + typed <= Len(lines) + s + typed'
<1>6. ASSUME TypeStop PROVE G
  <2>1. stop' = TRUE /\ lines' = lines
    BY <1>6 DEF TypeStop
  <2>2. Types' /\ LoopInv'
    BY <1>1, <1>2, <1>3, <1>4, <2>1 DEF Types, LoopInv
  <2>3. lines' \in Seq(AllInputs) /\ Len(lines) \in Nat /\ Len(lines') = Len(lines)
    BY <1>1, <2>1 DEF Types
  <2> HIDE DEF s, s2
  <2>4. Len(lines') + s2 + typed <= Len(lines) + s + typed'
    BY <1>2, <1>3, <1>5, <2>3
  <2> QED BY <2>2, <2>3, <2>4 DEF s, s2
<1>7. ASSUME \E l \in Inputs : Type(l) PROVE G
  <2>1. PICK l \in Inputs : Type(l)
    BY <1>7
  <2>2. stop' = stop /\ ~stop /\ lines' = Append(lines, l) /\ Len(lines) < InputLimit
    BY <2>1 DEF Type, MayEnqueue
  <2>3. l \in AllInputs
    BY ConsoleAssumption
  <2>4. lines \in Seq(AllInputs)
    BY <1>1 DEF Types
  <2>5. lines' \in Seq(AllInputs) /\ Len(lines) \in Nat /\ Len(lines') = Len(lines) + 1
    BY <2>2, <2>3, <2>4, AppendIs
  <2>6. Len(lines') <= InputLimit
    BY <2>2, <2>5, Constants
  <2>7. Types'
    BY <1>1, <1>2, <1>3, <2>2, <2>5, <2>6 DEF Types
  <2>8. LoopInv' /\ s2 = s
    BY <1>1, <1>2, <1>4, <2>2 DEF LoopInv, One
  <2> HIDE DEF s, s2
  <2>9. Len(lines') + s2 + typed <= Len(lines) + s + typed'
    BY <1>2, <1>3, <1>5, <2>5, <2>8
  <2> QED BY <2>5, <2>7, <2>8, <2>9 DEF s, s2
<1>8. G
  BY <1>6, <1>7
<1>9. GenInv'
  BY <1>1, <1>2, <1>3, <1>4, <1>8, GenKept
<1>10. Radio
  BY <1>2, IdleRadio DEF Idles
<1> QED BY <1>1, <1>2, <1>4, <1>8, <1>9, <1>10 DEF IInv

\* Of the console only a clock or the result of a thread changes.
Ticks(a, b) ==
    /\ Fit(b) /\ b.gen = a.gen /\ b.next = a.next /\ b.cycle = a.cycle /\ b.wire = a.wire
    /\ b.commands = a.commands /\ b.deferred = a.deferred /\ b.want = a.want /\ b.exit = a.exit
    /\ b.cruise = a.cruise
    /\ b.execution = NoWork <=> a.execution = NoWork
    /\ b.sweep = NoWork <=> a.sweep = NoWork

\* Then all is as before.
LEMMA Tick ==
    ASSUME IInv, pc # "gone", Ticks(app, app'),
           UNCHANGED <<pc, call, lines, stop, typed, frames, worker>>
    PROVE  IInv' /\ Radio
<1>1. Fit(app) /\ Types /\ LoopInv /\ FlowInv /\ GenInv
  BY DEF IInv
<1>2. Waited' = Waited /\ Clearing' = Clearing
  BY DEF Waited, Clearing
<1>3. Types' /\ LoopInv'
  BY <1>1, <1>2 DEF Types, LoopInv, Ticks
<1>4. frames \in Seq(Frames)
  BY <1>1 DEF Types
<1>5. Moves(app, app') /\ (Busy(app') <=> Busy(app))
  BY DEF Ticks, Moves, Busy, HardwareActive
<1>6. /\ Flow(app, frames, Waited) /\ Token(app, frames, worker)
      /\ Opened(app, frames, worker, Waited)
  BY <1>1 DEF FlowInv
<1>7. /\ Flow(app', frames, Waited) /\ Token(app', frames, worker)
      /\ Opened(app', frames, worker, Waited)
  BY <1>1, <1>4, <1>5, <1>6, MovesFlow, MovesToken, MovesOpened
<1>8. FlowInv'
  BY <1>1, <1>2, <1>5, <1>7 DEF FlowInv, Ticks
<1>9. lines' \in Seq(AllInputs) /\ typed' \in Nat /\ Len(lines) \in Nat /\ typed \in Nat
  BY <1>1 DEF Types
<1> DEFINE s == One(stop /\ ~Clearing)
           s2 == One(stop' /\ ~Clearing')
<1>10. s2 = s /\ s \in Nat
  BY <1>2 DEF One
<1> HIDE DEF s, s2
<1>11. Len(lines') + s2 + typed <= Len(lines) + s + typed'
  BY <1>9, <1>10
<1> USE DEF s, s2
<1>12. GenInv'
  BY <1>1, <1>2, <1>9, <1>11, GenKept DEF Ticks
<1>13. Radio
  BY DEF Ticks, Radio, Starts
<1> QED BY <1>3, <1>8, <1>12, <1>13 DEF IInv, Ticks

\* The clocks.
LEMMA ClockSteps ==
    ASSUME IInv, RetryDue \/ DurationExpires
    PROVE  IInv' /\ Radio
<1>1. Fit(app) /\ app \in App
  BY Fields DEF IInv
<1>2. pc # "gone" /\ UNCHANGED <<pc, call, lines, stop, typed, frames, worker>>
  BY DEF RetryDue, DurationExpires
<1>3. app' = [app EXCEPT !.due = TRUE] \/ app' = [app EXCEPT !.expired = TRUE]
  BY DEF RetryDue, DurationExpires
<1>4. app' \in App
  <2>1. CASE app' = [app EXCEPT !.due = TRUE]
    BY <1>1, <2>1 DEF App
  <2>2. CASE app' = [app EXCEPT !.expired = TRUE]
    BY <1>1, <2>2 DEF App
  <2> QED BY <1>3, <2>1, <2>2
<1>5. /\ app'.gen = app.gen /\ app'.next = app.next /\ app'.cycle = app.cycle
      /\ app'.wire = app.wire /\ app'.commands = app.commands /\ app'.deferred = app.deferred
      /\ app'.want = app.want /\ app'.exit = app.exit /\ app'.cruise = app.cruise
      /\ app'.execution = app.execution /\ app'.sweep = app.sweep
      /\ app'.requests = app.requests /\ app'.pending = app.pending
  BY <1>1, <1>3 DEF App
<1>6. Ticks(app, app')
  BY <1>1, <1>4, <1>5 DEF Ticks, Fit
<1> QED BY <1>2, <1>6, Tick

\* The hardware threads.
LEMMA HardwareSteps ==
    ASSUME IInv, Hardware
    PROVE  IInv' /\ Radio
<1>1. Fit(app) /\ app \in App /\ app.execution \in Captures /\ app.sweep \in Sweeps
  BY Fields DEF IInv
<1>2. PICK r \in {"done", "failed"} : ExecutionEnds(r) \/ SweepEnds(r)
  BY DEF Hardware
<1>3. pc # "gone" /\ UNCHANGED <<pc, call, lines, stop, typed, frames, worker>>
  BY <1>2 DEF ExecutionEnds, SweepEnds
<1>4. NoWork.result = "none" /\ NoWork \notin Work({"capture"})
      /\ NoWork \notin Work({"initial", "survey", "inspect"})
  BY Nothing DEF NoWork
<1>5. CASE ExecutionEnds(r)
  <2> DEFINE w == [app.execution EXCEPT !.result = r]
  <2>1. app.execution.result = "running" /\ app' = [app EXCEPT !.execution = w]
    BY <1>5 DEF ExecutionEnds
  <2>2. app.execution # NoWork /\ app.execution \in Work({"capture"})
    BY <1>1, <1>4, <2>1 DEF Captures
  <2>3. w \in Work({"capture"}) /\ w.gen = app.execution.gen
    BY <2>2 DEF Work
  <2> HIDE DEF w
  <2>4. w \in Captures /\ w # NoWork
    BY <1>4, <2>3 DEF Captures
  <2>5. app' \in App
    BY <1>1, <2>1, <2>4 DEF App
  <2>6. /\ app'.gen = app.gen /\ app'.next = app.next /\ app'.cycle = app.cycle
        /\ app'.wire = app.wire /\ app'.commands = app.commands /\ app'.deferred = app.deferred
        /\ app'.want = app.want /\ app'.exit = app.exit /\ app'.cruise = app.cruise
        /\ app'.execution = w /\ app'.sweep = app.sweep
        /\ app'.requests = app.requests /\ app'.pending = app.pending
    BY <1>1, <2>1 DEF App
  <2>7. Fit(app')
    BY <1>1, <2>2, <2>3, <2>5, <2>6 DEF Fit
  <2>8. Ticks(app, app')
    BY <2>2, <2>4, <2>6, <2>7 DEF Ticks
  <2> QED BY <1>3, <2>8, Tick
<1>6. CASE SweepEnds(r)
  <2> DEFINE w == [app.sweep EXCEPT !.result = r]
  <2>1. app.sweep.result = "running" /\ app' = [app EXCEPT !.sweep = w]
    BY <1>6 DEF SweepEnds
  <2>2. app.sweep # NoWork /\ app.sweep \in Work({"initial", "survey", "inspect"})
    BY <1>1, <1>4, <2>1 DEF Sweeps
  <2>3. w \in Work({"initial", "survey", "inspect"}) /\ w.gen = app.sweep.gen
    BY <2>2 DEF Work
  <2> HIDE DEF w
  <2>4. w \in Sweeps /\ w # NoWork
    BY <1>4, <2>3 DEF Sweeps
  <2>5. app' \in App
    BY <1>1, <2>1, <2>4 DEF App
  <2>6. /\ app'.gen = app.gen /\ app'.next = app.next /\ app'.cycle = app.cycle
        /\ app'.wire = app.wire /\ app'.commands = app.commands /\ app'.deferred = app.deferred
        /\ app'.want = app.want /\ app'.exit = app.exit /\ app'.cruise = app.cruise
        /\ app'.execution = app.execution /\ app'.sweep = w
        /\ app'.requests = app.requests /\ app'.pending = app.pending
    BY <1>1, <2>1 DEF App
  <2>7. Fit(app')
    BY <1>1, <2>2, <2>3, <2>5, <2>6 DEF Fit
  <2>8. Ticks(app, app')
    BY <2>2, <2>4, <2>6, <2>7 DEF Ticks
  <2> QED BY <1>3, <2>8, Tick
<1> QED BY <1>2, <1>5, <1>6

\* The worker has moved: what has to be seen of it.
LEMMA WorkerStep ==
    ASSUME IInv, pc # "gone", UNCHANGED <<pc, call, lines, stop, typed>>,
           Fit(app'), app'.gen = app.gen, app'.deferred = app.deferred,
           app'.want = app.want, app'.exit = app.exit, app'.cruise = app.cruise,
           app'.execution = app.execution, app'.sweep = app.sweep, app'.cycle = app.cycle,
           frames' \in Seq(Frames), worker' \in Workers,
           Flow(app', frames', Waited), Token(app', frames', worker'),
           Opened(app', frames', worker', Waited)
    PROVE  IInv' /\ Radio
<1>1. Fit(app) /\ Types /\ LoopInv /\ FlowInv /\ GenInv
  BY DEF IInv
<1>2. Waited' = Waited /\ Clearing' = Clearing
  BY DEF Waited, Clearing
<1>3. Types' /\ LoopInv'
  BY <1>1, <1>2 DEF Types, LoopInv
<1>4. Busy(app') <=> Busy(app)
  BY DEF Busy, HardwareActive
<1>5. FlowInv'
  BY <1>1, <1>2, <1>4 DEF FlowInv
<1>6. lines' \in Seq(AllInputs) /\ typed' \in Nat /\ Len(lines) \in Nat /\ typed \in Nat
  BY <1>1 DEF Types
<1> DEFINE s == One(stop /\ ~Clearing)
           s2 == One(stop' /\ ~Clearing')
<1>7. s2 = s /\ s \in Nat
  BY <1>2 DEF One
<1> HIDE DEF s, s2
<1>8. Len(lines') + s2 + typed <= Len(lines) + s + typed'
  BY <1>6, <1>7
<1> USE DEF s, s2
<1>9. GenInv'
  BY <1>1, <1>2, <1>6, <1>8, GenKept
<1>10. Radio
  BY DEF Radio, Starts
<1> QED BY <1>3, <1>5, <1>9, <1>10 DEF IInv

\* What the worker sees of the invariant.
LEMMA WorkerSees ==
    ASSUME IInv, pc # "gone"
    PROVE  /\ Fit(app) /\ app \in App /\ app.wire \in Seq(Commands) /\ app.gen \in Generations
           /\ frames \in Seq(Frames) /\ worker \in Workers
           /\ Flow(app, frames, Waited) /\ Token(app, frames, worker)
           /\ Opened(app, frames, worker, Waited)
           /\ Waited.kind \in Sync => Waited.gen = app.gen
           /\ Renews(Waited) => ~app.cycle
<1>1. Fit(app) /\ Types /\ FlowInv /\ app \in App /\ app.gen \in Generations
  BY Fields DEF IInv
<1>2. app.wire \in Seq(Commands)
  BY <1>1 DEF App
<1>3. Waited.kind \in Sync => Waited.gen = app.gen
  BY <1>1, WaitedIs DEF FlowInv, Sync
<1>4. Renews(Waited) => ~app.cycle
  BY <1>1 DEF FlowInv, Busy
<1> QED BY <1>1, <1>2, <1>3, <1>4 DEF Types, FlowInv

\* It answers a command.
LEMMA AnswerStep ==
    ASSUME IInv, WorkerAnswers
    PROVE  IInv' /\ Radio
<1>1. /\ pc # "gone" /\ app.wire # <<>> /\ app' = [app EXCEPT !.wire = Tail(app.wire)]
      /\ UNCHANGED <<pc, call, lines, stop, typed>>
  BY DEF WorkerAnswers
<1> DEFINE c == Head(app.wire)
<1>2. PICK ok : /\ ok \in IF ~Accepts(worker, c) THEN {FALSE}
                          ELSE IF c.kind \in {"prompt", "open"} THEN BOOLEAN ELSE {TRUE}
                /\ worker' = IF ok THEN Performed(worker, c) ELSE worker
                /\ frames' = Append(frames, [type |-> "response", cmd |-> c, ok |-> ok])
  BY DEF WorkerAnswers
<1>3. /\ Fit(app) /\ app \in App /\ app.wire \in Seq(Commands) /\ app.gen \in Generations
      /\ frames \in Seq(Frames) /\ worker \in Workers
      /\ Flow(app, frames, Waited) /\ Token(app, frames, worker)
      /\ Opened(app, frames, worker, Waited)
      /\ Waited.kind \in Sync => Waited.gen = app.gen
      /\ Renews(Waited) => ~app.cycle
  BY <1>1, WorkerSees
<1>4. /\ c \in Commands /\ c = app.wire[1] /\ 1 \in 1..Len(app.wire)
      /\ Tail(app.wire) \in Seq(Commands)
  BY <1>1, <1>3, TailIs
<1>5. ok \in BOOLEAN /\ (ok => Accepts(worker, c))
      /\ (~ok => ~Accepts(worker, c) \/ c.kind \in {"prompt", "open"})
  BY <1>2
<1>6. c.kind \in {"prompt", "queue"} => c.id \in Ids
  BY <1>3, <1>4 DEF Flow, Known
<1> DEFINE f == [type |-> "response", cmd |-> c, ok |-> ok]
           t == Tail(app.wire)
<1> HIDE DEF c
<1>7. f \in Frames /\ IsResponse(f) /\ f.cmd = c /\ f.ok = ok
  BY <1>4, <1>5 DEF Frames, IsResponse
<1>8. worker' = (IF ok THEN Performed(worker, c) ELSE worker) /\ frames' = Append(frames, f)
  BY <1>2
<1> HIDE DEF f, t
<1>9. app' \in App
  BY <1>1, <1>3, <1>4 DEF App, t
<1>10. /\ app'.wire = t /\ app'.gen = app.gen /\ app'.next = app.next /\ app'.cycle = app.cycle
       /\ app'.commands = app.commands /\ app'.deferred = app.deferred
       /\ app'.want = app.want /\ app'.exit = app.exit /\ app'.cruise = app.cruise
       /\ app'.execution = app.execution /\ app'.sweep = app.sweep
       /\ app'.requests = app.requests /\ app'.pending = app.pending
  BY <1>1, <1>3 DEF App, t
<1>11. Fit(app')
  BY <1>3, <1>9, <1>10 DEF Fit
<1>12. Answers(worker, f, worker')
  BY <1>5, <1>7, <1>8 DEF Answers
<1>13. /\ worker' \in Workers
       /\ IF c.kind = "prompt" /\ ok THEN worker'.active /\ worker'.current \in Ids
          ELSE /\ worker'.active = worker.active
               /\ c.kind # "close" => worker'.current = worker.current
  <2>1. CASE ok
    <3>1. worker' = Performed(worker, c) /\ Accepts(worker, c)
      BY <1>5, <1>8, <2>1
    <3> QED BY <1>3, <1>4, <1>6, <2>1, <3>1, PerformedIs
  <2>2. CASE ~ok
    BY <1>3, <1>8, <2>2
  <2> QED BY <2>1, <2>2
<1>14. c.kind = "close" => ~worker.active
  <2>1. c.kind = "close" => c = Waited
    BY <1>3, <1>4 DEF Flow, Known, Sync
  <2>2. c.kind = "close" => ~app.cycle
    BY <1>3, <2>1 DEF Renews
  <2> QED BY <1>3, <2>2 DEF Token
<1>15. frames' \in Seq(Frames)
  BY <1>3, <1>7, <1>8, AppendIs
<1>16. Head(app.wire) = c /\ Tail(app.wire) = t
  BY DEF c, t
<1>17. Flow(app', Append(frames, f), Waited)
  BY <1>1, <1>3, <1>7, <1>10, <1>16, AnswerFlow
<1>18. Token(app', Append(frames, f), worker')
  BY <1>1, <1>3, <1>7, <1>10, <1>13, <1>14, <1>16, AnswerToken
<1>19. Opened(app', Append(frames, f), worker', Waited)
  BY <1>1, <1>3, <1>7, <1>10, <1>12, <1>16, AnswerOpened
<1> QED BY <1>1, <1>8, <1>10, <1>11, <1>13, <1>15, <1>17, <1>18, <1>19, WorkerStep

\* Its run takes a message, proposes a plan, or ends.
LEMMA RunSteps ==
    ASSUME IInv,
           (\E q \in Ids : WorkerTakes(q)) \/ (\E p \in Proposals : WorkerProposes(p)) \/ WorkerEnds
    PROVE  IInv' /\ Radio
<1>1. /\ pc # "gone" /\ UNCHANGED <<app, pc, call, lines, stop, typed>> /\ worker.active
  BY DEF WorkerTakes, WorkerProposes, WorkerEnds
<1>2. /\ Fit(app) /\ app.gen \in Generations /\ frames \in Seq(Frames) /\ worker \in Workers
      /\ Flow(app, frames, Waited) /\ Token(app, frames, worker)
      /\ Opened(app, frames, worker, Waited)
  BY <1>1, WorkerSees
<1>3. worker.open = app.gen /\ worker.current \in Ids
  BY <1>1, <1>2 DEF Opened, Token
<1>4. /\ worker' \in Workers /\ frames' \in Seq(Frames)
      /\ Flow(app, frames', Waited) /\ Token(app, frames', worker')
      /\ Opened(app, frames', worker', Waited)
  <2>1. ASSUME NEW q \in Ids, WorkerTakes(q)
        PROVE  <1>4!:
    <3>1. /\ worker' = [worker EXCEPT !.inbox = worker.inbox \ {q}, !.current = q,
                                        !.submitted = FALSE]
          /\ frames' = frames
      BY <2>1 DEF WorkerTakes
    <3>2. worker' \in Workers
      BY <1>2, <3>1 DEF Workers
    <3>3. worker'.open = worker.open /\ worker'.active = worker.active /\ worker'.current = q
      BY <1>2, <3>1 DEF Workers
    <3>4. Token(app, frames, worker')
      BY <1>2, <3>3 DEF Token
    <3>5. Opened(app, frames, worker', Waited)
      BY <1>2, <3>3 DEF Opened
    <3> QED BY <1>2, <3>1, <3>2, <3>4, <3>5
  <2>2. ASSUME NEW p \in Proposals, WorkerProposes(p)
        PROVE  <1>4!:
    <3> DEFINE pl == [id |-> worker.current, gen |-> worker.open, action |-> p.action,
                      bytes |-> p.bytes]
               f == [type |-> "plan", plan |-> pl]
    <3>1. worker' = [worker EXCEPT !.submitted = TRUE] /\ frames' = Append(frames, f)
      BY <2>2 DEF WorkerProposes
    <3>2. worker' \in Workers
      BY <1>2, <3>1 DEF Workers
    <3>3. worker'.open = worker.open /\ worker'.active = worker.active
          /\ worker'.current = worker.current
      BY <1>2, <3>1 DEF Workers
    <3>4. p \in [action : Actions, bytes : Nat]
      BY ConsoleAssumption
    <3>5. pl \in Plans
      BY <1>2, <1>3, <3>4 DEF Plans
    <3> HIDE DEF pl
    <3>6. f \in Frames /\ f.type = "plan" /\ ~IsResponse(f)
      BY <3>5 DEF Frames, IsResponse
    <3> HIDE DEF f
    <3>7. frames' \in Seq(Frames)
      BY <1>2, <3>1, <3>6, AppendIs
    <3>8. Flow(app, Append(frames, f), Waited) /\ Opened(app, Append(frames, f), worker', Waited)
      BY <1>2, <3>3, <3>6, EventFlow
    <3>9. Token(app, Append(frames, f), worker')
      BY <1>1, <1>2, <3>3, <3>6, ProposeToken
    <3> QED BY <3>1, <3>2, <3>7, <3>8, <3>9
  <2>3. ASSUME WorkerEnds
        PROVE  <1>4!:
    <3> DEFINE f == [type |-> "end", gen |-> worker.open]
    <3>1. worker' = [worker EXCEPT !.active = FALSE, !.queued = 0] /\ frames' = Append(frames, f)
      BY <2>3 DEF WorkerEnds
    <3>2. worker' \in Workers
      <4>1. 0 \in 0..QueueLimit
        BY Constants
      <4> QED BY <1>2, <3>1, <4>1 DEF Workers
    <3>3. ~worker'.active
      BY <1>2, <3>1 DEF Workers
    <3>4. worker'.open = worker.open
      BY <1>2, <3>1 DEF Workers
    <3>5. f \in Frames /\ f.type = "end" /\ ~IsResponse(f) /\ f.gen = app.gen
      BY <1>2, <1>3 DEF Frames, IsResponse
    <3> HIDE DEF f
    <3>6. frames' \in Seq(Frames)
      BY <1>2, <3>1, <3>5, AppendIs
    <3>7. Flow(app, Append(frames, f), Waited) /\ Opened(app, Append(frames, f), worker', Waited)
      BY <1>2, <3>3, <3>4, <3>5, EventFlow
    <3>8. Token(app, Append(frames, f), worker')
      BY <1>1, <1>2, <3>3, <3>5, FinishToken
    <3> QED BY <3>1, <3>2, <3>6, <3>7, <3>8
  <2> QED BY <2>1, <2>2, <2>3
<1> QED BY <1>1, <1>2, <1>4, WorkerStep

\* A frame at the head of the stream.
LEMMA Headed ==
    ASSUME IInv, pc # "gone", frames # <<>>
    PROVE  /\ Head(frames) \in Frames /\ Head(frames) = frames[1] /\ 1 \in 1..Len(frames)
           /\ Tail(frames) \in Seq(Frames)
           /\ Ending(Head(frames)) => app.cycle /\ GenOf(Head(frames)) = app.gen
           /\ Head(frames).type = "plan" => app.cycle
           /\ IsResponse(Head(frames)) => Known(Head(frames).cmd, app, Waited)
<1>1. /\ frames \in Seq(Frames) /\ Flow(app, frames, Waited) /\ Token(app, frames, worker)
  BY WorkerSees
<1>2. /\ Head(frames) \in Frames /\ Head(frames) = frames[1] /\ 1 \in 1..Len(frames)
      /\ Tail(frames) \in Seq(Frames)
  BY <1>1, TailIs
<1>3. Ending(Head(frames)) => app.cycle /\ GenOf(Head(frames)) = app.gen
  BY <1>1, <1>2 DEF Token
<1>4. Head(frames).type = "plan" => app.cycle
  BY <1>1, <1>2 DEF Token
<1>5. IsResponse(Head(frames)) => Known(Head(frames).cmd, app, Waited)
  BY <1>1, <1>2 DEF Flow
<1> QED BY <1>2, <1>3, <1>4, <1>5

\* What handle_frame does with the rest of the stream.
Handles(b) ==
    /\ Fit(b) /\ Common(app, b) /\ Cruises(app, b)
    /\ b.exit = app.exit \/ b.exit \notin Forbidden
    /\ Flow(b, Tail(frames), Waited) /\ Token(b, Tail(frames), worker)
    /\ Opened(b, Tail(frames), worker, Waited)
    /\ Renews(Waited) => ~Busy(b)

\* A response that command() does not wait for.
LEMMA HandlesResponse ==
    ASSUME IInv, pc # "gone", frames # <<>>, IsResponse(Head(frames)),
           ~(pc = "await" /\ Head(frames).cmd = call.cmd)
    PROVE  Handles(HandleResponse(app, Head(frames)))
<1> DEFINE f == Head(frames)
           b == HandleResponse(app, f)
           t == Tail(frames)
<1>1. /\ f \in Frames /\ t \in Seq(Frames) /\ (Ending(f) => app.cycle /\ GenOf(f) = app.gen)
      /\ Known(f.cmd, app, Waited)
  BY Headed
<1>2. f.cmd \in Commands /\ f.type = "response"
  BY <1>1, FrameIs DEF IsResponse
<1>3. /\ Fit(app) /\ frames \in Seq(Frames)
      /\ Flow(app, frames, Waited) /\ Token(app, frames, worker)
      /\ Opened(app, frames, worker, Waited)
  BY WorkerSees
<1>4. f.cmd.kind \notin Sync
  <2>1. f.cmd.kind \in Sync => f.cmd = Waited
    BY <1>1 DEF Known
  <2> QED BY <2>1, WaitedIs DEF Sync
<1>5. f.cmd.gen = app.gen => f.cmd \in app.commands
  BY <1>1, <1>2, <1>4 DEF Known, Commands, Run, Sync
<1>6. Ending(f) => f.cmd.gen = app.gen
  BY <1>1 DEF GenOf
<1> HIDE DEF f
<1>7. Responds(app, f, b)
  BY <1>2, <1>3, <1>5, <1>6, ResponseIs
<1> HIDE DEF b, t
<1>8. /\ Fit(b) /\ Common(app, b) /\ Idles(app, b) /\ b.next = app.next /\ b.wire = app.wire
      /\ b.commands = app.commands \ {f.cmd} /\ b.gen = app.gen
      /\ b.cycle = app.cycle \/ (~b.cycle /\ Ending(f))
      /\ b.exit = app.exit \/ b.exit \notin Forbidden
  BY <1>7 DEF Responds, Common
<1>9. Flow(b, t, Waited)
  BY <1>3, <1>8, ResponseFlow DEF t, f
<1>10. Token(b, t, worker)
  <2>1. CASE b.cycle = app.cycle
    BY <1>3, <1>8, <2>1, DropToken DEF t
  <2>2. CASE Ending(f)
    BY <1>3, <1>8, <2>2, EndToken DEF t, f
  <2> QED BY <1>8, <2>1, <2>2
<1>11. Opened(b, t, worker, Waited)
  BY <1>3, <1>8, DropOpened DEF t
<1>12. Renews(Waited) => ~Busy(b)
  <2>1. Renews(Waited) => ~Busy(app)
    BY DEF IInv, FlowInv
  <2> QED BY <1>8, <2>1 DEF Busy, HardwareActive, Idles
<1>13. Cruises(app, b)
  BY <1>8, IdleCruises
<1> QED BY <1>8, <1>9, <1>10, <1>11, <1>12, <1>13 DEF Handles, t, b, f

\* plan_proposed
LEMMA HandlesPlan ==
    ASSUME IInv, pc # "gone", frames # <<>>, Head(frames).type = "plan", NEW sdr \in Sdr
    PROVE  Handles(HandlePlan(app, Head(frames).plan, sdr))
<1> DEFINE f == Head(frames)
           b == HandlePlan(app, f.plan, sdr)
           t == Tail(frames)
<1>1. f \in Frames /\ t \in Seq(Frames) /\ app.cycle
  BY Headed
<1>2. f.plan \in Plans
  BY <1>1, FrameIs
<1>3. /\ Fit(app) /\ frames \in Seq(Frames)
      /\ Flow(app, frames, Waited) /\ Token(app, frames, worker)
      /\ Opened(app, frames, worker, Waited) /\ (Renews(Waited) => ~app.cycle)
  BY WorkerSees
<1>4. Moves(app, b) /\ Common(app, b) /\ Cruises(app, b)
  BY <1>2, <1>3, PlanIs
<1>5. Flow(app, t, Waited) /\ Token(app, t, worker) /\ Opened(app, t, worker, Waited)
  BY <1>3, DropFlow, DropToken, DropOpened
<1> HIDE DEF b, t
<1>6. Flow(b, t, Waited) /\ Token(b, t, worker) /\ Opened(b, t, worker, Waited)
  BY <1>1, <1>3, <1>4, <1>5, MovesFlow, MovesToken, MovesOpened
<1>7. Fit(b) /\ (b.exit = app.exit \/ b.exit \notin Forbidden)
  BY <1>4 DEF Moves
<1> QED BY <1>1, <1>3, <1>4, <1>6, <1>7 DEF Handles, t, b

\* agent_end
LEMMA HandlesEnd ==
    ASSUME IInv, pc # "gone", frames # <<>>, Head(frames).type = "end"
    PROVE  Handles(HandleEnd(app, Head(frames).gen))
<1> DEFINE f == Head(frames)
           b == HandleEnd(app, app.gen)
           t == Tail(frames)
<1>1. Ending(f) /\ ~IsResponse(f)
  BY DEF Ending, IsResponse
<1>2. f \in Frames /\ t \in Seq(Frames) /\ app.cycle /\ GenOf(f) = app.gen
  BY <1>1, Headed
<1>3. f.gen = app.gen
  BY <1>1, <1>2 DEF GenOf
<1>4. /\ Fit(app) /\ frames \in Seq(Frames)
      /\ Flow(app, frames, Waited) /\ Token(app, frames, worker)
      /\ Opened(app, frames, worker, Waited) /\ (Renews(Waited) => ~app.cycle)
  BY WorkerSees
<1>5. /\ Fit(b) /\ Common(app, b) /\ Idles(app, b) /\ b.next = app.next /\ ~b.cycle
      /\ b.wire = app.wire /\ b.commands = app.commands
      /\ b.exit = app.exit \/ b.exit \notin Forbidden
  BY <1>4, HandleEndIs
<1> HIDE DEF b
<1>6. b.gen = app.gen
  BY <1>5 DEF Common
<1>7. Flow(b, t, Waited) /\ Token(b, t, worker) /\ Opened(b, t, worker, Waited)
  BY <1>1, <1>4, <1>5, <1>6, DropFlow, EndToken, DropOpened
<1>8. Cruises(app, b)
  BY <1>5, IdleCruises
<1>9. Handles(b)
  BY <1>2, <1>4, <1>5, <1>7, <1>8 DEF Handles
<1> QED BY <1>3, <1>9 DEF b

\* The clauses of handle_frame.
LEMMA FrameCases ==
    ASSUME NEW a, NEW f, NEW sdr
    PROVE  /\ f.type = "response" => HandleFrame(a, f, sdr) = HandleResponse(a, f)
           /\ f.type = "plan" => HandleFrame(a, f, sdr) = HandlePlan(a, f.plan, sdr)
           /\ f.type = "end" => HandleFrame(a, f, sdr) = HandleEnd(a, f.gen)
<1>1. "response" # "plan" /\ "response" # "end" /\ "plan" # "end"
  OBVIOUS
<1>2. ASSUME f.type = "response" PROVE HandleFrame(a, f, sdr) = HandleResponse(a, f)
  BY <1>1, <1>2, Zenon DEF HandleFrame
<1>3. ASSUME f.type = "plan" PROVE HandleFrame(a, f, sdr) = HandlePlan(a, f.plan, sdr)
  BY <1>1, <1>3, Zenon DEF HandleFrame
<1>4. ASSUME f.type = "end" PROVE HandleFrame(a, f, sdr) = HandleEnd(a, f.gen)
  BY <1>1, <1>4, Zenon DEF HandleFrame
<1> QED BY <1>2, <1>3, <1>4, Zenon

\* poll and command read a frame.
LEMMA ReadStep ==
    ASSUME IInv, ReadFrame
    PROVE  IInv' /\ Radio
<1> DEFINE f == Head(frames)
<1>1. /\ pc \in {"frames", "await", "closing"} /\ frames # <<>> /\ frames' = Tail(frames)
      /\ ~(pc = "await" /\ f.type = "response" /\ f.cmd = call.cmd)
      /\ UNCHANGED <<lines, stop, typed, worker>>
  BY DEF ReadFrame
<1>2. PICK sdr \in Sdr : Returns(HandleFrame(app, f, sdr), "none", pc)
  BY DEF ReadFrame
<1> DEFINE b == HandleFrame(app, f, sdr)
<1>3. f \in Frames /\ Tail(frames) \in Seq(Frames)
  BY <1>1, Headed
<1>4. f.type \in {"response", "plan", "end"}
  BY <1>3, FrameIs
<1>5. Handles(b)
  <2>1. CASE f.type = "response"
    <3>1. Handles(HandleResponse(app, f))
      BY <1>1, <2>1, HandlesResponse DEF IsResponse
    <3> QED BY <2>1, <3>1, FrameCases
  <2>2. CASE f.type = "plan"
    <3>1. Handles(HandlePlan(app, f.plan, sdr))
      BY <1>1, <2>2, HandlesPlan
    <3> QED BY <2>2, <3>1, FrameCases
  <2>3. CASE f.type = "end"
    <3>1. Handles(HandleEnd(app, f.gen))
      BY <1>1, <2>3, HandlesEnd
    <3> QED BY <2>3, <3>1, FrameCases
  <2> QED BY <1>4, <2>1, <2>2, <2>3
<1>6. Returns(b, "none", pc)
  BY <1>2
<1> HIDE DEF b, f
<1>7. Fit(app) /\ Types /\ LoopInv /\ FlowInv /\ GenInv /\ app.want = "no" /\ app.exit = "no"
  BY <1>1 DEF IInv, LoopInv
<1>8. /\ Fit(b) /\ b.gen = app.gen /\ b.deferred = app.deferred /\ b.want = "no"
      /\ b.cruise.active => app.cruise.active
      /\ b.exit \notin Forbidden
  BY <1>5, <1>7 DEF Handles, Common, Forbidden
<1>9. CASE pc' = "gone" /\ call' = call /\ (app' = b \/ app' = Fail(b, "renew refused"))
  <2>1. "renew refused" \in Exits \ Forbidden
    BY DEF Exits, Forbidden
  <2>2. b \in App
    BY <1>8, Fields
  <2>3. Fit(app') /\ app'.exit \notin Forbidden
    <3>1. Quiet(b, Fail(b, "renew refused")) /\ Fail(b, "renew refused").exit = "renew refused"
      BY <1>8, <2>1, Failed
    <3> QED BY <1>8, <1>9, <2>1, <3>1 DEF Quiet
  <2>4. app'.execution = b.execution /\ app'.sweep = b.sweep
    BY <1>9, <2>2 DEF Fail, App
  <2>5. Types' /\ LoopInv'
    BY <1>1, <1>3, <1>7, <1>9, <2>3 DEF Types, LoopInv, Clearing, Places, Forbidden
  <2>6. Radio
    BY <1>5, <2>4 DEF Handles, Cruises, Radio
  <2> QED BY <1>9, <2>3, <2>5, <2>6 DEF IInv
<1>10. CASE b.exit = "no" /\ pc' = pc /\ call' = call /\ app' = b
  <2>1. Waited' = Waited /\ Clearing' = Clearing
    BY <1>10 DEF Waited, Clearing
  <2>2. Types' /\ LoopInv'
    BY <1>1, <1>3, <1>7, <1>8, <1>10, <2>1 DEF Types, LoopInv
  <2>3. FlowInv'
    BY <1>1, <1>5, <1>7, <1>8, <1>10, <2>1 DEF FlowInv, Handles
  <2>4. lines' \in Seq(AllInputs) /\ typed' \in Nat /\ Len(lines) \in Nat /\ typed \in Nat
    BY <1>1, <1>7 DEF Types
  <2> DEFINE s == One(stop /\ ~Clearing)
             s2 == One(stop' /\ ~Clearing')
  <2>5. s2 = s /\ s \in Nat
    BY <1>1, <2>1 DEF One
  <2> HIDE DEF s, s2
  <2>6. Len(lines') + s2 + typed <= Len(lines) + s + typed'
    BY <1>1, <2>4, <2>5
  <2> USE DEF s, s2
  <2>7. GenInv'
    BY <1>7, <1>8, <1>10, <2>1, <2>4, <2>6, GenKept
  <2>8. Radio
    BY <1>5, <1>10 DEF Handles, Cruises, Radio
  <2> QED BY <1>8, <1>10, <2>2, <2>3, <2>7, <2>8 DEF IInv
<1>11. "none" # "manual"
  OBVIOUS
<1> QED BY <1>6, <1>8, <1>9, <1>10, <1>11, ReturnsCases

\* The debt when one of its parts is paid with another.
LEMMA GenPaid ==
    ASSUME Types, Fit(app), GenInv, UNCHANGED <<lines, typed>>, app'.gen \in Nat,
           One(stop' /\ ~Clearing') <= One(stop /\ ~Clearing),
           app'.gen + One(app'.deferred) + One(app'.cruise.active) + One(Waited'.kind = "close")
               + One(pc' = "await" /\ call'.effect = "cruise")
             <= app.gen + One(app.deferred) + One(app.cruise.active) + One(Waited.kind = "close")
               + One(pc = "await" /\ call.effect = "cruise")
    PROVE  GenInv'
<1> DEFINE s == One(stop /\ ~Clearing)
           d == One(app.deferred)
           c == One(app.cruise.active)
           k == One(Waited.kind = "close")
           x == One(pc = "await" /\ call.effect = "cruise")
           s2 == One(stop' /\ ~Clearing')
           d2 == One(app'.deferred)
           c2 == One(app'.cruise.active)
           k2 == One(Waited'.kind = "close")
           x2 == One(pc' = "await" /\ call'.effect = "cruise")
           g == app.gen
           g2 == app'.gen
           l == Len(lines)
           t == typed
           u == Due
           u2 == Due'
<1>1. l \in Nat /\ g \in Nat /\ g2 \in Nat /\ t \in Nat
  BY Fields DEF Types, Generations
<1>2. /\ s \in Nat /\ d \in Nat /\ c \in Nat /\ k \in Nat /\ x \in Nat
      /\ s2 \in Nat /\ d2 \in Nat /\ c2 \in Nat /\ k2 \in Nat /\ x2 \in Nat
  BY DEF One
<1>3. u = 2 * l + 2 * s + d + c + k + x
  BY DEF Due
<1>4. u2 = 2 * l + 2 * s2 + d2 + c2 + k2 + x2
  BY DEF Due
<1>5. g + u <= 2 * t + 1
  BY DEF GenInv
<1>6. s2 <= s /\ g2 + d2 + c2 + k2 + x2 <= g + d + c + k + x
  OBVIOUS
<1> HIDE DEF s, d, c, k, x, s2, d2, c2, k2, x2, g, g2, l, t, u, u2
<1>7. g2 + u2 <= 2 * t + 1
  BY <1>1, <1>2, <1>3, <1>4, <1>5, <1>6
<1> QED BY <1>7 DEF GenInv, g2, u2, t

\* No command is waited for: what NoCall stands for.
LEMMA NoCallIs == NoCall \in Calls /\ NoCall.effect = "none" /\ NoCall.then = "top"
<1>1. 1 \in Generations
  BY Constants DEF Generations
<1>2. Cmd("open", 1, 0) \in Commands
  BY <1>1 DEF Cmd, Commands
<1> QED BY <1>2 DEF NoCall, Calls, States

\* /status
LEMMA StatusStep ==
    ASSUME IInv, StatusLine
    PROVE  IInv' /\ Radio
<1> DEFINE c == Cmd("state", app.gen, 0)
           w == Append(app.wire, c)
<1>1. /\ Line("status") /\ app' = Write(app, c) /\ call' = [NoCall EXCEPT !.cmd = c]
      /\ pc' = "await"
  BY DEF StatusLine
<1>2. /\ pc = "input" /\ lines # <<>> /\ lines' = Tail(lines)
      /\ UNCHANGED <<stop, typed, frames, worker>>
  BY <1>1 DEF Line
<1>3. /\ Fit(app) /\ Types /\ LoopInv /\ FlowInv /\ GenInv /\ app \in App
  BY <1>2, Fields DEF IInv
<1>4. /\ c \in Commands /\ c.kind = "state" /\ c.gen = app.gen /\ c.id = 0
  BY <1>3 DEF Cmd, Commands, App
<1> HIDE DEF c
<1>5. /\ call' \in Calls /\ call'.cmd = c /\ call'.effect = "none" /\ call'.then = "top"
  BY <1>1, <1>4, NoCallIs DEF Calls
<1>6. /\ app.wire \in Seq(Commands) /\ app.next \in Nat \ {0} /\ app.gen \in Nat
  BY <1>3, Constants DEF App, Generations
<1>7. w \in Seq(Commands) /\ app' = [app EXCEPT !.wire = w]
  BY <1>1, <1>4, <1>6 DEF Write
<1> HIDE DEF w
<1>8. app' \in App
  BY <1>3, <1>7 DEF App
<1>9. /\ app'.wire = w /\ app'.gen = app.gen /\ app'.next = app.next /\ app'.cycle = app.cycle
      /\ app'.commands = app.commands /\ app'.deferred = app.deferred
      /\ app'.want = app.want /\ app'.exit = app.exit /\ app'.cruise = app.cruise
      /\ app'.execution = app.execution /\ app'.sweep = app.sweep
      /\ app'.requests = app.requests /\ app'.pending = app.pending
  BY <1>3, <1>7 DEF App
<1>10. Fit(app')
  BY <1>3, <1>8, <1>9 DEF Fit
<1>11. /\ Flow(app, frames, NoCmd) /\ Token(app, frames, worker)
       /\ Opened(app, frames, worker, NoCmd) /\ frames \in Seq(Frames)
  BY <1>2, <1>3, WaitedIs DEF FlowInv, Types
<1>12. worker.open = app.gen /\ c.kind \in Sync /\ c.kind # "open"
  BY <1>4, <1>11 DEF Opened, Renews, NoCmd, Sync
<1>13. app'.wire = Append(app.wire, c)
  BY <1>9 DEF w
<1>14. Flow(app', frames, c) /\ Token(app', frames, worker) /\ Opened(app', frames, worker, c)
  BY <1>4, <1>6, <1>9, <1>11, <1>12, <1>13, Written
<1>15. Waited' = c /\ Waited = NoCmd /\ ~Renews(c) /\ NoCmd.kind = "none"
  BY <1>1, <1>2, <1>4, <1>5, WaitedIs DEF Renews, NoCmd
<1>16. FlowInv'
  BY <1>2, <1>4, <1>5, <1>9, <1>12, <1>14, <1>15 DEF FlowInv
<1>17. lines \in Seq(AllInputs) /\ Len(lines) <= InputLimit /\ typed \in Nat
  BY <1>3 DEF Types
<1>18. lines' \in Seq(AllInputs) /\ Len(lines') = Len(lines) - 1 /\ Len(lines) \in Nat
  BY <1>2, <1>17, TailIs
<1>19. Types'
  <2>1. Len(lines') <= InputLimit
    BY <1>17, <1>18, Constants
  <2> QED BY <1>1, <1>2, <1>3, <1>5, <1>18, <2>1 DEF Types, Places
<1>20. ~Clearing /\ ~Clearing'
  BY <1>1, <1>2, <1>5 DEF Clearing
<1>21. LoopInv'
  BY <1>2, <1>3, <1>9, <1>20 DEF LoopInv
<1> DEFINE s == One(stop /\ ~Clearing)
           s2 == One(stop' /\ ~Clearing')
<1>22. s2 = s /\ s \in Nat
  BY <1>2, <1>20 DEF One
<1> HIDE DEF s, s2
<1>23. Len(lines') + s2 + typed <= Len(lines) + s + typed'
  BY <1>2, <1>17, <1>18, <1>22
<1> USE DEF s, s2
<1>24. Waited'.kind = "close" => Waited.kind = "close"
  BY <1>4, <1>15
<1>25. pc' = "await" /\ call'.effect = "cruise" => pc = "await" /\ call.effect = "cruise"
  BY <1>5
<1>26. GenInv'
  BY <1>2, <1>3, <1>9, <1>17, <1>18, <1>23, <1>24, <1>25, GenKept
<1>27. Radio
  BY <1>9 DEF Radio, Starts
<1> QED BY <1>10, <1>16, <1>19, <1>21, <1>26, <1>27 DEF IInv

\* The open_session that follows a close.
OpenOf(a) == Cmd("open", a.gen + 1, 0)

\* The clauses of command()'s return.
LEMMA CommandCases ==
    ASSUME CommandReturns, call.cmd.gen = app.gen
    PROVE  LET f == Head(frames)
               k == call.cmd.kind
           IN  \/ /\ ~f.ok /\ pc' = "gone" /\ call' = call
                  /\ app' = Fail(app, IF k = "close" THEN "close refused" ELSE "open refused")
               \/ /\ f.ok /\ k = "close" /\ app' = Write(Renew(app, call.state), OpenOf(app))
                  /\ call' = [call EXCEPT !.cmd = OpenOf(app)] /\ pc' = pc
               \/ /\ f.ok /\ k # "close" /\ app' = Effect(app, call.effect)
                  /\ pc' = call.then /\ call' = NoCall
<1>1. CASE ~Head(frames).ok
  BY <1>1, Zenon DEF CommandReturns
<1>2. CASE Head(frames).ok /\ call.cmd.kind = "close"
  BY <1>2, Zenon DEF CommandReturns, OpenOf
<1>3. CASE Head(frames).ok /\ call.cmd.kind # "close"
  BY <1>3, Zenon DEF CommandReturns
<1> QED BY <1>1, <1>2, <1>3, Zenon

\* What command() sees of the invariant when its response is there.
LEMMA CommandSees ==
    ASSUME IInv, CommandReturns
    PROVE  /\ pc = "await" /\ frames # <<>> /\ frames' = Tail(frames)
           /\ UNCHANGED <<lines, stop, typed, worker>>
           /\ IsResponse(Head(frames)) /\ Head(frames).cmd = call.cmd /\ Waited = call.cmd
           /\ call \in Calls /\ call.cmd.gen = app.gen /\ call.cmd.kind \in Sync /\ call.cmd.id = 0
           /\ Head(frames).ok \in BOOLEAN /\ Tail(frames) \in Seq(Frames)
           /\ call.cmd.kind = "close" => Head(frames).ok /\ worker.open = 0
           /\ call.cmd.kind # "close" /\ Head(frames).ok => worker.open = app.gen
<1>1. /\ pc = "await" /\ frames # <<>> /\ frames' = Tail(frames)
      /\ UNCHANGED <<lines, stop, typed, worker>>
      /\ IsResponse(Head(frames)) /\ Head(frames).cmd = call.cmd
  BY DEF CommandReturns, IsResponse
<1>2. Types /\ FlowInv /\ Waited = call.cmd
  BY <1>1, WaitedIs DEF IInv
<1>3. call \in Calls /\ call.cmd.gen = app.gen /\ call.cmd.kind \in Sync /\ call.cmd.id = 0
  BY <1>1, <1>2 DEF Types, FlowInv
<1>4. /\ Head(frames) \in Frames /\ Head(frames) = frames[1] /\ 1 \in 1..Len(frames)
      /\ Tail(frames) \in Seq(Frames)
  BY <1>1, Headed
<1>5. Head(frames).ok \in BOOLEAN
  BY <1>1, <1>4, FrameIs
<1>6. Opened(app, frames, worker, Waited)
  BY <1>2 DEF FlowInv
<1>7. call.cmd.kind = "close" => Head(frames).ok /\ worker.open = 0
  BY <1>1, <1>4, <1>6 DEF Opened
<1>8. call.cmd.kind = "open" /\ Head(frames).ok => worker.open = app.gen
  BY <1>1, <1>4, <1>6 DEF Opened
<1>9. call.cmd.kind = "state" => worker.open = app.gen
  BY <1>2, <1>6 DEF Opened, Renews
<1>10. call.cmd.kind \in {"open", "close", "state"}
  BY <1>3 DEF Sync
<1> QED BY <1>1, <1>2, <1>3, <1>4, <1>5, <1>7, <1>8, <1>9, <1>10

\* open_session was refused.
LEMMA RefusedStep ==
    ASSUME IInv, CommandReturns, ~Head(frames).ok
    PROVE  IInv' /\ Radio
<1>1. /\ frames' = Tail(frames) /\ UNCHANGED <<lines, stop, typed, worker>>
      /\ call.cmd.gen = app.gen /\ call.cmd.kind # "close" /\ Tail(frames) \in Seq(Frames)
  BY CommandSees
<1>2. pc' = "gone" /\ call' = call /\ app' = Fail(app, "open refused")
  BY <1>1, CommandCases
<1>3. Fit(app) /\ Types
  BY DEF IInv
<1>4. "open refused" \in Exits \ Forbidden
  BY DEF Exits, Forbidden
<1>5. Quiet(app, app') /\ Idles(app, app') /\ app'.exit = "open refused"
  BY <1>2, <1>3, <1>4, Failed
<1>6. Types' /\ LoopInv'
  BY <1>1, <1>2, <1>3, <1>4, <1>5 DEF Types, LoopInv, Clearing, Places, Forbidden
<1>7. Radio
  BY <1>5, IdleRadio
<1> QED BY <1>2, <1>5, <1>6, <1>7 DEF IInv, Quiet

\* The session is closed: the next one is opened.
LEMMA RenewStep ==
    ASSUME IInv, CommandReturns, Head(frames).ok, call.cmd.kind = "close"
    PROVE  IInv' /\ Radio
<1> DEFINE t == Tail(frames)
           c == OpenOf(app)
           n == Renew(app, call.state)
           w == Append(app.wire, c)
<1>1. /\ pc = "await" /\ frames # <<>> /\ frames' = t /\ UNCHANGED <<lines, stop, typed, worker>>
      /\ IsResponse(Head(frames)) /\ Head(frames).cmd = call.cmd /\ Waited = call.cmd
      /\ call \in Calls /\ call.cmd.gen = app.gen
      /\ t \in Seq(Frames) /\ worker.open = 0
  BY CommandSees
<1>2. app' = Write(n, c) /\ call' = [call EXCEPT !.cmd = c] /\ pc' = "await"
  BY <1>1, CommandCases
<1>3. /\ Fit(app) /\ Types /\ LoopInv /\ FlowInv /\ GenInv /\ app \in App
  BY <1>1, Fields DEF IInv
<1>4. /\ ~Busy(app) /\ Flow(app, frames, Waited) /\ Token(app, frames, worker)
      /\ frames \in Seq(Frames)
  BY <1>1, <1>3 DEF FlowInv, Renews, Types
<1>5. app.execution = NoWork /\ app.sweep = NoWork /\ ~app.cycle
  BY <1>4 DEF Busy, HardwareActive
<1>6. app.gen \in Nat /\ app.gen >= 1 /\ app.gen + 1 \in Generations /\ app.gen + 1 \in Nat
  <2>1. app.gen \in Nat /\ app.gen >= 1 /\ typed \in 0..MaxLines /\ Len(lines) \in Nat
    BY <1>3, Constants DEF App, Generations, Types
  <2>2. One(Waited.kind = "close") = 1
    BY <1>1 DEF One
  <2> DEFINE a1 == One(stop /\ ~Clearing)
             a2 == One(app.deferred)
             a3 == One(app.cruise.active)
             a4 == One(Waited.kind = "close")
             a5 == One(pc = "await" /\ call.effect = "cruise")
  <2>3. a1 \in Nat /\ a2 \in Nat /\ a3 \in Nat /\ a5 \in Nat /\ a4 = 1
    BY <2>2 DEF One
  <2>4. Due = 2 * Len(lines) + 2 * a1 + a2 + a3 + a4 + a5
    BY DEF Due
  <2> HIDE DEF a1, a2, a3, a4, a5
  <2>5. Due \in Nat /\ Due >= 1
    BY <2>1, <2>3, <2>4
  <2>6. app.gen + Due <= 2 * typed + 1
    BY <1>3 DEF GenInv
  <2> QED BY <2>1, <2>5, <2>6, Constants DEF Generations
<1>7. c \in Commands /\ c.kind = "open" /\ c.gen = app.gen + 1 /\ c.id = 0
  BY <1>6 DEF OpenOf, Cmd, Commands
<1>8. app.wire \in Seq(Commands) /\ app.next \in Nat \ {0} /\ call.state \in States
  BY <1>1, <1>3, Constants DEF App, Calls
<1>9. w \in Seq(Commands)
  BY <1>7, <1>8, AppendIs
<1> HIDE DEF c
<1>10. n \in App
  BY <1>3, <1>6, <1>8 DEF Renew, App
<1>11. /\ n.gen = app.gen + 1 /\ n.next = app.next /\ n.cycle = app.cycle /\ n.wire = app.wire
       /\ n.commands = {} /\ n.requests = {} /\ n.pending = NoPlan
       /\ n.deferred = app.deferred /\ n.want = app.want /\ n.exit = app.exit
       /\ n.cruise = app.cruise /\ n.execution = app.execution /\ n.sweep = app.sweep
  BY <1>3 DEF Renew, App
<1> HIDE DEF n
<1>12. app' = [n EXCEPT !.wire = w]
  BY <1>2, <1>11 DEF Write
<1> HIDE DEF w
<1>13. app' \in App
  BY <1>9, <1>10, <1>12 DEF App
<1>14. /\ app'.gen = n.gen /\ app'.next = n.next /\ app'.cycle = n.cycle /\ app'.wire = w
       /\ app'.commands = n.commands /\ app'.requests = n.requests /\ app'.pending = n.pending
       /\ app'.deferred = n.deferred /\ app'.want = n.want /\ app'.exit = n.exit
       /\ app'.cruise = n.cruise /\ app'.execution = n.execution /\ app'.sweep = n.sweep
  BY <1>10, <1>12 DEF App
<1>15. Fit(app')
  BY <1>3, <1>5, <1>11, <1>13, <1>14 DEF Fit
<1>16. Flow(n, t, NoCmd)
  BY <1>1, <1>4, <1>6, <1>8, <1>11, AwaitedFlow
<1>17. Token(n, t, worker) /\ ~worker.active
  BY <1>1, <1>4, <1>5, <1>11, IdleToken
<1>18. c.kind \in Sync
  BY <1>7 DEF Sync
<1>19. app'.wire = Append(n.wire, c)
  BY <1>11, <1>14 DEF w
<1> HIDE DEF t
<1>20. Flow(app', t, c) /\ Token(app', t, worker) /\ Opened(app', t, worker, c)
  BY <1>1, <1>6, <1>7, <1>8, <1>11, <1>14, <1>16, <1>17, <1>18, <1>19, Written
<1>21. /\ call' \in Calls /\ call'.cmd = c /\ call'.effect = call.effect /\ call'.then = call.then
  BY <1>1, <1>2, <1>7 DEF Calls
<1>22. Waited' = c /\ Waited'.kind = "open"
  BY <1>2, <1>7, <1>21, WaitedIs
<1>23. ~Busy(app')
  BY <1>5, <1>11, <1>14 DEF Busy, HardwareActive
<1>24. FlowInv'
  BY <1>1, <1>7, <1>11, <1>14, <1>18, <1>20, <1>21, <1>22, <1>23 DEF FlowInv
<1>25. Clearing' = Clearing
  BY <1>1, <1>2, <1>21 DEF Clearing
<1>26. Types' /\ LoopInv'
  BY <1>1, <1>2, <1>3, <1>11, <1>14, <1>21, <1>25 DEF Types, LoopInv, Places
<1>27. GenInv'
  <2> DEFINE d == One(app.deferred)
             a == One(app.cruise.active)
             k == One(Waited.kind = "close")
             x == One(pc = "await" /\ call.effect = "cruise")
             d2 == One(app'.deferred)
             a2 == One(app'.cruise.active)
             k2 == One(Waited'.kind = "close")
             x2 == One(pc' = "await" /\ call'.effect = "cruise")
             g == app.gen
             g2 == app'.gen
  <2>1. d2 = d /\ a2 = a /\ x2 = x /\ k = 1 /\ k2 = 0 /\ d \in Nat /\ a \in Nat /\ x \in Nat
    BY <1>1, <1>2, <1>11, <1>14, <1>21, <1>22 DEF One
  <2>2. g2 = g + 1 /\ g \in Nat /\ g2 \in Nat
    BY <1>6, <1>11, <1>14
  <2> HIDE DEF d, a, k, x, d2, a2, k2, x2, g, g2
  <2>3. g2 + d2 + a2 + k2 + x2 <= g + d + a + k + x
    BY <2>1, <2>2
  <2> USE DEF d, a, k, x, d2, a2, k2, x2, g, g2
  <2>4. One(stop' /\ ~Clearing') <= One(stop /\ ~Clearing)
    BY <1>1, <1>25 DEF One
  <2> QED BY <1>1, <1>3, <2>2, <2>3, <2>4, GenPaid
<1>28. Radio
  BY <1>11, <1>14 DEF Radio, Starts
<1> QED BY <1>15, <1>24, <1>26, <1>27, <1>28 DEF IInv

\* The session is open, or status has its answer: what comes then.
LEMMA DoneStep ==
    ASSUME IInv, CommandReturns, Head(frames).ok, call.cmd.kind # "close"
    PROVE  IInv' /\ Radio
<1> DEFINE t == Tail(frames)
<1>1. /\ pc = "await" /\ frames # <<>> /\ frames' = t /\ UNCHANGED <<lines, stop, typed, worker>>
      /\ IsResponse(Head(frames)) /\ Head(frames).cmd = call.cmd /\ Waited = call.cmd
      /\ call \in Calls /\ call.cmd.gen = app.gen /\ t \in Seq(Frames) /\ worker.open = app.gen
  BY CommandSees
<1>2. app' = Effect(app, call.effect) /\ call' = NoCall /\ pc' = call.then
  BY <1>1, CommandCases
<1>3. /\ Fit(app) /\ Types /\ LoopInv /\ FlowInv /\ GenInv /\ app \in App
  BY <1>1, Fields DEF IInv
<1>4. /\ Flow(app, frames, Waited) /\ Token(app, frames, worker)
      /\ Opened(app, frames, worker, Waited) /\ frames \in Seq(Frames)
  BY <1>3 DEF FlowInv, Types
<1>5. call.effect \in {"none", "manual", "cruise"} /\ call.then \in Nexts
  BY <1>1 DEF Calls, Nexts
<1>6. /\ Steers(app, app')
      /\ call.effect # "cruise" => (app'.cruise.active => app.cruise.active)
  BY <1>2, <1>3, <1>5, EffectIs
<1>7. /\ Fit(app') /\ app'.gen = app.gen /\ app'.next = app.next /\ app'.cycle = app.cycle
      /\ app'.wire = app.wire /\ app'.commands = app.commands
      /\ app'.execution = app.execution /\ app'.sweep = app.sweep
      /\ app'.deferred = app.deferred /\ app'.want = app.want /\ app'.exit = app.exit
  BY <1>6 DEF Steers
<1>8. app.wire \in Seq(Commands) /\ app.gen \in Nat
  BY <1>3 DEF App, Generations
<1>9. Flow(app', t, NoCmd)
  BY <1>1, <1>4, <1>7, <1>8, AwaitedFlow
<1>10. Token(app', t, worker) /\ Opened(app', t, worker, Waited)
  BY <1>1, <1>4, <1>7, DropToken, DropOpened
<1>11. Opened(app', t, worker, NoCmd)
  BY <1>1, <1>7, <1>10 DEF Opened
<1> HIDE DEF t
<1>12. pc' \in Nexts /\ pc' # "await" /\ pc' # "gone" /\ pc' \in Places
  BY <1>2, <1>5 DEF Nexts, Places
<1>13. Waited' = NoCmd /\ Waited'.kind = "none" /\ ~Renews(Waited')
  BY <1>12, WaitedIs
<1>14. FlowInv'
  BY <1>1, <1>9, <1>10, <1>11, <1>12, <1>13 DEF FlowInv
<1>15. Clearing' = Clearing
  BY <1>1, <1>2, <1>12 DEF Clearing
<1>16. Types' /\ LoopInv'
  BY <1>1, <1>2, <1>3, <1>7, <1>12, <1>15, NoCallIs DEF Types, LoopInv
<1>17. GenInv'
  <2> DEFINE d == One(app.deferred)
             a == One(app.cruise.active)
             k == One(Waited.kind = "close")
             x == One(pc = "await" /\ call.effect = "cruise")
             d2 == One(app'.deferred)
             a2 == One(app'.cruise.active)
             k2 == One(Waited'.kind = "close")
             x2 == One(pc' = "await" /\ call'.effect = "cruise")
             g == app.gen
             g2 == app'.gen
  <2>1. d2 = d /\ k2 = 0 /\ x2 = 0 /\ d \in Nat /\ k \in Nat
    BY <1>7, <1>12, <1>13 DEF One
  <2>2. a \in {0, 1} /\ a2 \in {0, 1} /\ x \in {0, 1} /\ (a2 <= a \/ x = 1)
    BY <1>1, <1>6 DEF One
  <2>3. g2 = g /\ g \in Nat /\ g2 \in Nat
    BY <1>7, <1>8
  <2> HIDE DEF d, a, k, x, d2, a2, k2, x2, g, g2
  <2>4. g2 + d2 + a2 + k2 + x2 <= g + d + a + k + x
    BY <2>1, <2>2, <2>3
  <2> USE DEF d, a, k, x, d2, a2, k2, x2, g, g2
  <2>5. One(stop' /\ ~Clearing') <= One(stop /\ ~Clearing)
    BY <1>1, <1>15 DEF One
  <2> QED BY <1>1, <1>3, <2>3, <2>4, <2>5, GenPaid
<1>18. Radio
  BY <1>7 DEF Radio, Starts
<1> QED BY <1>7, <1>14, <1>16, <1>17, <1>18 DEF IInv

-----------------------------------------------------------------------------
(* The console.                                                            *)

\* A console that has just connected.
LEMMA InitInv == Init => IInv
<1> SUFFICES ASSUME Init PROVE IInv
  OBVIOUS
<1>1. PICK w \in {NoWork, [kind |-> "initial", id |-> 0, gen |-> 1, bytes |-> SweepBytes,
                           result |-> "running"]} :
         app = [gen |-> 1, next |-> 1, state |-> IF w = NoWork THEN "idle" ELSE "surveying",
                cycle |-> FALSE, seen |-> FALSE, deferred |-> FALSE, due |-> TRUE,
                expired |-> FALSE, requests |-> {}, pending |-> NoPlan, commands |-> {},
                execution |-> NoWork, sweep |-> w, cruise |-> CruiseDefault,
                wire |-> <<>>, want |-> "no", exit |-> "no"]
  BY DEF Init
<1>2. /\ pc = "top" /\ call = NoCall /\ lines = <<>> /\ stop = FALSE /\ typed = 0
      /\ frames = <<>>
      /\ worker = [open |-> 1, active |-> FALSE, current |-> 0, submitted |-> FALSE,
                   aborted |-> FALSE, inbox |-> {}, queued |-> 0]
  BY DEF Init
<1>3. 1 \in Generations /\ 1 \in 1..(MaxRequests + 1)
  BY Constants DEF Generations
<1>4. w \in Sweeps /\ (w # NoWork => w.gen = 1)
  <2>1. CASE w = NoWork
    BY <2>1 DEF Sweeps
  <2>2. CASE w = [kind |-> "initial", id |-> 0, gen |-> 1, bytes |-> SweepBytes,
                  result |-> "running"]
    BY <1>3, <2>2, Constants DEF Sweeps, Work
  <2> QED BY <2>1, <2>2
<1>5. CruiseDefault \in CruiseType /\ CruiseFit(CruiseDefault) /\ CruiseDefault.active = FALSE
  BY Constants DEF CruiseDefault, CruiseType, CruiseFit
<1>6. (IF w = NoWork THEN "idle" ELSE "surveying") \in States /\ "no" \in Exits
  BY DEF States, Exits
<1>7. NoWork \in Captures /\ NoPlan \in Plans \cup {NoPlan} /\ <<>> \in Seq(Commands)
  BY DEF Captures
<1>8. /\ app.gen = 1 /\ app.next = 1 /\ app.requests = {} /\ app.pending = NoPlan
      /\ app.commands = {} /\ app.execution = NoWork /\ app.sweep = w
      /\ app.cruise = CruiseDefault /\ app.wire = <<>> /\ app.want = "no" /\ app.exit = "no"
  BY <1>1
<1>9. app.cycle = FALSE /\ app.deferred = FALSE
  BY <1>1
<1>10. app \in App
  BY <1>1, <1>3, <1>4, <1>5, <1>6, <1>7 DEF App
<1>11. Fit(app)
  BY <1>4, <1>5, <1>8, <1>10 DEF Fit
<1>12. worker \in Workers
  BY <1>2, <1>3, Constants DEF Workers
<1>13. worker.open = 1
  BY <1>2
<1>14. ~worker.active
  BY <1>2
<1>15. Types
  <2>1. lines \in Seq(AllInputs) /\ Len(lines) <= InputLimit /\ frames \in Seq(Frames)
    BY <1>2, Constants
  <2>2. pc \in Places /\ typed \in 0..MaxLines
    BY <1>2, Constants DEF Places
  <2>3. call \in Calls /\ stop \in BOOLEAN
    BY <1>2, NoCallIs
  <2> QED BY <1>12, <2>1, <2>2, <2>3 DEF Types
<1>16. LoopInv
  BY <1>2, <1>8 DEF LoopInv, Clearing
<1>17. Waited = NoCmd /\ NoCmd.kind = "none" /\ ~Renews(NoCmd)
  BY <1>2, WaitedIs DEF NoCmd, Renews
<1>18. Len(app.wire) = 0 /\ Len(frames) = 0 /\ 1..0 = {}
  BY <1>2, <1>8
<1>19. Flow(app, frames, NoCmd)
  BY <1>18 DEF Flow
<1>20. Token(app, frames, worker)
  BY <1>14, <1>18 DEF Token
<1>21. Opened(app, frames, worker, NoCmd)
  BY <1>8, <1>13, <1>18 DEF Opened
<1>22. FlowInv
  BY <1>2, <1>17, <1>19, <1>20, <1>21 DEF FlowInv
<1>23. GenInv
  <2>1. One(stop /\ ~Clearing) = 0 /\ One(app.deferred) = 0 /\ One(app.cruise.active) = 0
    BY <1>2, <1>5, <1>8, <1>9 DEF One
  <2>2. One(Waited.kind = "close") = 0 /\ One(pc = "await" /\ call.effect = "cruise") = 0
    BY <1>2, <1>17 DEF One
  <2>3. Len(lines) = 0
    BY <1>2
  <2>4. Due = 0
    BY <2>1, <2>2, <2>3 DEF Due
  <2> QED BY <1>2, <1>8, <2>4 DEF GenInv
<1> QED BY <1>11, <1>15, <1>16, <1>22, <1>23 DEF IInv

\* One step per action.
LEMMA NextInv ==
    ASSUME IInv, Next
    PROVE  IInv' /\ Radio
<1>1. CASE Top
  BY <1>1, TopStep
<1>2. CASE ClearStop \/ NoInput \/ CloseWaits
  BY <1>2, TurnSteps
<1>3. CASE ReadFrame
  BY <1>3, ReadStep
<1>4. CASE CommandReturns
  <2>1. Head(frames).ok \in BOOLEAN
    BY <1>4, CommandSees
  <2> QED BY <1>4, <2>1, RefusedStep, RenewStep, DoneStep
<1>5. CASE Poll \/ ClosePolls
  BY <1>5, PollStep
<1>6. CASE AutoStep
  BY <1>6, AutoIs
<1>7. CASE Quit
  BY <1>7, QuitStep
<1>8. CASE HandleInput
  <2>1. CASE TextLine \/ FollowUpLine
    BY <2>1, TalkLines
  <2>2. CASE ApproveLine
    BY <2>2, ApproveStep
  <2>3. CASE RejectLine
    BY <2>3, RejectStep
  <2>4. CASE ManualLine
    BY <2>4, ManualStep
  <2>5. CASE PauseLine \/ ResumeLine \/ AutoLine \/ QuitLine
    BY <2>5, AskLines
  <2>6. CASE StatusLine
    BY <2>6, StatusStep
  <2> QED BY <1>8, <2>1, <2>2, <2>3, <2>4, <2>5, <2>6 DEF HandleInput
<1>9. CASE Hardware
  BY <1>9, HardwareSteps
<1>10. CASE WorkerAnswers
  BY <1>10, AnswerStep
<1>11. CASE \/ \E q \in Ids : WorkerTakes(q)
            \/ \E p \in Proposals : WorkerProposes(p)
            \/ WorkerEnds
  BY <1>11, RunSteps
<1>12. CASE RetryDue \/ DurationExpires
  BY <1>12, ClockSteps
<1>13. CASE TypeStop \/ \E l \in Inputs : Type(l)
  BY <1>13, TypeSteps
<1>14. CASE Gone
  <2>1. UNCHANGED vars /\ pc = "gone"
    BY <1>14 DEF Gone
  <2>2. Fit(app) /\ Types /\ LoopInv
    BY DEF IInv
  <2>3. Types' /\ LoopInv'
    BY <2>1, <2>2 DEF vars, Types, LoopInv, Clearing
  <2>4. Radio
    BY <2>1 DEF vars, Radio, Starts
  <2> QED BY <2>1, <2>2, <2>3, <2>4 DEF IInv, vars
<1> QED BY <1>1, <1>2, <1>3, <1>4, <1>5, <1>6, <1>7, <1>8, <1>9, <1>10, <1>11, <1>12, <1>13,
           <1>14 DEF Next, ConsoleStep, Worker

\* A step that leaves the state alone.
LEMMA StutterInv ==
    ASSUME IInv, UNCHANGED vars
    PROVE  IInv'
<1>1. Waited' = Waited /\ Clearing' = Clearing
  BY DEF vars, Waited, Clearing
<1>2. Types' = Types /\ LoopInv' = LoopInv /\ FlowInv' = FlowInv
  BY <1>1 DEF vars, Types, LoopInv, FlowInv
<1>3. Due' = Due
  BY <1>1 DEF vars, Due
<1>4. GenInv' = GenInv
  BY <1>3 DEF vars, GenInv
<1> QED BY <1>2, <1>4 DEF IInv, vars

\* The console's invariant, for every number of requests, lines and proposals:
\* what runs, waits or is known is of the current generation; every command
\* sent and not answered is known; the model's run is in one place and a
\* renewal closes a session without one; and the generations are paid for by
\* the lines typed.
THEOREM Inductive == Spec => []IInv
<1>1. Init => IInv
  BY InitInv
<1>2. IInv /\ [Next]_vars => IInv'
  BY NextInv, StutterInv
<1> QED BY <1>1, <1>2, PTL DEF Spec

\* Whatever the operator, the model, the worker and the hardware threads do and
\* in whatever order, nothing of a closed generation is left in the console, no
\* response is unknown or stale, no close_session is refused (the three errors
\* of handle_frame and command that end the process), and a stop leaves no line
\* to be executed.
THEOREM ConsoleSound == Spec => []ConsoleInv
<1>1. IInv => ConsoleInv
  <2> SUFFICES ASSUME IInv PROVE ConsoleInv
    OBVIOUS
  <2>1. Fit(app) /\ Types /\ LoopInv /\ app \in App
    BY Fields DEF IInv
  <2>2. TypeOK
    <3>1. {app.cycle, app.seen, app.deferred, app.due, app.expired} \subseteq BOOLEAN
      BY <2>1 DEF App
    <3>2. /\ app.gen \in Generations /\ app.next \in 1..(MaxRequests + 1) /\ app.state \in States
          /\ app.requests \subseteq [id : Ids, gen : Generations, faulted : BOOLEAN]
          /\ app.pending \in Plans \cup {NoPlan} /\ app.commands \subseteq Commands
          /\ app.execution \in Captures /\ app.sweep \in Sweeps /\ app.cruise \in CruiseType
          /\ app.wire \in Seq(Commands) /\ app.want \in {"no", "idle", "holding"}
          /\ app.exit \in Exits
      BY <2>1 DEF App
    <3> QED BY <2>1, <3>1, <3>2
        DEF TypeOK, Types, Captures, Sweeps, CruiseType, Calls, Workers, Places
  <2>3. CurrentGeneration
    BY <2>1 DEF CurrentGeneration, Fit
  <2>4. ProtocolHolds /\ StopDiscards
    BY <2>1 DEF ProtocolHolds, StopDiscards, LoopInv, Clearing
  <2> QED BY <2>2, <2>3, <2>4 DEF ConsoleInv
<1> QED BY <1>1, Inductive, PTL

\* The radio starts only for the plan that the operator has just approved, or
\* for an active cruise within its limits: a capture below the approval
\* threshold, a sweep within what is left of the byte budget.
THEOREM ApprovedOnly == Spec => NothingUnapproved
<1>1. IInv /\ [Next]_vars => [Radio]_vars
  BY NextInv
<1>2. Spec => [][Radio]_vars
  BY <1>1, Inductive, PTL DEF Spec
<1> QED BY <1>2 DEF NothingUnapproved, Radio

=============================================================================
