-------------------------- MODULE WebConsoleProofs --------------------------
(***************************************************************************)
(* Proofs about module WebConsole, for every number of conversations,      *)
(* terminals, requests and restarts and every capacity.                    *)
(*                                                                         *)
(* The properties rest on three facts about the shared state.  Of the      *)
(* actors, only the holder of process_gate has got past it, and no handler *)
(* moves an actor past it.  Memory and state.json are both sound by        *)
(* themselves, so that a restart from either is.  And a conversation whose *)
(* initial survey is pending in either of them has not had one, nor has an *)
(* actor that is about to start one.                                       *)
(***************************************************************************)
EXTENDS WebConsole, SequenceTheorems, FiniteSetTheorems, WellFoundedInduction, TLAPS

Lively == {"started", "run", "closing"}

\* What Inner.persisted and state.json both are when m conversations have
\* been created.
Sound(store, m) ==
    /\ store \in Persisted
    /\ Len(store.used) <= MAX_SESSIONS
    /\ IsInjective(store.used)
    /\ store.active = None <=> store.used = <<>>
    /\ store.used # <<>> => store.active \in ToSet(store.used)
    /\ \A s \in ToSet(store.used) :
           s <= m /\ (s # store.active => store.session[s].status = "stored")

Types ==
    /\ runtime \in Actors \cup {None}
    /\ actor \in [Actors -> Actor]
    /\ request \in Sessions \cup {None}
    /\ calls \in 0..MaxCalls
    /\ made \in 0..Created
    /\ surveys \in [Sessions -> 0..1]
    /\ restarts \in 0..MaxRestarts

\* The actors: the gate, the request file, and the queue.
ActorInv ==
    /\ \A a \in Actors :
           /\ Len(actor[a].queue) <= ChannelBound + 1
           /\ actor[a].child => actor[a].phase \in Lively
           /\ actor[a].phase \in Lively => request = actor[a].session
           /\ actor[a].session <= made
    /\ \A a, b \in Actors : actor[a].phase \in Holding /\ actor[b].phase \in Holding => a = b

\* The handle names an actor that has not been let go and that is the
\* active conversation's.
HandleInv == runtime # None => actor[runtime].open /\ actor[runtime].session = mem.active

StoreInv == Sound(mem, made) /\ Sound(disk, made)

\* An actor that has claimed the initial survey and has not started it.
Claims(act, s) == act.phase = "socket" /\ act.survey /\ act.session = s

SurveyInv ==
    \A s \in Sessions :
        /\ s > made => surveys[s] = 0
        /\ mem.session[s].survey = "pending" \/ disk.session[s].survey = "pending" =>
               surveys[s] = 0 /\ \A a \in Actors : ~Claims(actor[a], s)
        /\ \A a \in Actors : Claims(actor[a], s) => surveys[s] = 0

IInv == Types /\ ActorInv /\ HandleInv /\ StoreInv /\ SurveyInv

-----------------------------------------------------------------------------
(* The conversations.                                                      *)

\* What the assumption says of each bound.
LEMMA Constants ==
    /\ Created \in Nat /\ Tasks \in Nat /\ MaxCalls \in Nat /\ ChannelBound \in Nat
    /\ COMPACT_AT_EVENTS \in Nat \ {0} /\ MaxRestarts \in Nat
    /\ MAX_SESSIONS \in Nat /\ MAX_SESSIONS >= 2
    /\ 0 \notin Sessions /\ Sessions \subseteq Nat /\ 0 \notin Actors
  BY WebConsoleAssumption DEF Sessions, Actors

\* A set of naturals that is not empty has a least element.
LEMMA LeastNumber ==
    ASSUME NEW T, T \subseteq Nat, T # {}
    PROVE  \E n \in T : \A m \in T : n <= m
<1>1. IsWellFoundedOn(OpToRel(<, Nat), Nat)
  BY NatLessThanWellFounded
<1>2. PICK n \in T : \A m \in T : ~(<<m, n>> \in OpToRel(<, Nat))
  BY <1>1, WFMin, Zenon
<1>3. \A m, k \in Nat : m < k => <<m, k>> \in OpToRel(<, Nat)
  BY Zenon DEF OpToRel
<1>4. \A m \in T : ~(m < n)
  BY <1>2, <1>3, Zenon
<1> QED BY <1>4

\* The place of a conversation in the order of use.
LEMMA IndexOfOne ==
    ASSUME NEW u \in Seq(Sessions), NEW s \in ToSet(u)
    PROVE  LET i == SelectInSeq(u, LAMBDA t : t = s) IN i \in 1..Len(u) /\ u[i] = s
<1> DEFINE I == {i \in 1..Len(u) : u[i] = s}
<1>1. I \subseteq Nat /\ I # {}
  BY DEF ToSet
<1>2. \E n \in I : \A m \in I : n <= m
  BY <1>1, LeastNumber
<1>3. Min(I) \in I
  BY <1>2 DEF Min
<1>4. SelectInSeq(u, LAMBDA t : t = s) = Min(I)
  BY <1>1, Zenon DEF SelectInSeq
<1> QED BY <1>3, <1>4

\* The place of the least recently used conversation that is not the active
\* one, when there is another.
LEMMA IndexOfOther ==
    ASSUME NEW u \in Seq(Sessions), NEW s, \E t \in ToSet(u) : t # s
    PROVE  LET i == SelectInSeq(u, LAMBDA t : t # s) IN i \in 1..Len(u) /\ u[i] # s
<1> DEFINE I == {i \in 1..Len(u) : u[i] # s}
<1>1. I \subseteq Nat /\ I # {}
  BY DEF ToSet
<1>2. \E n \in I : \A m \in I : n <= m
  BY <1>1, LeastNumber
<1>3. Min(I) \in I
  BY <1>2 DEF Min
<1>4. SelectInSeq(u, LAMBDA t : t # s) = Min(I)
  BY <1>1, Zenon DEF SelectInSeq
<1> QED BY <1>3, <1>4

\* Taking one conversation out of the order of use.
LEMMA Removed ==
    ASSUME NEW u \in Seq(Sessions), IsInjective(u), NEW i \in 1..Len(u)
    PROVE  /\ RemoveAt(u, i) \in Seq(Sessions)
           /\ Len(RemoveAt(u, i)) = Len(u) - 1
           /\ IsInjective(RemoveAt(u, i))
           /\ ToSet(RemoveAt(u, i)) = ToSet(u) \ {u[i]}
<1> DEFINE v == RemoveAt(u, i)
<1> DEFINE l == SubSeq(u, 1, i - 1)
           r == SubSeq(u, i + 1, Len(u))
<1>1. /\ l \in Seq(Sessions) /\ Len(l) = i - 1 /\ \A j \in 1..(i - 1) : l[j] = u[j]
      /\ r \in Seq(Sessions) /\ Len(r) = Len(u) - i
      /\ \A j \in 1..(Len(u) - i) : r[j] = u[i + j]
  OBVIOUS
<1>0. v = l \o r
  BY DEF RemoveAt
<1> HIDE DEF l, r, v
<1>2. v \in Seq(Sessions) /\ Len(v) = Len(u) - 1
  <2>1. v \in Seq(Sessions) /\ Len(v) = Len(l) + Len(r)
    BY <1>0, <1>1, ConcatProperties
  <2> QED BY <1>1, <2>1
<1>3. \A j \in 1..(Len(u) - 1) : v[j] = IF j < i THEN u[j] ELSE u[j + 1]
  <2> TAKE j \in 1..(Len(u) - 1)
  <2>1. CASE j < i
    <3>1. j \in 1..Len(l)
      BY <1>1, <2>1
    <3>2. v[j] = l[j]
      BY <1>0, <1>1, <3>1
    <3> QED BY <1>1, <2>1, <3>1, <3>2
  <2>2. CASE ~(j < i)
    <3>1. /\ j \in 1..(Len(l) + Len(r)) /\ ~(j \in 1..Len(l))
          /\ j - Len(l) \in 1..(Len(u) - i) /\ i + (j - Len(l)) = j + 1
      BY <1>1, <2>2
    <3>2. v[j] = r[j - Len(l)]
      BY <1>0, <1>1, <3>1
    <3> QED BY <1>1, <2>2, <3>1, <3>2
  <2> QED BY <2>1, <2>2
<1>4. DOMAIN v = 1..(Len(u) - 1) /\ DOMAIN u = 1..Len(u)
  BY <1>2
<1>5. IsInjective(v)
  <2> SUFFICES ASSUME NEW j \in 1..(Len(u) - 1), NEW m \in 1..(Len(u) - 1), v[j] = v[m]
               PROVE  j = m
    BY <1>4 DEF IsInjective
  <2> DEFINE J == IF j < i THEN j ELSE j + 1
             M == IF m < i THEN m ELSE m + 1
  <2>1. J \in 1..Len(u) /\ M \in 1..Len(u) /\ u[J] = u[M]
    BY <1>3
  <2>2. J = M
    BY <1>4, <2>1 DEF IsInjective
  <2> QED BY <2>2
<1>6. ToSet(v) = ToSet(u) \ {u[i]}
  <2>1. ASSUME NEW j \in 1..(Len(u) - 1)
        PROVE  v[j] \in ToSet(u) /\ v[j] # u[i]
    <3> DEFINE J == IF j < i THEN j ELSE j + 1
    <3>1. J \in 1..Len(u) /\ v[j] = u[J] /\ J # i
      BY <1>3
    <3> HIDE DEF J
    <3> QED BY <1>4, <3>1 DEF ToSet, IsInjective
  <2>2. ASSUME NEW j \in 1..Len(u), j # i
        PROVE  u[j] \in ToSet(v)
    <3> DEFINE J == IF j < i THEN j ELSE j - 1
    <3>1. J \in 1..(Len(u) - 1) /\ v[J] = u[j]
      BY <1>3, <2>2
    <3> HIDE DEF J
    <3> QED BY <1>4, <3>1 DEF ToSet
  <2> QED BY <1>4, <2>1, <2>2 DEF ToSet
<1> QED BY <1>2, <1>5, <1>6 DEF v

\* Adding one that is not in it.
LEMMA Added ==
    ASSUME NEW u \in Seq(Sessions), IsInjective(u), NEW s \in Sessions, s \notin ToSet(u)
    PROVE  /\ Append(u, s) \in Seq(Sessions)
           /\ Append(u, s) # <<>>
           /\ Len(Append(u, s)) = Len(u) + 1
           /\ IsInjective(Append(u, s))
           /\ ToSet(Append(u, s)) = ToSet(u) \cup {s}
<1> DEFINE v == Append(u, s)
<1>1. v \in Seq(Sessions) /\ Len(v) = Len(u) + 1 /\ Len(u) \in Nat
  OBVIOUS
<1>2. v[Len(u) + 1] = s /\ \A j \in 1..Len(u) : v[j] = u[j]
  OBVIOUS
<1> HIDE DEF v
<1>3. DOMAIN v = 1..(Len(u) + 1) /\ DOMAIN u = 1..Len(u)
  BY <1>1
<1>4. \A j \in 1..(Len(u) + 1) : j = Len(u) + 1 \/ j \in 1..Len(u)
  BY <1>1
<1>5. ToSet(v) = ToSet(u) \cup {s}
  BY <1>1, <1>2, <1>3, <1>4 DEF ToSet
<1>6. IsInjective(v)
  <2> SUFFICES ASSUME NEW j \in 1..(Len(u) + 1), NEW m \in 1..(Len(u) + 1), v[j] = v[m]
               PROVE  j = m
    BY <1>3 DEF IsInjective
  <2>1. \A x \in 1..Len(u) : u[x] # s
    BY <1>3 DEF ToSet
  <2> QED BY <1>2, <1>3, <1>4, <2>1 DEF IsInjective
<1>7. v # <<>>
  BY <1>1
<1> QED BY <1>1, <1>5, <1>6, <1>7 DEF v

\* last_used_at_ms := now, for a conversation that exists.
LEMMA Touched ==
    ASSUME NEW u \in Seq(Sessions), IsInjective(u), NEW s \in ToSet(u)
    PROVE  /\ Touch(u, s) \in Seq(Sessions)
           /\ Touch(u, s) # <<>>
           /\ Len(Touch(u, s)) = Len(u)
           /\ IsInjective(Touch(u, s))
           /\ ToSet(Touch(u, s)) = ToSet(u)
<1> DEFINE i == SelectInSeq(u, LAMBDA t : t = s)
           v == RemoveAt(u, i)
<1>1. i \in 1..Len(u) /\ u[i] = s
  BY IndexOfOne
<1>4. s \in Sessions /\ Len(u) \in Nat
  BY DEF ToSet
<1> HIDE DEF i
<1>2. /\ v \in Seq(Sessions) /\ Len(v) = Len(u) - 1 /\ IsInjective(v)
      /\ ToSet(v) = ToSet(u) \ {s}
  BY <1>1, Removed
<1>3. Touch(u, s) = Append(v, s)
  BY DEF Touch, i
<1> HIDE DEF v
<1>5. /\ Append(v, s) \in Seq(Sessions) /\ Append(v, s) # <<>>
      /\ Len(Append(v, s)) = Len(v) + 1 /\ IsInjective(Append(v, s))
      /\ ToSet(Append(v, s)) = ToSet(v) \cup {s}
  BY <1>2, <1>4, Added
<1> QED BY <1>2, <1>3, <1>4, <1>5

\* What every write to a conversation leaves alone: the store is still sound,
\* the active conversation is the same and no survey is made pending.
Follows(store, next, m) ==
    /\ Sound(next, m)
    /\ next.active = store.active
    /\ \A t \in Sessions :
           next.session[t].survey = "pending" => store.session[t].survey = "pending"

\* A conversation is rewritten: if it is not the active one, its status is
\* left or becomes "stored".
LEMMA Rewritten ==
    ASSUME NEW store, NEW m, Sound(store, m), NEW s \in Sessions, NEW x \in Session,
           s # store.active => x.status \in {store.session[s].status, "stored"},
           x.survey = "pending" => store.session[s].survey = "pending"
    PROVE  /\ Follows(store, [store EXCEPT !.session[s] = x], m)
           /\ [store EXCEPT !.session[s] = x].used = store.used
           /\ [store EXCEPT !.session[s] = x].session = [store.session EXCEPT ![s] = x]
<1> DEFINE next == [store EXCEPT !.session[s] = x]
<1>1. store \in Persisted /\ store.session \in [Sessions -> Session]
  BY DEF Sound, Persisted
<1>2. next.active = store.active /\ next.used = store.used /\ next \in Persisted
  BY <1>1 DEF Persisted
<1>3. next.session = [store.session EXCEPT ![s] = x]
  BY <1>1 DEF Persisted
<1> HIDE DEF next
<1>4. \A t \in Sessions : next.session[t] = IF t = s THEN x ELSE store.session[t]
  BY <1>1, <1>3
<1>5. \A t \in ToSet(store.used) : t \in Sessions
  BY <1>1 DEF Persisted, ToSet
<1>6. Sound(next, m)
  BY <1>2, <1>4, <1>5 DEF Sound
<1> QED BY <1>2, <1>3, <1>4, <1>6 DEF Follows, next

\* push_event and compact_session count events and nothing else.
LEMMA Counted ==
    ASSUME NEW x \in Session
    PROVE  /\ push_event(x) \in Session /\ compact_session(x) \in Session
           /\ push_event(x).status = x.status /\ push_event(x).survey = x.survey
           /\ compact_session(x).status = x.status /\ compact_session(x).survey = x.survey
  BY Constants DEF Session, push_event, compact_session, Smaller

\* The order of use is touched.
LEMMA Reused ==
    ASSUME NEW store, NEW m, Sound(store, m), NEW s \in ToSet(store.used)
    PROVE  Follows(store, [store EXCEPT !.used = Touch(@, s)], m)
<1> DEFINE next == [store EXCEPT !.used = Touch(@, s)]
           u == Touch(store.used, s)
<1>1. store \in Persisted /\ store.used \in Seq(Sessions) /\ IsInjective(store.used)
  BY DEF Sound, Persisted
<1>2. /\ u \in Seq(Sessions) /\ u # <<>> /\ Len(u) = Len(store.used)
      /\ IsInjective(u) /\ ToSet(u) = ToSet(store.used)
  BY <1>1, Touched
<1> HIDE DEF u
<1>3. next = [store EXCEPT !.used = u]
  BY DEF u
<1>4. next.active = store.active /\ next.used = u /\ next.session = store.session
  BY <1>1, <1>3 DEF Persisted
<1>5. next \in Persisted
  BY <1>1, <1>2, <1>3 DEF Persisted
<1> HIDE DEF next
<1>6. store.used # <<>>
  BY <1>1 DEF ToSet
<1> QED BY <1>2, <1>4, <1>5, <1>6 DEF Sound, Follows, next

\* record_process_output: only the handle's session, which is the active one,
\* changes its status.
LEMMA RecordedFollows ==
    ASSUME NEW store, NEW m, Sound(store, m), NEW s, NEW line, NEW current,
           current /\ s \in Sessions => s = store.active
    PROVE  Follows(store, Recorded(store, s, line, current), m)
<1>1. CASE ~Exists(store, s) \/ line = "record"
  BY <1>1 DEF Recorded, Follows
<1>2. CASE ~(~Exists(store, s) \/ line = "record")
  <2>1. s \in Sessions /\ store.session[s] \in Session
    BY <1>2 DEF Exists, Sound, Persisted, ToSet
  <2> DEFINE y == push_event(store.session[s])
             x == [y EXCEPT
                     !.status = IF current /\ line # "refused" THEN "connected" ELSE @,
                     !.survey = IF line = "survey" THEN "settled" ELSE @]
  <2>2. Recorded(store, s, line, current) = [store EXCEPT !.session[s] = x]
    BY <1>2 DEF Recorded
  <2>3. /\ y \in Session /\ y.status = store.session[s].status
        /\ y.survey = store.session[s].survey
    BY <2>1, Counted
  <2> HIDE DEF y
  <2>4. /\ x \in Session /\ (s # store.active => x.status = store.session[s].status)
        /\ (x.survey = "pending" => store.session[s].survey = "pending")
    BY <2>1, <2>3 DEF Session, Statuses, SurveyStatuses
  <2> HIDE DEF x
  <2> QED BY <2>1, <2>2, <2>4, Rewritten
<1> QED BY <1>1, <1>2

\* record_runtime_exit: likewise, and a running survey ends.
LEMMA ExitFollows ==
    ASSUME NEW store, NEW m, Sound(store, m), NEW s, NEW current,
           current /\ s \in Sessions => s = store.active
    PROVE  Follows(store, ExitRecorded(store, s, current), m)
<1>1. CASE ~Exists(store, s)
  BY <1>1 DEF ExitRecorded, Follows
<1>2. CASE Exists(store, s)
  <2>1. s \in Sessions /\ store.session[s] \in Session
    BY <1>2 DEF Exists, Sound, Persisted, ToSet
  <2> DEFINE y == push_event(store.session[s])
             x == [y EXCEPT !.status = IF current THEN "exited" ELSE @,
                            !.survey = IF @ = "running" THEN "settled" ELSE @]
  <2>2. ExitRecorded(store, s, current) = [store EXCEPT !.session[s] = x]
    BY <1>2 DEF ExitRecorded
  <2>3. /\ y \in Session /\ y.status = store.session[s].status
        /\ y.survey = store.session[s].survey
    BY <2>1, Counted
  <2> HIDE DEF y
  <2>4. /\ x \in Session /\ (s # store.active => x.status = store.session[s].status)
        /\ (x.survey = "pending" => store.session[s].survey = "pending")
    BY <2>1, <2>3 DEF Session, Statuses, SurveyStatuses
  <2> HIDE DEF x
  <2> QED BY <2>1, <2>2, <2>4, Rewritten
<1> QED BY <1>1, <1>2

\* Making room: the active conversation stays, and there is room for one.
LEMMA Evicted ==
    ASSUME NEW store, NEW m, Sound(store, m)
    PROVE  Follows(store, Evict(store), m) /\ Len(Evict(store).used) < MAX_SESSIONS
<1>1. CASE Len(store.used) < MAX_SESSIONS
  BY <1>1 DEF Evict, Follows
<1>2. CASE ~(Len(store.used) < MAX_SESSIONS)
  <2> DEFINE i == select_evict_id(store)
             u == RemoveAt(store.used, i)
             next == [store EXCEPT !.used = u]
  <2>1. /\ store \in Persisted /\ store.used \in Seq(Sessions) /\ IsInjective(store.used)
        /\ Len(store.used) = MAX_SESSIONS /\ Len(store.used) >= 2
    BY <1>2, Constants DEF Sound, Persisted
  <2>2. \E t \in ToSet(store.used) : t # store.active
    <3>1. 1 \in DOMAIN store.used /\ 2 \in DOMAIN store.used
      BY <2>1
    <3>2. store.used[1] # store.used[2]
      BY <2>1, <3>1 DEF IsInjective
    <3> QED BY <3>1, <3>2, <2>1 DEF ToSet
  <2>3. i \in 1..Len(store.used) /\ store.used[i] # store.active
    BY <2>1, <2>2, IndexOfOther DEF select_evict_id
  <2> HIDE DEF i
  <2>4. /\ u \in Seq(Sessions) /\ Len(u) = Len(store.used) - 1 /\ IsInjective(u)
        /\ ToSet(u) = ToSet(store.used) \ {store.used[i]}
    BY <2>1, <2>3, Removed
  <2>5. Evict(store) = next
    BY <1>2 DEF Evict, i
  <2> HIDE DEF u
  <2>6. /\ next.active = store.active /\ next.used = u /\ next.session = store.session
        /\ next \in Persisted
    BY <2>1, <2>4 DEF Persisted
  <2> HIDE DEF next
  <2>7. /\ u # <<>> /\ Len(u) < MAX_SESSIONS /\ Len(u) <= MAX_SESSIONS
        /\ store.used # <<>>
    BY <2>1, <2>4, Constants
  <2>8. Sound(next, m)
    BY <2>3, <2>4, <2>6, <2>7 DEF Sound
  <2> QED BY <2>5, <2>6, <2>7, <2>8 DEF Follows
<1> QED BY <1>1, <1>2

\* After deactivate_current every conversation is stored.
LEMMA Deactivated ==
    ASSUME NEW store, NEW m, Sound(store, m)
    PROVE  /\ Follows(store, Deactivate(store), m)
           /\ Deactivate(store).used = store.used
           /\ \A s \in ToSet(store.used) : Deactivate(store).session[s].status = "stored"
<1>0. store \in Persisted /\ store.used \in Seq(Sessions)
  BY DEF Sound, Persisted
<1>1. CASE store.active = None
  <2>1. store.used = <<>>
    BY <1>1 DEF Sound
  <2>2. ToSet(store.used) = {}
    BY <2>1 DEF ToSet
  <2> QED BY <1>1, <2>2 DEF Deactivate, Follows
<1>2. CASE store.active # None
  <2>1. store.active \in Sessions /\ store.session[store.active] \in Session
    BY <1>0, <1>2 DEF Persisted
  <2> DEFINE y == compact_session(store.session[store.active])
             x == [y EXCEPT !.status = "stored"]
  <2>2. Deactivate(store) = [store EXCEPT !.session[store.active] = x]
    BY <1>2 DEF Deactivate
  <2>3. y \in Session /\ y.survey = store.session[store.active].survey
    BY <2>1, Counted
  <2> HIDE DEF y
  <2>4. x \in Session /\ x.status = "stored" /\ x.survey = store.session[store.active].survey
    BY <2>3 DEF Session, Statuses
  <2> HIDE DEF x
  <2>5. /\ Follows(store, Deactivate(store), m)
        /\ Deactivate(store).used = store.used
        /\ Deactivate(store).session = [store.session EXCEPT ![store.active] = x]
    BY <2>1, <2>2, <2>4, Rewritten
  <2>6. \A s \in ToSet(store.used) : s \in Sessions
    BY <1>0 DEF ToSet
  <2>7. store.session \in [Sessions -> Session]
    BY <1>0 DEF Persisted
  <2> QED BY <2>1, <2>4, <2>5, <2>6, <2>7 DEF Sound
<1> QED BY <1>1, <1>2

\* What a restart makes of the state file.
LEMMA Loaded ==
    ASSUME NEW store, NEW m, Sound(store, m)
    PROVE  Follows(store, restore_active_runtime(load_state(store)), m)
<1> DEFINE l == load_state(store)
<1>0. store \in Persisted
  BY DEF Sound
<1>1. /\ l.active = store.active /\ l.used = store.used
      /\ l.session = [s \in Sessions |-> [store.session[s] EXCEPT
                        !.survey = IF @ = "running" THEN "settled" ELSE @]]
      /\ l \in Persisted
  BY <1>0 DEF load_state, Persisted, Session, SurveyStatuses
<1>2. \A s \in Sessions :
        /\ l.session[s].status = store.session[s].status
        /\ l.session[s].survey = "pending" => store.session[s].survey = "pending"
  BY <1>0, <1>1 DEF Persisted, Session
<1>3. \A s \in ToSet(store.used) : s \in Sessions
  BY <1>0 DEF Persisted, ToSet
<1> HIDE DEF l
<1>4. Sound(l, m)
  BY <1>1, <1>2, <1>3 DEF Sound
<1>5. Follows(l, restore_active_runtime(l), m)
  <2>1. CASE l.active = None
    BY <1>4, <2>1 DEF restore_active_runtime, Follows
  <2>2. CASE l.active # None
    <3>1. l.active \in Sessions /\ l.session[l.active] \in Session
      BY <1>1, <2>2 DEF Persisted
    <3> DEFINE y == compact_session(l.session[l.active])
               x == [y EXCEPT !.status = "starting"]
    <3>2. restore_active_runtime(l) = [l EXCEPT !.session[l.active] = x]
      BY <2>2 DEF restore_active_runtime
    <3>3. y \in Session /\ y.survey = l.session[l.active].survey
      BY <3>1, Counted
    <3> HIDE DEF y
    <3>4. x \in Session /\ x.survey = l.session[l.active].survey
      BY <3>3 DEF Session, Statuses
    <3> HIDE DEF x
    <3> QED BY <1>4, <3>1, <3>2, <3>4, Rewritten
  <2> QED BY <2>1, <2>2
<1> QED BY <1>1, <1>2, <1>5 DEF Follows, l

-----------------------------------------------------------------------------
(* The terminals.                                                          *)

\* What every step but the passing of the gate and the start of the child
\* leaves of an actor.
Kept(act, next) ==
    /\ Len(next.queue) <= ChannelBound + 1
    /\ next.child => act.child
    /\ \/ next.phase = act.phase
       \/ next.phase \in Lively /\ act.phase \in Lively
       \/ ~next.child /\ next.phase \notin Holding
    /\ next.phase \in Holding => next.session = act.session /\ next.survey = act.survey

\* What it leaves of all of them.
Calm(acts, next, m) ==
    /\ next \in [Actors -> Actor]
    /\ \A b \in Actors : Kept(acts[b], next[b]) /\ next[b].session <= m

\* An actor with a handle keeps it and its session.
OpenStays(acts, next) ==
    \A b \in Actors : acts[b].open => next[b].open /\ next[b].session = acts[b].session

\* The fields of an actor.
LEMMA ActorFields ==
    ASSUME NEW x \in Actor
    PROVE  /\ x.session \in Sessions \cup {None} /\ x.phase \in Phases
           /\ x.queue \in Seq({"input", "shutdown"}) /\ x.survey \in BOOLEAN
           /\ x.open \in BOOLEAN /\ x.child \in BOOLEAN /\ x.out \in Lines \cup {"none"}
  BY DEF Actor

\* A free slot, and the empty channel of a new actor.
LEMMA FreeActorIs ==
    /\ FreeActor \in Actor /\ Len(FreeActor.queue) = 0
    /\ FreeActor.session = None /\ FreeActor.phase = "ended" /\ ~FreeActor.child
    /\ ~FreeActor.open /\ ~FreeActor.survey /\ FreeActor.queue = <<>>
<1>1. <<>> \in Seq({"input", "shutdown"}) /\ Len(<<>>) = 0
  OBVIOUS
<1> QED BY <1>1 DEF FreeActor, Actor, Phases

\* A step that changes actor a alone, and calmly.
LEMMA OneCalm ==
    ASSUME NEW base, NEW acts, NEW m \in Nat, Calm(base, acts, m),
           NEW a \in Actors, NEW x \in Actor, Kept(base[a], x), x.session <= m
    PROVE  Calm(base, [acts EXCEPT ![a] = x], m)
<1> DEFINE next == [acts EXCEPT ![a] = x]
<1>1. next \in [Actors -> Actor]
  BY DEF Calm
<1>2. \A b \in Actors : next[b] = IF b = a THEN x ELSE acts[b]
  BY DEF Calm
<1> HIDE DEF next
<1> QED BY <1>1, <1>2 DEF Calm, next

\* A task that is forgotten.
LEMMA Forgotten ==
    ASSUME NEW act, NEW x \in Actor, NEW m \in Nat, Kept(act, x), x.session <= m
    PROVE  /\ Forget(x) \in Actor /\ Kept(act, Forget(x)) /\ Forget(x).session <= m
           /\ x.open => Forget(x) = x
<1>1. CASE x.phase = "ended" /\ x.out = "none" /\ ~x.open
  <2>1. Forget(x) = FreeActor
    BY <1>1 DEF Forget
  <2>2. Kept(act, FreeActor) /\ FreeActor.session <= m
    BY FreeActorIs, Constants DEF Kept, Holding, None
  <2> QED BY <1>1, <2>1, <2>2, FreeActorIs
<1>2. CASE ~(x.phase = "ended" /\ x.out = "none" /\ ~x.open)
  BY <1>2 DEF Forget
<1> QED BY <1>1, <1>2

\* Letting go of a handle.
LEMMA Released ==
    ASSUME NEW base, NEW acts, NEW m \in Nat, Calm(base, acts, m), NEW a \in Actors \cup {None}
    PROVE  Calm(base, Release(acts, a), m)
<1>1. CASE a = None
  BY <1>1 DEF Release
<1>2. CASE a # None
  <2> DEFINE q == IF CanSend(acts[a]) THEN Append(acts[a].queue, "shutdown") ELSE acts[a].queue
             x == [acts[a] EXCEPT !.open = FALSE, !.queue = q]
  <2>1. acts[a] \in Actor /\ Kept(base[a], acts[a]) /\ acts[a].session <= m /\ a \in Actors
    BY <1>2 DEF Calm
  <2>2. q \in Seq({"input", "shutdown"}) /\ Len(q) <= ChannelBound + 1
    <3>1. acts[a].queue \in Seq({"input", "shutdown"}) /\ Len(acts[a].queue) <= ChannelBound + 1
      BY <2>1, ActorFields DEF Kept
    <3>2. CASE CanSend(acts[a])
      <4>1. /\ Append(acts[a].queue, "shutdown") \in Seq({"input", "shutdown"})
            /\ Len(Append(acts[a].queue, "shutdown")) = Len(acts[a].queue) + 1
            /\ Len(acts[a].queue) \in Nat
        BY <3>1
      <4> QED BY <3>2, <4>1, Constants DEF CanSend
    <3>3. CASE ~CanSend(acts[a])
      BY <3>1, <3>3
    <3> QED BY <3>2, <3>3
  <2>3. Release(acts, a) = [acts EXCEPT ![a] = Forget(x)]
    BY <1>2 DEF Release
  <2> HIDE DEF q
  <2>4. /\ x \in Actor /\ x.queue = q /\ x.session = acts[a].session
        /\ x.phase = acts[a].phase /\ x.child = acts[a].child /\ x.survey = acts[a].survey
    BY <2>1, <2>2 DEF Actor
  <2> HIDE DEF x
  <2>5. Kept(base[a], x) /\ x.session <= m
    BY <2>1, <2>2, <2>4 DEF Kept
  <2>6. Forget(x) \in Actor /\ Kept(base[a], Forget(x)) /\ Forget(x).session <= m
    BY <2>4, <2>5, Forgotten
  <2> DEFINE f == Forget(x)
  <2> HIDE DEF f
  <2>7. Calm(base, [acts EXCEPT ![a] = f], m)
    BY <2>1, <2>6, OneCalm DEF f
  <2> QED BY <2>3, <2>7 DEF f
<1> QED BY <1>1, <1>2

\* The handle's sender is dropped.
LEMMA Disowned ==
    ASSUME NEW base, NEW acts, NEW m \in Nat, Calm(base, acts, m), NEW a \in Actors \cup {None}
    PROVE  Calm(base, Disown(acts, a), m)
<1>1. CASE a = None
  BY <1>1 DEF Disown
<1>2. CASE a # None
  <2> DEFINE x == [acts[a] EXCEPT !.open = FALSE]
  <2>1. acts[a] \in Actor /\ Kept(base[a], acts[a]) /\ acts[a].session <= m /\ a \in Actors
    BY <1>2 DEF Calm
  <2>3. Disown(acts, a) = [acts EXCEPT ![a] = Forget(x)]
    BY <1>2 DEF Disown
  <2>4. /\ x \in Actor /\ x.queue = acts[a].queue /\ x.session = acts[a].session
        /\ x.phase = acts[a].phase /\ x.child = acts[a].child /\ x.survey = acts[a].survey
    BY <2>1 DEF Actor
  <2> HIDE DEF x
  <2>5. Kept(base[a], x) /\ x.session <= m
    BY <2>1, <2>4 DEF Kept
  <2>6. Forget(x) \in Actor /\ Kept(base[a], Forget(x)) /\ Forget(x).session <= m
    BY <2>4, <2>5, Forgotten
  <2> DEFINE f == Forget(x)
  <2> HIDE DEF f
  <2>7. Calm(base, [acts EXCEPT ![a] = f], m)
    BY <2>1, <2>6, OneCalm DEF f
  <2> QED BY <2>3, <2>7 DEF f
<1> QED BY <1>1, <1>2

\* A new actor waits at the gate; its handle is the session's.
LEMMA Spawned ==
    ASSUME NEW base, NEW acts, NEW m \in Nat, Calm(base, acts, m), NEW a \in Actors,
           NEW s \in Sessions, s <= m
    PROVE  /\ Calm(base, spawn_agent_process(acts, a, s), m)
           /\ spawn_agent_process(acts, a, s)[a].open
           /\ spawn_agent_process(acts, a, s)[a].session = s
<1> DEFINE x == [FreeActor EXCEPT !.session = s, !.phase = "gate", !.open = TRUE]
<1>1. spawn_agent_process(acts, a, s) = [acts EXCEPT ![a] = x]
  BY DEF spawn_agent_process
<1>2. /\ x \in Actor /\ x.session = s /\ x.phase = "gate" /\ ~x.child
      /\ Len(x.queue) = 0
  BY FreeActorIs DEF Actor, Phases
<1>6. x.open = TRUE
  BY FreeActorIs DEF Actor
<1> HIDE DEF x
<1>3. Kept(base[a], x) /\ x.session <= m
  BY <1>2, Constants DEF Kept, Holding
<1>4. Calm(base, [acts EXCEPT ![a] = x], m)
  BY <1>2, <1>3, OneCalm
<1>5. [acts EXCEPT ![a] = x][a] = x
  BY DEF Calm
<1> QED BY <1>1, <1>2, <1>4, <1>5, <1>6

\* A slot is one of the tasks.
LEMMA SlotIs ==
    ASSUME NEW acts, Spare(acts) # {}
    PROVE  Slot(acts) \in Actors
<1>1. Slot(acts) \in Spare(acts)
  BY Zenon DEF Slot
<1> QED BY <1>1 DEF Spare

\* The end of a task frees the gate and leaves an open handle.
LEMMA EndedIs ==
    ASSUME NEW base, NEW acts, NEW m \in Nat, Calm(base, acts, m), NEW a \in Actors,
           NEW line \in Lines \cup {"none"}
    PROVE  /\ Calm(base, Ended(acts, a, line), m)
           /\ OpenStays(acts, Ended(acts, a, line))
           /\ Ended(acts, a, line)[a].phase = "ended"
<1> DEFINE x == [FreeActor EXCEPT !.session = acts[a].session, !.open = acts[a].open, !.out = line]
           f == Forget(x)
<1>1. Ended(acts, a, line) = [acts EXCEPT ![a] = f]
  BY DEF Ended
<1>2. acts \in [Actors -> Actor] /\ acts[a] \in Actor /\ acts[a].session <= m
  BY DEF Calm
<1>3. /\ x \in Actor /\ x.session = acts[a].session /\ x.phase = "ended" /\ ~x.child
      /\ Len(x.queue) = 0
  BY <1>2, ActorFields, FreeActorIs DEF Actor, Phases
<1>4. x.open = acts[a].open
  BY FreeActorIs DEF Actor
<1> HIDE DEF x
<1>5. Kept(base[a], x) /\ x.session <= m
  BY <1>2, <1>3, Constants DEF Kept, Holding
<1>6. f \in Actor /\ Kept(base[a], f) /\ f.session <= m /\ (x.open => f = x)
  BY <1>3, <1>5, Forgotten
<1>7. f.phase = "ended"
  BY <1>3, FreeActorIs DEF Forget
<1> HIDE DEF f
<1>8. Calm(base, [acts EXCEPT ![a] = f], m)
  BY <1>6, OneCalm
<1>9. \A b \in Actors : [acts EXCEPT ![a] = f][b] = IF b = a THEN f ELSE acts[b]
  BY <1>2
<1>10. acts[a].open => f.open /\ f.session = acts[a].session
  BY <1>3, <1>4, <1>6
<1>11. OpenStays(acts, [acts EXCEPT ![a] = f])
  BY <1>9, <1>10 DEF OpenStays
<1> QED BY <1>1, <1>7, <1>8, <1>9, <1>11

-----------------------------------------------------------------------------
(* The shared state.                                                       *)

\* The actors as they are.
LEMMA CalmNow ==
    ASSUME IInv
    PROVE  Calm(actor, actor, made) /\ OpenStays(actor, actor) /\ made \in Nat
<1>1. made \in Nat
  BY Constants DEF IInv, Types
<1> QED BY <1>1 DEF IInv, Types, ActorInv, Calm, Kept, OpenStays

\* More conversations may be made.
LEMMA SoundLater ==
    ASSUME NEW store, NEW m \in Nat, NEW n \in Nat, m <= n, Sound(store, m)
    PROVE  Sound(store, n)
<1>1. \A s \in ToSet(store.used) : s \in Nat
  <2>1. store.used \in Seq(Sessions)
    BY DEF Sound, Persisted
  <2>2. \A s \in ToSet(store.used) : s \in Sessions
    BY <2>1 DEF ToSet
  <2> QED BY <2>2, Constants
<1> QED BY <1>1 DEF Sound

\* Likewise for the actors.
LEMMA CalmLater ==
    ASSUME NEW acts, NEW next, NEW m \in Nat, NEW n \in Nat, m <= n, Calm(acts, next, m)
    PROVE  Calm(acts, next, n)
<1>1. \A b \in Actors : next[b].session \in Nat
  <2>1. \A b \in Actors : next[b].session \in Sessions \cup {None}
    BY ActorFields DEF Calm
  <2>2. \A s \in Sessions \cup {None} : s \in Nat
    BY Constants DEF None
  <2> QED BY <2>1, <2>2, Zenon
<1> QED BY <1>1 DEF Calm

\* A calm step keeps what is known of the actors, when the request file is
\* left or no terminal lives.
LEMMA CalmActors ==
    ASSUME IInv, Calm(actor, actor', made'),
           request' = request \/ \A b \in Actors : actor'[b].phase \notin Holding
    PROVE  ActorInv'
<1> USE DEF IInv, ActorInv, Calm, Kept, Lively, Holding
<1>1. \A a \in Actors : actor'[a].child => actor'[a].phase \in Lively
  OBVIOUS
<1>2. \A a \in Actors : actor'[a].phase \in Lively => request' = actor'[a].session
  OBVIOUS
<1>3. \A a, b \in Actors : actor'[a].phase \in Holding /\ actor'[b].phase \in Holding => a = b
  OBVIOUS
<1> QED BY <1>1, <1>2, <1>3

\* A calm step claims nothing.
LEMMA CalmClaims ==
    ASSUME NEW acts, NEW next, NEW m, Calm(acts, next, m), NEW b \in Actors, NEW s,
           Claims(next[b], s)
    PROVE  Claims(acts[b], s)
  BY DEF Calm, Kept, Claims, Holding, Lively

\* A survey is pending only where it was, or in a conversation just made.
Pends(store) ==
    \A s \in Sessions : store.session[s].survey = "pending" =>
        \/ s > made
        \/ mem.session[s].survey = "pending"
        \/ disk.session[s].survey = "pending"

\* A step that claims and starts no survey.
LEMMA QuietSurveys ==
    ASSUME IInv, Calm(actor, actor', made'), surveys' = surveys, made' \in Nat, made <= made',
           Pends(mem'), Pends(disk')
    PROVE  SurveyInv'
<1>1. made \in Nat /\ \A s \in Sessions : s \in Nat
  BY Constants DEF IInv, Types
<1>2. ASSUME NEW s \in Sessions, NEW a \in Actors, Claims(actor'[a], s)
      PROVE  Claims(actor[a], s) /\ surveys[s] = 0 /\ s <= made
  <2>1. Claims(actor[a], s)
    BY <1>2, CalmClaims
  <2> QED BY <2>1 DEF IInv, SurveyInv, ActorInv, Claims
<1>3. ASSUME NEW s \in Sessions, s > made
      PROVE  surveys[s] = 0 /\ \A a \in Actors : ~Claims(actor'[a], s)
  BY <1>1, <1>2, <1>3 DEF IInv, SurveyInv
<1>4. ASSUME NEW s \in Sessions,
             mem'.session[s].survey = "pending" \/ disk'.session[s].survey = "pending"
      PROVE  surveys[s] = 0 /\ \A a \in Actors : ~Claims(actor'[a], s)
  <2>1. CASE s > made
    BY <1>3, <2>1
  <2>2. CASE mem.session[s].survey = "pending" \/ disk.session[s].survey = "pending"
    BY <1>2, <2>2 DEF IInv, SurveyInv
  <2> QED BY <1>4, <2>1, <2>2 DEF Pends
<1>5. \A s \in Sessions : s > made' => s > made
  BY <1>1
<1> QED BY <1>2, <1>3, <1>4, <1>5 DEF SurveyInv

\* What an actor or a reader records, and what a record of it may save.
LEMMA OutputFollows ==
    ASSUME IInv, NEW s, NEW line, record_process_output(s, line)
    PROVE  Follows(mem, mem', made) /\ disk' \in {disk, mem'}
<1>1. RuntimeSession = s /\ s \in Sessions => s = mem.active
  BY Constants DEF RuntimeSession, IInv, HandleInv, None
<1>2. Follows(mem, Recorded(mem, s, line, RuntimeSession = s), made)
  BY <1>1, RecordedFollows DEF IInv, StoreInv
<1> QED BY <1>2 DEF record_process_output, persist_locked

\* A step that follows the stores, and saves memory or does not.
LEMMA FollowedStores ==
    ASSUME IInv, Follows(mem, mem', made), disk' \in {disk, mem'}, made' = made
    PROVE  StoreInv' /\ Pends(mem') /\ Pends(disk')
  BY DEF IInv, StoreInv, Follows, Pends

\* A calm step that follows the stores and leaves the handle.
LEMMA QuietStep ==
    ASSUME IInv, Calm(actor, actor', made), OpenStays(actor, actor'),
           Follows(mem, mem', made), disk' \in {disk, mem'},
           UNCHANGED <<runtime, made, calls, surveys, restarts>>,
           \/ request' = request
           \/ request' = None /\ \A b \in Actors : actor'[b].phase \notin Holding
    PROVE  IInv'
<1>1. StoreInv' /\ Pends(mem') /\ Pends(disk')
  BY FollowedStores
<1>2. made' = made /\ made \in Nat /\ made <= made' /\ made' \in Nat /\ surveys' = surveys
  BY CalmNow
<1>3. SurveyInv'
  BY <1>1, <1>2, QuietSurveys
<1>4. ActorInv'
  BY <1>2, CalmActors
<1>5. HandleInv'
  BY DEF IInv, HandleInv, OpenStays, Follows, Types
<1>6. Types'
  BY DEF IInv, Types, Calm
<1> QED BY <1>1, <1>3, <1>4, <1>5, <1>6 DEF IInv

\* The stores as they are.
LEMMA FollowsNow ==
    ASSUME IInv
    PROVE  Follows(mem, mem, made) /\ Follows(disk, disk, made)
  BY DEF IInv, StoreInv, Follows

-----------------------------------------------------------------------------
(* The steps.                                                              *)

\* A task whose own step changes it calmly.
LEMMA OwnCalm ==
    ASSUME IInv, NEW a \in Actors, NEW x \in Actor, Kept(actor[a], x),
           x.session = actor[a].session, actor[a].open => x.open
    PROVE  LET next == [actor EXCEPT ![a] = x]
           IN  Calm(actor, next, made) /\ OpenStays(actor, next)
<1>1. Calm(actor, actor, made) /\ made \in Nat /\ x.session <= made
  BY CalmNow DEF Calm
<1>2. Calm(actor, [actor EXCEPT ![a] = x], made)
  BY <1>1, OneCalm
<1>3. \A b \in Actors : [actor EXCEPT ![a] = x][b] = IF b = a THEN x ELSE actor[b]
  BY DEF IInv, Types
<1> QED BY <1>2, <1>3 DEF OpenStays

\* The planner socket does not appear, or the program cannot be started.
LEMMA StepStartFails ==
    ASSUME IInv, NEW a \in Actors, StartFails(a)
    PROVE  IInv'
<1>1. Calm(actor, actor', made) /\ OpenStays(actor, actor')
  BY CalmNow, EndedIs DEF StartFails
<1>2. Follows(mem, mem', made) /\ disk' \in {disk, mem'}
  BY OutputFollows DEF StartFails
<1> QED BY <1>1, <1>2, QuietStep DEF StartFails

\* The start is announced.
LEMMA StepAnnounce ==
    ASSUME IInv, NEW a \in Actors, Announce(a)
    PROVE  IInv'
<1> DEFINE x == [actor[a] EXCEPT !.phase = "run"]
<1>1. actor[a] \in Actor /\ Kept(actor[a], actor[a]) /\ actor[a].phase = "started"
  BY CalmNow DEF Calm, Announce
<1>2. actor' = [actor EXCEPT ![a] = x]
  BY DEF Announce
<1>3. /\ x \in Actor /\ x.session = actor[a].session /\ x.child = actor[a].child
      /\ x.survey = actor[a].survey /\ x.queue = actor[a].queue /\ x.phase = "run"
  BY <1>1 DEF Actor, Phases
<1>4. x.open = actor[a].open
  BY <1>1 DEF Actor
<1> HIDE DEF x
<1>5. Kept(actor[a], x)
  BY <1>1, <1>3 DEF Kept, Lively
<1>6. Calm(actor, actor', made) /\ OpenStays(actor, actor')
  BY <1>2, <1>3, <1>4, <1>5, OwnCalm
<1>7. Follows(mem, mem', made) /\ disk' \in {disk, mem'}
  BY OutputFollows DEF Announce
<1> QED BY <1>6, <1>7, QuietStep DEF Announce

\* An input line is taken from the queue.
LEMMA StepDeliver ==
    ASSUME IInv, NEW a \in Actors, Deliver(a)
    PROVE  IInv'
<1> DEFINE q == Tail(actor[a].queue)
           x == [actor[a] EXCEPT !.queue = q]
<1>1. actor[a] \in Actor /\ Kept(actor[a], actor[a])
  BY CalmNow DEF Calm
<1>2. actor' = [actor EXCEPT ![a] = x]
  BY DEF Deliver
<1>3. actor[a].queue \in Seq({"input", "shutdown"}) /\ actor[a].queue # <<>>
  BY <1>1, ActorFields DEF Deliver
<1>4. q \in Seq({"input", "shutdown"}) /\ Len(q) = Len(actor[a].queue) - 1
  BY <1>3
<1>5. Len(q) <= ChannelBound + 1
  BY <1>1, <1>3, <1>4, Constants DEF Kept
<1> HIDE DEF q
<1>6. /\ x \in Actor /\ x.session = actor[a].session /\ x.child = actor[a].child
      /\ x.survey = actor[a].survey /\ x.queue = q /\ x.phase = actor[a].phase
  BY <1>1, <1>4 DEF Actor
<1>7. x.open = actor[a].open
  BY <1>1 DEF Actor
<1> HIDE DEF x
<1>8. Kept(actor[a], x)
  BY <1>1, <1>5, <1>6 DEF Kept
<1>9. Calm(actor, actor', made) /\ OpenStays(actor, actor')
  BY <1>2, <1>6, <1>7, <1>8, OwnCalm
<1>10. Follows(mem, mem', made) /\ disk' \in {disk, mem'}
  BY OutputFollows, FollowsNow DEF Deliver
<1> QED BY <1>9, <1>10, QuietStep DEF Deliver

\* The shutdown begins.
LEMMA StepClose ==
    ASSUME IInv, NEW a \in Actors, Close(a)
    PROVE  IInv'
<1> DEFINE x == [actor[a] EXCEPT !.phase = "closing"]
<1>1. actor[a] \in Actor /\ Kept(actor[a], actor[a]) /\ actor[a].phase = "run"
  BY CalmNow DEF Calm, Close
<1>2. actor' = [actor EXCEPT ![a] = x]
  BY DEF Close
<1>3. /\ x \in Actor /\ x.session = actor[a].session /\ x.child = actor[a].child
      /\ x.survey = actor[a].survey /\ x.queue = actor[a].queue /\ x.phase = "closing"
  BY <1>1 DEF Actor, Phases
<1>4. x.open = actor[a].open
  BY <1>1 DEF Actor
<1> HIDE DEF x
<1>5. Kept(actor[a], x)
  BY <1>1, <1>3 DEF Kept, Lively
<1>6. Calm(actor, actor', made) /\ OpenStays(actor, actor')
  BY <1>2, <1>3, <1>4, <1>5, OwnCalm
<1> QED BY <1>6, FollowsNow, QuietStep DEF Close

\* The child dies.
LEMMA StepChildExits ==
    ASSUME IInv, NEW a \in Actors, ChildExits(a)
    PROVE  IInv'
<1> DEFINE x == [actor[a] EXCEPT !.child = FALSE]
<1>1. actor[a] \in Actor /\ Kept(actor[a], actor[a])
  BY CalmNow DEF Calm
<1>2. actor' = [actor EXCEPT ![a] = x]
  BY DEF ChildExits
<1>3. /\ x \in Actor /\ x.session = actor[a].session /\ ~x.child
      /\ x.survey = actor[a].survey /\ x.queue = actor[a].queue /\ x.phase = actor[a].phase
  BY <1>1 DEF Actor
<1>4. x.open = actor[a].open
  BY <1>1 DEF Actor
<1> HIDE DEF x
<1>5. Kept(actor[a], x)
  BY <1>1, <1>3 DEF Kept
<1>6. Calm(actor, actor', made) /\ OpenStays(actor, actor')
  BY <1>2, <1>3, <1>4, <1>5, OwnCalm
<1> QED BY <1>6, FollowsNow, QuietStep DEF ChildExits

\* When the holder of the gate ends, nobody holds it.
LEMMA GateIsFreed ==
    ASSUME IInv, NEW a \in Actors, actor[a].phase \in Holding,
           Calm(actor, actor', made), actor'[a].phase = "ended"
    PROVE  \A b \in Actors : actor'[b].phase \notin Holding
<1>1. \A b \in Actors : actor'[b].phase \in Holding => actor[b].phase \in Holding
  BY DEF Calm, Kept, Lively, Holding
<1> QED BY <1>1 DEF IInv, ActorInv, Holding

\* What is left in the pipe.
LEMMA LeftoverIs ==
    ASSUME NEW act, NEW line \in Leftovers(act)
    PROVE  line \in Lines \cup {"none"}
  BY DEF Leftovers, CanPrint

\* The child has quit or is killed.
LEMMA StepClosed ==
    ASSUME IInv, NEW a \in Actors, Closed(a)
    PROVE  IInv'
<1>1. PICK line \in Leftovers(actor[a]) : actor' = Ended(actor, a, line)
  BY DEF Closed
<1>2. /\ Calm(actor, actor', made) /\ OpenStays(actor, actor')
      /\ actor'[a].phase = "ended"
  BY <1>1, LeftoverIs, CalmNow, EndedIs
<1>3. \A b \in Actors : actor'[b].phase \notin Holding
  BY <1>2, GateIsFreed DEF Closed, Holding
<1> QED BY <1>2, <1>3, FollowsNow, QuietStep DEF Closed, cleanup_runtime_request

\* A line of the child is recorded.
LEMMA StepReadStream ==
    ASSUME IInv, NEW a \in Actors, NEW line \in Lines, read_process_stream(a, line)
    PROVE  IInv'
<1>1. Calm(actor, actor', made) /\ OpenStays(actor, actor')
  BY CalmNow DEF read_process_stream
<1>2. Follows(mem, mem', made) /\ disk' \in {disk, mem'}
  BY OutputFollows DEF read_process_stream
<1> QED BY <1>1, <1>2, QuietStep DEF read_process_stream

\* The last line is recorded, and the task is forgotten unless it has a handle.
LEMMA StepReadLeftover ==
    ASSUME IInv, NEW a \in Actors, ReadLeftover(a)
    PROVE  IInv'
<1> DEFINE x == [actor[a] EXCEPT !.out = "none"]
           f == Forget(x)
<1>1. /\ actor[a] \in Actor /\ Kept(actor[a], actor[a]) /\ made \in Nat
      /\ actor[a].session <= made /\ Calm(actor, actor, made)
  BY CalmNow DEF Calm
<1>2. actor' = [actor EXCEPT ![a] = f]
  BY DEF ReadLeftover
<1>3. /\ x \in Actor /\ x.session = actor[a].session /\ x.child = actor[a].child
      /\ x.survey = actor[a].survey /\ x.queue = actor[a].queue /\ x.phase = actor[a].phase
  BY <1>1 DEF Actor
<1>4. x.open = actor[a].open
  BY <1>1 DEF Actor
<1> HIDE DEF x
<1>5. Kept(actor[a], x)
  BY <1>1, <1>3 DEF Kept
<1>6. f \in Actor /\ Kept(actor[a], f) /\ f.session <= made /\ (x.open => f = x)
  BY <1>1, <1>3, <1>5, Forgotten
<1> HIDE DEF f
<1>7. Calm(actor, actor', made)
  BY <1>1, <1>2, <1>6, OneCalm
<1>8. \A b \in Actors : actor'[b] = IF b = a THEN f ELSE actor[b]
  BY <1>2 DEF IInv, Types
<1>9. OpenStays(actor, actor')
  BY <1>3, <1>4, <1>6, <1>8 DEF OpenStays
<1>10. Follows(mem, mem', made) /\ disk' \in {disk, mem'}
  BY OutputFollows DEF ReadLeftover
<1> QED BY <1>7, <1>9, <1>10, QuietStep DEF ReadLeftover

\* The actor notices that its child is dead.
LEMMA StepReap ==
    ASSUME IInv, NEW a \in Actors, Reap(a)
    PROVE  IInv'
<1> DEFINE s == actor[a].session
           acts == IF runtime' = runtime THEN actor ELSE Disown(actor, runtime)
<1>1. PICK line \in Leftovers(actor[a]) : actor' = Ended(acts, a, line)
  BY DEF Reap
<1>2. /\ runtime \in Actors \cup {None} /\ Calm(actor, actor, made) /\ made \in Nat
      /\ OpenStays(actor, actor)
  BY CalmNow DEF IInv, Types
<1>3. Calm(actor, acts, made)
  BY <1>2, Disowned
<1>4. runtime' = runtime => acts = actor
  OBVIOUS
<1> HIDE DEF acts
<1>5. /\ Calm(actor, actor', made) /\ OpenStays(acts, actor')
      /\ actor'[a].phase = "ended"
  BY <1>1, <1>2, <1>3, LeftoverIs, EndedIs
<1>6. \A b \in Actors : actor'[b].phase \notin Holding
  BY <1>5, GateIsFreed DEF Reap, Holding
<1>7. RuntimeSession = s /\ s \in Sessions => s = mem.active
  BY Constants DEF RuntimeSession, IInv, HandleInv, None
<1>8. Follows(mem, ExitRecorded(mem, s, RuntimeSession = s), made)
  BY <1>7, ExitFollows DEF IInv, StoreInv
<1>9. /\ Follows(mem, mem', made) /\ disk' = mem' /\ runtime' \in {runtime, None}
      /\ UNCHANGED <<calls, made, surveys, restarts>> /\ request' = None
  BY <1>8 DEF Reap, record_runtime_exit, persist_locked, cleanup_runtime_request
<1>10. StoreInv' /\ Pends(mem') /\ Pends(disk')
  BY <1>9, FollowedStores
<1>11. SurveyInv'
  BY <1>2, <1>5, <1>9, <1>10, QuietSurveys
<1>12. ActorInv'
  BY <1>5, <1>6, <1>9, CalmActors
<1>13. HandleInv'
  <2>1. CASE runtime' = runtime
    BY <1>2, <1>4, <1>5, <1>9, <2>1 DEF IInv, HandleInv, OpenStays, Follows
  <2>2. CASE runtime' = None
    BY <2>2 DEF HandleInv
  <2> QED BY <1>9, <2>1, <2>2
<1>14. Types'
  BY <1>2, <1>5, <1>9 DEF IInv, Types, Calm
<1> QED BY <1>10, <1>11, <1>12, <1>13, <1>14 DEF IInv

\* SIGTERM.
LEMMA StepShutdown ==
    ASSUME IInv, begin_runtime_shutdown
    PROVE  IInv'
<1>1. runtime \in Actors \cup {None} /\ Calm(actor, actor, made) /\ made \in Nat
  BY CalmNow DEF IInv, Types
<1>2. /\ actor' = Release(actor, runtime) /\ runtime' = None
      /\ UNCHANGED <<mem, disk, request, calls, made, surveys, restarts>>
  BY DEF begin_runtime_shutdown
<1>3. Calm(actor, actor', made)
  BY <1>1, <1>2, Released
<1>4. StoreInv' /\ Pends(mem') /\ Pends(disk')
  BY <1>2, FollowsNow, FollowedStores
<1>5. SurveyInv'
  BY <1>1, <1>2, <1>3, <1>4, QuietSurveys
<1>6. ActorInv'
  BY <1>2, <1>3, CalmActors
<1>7. HandleInv'
  BY <1>2 DEF HandleInv
<1>8. Types'
  BY <1>2, <1>3 DEF IInv, Types, Calm
<1> QED BY <1>4, <1>5, <1>6, <1>7, <1>8 DEF IInv

\* A request that leaves a handle of the active conversation.
LEMMA HandlerStep ==
    ASSUME IInv, made' \in 0..Created, made <= made', Calm(actor, actor', made'),
           Sound(mem', made'), Pends(mem'), disk' \in {disk, mem'}, Call,
           UNCHANGED <<request, surveys, restarts>>,
           runtime' \in Actors, actor'[runtime'].open, actor'[runtime'].session = mem'.active
    PROVE  IInv'
<1>1. made \in Nat /\ made' \in Nat /\ request' = request /\ surveys' = surveys
  BY Constants, CalmNow
<1>2. Sound(disk, made')
  BY <1>1, SoundLater DEF IInv, StoreInv
<1>3. StoreInv' /\ Pends(disk')
  BY <1>2 DEF StoreInv, Pends
<1>4. SurveyInv'
  BY <1>1, <1>3, QuietSurveys
<1>5. ActorInv'
  BY <1>1, CalmActors
<1>6. HandleInv'
  BY DEF HandleInv
<1>7. calls' \in 0..MaxCalls
  BY Constants DEF Call, IInv, Types
<1>8. Types'
  BY <1>7 DEF IInv, Types, Calm
<1> QED BY <1>3, <1>4, <1>5, <1>6, <1>8 DEF IInv

\* A conversation is created.
LEMMA StepCreate ==
    ASSUME IInv, NEW survey \in Asked, create_session(survey)
    PROVE  IInv'
<1> DEFINE s == made + 1
           room == Evict(mem)
           kept == Deactivate(room)
           new == NewSession(survey)
<1>1. /\ made \in Nat /\ s \in Sessions /\ made' = s /\ made' \in Nat /\ made <= made'
      /\ made' \in 0..Created
  BY CalmNow, Constants DEF create_session, Sessions
<1>2. Calm(actor, actor, made) /\ runtime \in Actors \cup {None}
  BY CalmNow DEF IInv, Types
<1>3. Calm(actor, Release(actor, runtime), made)
  BY <1>1, <1>2, Released
<1>4. Calm(actor, Release(actor, runtime), made')
  BY <1>1, <1>3, CalmLater
<1>5. runtime' \in Actors
  BY SlotIs DEF create_session
<1>6. actor' = spawn_agent_process(Release(actor, runtime), runtime', s)
  BY DEF create_session
<1>7. /\ Calm(actor, actor', made') /\ actor'[runtime'].open
      /\ actor'[runtime'].session = s
  BY <1>1, <1>4, <1>5, <1>6, Spawned
<1>8. Follows(mem, room, made) /\ Len(room.used) < MAX_SESSIONS
  BY Evicted DEF IInv, StoreInv
<1>9. /\ Follows(room, kept, made) /\ kept.used = room.used
      /\ \A x \in ToSet(room.used) : kept.session[x].status = "stored"
  BY <1>8, Deactivated DEF Follows
<1>10. /\ mem' = [active |-> s, used |-> Append(kept.used, s),
                  session |-> [kept.session EXCEPT ![s] = new]]
  BY DEF create_session
<1>11. new \in Session
  BY Constants, WebConsoleAssumption
  DEF NewSession, Session, Statuses, SurveyStatuses
<1> HIDE DEF room, kept, new
<1>12. /\ kept \in Persisted /\ kept.used \in Seq(Sessions) /\ IsInjective(kept.used)
       /\ kept.session \in [Sessions -> Session] /\ \A x \in ToSet(kept.used) : x <= made
  BY <1>9 DEF Follows, Sound, Persisted
<1>13. s \notin ToSet(kept.used)
  BY <1>1, <1>12
<1> DEFINE u == Append(kept.used, s)
           c == [kept.session EXCEPT ![s] = new]
<1>14. /\ u \in Seq(Sessions) /\ u # <<>> /\ Len(u) = Len(kept.used) + 1
       /\ IsInjective(u) /\ ToSet(u) = ToSet(kept.used) \cup {s}
  BY <1>1, <1>12, <1>13, Added
<1>15. c \in [Sessions -> Session] /\ \A x \in Sessions : c[x] = IF x = s THEN new ELSE kept.session[x]
  BY <1>1, <1>11, <1>12
<1>16. mem'.active = s /\ mem'.used = u /\ mem'.session = c
  BY <1>10
<1> HIDE DEF u, c
<1>17. mem' \in Persisted
  BY <1>1, <1>10, <1>14, <1>15 DEF Persisted, u, c
<1>18. Len(u) <= MAX_SESSIONS
  BY <1>8, <1>9, <1>12, <1>14, Constants
<1>19. \A x \in ToSet(u) : x <= made' /\ (x # s => c[x].status = "stored")
  <2> TAKE x \in ToSet(u)
  <2>1. CASE x = s
    BY <1>1, <2>1
  <2>2. CASE x # s
    <3>1. x \in ToSet(kept.used)
      BY <1>14, <2>2
    <3>2. x \in Sessions /\ x <= made
      BY <1>12, <3>1 DEF ToSet
    <3>3. x <= made'
      BY <1>1, <3>2, Constants
    <3>4. kept.session[x].status = "stored"
      BY <1>9, <3>1
    <3> QED BY <1>15, <2>2, <3>2, <3>3, <3>4
  <2> QED BY <2>1, <2>2
<1>20. s # None /\ s \in ToSet(u)
  BY <1>1, <1>14, Constants DEF None
<1>21. Sound(mem', made')
  BY <1>14, <1>16, <1>17, <1>18, <1>19, <1>20 DEF Sound
<1>22. Pends(mem')
  <2> SUFFICES ASSUME NEW x \in Sessions, c[x].survey = "pending"
               PROVE  x > made \/ mem.session[x].survey = "pending"
    BY <1>16 DEF Pends
  <2>1. CASE x = s
    BY <1>1, <2>1
  <2>2. CASE x # s
    BY <1>8, <1>9, <1>15, <2>2 DEF Follows
  <2> QED BY <2>1, <2>2
<1> QED BY <1>1, <1>5, <1>7, <1>16, <1>21, <1>22, HandlerStep DEF create_session, persist_locked

\* A stored conversation is opened.
LEMMA StepActivate ==
    ASSUME IInv, NEW s \in Sessions, activate_session(s)
    PROVE  IInv'
<1> DEFINE kept == Deactivate(mem)
<1>1. made \in Nat /\ made' = made /\ s \in ToSet(mem.used) /\ made \in 0..Created
  BY CalmNow DEF activate_session, Exists, IInv, Types
<1>2. Calm(actor, actor, made) /\ runtime \in Actors \cup {None} /\ Sound(mem, made)
  BY CalmNow DEF IInv, Types, StoreInv
<1>3. Calm(actor, Release(actor, runtime), made)
  BY <1>1, <1>2, Released
<1>4. s <= made
  BY <1>1, <1>2 DEF Sound
<1>5. runtime' \in Actors
  BY SlotIs DEF activate_session
<1>6. actor' = spawn_agent_process(Release(actor, runtime), runtime', s)
  BY DEF activate_session
<1>7. /\ Calm(actor, actor', made) /\ actor'[runtime'].open
      /\ actor'[runtime'].session = s
  BY <1>1, <1>3, <1>4, <1>5, <1>6, Spawned
<1>8. /\ Follows(mem, kept, made) /\ kept.used = mem.used
      /\ \A x \in ToSet(mem.used) : kept.session[x].status = "stored"
  BY <1>2, Deactivated
<1> DEFINE u == Touch(kept.used, s)
           c == [kept.session EXCEPT ![s].status = "starting"]
<1>9. mem' = [kept EXCEPT !.active = s, !.used = Touch(@, s), !.session[s].status = "starting"]
  BY DEF activate_session
<1> HIDE DEF kept
<1>10. /\ kept \in Persisted /\ kept.used \in Seq(Sessions) /\ IsInjective(kept.used)
       /\ kept.session \in [Sessions -> Session] /\ \A x \in ToSet(kept.used) : x <= made
       /\ Len(kept.used) <= MAX_SESSIONS
  BY <1>8 DEF Follows, Sound, Persisted
<1>11. /\ u \in Seq(Sessions) /\ u # <<>> /\ Len(u) = Len(kept.used)
       /\ IsInjective(u) /\ ToSet(u) = ToSet(kept.used)
  BY <1>1, <1>8, <1>10, Touched
<1>12. /\ c \in [Sessions -> Session]
       /\ \A x \in Sessions : x # s => c[x] = kept.session[x]
       /\ \A x \in Sessions : c[x].survey = kept.session[x].survey
  BY <1>10 DEF Session, Statuses
<1>13. mem' = [kept EXCEPT !.active = s, !.used = u, !.session = c]
  BY <1>9
<1> HIDE DEF u, c
<1>14. mem'.active = s /\ mem'.used = u /\ mem'.session = c /\ mem' \in Persisted
  BY <1>10, <1>11, <1>12, <1>13 DEF Persisted
<1>15. \A x \in ToSet(u) : x \in Sessions
  BY <1>11 DEF ToSet
<1>16. s # None /\ s \in ToSet(u)
  BY <1>1, <1>8, <1>11, Constants DEF None
<1>17. Sound(mem', made)
  BY <1>8, <1>10, <1>11, <1>12, <1>14, <1>15, <1>16 DEF Sound
<1>18. Pends(mem')
  BY <1>8, <1>12, <1>14 DEF Pends, Follows
<1> QED BY <1>1, <1>5, <1>7, <1>14, <1>17, <1>18, HandlerStep DEF activate_session, persist_locked

\* A command for the active conversation.
LEMMA StepSend ==
    ASSUME IInv, NEW s \in Sessions, send_command(s)
    PROVE  IInv'
<1> DEFINE spawns   == RuntimeSession # s
           acts1    == IF spawns THEN spawn_agent_process(actor, Slot(actor), s) ELSE actor
           run1     == IF spawns THEN Slot(actor) ELSE runtime
           compacts == mem.session[s].since >= COMPACT_AT_EVENTS
           run2     == IF compacts THEN Slot(acts1) ELSE run1
           acts2    == IF compacts THEN spawn_agent_process(Release(acts1, run1), run2, s)
                       ELSE acts1
           sent     == CanSend(acts2[run2])
<1>1. /\ mem.active = s
      /\ spawns => Spare(actor) # {}
      /\ compacts => Spare(acts1) # {}
      /\ mem' = [mem EXCEPT
           !.used = Touch(@, s),
           !.session[s] = push_event(IF compacts THEN compact_session(@) ELSE @)]
      /\ runtime' = run2
      /\ actor' = IF sent THEN [acts2 EXCEPT ![run2].queue = Append(@, "input")] ELSE acts2
      /\ IF sent THEN persist_locked ELSE UNCHANGED disk
      /\ Call
      /\ UNCHANGED <<request, made, surveys, restarts>>
  BY DEF send_command, IsActive
<1>2. /\ made \in Nat /\ made' = made /\ made \in 0..Created /\ Calm(actor, actor, made)
      /\ runtime \in Actors \cup {None} /\ Sound(mem, made) /\ s # None
  BY <1>1, CalmNow, Constants DEF IInv, Types, StoreInv, None
<1>3. s \in ToSet(mem.used) /\ s <= made
  BY <1>1, <1>2 DEF Sound
<1>4. run1 \in Actors /\ Calm(actor, acts1, made) /\ acts1[run1].open /\ acts1[run1].session = s
  <2>1. CASE spawns
    <3>1. Slot(actor) \in Actors
      BY <1>1, <2>1, SlotIs
    <3> QED BY <1>2, <1>3, <2>1, <3>1, Spawned
  <2>2. CASE ~spawns
    BY <1>2, <2>2 DEF RuntimeSession, IInv, HandleInv
  <2> QED BY <2>1, <2>2
<1> HIDE DEF acts1, run1
<1>5. run2 \in Actors /\ Calm(actor, acts2, made) /\ acts2[run2].open /\ acts2[run2].session = s
  <2>1. CASE compacts
    <3>1. Slot(acts1) \in Actors
      BY <1>1, <2>1, SlotIs
    <3>2. Calm(actor, Release(acts1, run1), made)
      BY <1>2, <1>4, Released
    <3> QED BY <1>2, <1>3, <2>1, <3>1, <3>2, Spawned
  <2>2. CASE ~compacts
    BY <1>4, <2>2
  <2> QED BY <2>1, <2>2
<1> HIDE DEF acts2, run2
<1>6. /\ Calm(actor, actor', made) /\ actor'[run2].open /\ actor'[run2].session = s
  <2>1. CASE sent
    <3> DEFINE q == Append(acts2[run2].queue, "input")
               x == [acts2[run2] EXCEPT !.queue = q]
    <3>1. /\ acts2 \in [Actors -> Actor] /\ acts2[run2] \in Actor /\ acts2[run2].session <= made
          /\ Kept(actor[run2], acts2[run2])
      BY <1>5 DEF Calm
    <3>2. acts2[run2].queue \in Seq({"input", "shutdown"}) /\ Len(acts2[run2].queue) < ChannelBound
      BY <2>1, <3>1, ActorFields DEF CanSend
    <3>3. /\ q \in Seq({"input", "shutdown"}) /\ Len(q) = Len(acts2[run2].queue) + 1
          /\ Len(acts2[run2].queue) \in Nat
      BY <3>2
    <3>4. Len(q) <= ChannelBound + 1
      BY <3>2, <3>3, Constants
    <3> HIDE DEF q
    <3>5. /\ x \in Actor /\ x.queue = q /\ x.session = acts2[run2].session
          /\ x.phase = acts2[run2].phase /\ x.child = acts2[run2].child
          /\ x.survey = acts2[run2].survey
      BY <3>1, <3>3 DEF Actor
    <3>6. x.open = acts2[run2].open
      BY <3>1 DEF Actor
    <3>7. actor' = [acts2 EXCEPT ![run2] = x]
      BY <1>1, <2>1 DEF q
    <3> HIDE DEF x
    <3>8. Kept(actor[run2], x) /\ x.session <= made
      BY <3>1, <3>4, <3>5 DEF Kept
    <3>9. Calm(actor, actor', made)
      BY <1>2, <1>5, <3>5, <3>7, <3>8, OneCalm
    <3>10. actor'[run2] = x
      BY <1>5, <3>1, <3>7
    <3> QED BY <1>5, <3>5, <3>6, <3>9, <3>10
  <2>2. CASE ~sent
    BY <1>1, <1>5, <2>2
  <2> QED BY <2>1, <2>2
<1> DEFINE st == [mem EXCEPT !.used = Touch(@, s)]
           y == IF compacts THEN compact_session(mem.session[s]) ELSE mem.session[s]
           x == push_event(y)
<1>7. Follows(mem, st, made)
  BY <1>2, <1>3, Reused
<1>8. st.session = mem.session /\ mem.session[s] \in Session
  BY <1>2 DEF Sound, Persisted
<1>9. y \in Session /\ y.status = mem.session[s].status /\ y.survey = mem.session[s].survey
  BY <1>8, Counted
<1>10. mem' = [st EXCEPT !.session[s] = x]
  BY <1>1, <1>2 DEF Sound, Persisted
<1> HIDE DEF y
<1>11. x \in Session /\ x.status = mem.session[s].status /\ x.survey = mem.session[s].survey
  BY <1>9, Counted
<1> HIDE DEF x, st
<1>12. Follows(st, mem', made)
  BY <1>7, <1>8, <1>10, <1>11, Rewritten DEF Follows
<1>13. Sound(mem', made) /\ Pends(mem') /\ mem'.active = s
  BY <1>1, <1>7, <1>12 DEF Follows, Pends
<1> QED BY <1>1, <1>2, <1>5, <1>6, <1>13, HandlerStep DEF persist_locked

\* The service starts again.
LEMMA StepRestart ==
    ASSUME IInv, Restart
    PROVE  IInv'
<1> DEFINE acts == [a \in Actors |-> FreeActor]
<1>1. /\ restarts' \in 0..MaxRestarts /\ mem' = restore_active_runtime(load_state(disk))
      /\ runtime' = IF disk.active = None THEN None ELSE Slot(acts)
      /\ actor' = IF disk.active = None THEN acts
                  ELSE spawn_agent_process(acts, Slot(acts), disk.active)
      /\ UNCHANGED <<disk, request, calls, made, surveys>>
  BY Constants DEF Restart, IInv, Types
<1>2. Follows(disk, mem', made) /\ Sound(disk, made) /\ made \in Nat
  BY <1>1, Loaded, CalmNow DEF IInv, StoreInv
<1>3. /\ acts \in [Actors -> Actor] /\ \A b \in Actors : Kept(actor[b], FreeActor)
      /\ FreeActor.session <= made
  BY <1>2, FreeActorIs, Constants DEF Kept, Holding, None
<1>4. Calm(actor, acts, made)
  BY <1>3 DEF Calm
<1>5. Slot(acts) \in Actors
  <2>1. 1 \in Spare(acts)
    BY WebConsoleAssumption DEF Spare, Actors
  <2> QED BY <2>1, SlotIs
<1> HIDE DEF acts
<1>6. /\ Calm(actor, actor', made) /\ HandleInv' /\ runtime' \in Actors \cup {None}
  <2>1. CASE disk.active = None
    BY <1>1, <1>4, <2>1 DEF HandleInv
  <2>2. CASE disk.active # None
    <3>1. disk.active \in Sessions /\ disk.active <= made
      BY <1>2, <2>2 DEF Sound, Persisted
    <3>2. /\ Calm(actor, actor', made) /\ actor'[runtime'].open
          /\ actor'[runtime'].session = disk.active
      BY <1>1, <1>2, <1>4, <1>5, <2>2, <3>1, Spawned
    <3> QED BY <1>1, <1>2, <1>5, <2>2, <3>2 DEF HandleInv, Follows
  <2> QED BY <2>1, <2>2
<1>7. StoreInv' /\ Pends(mem') /\ Pends(disk')
  BY <1>1, <1>2 DEF StoreInv, Follows, Pends
<1>8. SurveyInv'
  BY <1>1, <1>2, <1>6, <1>7, QuietSurveys
<1>9. ActorInv'
  BY <1>1, <1>6, CalmActors
<1>10. Types'
  BY <1>1, <1>6 DEF IInv, Types, Calm
<1> QED BY <1>6, <1>7, <1>8, <1>9, <1>10 DEF IInv

\* The gate is passed and the initial survey claimed, under one lock: the
\* pending survey that the claim consumes has never been started.
LEMMA StepClaim ==
    ASSUME IInv, NEW a \in Actors, claim_initial_survey(a)
    PROVE  IInv'
<1> DEFINE s == actor[a].session
           claimed == Exists(mem, s) /\ mem.session[s].survey = "pending"
           x == [actor[a] EXCEPT !.phase = "socket", !.survey = claimed]
<1>1. /\ actor[a].phase = "gate" /\ GateFree
      /\ mem' = IF claimed THEN [mem EXCEPT !.session[s].survey = "running"] ELSE mem
      /\ IF claimed THEN disk' = mem' ELSE disk' = disk
      /\ actor' = [actor EXCEPT ![a].phase = "socket", ![a].survey = claimed]
      /\ UNCHANGED <<runtime, request, calls, made, surveys, restarts>>
  BY DEF claim_initial_survey, persist_locked
<1>2. actor \in [Actors -> Actor] /\ actor[a] \in Actor /\ Sound(mem, made)
  BY DEF IInv, Types, StoreInv
<1>3. actor' = [actor EXCEPT ![a] = x]
  BY <1>1, <1>2
<1>4. /\ x \in Actor /\ x.session = s /\ x.phase = "socket" /\ x.queue = actor[a].queue
      /\ x.child = actor[a].child
  BY <1>2 DEF Actor, Phases
<1>5. x.open = actor[a].open /\ (x.survey <=> claimed)
  BY <1>2 DEF Actor
<1> HIDE DEF x
<1>6. actor' \in [Actors -> Actor] /\ \A b \in Actors : actor'[b] = IF b = a THEN x ELSE actor[b]
  BY <1>2, <1>3, <1>4
<1>7. /\ Follows(mem, mem', made)
      /\ claimed => s \in Sessions /\ mem'.session[s].survey # "pending"
  <2>1. CASE claimed
    <3>1. s \in Sessions /\ mem.session[s] \in Session /\ mem \in Persisted
      BY <1>2, <2>1 DEF Exists, Sound, Persisted, ToSet
    <3> DEFINE y == [mem.session[s] EXCEPT !.survey = "running"]
    <3>2. mem' = [mem EXCEPT !.session[s] = y]
      BY <1>1, <2>1, <3>1 DEF Persisted
    <3>3. y \in Session /\ y.status = mem.session[s].status /\ y.survey = "running"
      BY <3>1 DEF Session, SurveyStatuses
    <3> HIDE DEF y
    <3>4. Follows(mem, mem', made) /\ mem'.session = [mem.session EXCEPT ![s] = y]
      BY <1>2, <3>1, <3>2, <3>3, Rewritten
    <3>5. mem.session \in [Sessions -> Session]
      BY <3>1 DEF Persisted
    <3>6. mem'.session[s] = y
      BY <3>1, <3>4, <3>5
    <3> QED BY <3>1, <3>3, <3>4, <3>6
  <2>2. CASE ~claimed
    BY <1>1, <2>2, FollowsNow
  <2> QED BY <2>1, <2>2
<1>8. StoreInv'
  BY <1>1, <1>7, FollowedStores
<1>9. ActorInv'
  <2>1. \A b \in Actors : actor[b].phase \notin Holding
    BY <1>1 DEF GateFree
  <2>2. ~actor[a].child
    BY <1>1 DEF IInv, ActorInv, Lively
  <2>3. \A b \in Actors : actor'[b].phase \in Holding => b = a
    BY <1>6, <2>1
  <2>4. x.phase \notin Lively
    BY <1>4 DEF Lively
  <2> QED BY <1>1, <1>4, <1>6, <2>2, <2>3, <2>4 DEF IInv, ActorInv
<1>10. \A b \in Actors, t \in Sessions :
         Claims(actor'[b], t) => b = a /\ t = s /\ claimed /\ surveys[t] = 0
  <2> SUFFICES ASSUME NEW b \in Actors, NEW t \in Sessions, Claims(actor'[b], t)
               PROVE  b = a /\ t = s /\ claimed /\ surveys[t] = 0
    OBVIOUS
  <2>1. b = a
    BY <1>1, <1>6 DEF Claims, GateFree, Holding
  <2>2. t = s /\ claimed
    BY <1>4, <1>5, <1>6, <2>1 DEF Claims
  <2> QED BY <2>1, <2>2 DEF IInv, SurveyInv
<1>11. \A t \in Sessions :
         mem'.session[t].survey = "pending" \/ disk'.session[t].survey = "pending" =>
             /\ ~(claimed /\ t = s)
             /\ mem.session[t].survey = "pending" \/ disk.session[t].survey = "pending"
  BY <1>1, <1>7 DEF Follows
<1> HIDE DEF claimed
<1>12. SurveyInv'
  BY <1>1, <1>10, <1>11 DEF IInv, SurveyInv
<1>13. HandleInv'
  BY <1>1, <1>4, <1>5, <1>6, <1>7 DEF IInv, HandleInv, Types, Follows
<1>14. Types'
  BY <1>1, <1>6 DEF IInv, Types
<1> QED BY <1>8, <1>9, <1>12, <1>13, <1>14 DEF IInv

\* The program is started, with the survey if the actor has claimed it.
LEMMA StepStartChild ==
    ASSUME IInv, NEW a \in Actors, StartChild(a)
    PROVE  IInv'
<1> DEFINE s == actor[a].session
           x == [actor[a] EXCEPT !.phase = "started", !.child = TRUE]
<1>1. /\ actor[a].phase = "socket" /\ request' = s
      /\ actor' = [actor EXCEPT ![a].phase = "started", ![a].child = TRUE]
      /\ surveys' = IF actor[a].survey THEN [surveys EXCEPT ![s] = Smaller(@ + 1, 2)] ELSE surveys
      /\ UNCHANGED <<mem, disk, runtime, calls, made, restarts>>
  BY DEF StartChild, prepare_runtime_request
<1>2. /\ actor \in [Actors -> Actor] /\ actor[a] \in Actor /\ s \in Sessions \cup {None}
      /\ surveys \in [Sessions -> 0..1]
  BY ActorFields DEF IInv, Types
<1>3. actor' = [actor EXCEPT ![a] = x]
  BY <1>1, <1>2
<1>4. /\ x \in Actor /\ x.session = s /\ x.phase = "started" /\ x.queue = actor[a].queue
  BY <1>2 DEF Actor, Phases
<1>5. x.open = actor[a].open
  BY <1>2 DEF Actor
<1> HIDE DEF x
<1>6. actor' \in [Actors -> Actor] /\ \A b \in Actors : actor'[b] = IF b = a THEN x ELSE actor[b]
  BY <1>2, <1>3, <1>4
<1>7. \A b \in Actors : actor[b].phase \in Holding => b = a
  BY <1>1 DEF IInv, ActorInv, Holding
<1>8. ActorInv'
  <2>1. \A b \in Actors : actor'[b].phase \in Holding => b = a
    BY <1>6, <1>7
  <2>2. \A b \in Actors : actor'[b].phase \in Lively => b = a
    BY <2>1 DEF Lively, Holding
  <2>3. x.phase \in Lively
    BY <1>4 DEF Lively
  <2> QED BY <1>1, <1>4, <1>6, <2>1, <2>2, <2>3 DEF IInv, ActorInv
<1>9. \A b \in Actors, t \in Sessions : ~Claims(actor'[b], t)
  <2> SUFFICES ASSUME NEW b \in Actors, NEW t \in Sessions, Claims(actor'[b], t)
               PROVE  FALSE
    OBVIOUS
  <2>1. b # a
    BY <1>4, <1>6 DEF Claims
  <2> QED BY <1>6, <1>7, <2>1 DEF Claims, Holding
<1>10. \A t \in Sessions :
         \/ surveys'[t] = surveys[t]
         \/ Claims(actor[a], t) /\ surveys'[t] = Smaller(surveys[t] + 1, 2)
  BY <1>1, <1>2 DEF Claims
<1>11. \A t \in Sessions :
         \/ surveys'[t] = surveys[t]
         \/ Claims(actor[a], t) /\ surveys'[t] = 1
  BY <1>10 DEF IInv, SurveyInv, Smaller
<1>12. surveys' \in [Sessions -> 0..1]
  <2>1. DOMAIN surveys' = Sessions /\ surveys' = [t \in Sessions |-> surveys'[t]]
    BY <1>1, <1>2
  <2>2. \A t \in Sessions : surveys'[t] \in 0..1
    BY <1>2, <1>11
  <2> QED BY <2>1, <2>2
<1>13. \A t \in Sessions : Claims(actor[a], t) =>
         /\ t <= made
         /\ ~(mem.session[t].survey = "pending" \/ disk.session[t].survey = "pending")
  BY DEF IInv, SurveyInv, ActorInv, Claims
<1>14. SurveyInv'
  <2>1. \A t \in Sessions : t \in Nat /\ made \in Nat
    BY CalmNow, Constants
  <2>2. ASSUME NEW t \in Sessions, t > made
        PROVE  surveys'[t] = 0
    BY <1>11, <1>13, <2>1, <2>2 DEF IInv, SurveyInv
  <2>3. ASSUME NEW t \in Sessions,
               mem.session[t].survey = "pending" \/ disk.session[t].survey = "pending"
        PROVE  surveys'[t] = 0
    BY <1>11, <1>13, <2>3 DEF IInv, SurveyInv
  <2> QED BY <1>1, <1>9, <2>2, <2>3 DEF SurveyInv
<1>15. HandleInv'
  BY <1>1, <1>4, <1>5, <1>6 DEF IInv, HandleInv, Types
<1>16. StoreInv'
  BY <1>1 DEF IInv, StoreInv
<1>17. Types'
  BY <1>1, <1>2, <1>6, <1>12 DEF IInv, Types
<1> QED BY <1>8, <1>14, <1>15, <1>16, <1>17 DEF IInv

-----------------------------------------------------------------------------
(* The first start of the service.                                         *)
LEMMA InitInv == Init => IInv
<1> SUFFICES ASSUME Init PROVE IInv
  OBVIOUS
<1> USE DEF Init
<1>1. Types
  BY FreeActorIs, Constants DEF Types, None
<1>2. ActorInv
  <2>1. \A a \in Actors : actor[a] = FreeActor
    OBVIOUS
  <2> QED BY <2>1, FreeActorIs, Constants DEF ActorInv, Lively, Holding, None
<1>3. HandleInv
  BY DEF HandleInv
<1>4. Sound(EmptyState, 0)
  <2>1. <<>> \in Seq(Sessions) /\ Len(<<>>) = 0 /\ ToSet(<<>>) = {} /\ IsInjective(<<>>)
    BY DEF ToSet, IsInjective
  <2>2. NewSession("settled") \in Session
    BY Constants DEF NewSession, Session, Statuses, SurveyStatuses
  <2>3. EmptyState \in Persisted
    BY <2>1, <2>2 DEF EmptyState, Persisted
  <2>4. EmptyState.used = <<>> /\ EmptyState.active = None
    BY DEF EmptyState
  <2> QED BY <2>1, <2>3, <2>4, Constants DEF Sound
<1>5. StoreInv
  BY <1>4 DEF StoreInv
<1>6. SurveyInv
  <2>1. \A a \in Actors, s \in Sessions : ~Claims(actor[a], s)
    BY FreeActorIs DEF Claims
  <2>2. \A s \in Sessions : surveys[s] = 0
    OBVIOUS
  <2> QED BY <2>1, <2>2 DEF SurveyInv
<1> QED BY <1>1, <1>2, <1>3, <1>5, <1>6 DEF IInv

\* Every step of an actor, a reader, a child, a request or the service keeps
\* what is known of the shared state.
LEMMA NextInv == IInv /\ [Next]_vars => IInv'
<1> SUFFICES ASSUME IInv, [Next]_vars PROVE IInv'
  OBVIOUS
<1>1. CASE \E survey \in Asked : create_session(survey)
  BY <1>1, StepCreate
<1>2. CASE \E s \in Sessions : activate_session(s) \/ send_command(s)
  BY <1>2, StepActivate, StepSend
<1>3. ASSUME NEW a \in Actors, claim_initial_survey(a) PROVE IInv'
  BY <1>3, StepClaim
<1>4. ASSUME NEW a \in Actors, ActorStep(a) PROVE IInv'
  BY <1>4, StepStartFails, StepStartChild, StepAnnounce, StepDeliver, StepClose, StepClosed,
     StepReap DEF ActorStep
<1>5. ASSUME NEW a \in Actors, ReadLeftover(a) PROVE IInv'
  BY <1>5, StepReadLeftover
<1>6. ASSUME NEW a \in Actors, NEW line \in Lines, read_process_stream(a, line) PROVE IInv'
  BY <1>6, StepReadStream
<1>7. ASSUME NEW a \in Actors, ChildExits(a) PROVE IInv'
  BY <1>7, StepChildExits
<1>8. CASE begin_runtime_shutdown
  BY <1>8, StepShutdown
<1>9. CASE Restart
  BY <1>9, StepRestart
<1>10. CASE UNCHANGED vars
  <2>1. Types'
    BY <1>10 DEF IInv, Types, vars
  <2>2. ActorInv' /\ HandleInv'
    BY <1>10 DEF IInv, ActorInv, HandleInv, vars
  <2>3. StoreInv'
    BY <1>10 DEF IInv, StoreInv, vars
  <2>4. SurveyInv'
    BY <1>10 DEF IInv, SurveyInv, vars
  <2> QED BY <2>1, <2>2, <2>3, <2>4 DEF IInv
<1> QED BY <1>1, <1>2, <1>3, <1>4, <1>5, <1>6, <1>7, <1>8, <1>9, <1>10 DEF Next

\* The gate, the stores, the handle and the surveys are what IInv says in
\* every reachable state.
THEOREM Inductive == Spec => []IInv
<1>1. Init => IInv
  BY InitInv
<1>2. IInv /\ [Next]_vars => IInv'
  BY NextInv
<1> QED BY <1>1, <1>2, PTL DEF Spec

\* At most one terminal process lives at a time and the request file that all
\* of them share is its own, through every switch, compaction, lost shutdown
\* message and restart.
THEOREM TerminalIsAlone == Spec => []TerminalAlone
<1>1. IInv => TerminalAlone
  <2> SUFFICES ASSUME IInv PROVE TerminalAlone
    OBVIOUS
  <2> DEFINE C == {a \in Actors : actor[a].child}
  <2>1. \A a \in Actors : actor[a].child => actor[a].phase \in Holding /\ request = actor[a].session
    BY DEF IInv, ActorInv, Lively, Holding
  <2>2. \A a, b \in C : a = b
    BY <2>1 DEF IInv, ActorInv
  <2>3. Cardinality(C) <= 1
    <3>1. CASE C = {}
      BY <3>1, FS_EmptySet
    <3>2. CASE C # {}
      <4>1. PICK h \in C : TRUE
        BY <3>2
      <4>2. C = {h}
        BY <2>2, <4>1
      <4>3. Cardinality({h}) = 1
        BY FS_Singleton
      <4> QED BY <4>2, <4>3
    <3> QED BY <3>1, <3>2
  <2> QED BY <2>1, <2>3 DEF TerminalAlone, OneTerminal, RequestOwned
<1> QED BY <1>1, Inductive, PTL

\* No initial survey is started twice, whatever is switched, fails to start
\* or is restarted between the claim and the result.
THEOREM SurveyStartedOnce == Spec => []SurveyOnce
<1>1. IInv => SurveyOnce
  <2> SUFFICES ASSUME IInv, NEW s \in Sessions PROVE surveys[s] <= 1
    BY DEF SurveyOnce
  <2>1. surveys[s] \in 0..1
    BY DEF IInv, Types
  <2> QED BY <2>1
<1> QED BY <1>1, Inductive, PTL

\* Memory and state.json are well formed, only the active conversation is
\* shown as live and only it has the handle.
THEOREM WebStateSound == Spec => []WebInv
<1>1. IInv => WebInv
  <2> SUFFICES ASSUME IInv PROVE WebInv
    OBVIOUS
  <2>1. Sound(mem, made) /\ Sound(disk, made)
    BY DEF IInv, StoreInv
  <2>2. surveys \in [Sessions -> 0..2]
    BY DEF IInv, Types
  <2>3. TypeOK
    BY <2>1, <2>2 DEF IInv, Types, ActorInv, Sound, TypeOK
  <2>4. StoredStaysStored
    BY <2>1 DEF Sound, StoredStaysStored
  <2>5. HandleIsActive
    BY DEF IInv, HandleInv, HandleIsActive
  <2> QED BY <2>3, <2>4, <2>5 DEF WebInv
<1> QED BY <1>1, Inductive, PTL

=============================================================================
