------------------------ MODULE SessionDispatchStops ------------------------
(***************************************************************************)
(* What a stop leaves behind and in which order turns run, for every       *)
(* number of turns, stops and sessions.  Whoever interrupts turns arrived  *)
(* after the interrupters among them, so the chains of awaits end, and     *)
(* what an answered stop had found is dead or awaited by another stop.     *)
(***************************************************************************)
EXTENDS SessionDispatchProofs, WellFoundedInduction

\* A set of positions in a sequence has a last one.
LEMMA LastPosition ==
    ASSUME NEW n \in Nat, NEW I \in SUBSET (1..n), I # {}
    PROVE  \E i \in I : \A j \in I : j <= i
<1> DEFINE above(i) == {j \in I : j > i}
           T == {above(i) : i \in I}
<1>1. IsFiniteSet(1..n)
  BY FS_Interval
<1>2. IsWellFoundedOn(StrictSubsetOrdering(1..n), FiniteSubsetsOf(1..n))
  BY FS_StrictSubsetOrderingWellFounded
<1>3. T \subseteq FiniteSubsetsOf(1..n) /\ T # {}
  <2>1. FiniteSubsetsOf(1..n) = SUBSET (1..n)
    BY <1>1, FS_FiniteSubsetsOfFinite
  <2>2. \A i \in I : above(i) \in SUBSET (1..n)
    OBVIOUS
  <2> HIDE DEF above
  <2>3. PICK i \in I : TRUE
    OBVIOUS
  <2>4. above(i) \in T
    OBVIOUS
  <2> QED
    BY <2>1, <2>2, <2>4
<1>4. PICK X \in T : \A Y \in T : ~(<<Y, X>> \in StrictSubsetOrdering(1..n))
  <2> DEFINE R == StrictSubsetOrdering(1..n)
             S == FiniteSubsetsOf(1..n)
  <2>1. IsWellFoundedOn(R, S) /\ T \subseteq S /\ T # {}
    BY <1>2, <1>3
  <2> HIDE DEF T, R, S
  <2>2. \E x \in T : \A y \in T : ~(<<y, x>> \in R)
    BY <2>1, WFMin
  <2> QED
    BY <2>2 DEF R
<1>5. PICK i \in I : X = above(i)
  BY <1>4
<1>6. SUFFICES ASSUME NEW k \in I, ~(k <= i) PROVE FALSE
  BY <1>5
<1>7. k \in above(i) /\ k \notin above(k) /\ above(k) \subseteq above(i)
  <2>1. i \in Int /\ k \in Int /\ I \subseteq Int
    OBVIOUS
  <2>2. k > i /\ ~(k > k)
    BY <1>6, <2>1
  <2>3. \A j \in I : j > k => j > i
    BY <2>1, <2>2
  <2> QED
    BY <2>2, <2>3
<1>8. above(k) \in T
  OBVIOUS
<1>9. <<above(k), X>> \in StrictSubsetOrdering(1..n)
  <2>1. above(k) \in SUBSET (1..n) /\ X \in SUBSET (1..n)
    BY <1>5
  <2>2. above(k) \subseteq X /\ above(k) # X
    BY <1>5, <1>7
  <2> HIDE DEF above
  <2>3. ASSUME NEW A \in SUBSET (1..n), NEW B \in SUBSET (1..n), A \subseteq B, A # B
        PROVE  <<A, B>> \in StrictSubsetOrdering(1..n)
    BY <2>3 DEF StrictSubsetOrdering
  <2> QED
    BY <2>1, <2>2, <2>3
<1> QED
  BY <1>4, <1>8, <1>9

-----------------------------------------------------------------------------
(* What steps do *)

\* Types of the history.
Past ==
    /\ arrivals \in Seq(Turns)
    /\ aimed \in [Stops -> SUBSET Turns]

\* The oldest task takes its first step.
LEMMA StartFacts ==
    ASSUME Typed, ReadySpawned, Start
    PROVE  \E t \in Turns :
              /\ ready # <<>> /\ t = ready[1] /\ 1 \in 1..Len(ready)
              /\ pc[t] = "spawned"
              /\ NeverRun(t) \/ Interrupt(t) \/ DispatchAtOnce(t)
              /\ \E p \in {"done", "interrupting", "running", "waiting"} :
                    pc' = [pc EXCEPT ![t] = p]
              /\ Len(ready') = Len(ready) - 1
              /\ \A i \in 1..Len(ready') : ready'[i] = ready[i + 1] /\ i + 1 \in 1..Len(ready)
              /\ UNCHANGED <<stopVars, arrivals>>
<1> PICK t \in Turns : t = Head(ready) /\ (NeverRun(t) \/ Interrupt(t) \/ DispatchAtOnce(t))
  BY DEF Start, Typed
<1>1. ready # <<>> /\ ready' = Tail(ready) /\ UNCHANGED <<stopVars, arrivals>>
  BY DEF Start
<1>2. t = ready[1] /\ 1 \in 1..Len(ready)
  BY <1>1 DEF Typed
<1>3. pc[t] = "spawned"
  BY <1>2 DEF ReadySpawned
<1>4. \E p \in {"done", "interrupting", "running", "waiting"} : pc' = [pc EXCEPT ![t] = p]
  BY RequestPhase DEF NeverRun, Interrupt, DispatchAtOnce, Dispatch
<1>5. /\ Len(ready') = Len(ready) - 1
      /\ \A i \in 1..Len(ready') : ready'[i] = ready[i + 1] /\ i + 1 \in 1..Len(ready)
  BY <1>1 DEF Typed
<1> QED
  BY <1>1, <1>2, <1>3, <1>4, <1>5

Moves(t) == Acquire(t) \/ Conclude(t) \/ Err(t) \/ Close(t) \/ Cancelled(t)

\* A turn at its lock moves on, or ends and leaves _active_tasks.
LEMMA MoveFacts ==
    ASSUME Typed, NEW t \in Turns, Moves(t)
    PROVE  /\ pc[t] \in {"waiting", "running", "ending"}
           /\ \E p \in {"running", "ending", "done"} : pc' = [pc EXCEPT ![t] = p]
           /\ \A s \in Sessions : active'[s] \subseteq active[s] /\ active[s] \ {t} \subseteq active'[s]
           /\ pc'[t] = "done" \/ active' = active
           /\ UNCHANGED <<cancel, awaits, ready, arrivals, stopVars>>
<1>1. /\ pc[t] \in {"waiting", "running", "ending"}
      /\ UNCHANGED <<cancel, awaits, ready, arrivals, stopVars>>
  BY DEF Moves, Acquire, Conclude, Err, Close, Cancelled
<1>2. CASE Leave(t)
  <2>1. /\ \A s \in Sessions : active'[s] \subseteq active[s] /\ active[s] \ {t} \subseteq active'[s]
        /\ pc' = [pc EXCEPT ![t] = "done"]
    BY <1>2 DEF Leave, Typed
  <2> QED
    BY <1>1, <2>1 DEF Typed
<1>3. CASE pc' = [pc EXCEPT ![t] = "ending"] /\ active' = active
  BY <1>1, <1>3
<1>4. CASE pc[t] = "ending" /\ pc' = pc /\ active' = active
  <2>1. pc' = [pc EXCEPT ![t] = "ending"]
    BY <1>4 DEF Typed
  <2> QED
    BY <1>1, <1>4, <2>1
<1>5. CASE Acquire(t)
  BY <1>1, <1>5 DEF Acquire
<1> QED
  BY <1>2, <1>3, <1>4, <1>5 DEF Moves, Conclude, Err, Close, Cancelled

\* The steps there are.
LEMMA StepCases ==
    ASSUME [Next]_vars
    PROVE  \/ \E t \in Turns : Arrive(t) \/ Direct(t)
           \/ Start
           \/ \E t \in Turns : Resume(t)
           \/ \E t \in Turns : Moves(t)
           \/ \E x \in Stops : Stop(x) \/ AnswerStop(x)
           \/ UNCHANGED vars
BY DEF Next, Moves

\* A stop changes no turn.
LEMMA StopFacts ==
    ASSUME NEW x \in Stops, Stop(x) \/ AnswerStop(x)
    PROVE  UNCHANGED <<pc, awaits, ready, arrivals>>
BY DEF Stop, AnswerStop, turnVars

\* An interrupted turn's await is over, and the next begins or the lock is
\* asked for.
LEMMA ResumeFacts ==
    ASSUME Typed, NEW t \in Turns, Resume(t)
    PROVE  /\ pc[t] = "interrupting"
           /\ \E p \in {"interrupting", "running", "waiting"} : pc' = [pc EXCEPT ![t] = p]
           /\ \/ awaits' = [awaits EXCEPT ![t] = {u \in awaits[t] : Unfinished(u)}]
              \/ awaits' = [awaits EXCEPT ![t] = {}]
           /\ UNCHANGED <<cancel, ready, active, stopVars, arrivals>>
<1>1. pc[t] = "interrupting" /\ UNCHANGED <<cancel, ready, active, stopVars, arrivals>>
  BY DEF Resume
<1>2. CASE Dispatch(t)
  BY <1>1, <1>2, RequestPhase DEF Dispatch
<1>3. CASE awaits' = [awaits EXCEPT ![t] = {u \in awaits[t] : Unfinished(u)}] /\ pc' = pc
  <2>1. pc' = [pc EXCEPT ![t] = "interrupting"]
    BY <1>1, <1>3 DEF Typed
  <2> QED
    BY <1>1, <1>3, <2>1
<1> QED
  BY <1>2, <1>3 DEF Resume

\* Every cancelled turn that is neither awaiting nor over is marked.
LEMMA DeliverHits ==
    ASSUME NEW ts \in SUBSET Turns
    PROVE  /\ cancel \subseteq Deliver(ts)
           /\ \A t \in ts : pc[t] \notin {"interrupting", "done"} => t \in Deliver(ts)
BY DEF Deliver, Reached

\* Every step keeps the types of the history.
LEMMA PastStep == Typed /\ ReadySpawned /\ Past /\ [Next]_vars => Past'
<1> SUFFICES ASSUME Typed, ReadySpawned, Past, [Next]_vars PROVE Past'
  OBVIOUS
<1>1. ASSUME NEW t \in Turns, Arrive(t) \/ Direct(t) PROVE Past'
  <2>1. arrivals' = Append(arrivals, t) /\ aimed' = aimed
    BY <1>1 DEF Arrive, Direct, stopVars
  <2> QED
    BY <2>1, AppendProperties DEF Past
<1>2. CASE Start
  BY <1>2, StartFacts DEF Past, stopVars
<1>3. ASSUME NEW t \in Turns, Resume(t) PROVE Past'
  BY <1>3, ResumeFacts DEF Past, stopVars
<1>4. ASSUME NEW t \in Turns, Moves(t) PROVE Past'
  BY <1>4, MoveFacts DEF Past, stopVars
<1>5. ASSUME NEW x \in Stops, Stop(x) \/ AnswerStop(x) PROVE Past'
  BY <1>5 DEF Stop, AnswerStop, Past
<1>6. CASE UNCHANGED vars
  BY <1>6 DEF vars, stopVars, Past
<1> QED
  BY <1>1, <1>2, <1>3, <1>4, <1>5, <1>6, StepCases

-----------------------------------------------------------------------------
(* The order of arrival *)

\* A turn that exists has arrived once.
Arrived ==
    /\ \A t \in Turns : pc[t] # "absent" <=> \E i \in 1..Len(arrivals) : arrivals[i] = t
    /\ \A i, j \in 1..Len(arrivals) : arrivals[i] = arrivals[j] => i = j

\* Turns start in the order in which they arrived.
Lined ==
    /\ \A i \in 1..Len(ready) : ready[i] \notin Directs
    /\ \A i, j \in 1..Len(ready) : i < j => Before(ready[i], ready[j])
    /\ \A t \in Turns \ Directs, i \in 1..Len(ready) :
          pc[t] \notin {"absent", "spawned"} => Before(t, ready[i])
    /\ \A t \in Turns : pc[t] = "spawned" => \E i \in 1..Len(ready) : ready[i] = t
    /\ \A t \in Directs : pc[t] # "interrupting"

\* Of two turns that have arrived at most one was before the other.
LEMMA BeforeOneWay ==
    ASSUME Past, Arrived, NEW t \in Turns, NEW u \in Turns, Before(t, u)
    PROVE  t # u /\ ~Before(u, t) /\ pc[t] # "absent" /\ pc[u] # "absent"
<1>1. /\ DOMAIN arrivals = 1..Len(arrivals) /\ Len(arrivals) \in Nat
      /\ \A i \in 1..Len(arrivals) : arrivals[i] \in Turns
  BY DEF Past
<1>2. PICK i \in 1..Len(arrivals), j \in 1..Len(arrivals) :
         i < j /\ arrivals[i] = t /\ arrivals[j] = u
  BY <1>1 DEF Before
<1>3. pc[t] # "absent" /\ pc[u] # "absent"
  BY <1>2 DEF Arrived
<1>4. t # u
  BY <1>2 DEF Arrived
<1>5. SUFFICES ASSUME Before(u, t) PROVE FALSE
  BY <1>3, <1>4
<1>6. PICK k \in 1..Len(arrivals), l \in 1..Len(arrivals) :
         k < l /\ arrivals[k] = u /\ arrivals[l] = t
  BY <1>1, <1>5 DEF Before
<1>7. k = j /\ l = i
  BY <1>2, <1>6 DEF Arrived
<1> QED
  BY <1>1, <1>2, <1>6, <1>7

\* Of two turns that have arrived one was first.
LEMMA BeforeTotal ==
    ASSUME Past, Arrived, NEW t \in Turns, NEW u \in Turns, t # u,
           pc[t] # "absent", pc[u] # "absent"
    PROVE  Before(t, u) \/ Before(u, t)
<1>1. DOMAIN arrivals = 1..Len(arrivals) /\ Len(arrivals) \in Nat
  BY DEF Past
<1>2. PICK i \in 1..Len(arrivals), j \in 1..Len(arrivals) : arrivals[i] = t /\ arrivals[j] = u
  BY DEF Arrived
<1>3. i < j \/ j < i
  BY <1>1, <1>2
<1> QED
  BY <1>1, <1>2, <1>3 DEF Before

\* A turn that arrives comes after all that are there.
LEMMA BeforeGrows ==
    ASSUME Past, Arrived, NEW t \in Turns, pc[t] = "absent", arrivals' = Append(arrivals, t)
    PROVE  /\ \A a, b \in Turns : Before(a, b) => Before(a, b)'
           /\ \A a \in Turns : pc[a] # "absent" => Before(a, t)'
           /\ \A a, b \in Turns : Before(a, b)' => Before(a, b) \/ b = t
           /\ \A i \in 1..Len(arrivals) : arrivals[i] # t
           /\ \A i \in 1..Len(arrivals') :
                 arrivals'[i] = IF i = Len(arrivals') THEN t ELSE arrivals[i]
           /\ Len(arrivals') = Len(arrivals) + 1 /\ Len(arrivals) \in Nat
<1>1. /\ DOMAIN arrivals = 1..Len(arrivals) /\ Len(arrivals) \in Nat
      /\ DOMAIN arrivals' = 1..Len(arrivals') /\ Len(arrivals') = Len(arrivals) + 1
      /\ \A i \in 1..Len(arrivals) : arrivals'[i] = arrivals[i]
      /\ arrivals'[Len(arrivals')] = t
      /\ \A i \in 1..Len(arrivals') : i \in 1..Len(arrivals) \/ i = Len(arrivals')
  BY DEF Past
<1>2. \A i \in 1..Len(arrivals) : arrivals[i] # t
  BY DEF Arrived
<1>3. \A a, b \in Turns : Before(a, b) => Before(a, b)'
  BY <1>1 DEF Before
<1>4. \A a \in Turns : pc[a] # "absent" => Before(a, t)'
  <2> SUFFICES ASSUME NEW a \in Turns, pc[a] # "absent" PROVE Before(a, t)'
    OBVIOUS
  <2>1. PICK i \in 1..Len(arrivals) : arrivals[i] = a
    BY DEF Arrived
  <2>2. i \in 1..Len(arrivals') /\ i < Len(arrivals') /\ Len(arrivals') \in 1..Len(arrivals')
    BY <1>1
  <2> QED
    BY <1>1, <2>1, <2>2 DEF Before
<1>5. \A a, b \in Turns : Before(a, b)' => Before(a, b) \/ b = t
  <2> SUFFICES ASSUME NEW a \in Turns, NEW b \in Turns, Before(a, b)', b # t
               PROVE  Before(a, b)
    OBVIOUS
  <2>1. PICK i \in 1..Len(arrivals'), j \in 1..Len(arrivals') :
           i < j /\ arrivals'[i] = a /\ arrivals'[j] = b
    BY <1>1 DEF Before
  <2>2. i \in 1..Len(arrivals) /\ j \in 1..Len(arrivals)
    BY <1>1, <2>1
  <2> QED
    BY <1>1, <2>1, <2>2 DEF Before
<1> QED
  BY <1>1, <1>2, <1>3, <1>4, <1>5

\* A turn arrives once.
LEMMA ArrivedStep ==
    Typed /\ ReadySpawned /\ Past /\ Arrived /\ [Next]_vars => Arrived'
<1> SUFFICES ASSUME Typed, ReadySpawned, Past, Arrived, [Next]_vars PROVE Arrived'
  OBVIOUS
<1>1. ASSUME NEW t \in Turns, Arrive(t) \/ Direct(t) PROVE Arrived'
  <2>1. pc[t] = "absent" /\ arrivals' = Append(arrivals, t)
    BY <1>1 DEF Arrive, Direct
  <2>2. \E p \in {"spawned", "running", "waiting"} : pc' = [pc EXCEPT ![t] = p]
    BY <1>1, RequestPhase DEF Arrive, Direct
  <2>3. /\ \A i \in 1..Len(arrivals) : arrivals[i] # t
        /\ \A i \in 1..Len(arrivals') :
              arrivals'[i] = IF i = Len(arrivals') THEN t ELSE arrivals[i]
        /\ Len(arrivals') = Len(arrivals) + 1 /\ Len(arrivals) \in Nat
    BY <2>1, BeforeGrows
  <2>4. ASSUME NEW i \in 1..Len(arrivals'), NEW j \in 1..Len(arrivals'), arrivals'[i] = arrivals'[j]
        PROVE  i = j
    <3>1. \A k \in 1..Len(arrivals') : k # Len(arrivals') => k \in 1..Len(arrivals)
      BY <2>3
    <3>2. i = Len(arrivals') <=> j = Len(arrivals')
      BY <2>3, <2>4, <3>1
    <3> QED
      BY <2>3, <2>4, <3>1, <3>2 DEF Arrived
  <2>5. ASSUME NEW u \in Turns
        PROVE  pc'[u] # "absent" <=> \E i \in 1..Len(arrivals') : arrivals'[i] = u
    <3>1. CASE u = t
      <4>1. Len(arrivals') \in 1..Len(arrivals')
        BY <2>3
      <4> QED
        BY <2>2, <2>3, <3>1, <4>1 DEF Typed
    <3>2. CASE u # t
      <4>1. pc'[u] = pc[u]
        BY <2>2, <3>2 DEF Typed
      <4>2. \A i \in 1..Len(arrivals') : arrivals'[i] = u => i \in 1..Len(arrivals) /\ arrivals[i] = u
        BY <2>3, <3>2
      <4>3. \A i \in 1..Len(arrivals) : i \in 1..Len(arrivals') /\ arrivals'[i] = arrivals[i]
        BY <2>3
      <4> QED
        BY <4>1, <4>2, <4>3 DEF Arrived
    <3> QED
      BY <3>1, <3>2
  <2> QED
    BY <2>4, <2>5 DEF Arrived
<1>2. CASE Start
  BY <1>2, StartFacts DEF Arrived, Typed
<1>3. ASSUME NEW t \in Turns, Resume(t) PROVE Arrived'
  BY <1>3, ResumeFacts DEF Arrived, Typed
<1>4. ASSUME NEW t \in Turns, Moves(t) PROVE Arrived'
  BY <1>4, MoveFacts DEF Arrived, Typed
<1>5. ASSUME NEW x \in Stops, Stop(x) \/ AnswerStop(x) PROVE Arrived'
  BY <1>5, StopFacts DEF Arrived
<1>6. CASE UNCHANGED vars
  BY <1>6 DEF vars, turnVars, Arrived
<1> QED
  BY <1>1, <1>2, <1>3, <1>4, <1>5, <1>6, StepCases

\* Steps that start no turn and let none arrive keep the line.
LEMMA LinedKept ==
    ASSUME Typed, Lined, NEW t \in Turns, NEW p, pc' = [pc EXCEPT ![t] = p],
           pc[t] \notin {"absent", "spawned"}, p \notin {"absent", "spawned"},
           p = "interrupting" => pc[t] = "interrupting",
           UNCHANGED <<ready, arrivals>>
    PROVE  Lined'
<1>1. \A a, b \in Turns : Before(a, b) <=> Before(a, b)'
  BY DEF Before
<1>2. \A i \in 1..Len(ready) : ready[i] \in Turns
  BY DEF Typed
<1>3. \A i, j \in 1..Len(ready) : i < j => Before(ready[i], ready[j])'
  BY <1>1, <1>2 DEF Lined
<1>4. ASSUME NEW u \in Turns \ Directs, NEW i \in 1..Len(ready), pc'[u] \notin {"absent", "spawned"}
      PROVE  Before(u, ready[i])'
  <2>1. pc[u] \notin {"absent", "spawned"}
    BY <1>4 DEF Typed
  <2> QED
    BY <1>1, <1>2, <2>1 DEF Lined
<1>5. ASSUME NEW u \in Turns, pc'[u] = "spawned" PROVE \E i \in 1..Len(ready) : ready[i] = u
  <2>1. pc[u] = "spawned"
    BY <1>5 DEF Typed
  <2> QED
    BY <2>1 DEF Lined
<1>6. \A u \in Directs : pc'[u] # "interrupting"
  BY TurnsAssumption DEF Lined, Typed
<1> QED
  BY <1>3, <1>4, <1>5, <1>6 DEF Lined

\* A turn arrives at the end of the line.
LEMMA LinedArrive ==
    ASSUME Typed, ReadySpawned, Past, Arrived, Lined, NEW t \in Turns, Arrive(t)
    PROVE  Lined'
<1>1. /\ pc[t] = "absent" /\ t \notin Directs
      /\ pc' = [pc EXCEPT ![t] = "spawned"] /\ ready' = Append(ready, t)
      /\ arrivals' = Append(arrivals, t)
  BY DEF Arrive
<1>2. /\ \A a, b \in Turns : Before(a, b) => Before(a, b)'
      /\ \A a \in Turns : pc[a] # "absent" => Before(a, t)'
  BY <1>1, BeforeGrows
<1>3. /\ Len(ready') = Len(ready) + 1 /\ Len(ready) \in Nat
      /\ \A i \in 1..Len(ready) : ready[i] \in Turns /\ ready'[i] = ready[i]
      /\ ready'[Len(ready')] = t
      /\ \A i \in 1..Len(ready') : i \in 1..Len(ready) \/ i = Len(ready')
  BY <1>1 DEF Typed
<1>4. \A i \in 1..Len(ready) : pc[ready[i]] = "spawned"
  BY DEF ReadySpawned
<1>5. \A i \in 1..Len(ready') : ready'[i] \notin Directs
  BY <1>1, <1>3 DEF Lined
<1>6. ASSUME NEW i \in 1..Len(ready'), NEW j \in 1..Len(ready'), i < j
      PROVE  Before(ready[i], ready[j])'
  <2>1. i \in 1..Len(ready)
    BY <1>3, <1>6
  <2>2. CASE j \in 1..Len(ready)
    BY <1>2, <1>3, <1>6, <2>1, <2>2 DEF Lined
  <2>3. CASE j = Len(ready')
    BY <1>2, <1>3, <1>4, <2>1, <2>3
  <2> QED
    BY <1>3, <2>2, <2>3
<1>7. ASSUME NEW u \in Turns \ Directs, NEW i \in 1..Len(ready'), pc'[u] \notin {"absent", "spawned"}
      PROVE  Before(u, ready[i])'
  <2>1. pc[u] \notin {"absent", "spawned"}
    BY <1>1, <1>7 DEF Typed
  <2>2. CASE i \in 1..Len(ready)
    BY <1>2, <1>3, <2>1, <2>2 DEF Lined
  <2>3. CASE i = Len(ready')
    BY <1>2, <1>3, <2>1, <2>3
  <2> QED
    BY <1>3, <2>2, <2>3
<1>8. ASSUME NEW u \in Turns, pc'[u] = "spawned"
      PROVE  \E i \in 1..Len(ready') : ready'[i] = u
  <2>1. CASE u = t
    <3>1. Len(ready') \in 1..Len(ready')
      BY <1>3
    <3> QED
      BY <1>3, <2>1, <3>1
  <2>2. CASE u # t
    <3>1. PICK i \in 1..Len(ready) : ready[i] = u
      BY <1>1, <1>8, <2>2 DEF Lined, Typed
    <3>2. i \in 1..Len(ready')
      BY <1>3
    <3> QED
      BY <1>3, <3>1, <3>2
  <2> QED
    BY <2>1, <2>2
<1>9. \A u \in Directs : pc'[u] # "interrupting"
  BY <1>1, TurnsAssumption DEF Lined, Typed
<1> QED
  BY <1>5, <1>6, <1>7, <1>8, <1>9 DEF Lined

\* process_direct takes no place in the line.
LEMMA LinedDirect ==
    ASSUME Typed, ReadySpawned, Past, Arrived, Lined, NEW t \in Turns, Direct(t)
    PROVE  Lined'
<1>1. /\ pc[t] = "absent" /\ t \in Directs /\ ready' = ready
      /\ arrivals' = Append(arrivals, t)
      /\ \E p \in {"running", "waiting"} : pc' = [pc EXCEPT ![t] = p]
  BY RequestPhase DEF Direct
<1>2. \A a, b \in Turns : Before(a, b) => Before(a, b)'
  BY <1>1, BeforeGrows
<1>3. \A i \in 1..Len(ready) : ready[i] \in Turns
  BY DEF Typed
<1>4. \A i, j \in 1..Len(ready) : i < j => Before(ready[i], ready[j])'
  BY <1>1, <1>2, <1>3 DEF Lined
<1>5. ASSUME NEW u \in Turns \ Directs, NEW i \in 1..Len(ready), pc'[u] \notin {"absent", "spawned"}
      PROVE  Before(u, ready[i])'
  <2>1. pc[u] \notin {"absent", "spawned"} /\ ready'[i] = ready[i]
    BY <1>1, <1>5 DEF Typed
  <2> QED
    BY <1>2, <1>3, <2>1 DEF Lined
<1>6. ASSUME NEW u \in Turns, pc'[u] = "spawned" PROVE \E i \in 1..Len(ready) : ready[i] = u
  BY <1>1, <1>6 DEF Lined, Typed
<1>7. \A u \in Directs : pc'[u] # "interrupting"
  BY <1>1, TurnsAssumption DEF Lined, Typed
<1> QED
  BY <1>1, <1>4, <1>5, <1>6, <1>7 DEF Lined

\* The first of the line starts.
LEMMA LinedStart ==
    ASSUME Typed, ReadySpawned, Lined, Start
    PROVE  Lined'
<1> PICK t \in Turns :
              /\ ready # <<>> /\ t = ready[1] /\ 1 \in 1..Len(ready)
              /\ pc[t] = "spawned"
              /\ NeverRun(t) \/ Interrupt(t) \/ DispatchAtOnce(t)
              /\ \E p \in {"done", "interrupting", "running", "waiting"} :
                    pc' = [pc EXCEPT ![t] = p]
              /\ Len(ready') = Len(ready) - 1
              /\ \A i \in 1..Len(ready') : ready'[i] = ready[i + 1] /\ i + 1 \in 1..Len(ready)
              /\ UNCHANGED <<stopVars, arrivals>>
  BY StartFacts
<1>1. \A a, b \in Turns : Before(a, b) <=> Before(a, b)'
  BY DEF Before
<1>2. /\ Len(ready) \in Nat /\ \A i \in 1..Len(ready) : ready[i] \in Turns
  BY DEF Typed
<1>3. \A i \in 1..Len(ready') : ready'[i] \notin Directs
  BY DEF Lined
<1>4. ASSUME NEW i \in 1..Len(ready'), NEW j \in 1..Len(ready'), i < j
      PROVE  Before(ready[i], ready[j])'
  <2>1. i + 1 < j + 1
    BY <1>2, <1>4
  <2>2. Before(ready[i + 1], ready[j + 1])
    BY <2>1 DEF Lined
  <2> QED
    BY <1>1, <1>2, <2>2
<1>5. ASSUME NEW u \in Turns \ Directs, NEW i \in 1..Len(ready'), pc'[u] \notin {"absent", "spawned"}
      PROVE  Before(u, ready[i])'
  <2>1. CASE u = t
    <3>1. 1 < i + 1
      BY <1>2
    <3>2. Before(ready[1], ready[i + 1])
      BY <3>1 DEF Lined
    <3> QED
      BY <1>1, <1>2, <2>1, <3>2
  <2>2. CASE u # t
    <3>1. pc[u] \notin {"absent", "spawned"}
      BY <1>5, <2>2 DEF Typed
    <3> QED
      BY <1>1, <1>2, <3>1 DEF Lined
  <2> QED
    BY <2>1, <2>2
<1>6. ASSUME NEW u \in Turns, pc'[u] = "spawned" PROVE \E i \in 1..Len(ready') : ready'[i] = u
  <2>1. u # t /\ pc[u] = "spawned"
    BY <1>6 DEF Typed
  <2>2. PICK i \in 1..Len(ready) : ready[i] = u
    BY <2>1 DEF Lined
  <2>3. i # 1 /\ i - 1 \in 1..Len(ready') /\ (i - 1) + 1 = i
    BY <1>2, <2>1, <2>2
  <2> QED
    BY <2>2, <2>3
<1>7. \A u \in Directs : pc'[u] # "interrupting"
  <2>1. t \notin Directs
    BY DEF Lined
  <2> QED
    BY <2>1, TurnsAssumption DEF Lined, Typed
<1> QED
  BY <1>3, <1>4, <1>5, <1>6, <1>7 DEF Lined

\* Every step keeps the line.
LEMMA LinedStep ==
    Typed /\ ReadySpawned /\ Past /\ Arrived /\ Lined /\ [Next]_vars => Lined'
<1> SUFFICES ASSUME Typed, ReadySpawned, Past, Arrived, Lined, [Next]_vars PROVE Lined'
  OBVIOUS
<1>1. ASSUME NEW t \in Turns, Arrive(t) \/ Direct(t) PROVE Lined'
  BY <1>1, LinedArrive, LinedDirect
<1>2. CASE Start
  BY <1>2, LinedStart
<1>3. ASSUME NEW t \in Turns, Resume(t) PROVE Lined'
  BY <1>3, ResumeFacts, LinedKept
<1>4. ASSUME NEW t \in Turns, Moves(t) PROVE Lined'
  BY <1>4, MoveFacts, LinedKept
<1>5. ASSUME NEW x \in Stops, Stop(x) \/ AnswerStop(x) PROVE Lined'
  BY <1>5, StopFacts DEF Lined, Before
<1>6. CASE UNCHANGED vars
  BY <1>6 DEF vars, turnVars, Lined, Before
<1> QED
  BY <1>1, <1>2, <1>3, <1>4, <1>5, <1>6, StepCases

-----------------------------------------------------------------------------
(* Chains of awaits *)

\* _active_tasks lists turns of the session that have not ended.
Tracked ==
    \A s \in Sessions : \A t \in active[s] : SessionOf[t] = s /\ Unfinished(t)

\* A turn awaits turns of its session that it took out of _active_tasks and
\* cancelled; the interrupters among them arrived before it.
Chained ==
    \A u \in Turns : \A t \in awaits[u] : pc[u] = "interrupting" =>
        /\ SessionOf[t] = SessionOf[u]
        /\ pc[t] # "absent"
        /\ t \notin active[SessionOf[t]]
        /\ pc[t] = "interrupting" => Before(t, u)
        /\ pc[t] = "spawned" => t \in cancel

\* What a stop found: turns of its session that are out of _active_tasks for
\* good, with all those that await or are awaited by them.
Aimed ==
    /\ \A x \in Stops : \A t \in aimed[x] :
          /\ SessionOf[t] = SessionOf[x]
          /\ pc[t] # "absent"
          /\ t \notin active[SessionOf[t]]
          /\ pc[t] = "spawned" => t \in cancel
    /\ \A x \in Stops, u \in Turns : \A t \in awaits[u] :
          pc[u] = "interrupting" /\ t \in aimed[x] => u \in aimed[x]
    /\ \A x \in Stops, u \in Turns : \A t \in awaits[u] :
          pc[u] = "interrupting" /\ u \in aimed[x] => t \in aimed[x] \/ pc[t] = "done"
    /\ \A x \in Stops : stop[x] = "waiting" => targets[x] \subseteq aimed[x]

\* A step in which nobody begins to interrupt.
Ordinary ==
    /\ \A u \in Turns : pc'[u] = "interrupting" =>
          pc[u] = "interrupting" /\ awaits'[u] \subseteq awaits[u]
    /\ \A t \in Turns : pc[t] # "absent" =>
          pc'[t] # "absent" /\ (pc'[t] = "spawned" => pc[t] = "spawned")
    /\ \A t \in Turns : pc[t] = "done" => pc'[t] = "done"
    /\ cancel \subseteq cancel'
    /\ \A s \in Sessions : \A t \in active'[s] : t \in active[s] \/ pc[t] = "absent"
    /\ \A t, u \in Turns : Before(t, u) => Before(t, u)'

\* Every step but the beginning of an interruption is ordinary.
LEMMA OrdinarySteps ==
    ASSUME Typed, ReadySpawned, Past, Arrived, [Next]_vars
    PROVE  \/ Ordinary
           \/ \E t \in Turns : /\ pc[t] = "spawned" /\ t = ready[1] /\ 1 \in 1..Len(ready)
                               /\ Interrupt(t)
                               /\ UNCHANGED <<stopVars, arrivals>>
<1> USE SessionsOf
<1>0. arrivals' = arrivals => \A t, u \in Turns : Before(t, u) => Before(t, u)'
  BY DEF Before
<1>1. ASSUME NEW t \in Turns, Arrive(t) \/ Direct(t) PROVE Ordinary
  <2>1. /\ pc[t] = "absent" /\ arrivals' = Append(arrivals, t)
        /\ UNCHANGED <<cancel, awaits>>
        /\ active' = [active EXCEPT ![SessionOf[t]] = @ \union {t}]
    BY <1>1 DEF Arrive, Direct
  <2>2. \E p \in {"spawned", "running", "waiting"} : pc' = [pc EXCEPT ![t] = p]
    BY <1>1, RequestPhase DEF Arrive, Direct
  <2>3. \A a, b \in Turns : Before(a, b) => Before(a, b)'
    BY <2>1, BeforeGrows
  <2>4. \A s \in Sessions : \A u \in active'[s] : u \in active[s] \/ pc[u] = "absent"
    BY <2>1 DEF Typed
  <2> QED
    BY <2>1, <2>2, <2>3, <2>4 DEF Ordinary, Typed
<1>2. CASE Start
  <2> PICK t \in Turns :
              /\ t = ready[1] /\ 1 \in 1..Len(ready)
              /\ pc[t] = "spawned"
              /\ NeverRun(t) \/ Interrupt(t) \/ DispatchAtOnce(t)
              /\ UNCHANGED <<stopVars, arrivals>>
    BY <1>2, StartFacts
  <2>1. CASE NeverRun(t)
    <3>1. /\ pc' = [pc EXCEPT ![t] = "done"] /\ UNCHANGED <<cancel, awaits>>
          /\ \A s \in Sessions : active'[s] \subseteq active[s]
      BY <2>1 DEF NeverRun, Typed
    <3> QED
      BY <1>0, <3>1 DEF Ordinary, Typed
  <2>2. CASE DispatchAtOnce(t)
    <3>1. /\ \E p \in {"running", "waiting"} : pc' = [pc EXCEPT ![t] = p]
          /\ UNCHANGED <<cancel, active>>
          /\ awaits' = [awaits EXCEPT ![t] = {}]
      BY <2>2, RequestPhase DEF DispatchAtOnce, Dispatch
    <3> QED
      BY <1>0, <3>1 DEF Ordinary, Typed
  <2> QED
    BY <2>1, <2>2
<1>3. ASSUME NEW t \in Turns, Resume(t) PROVE Ordinary
  <2>1. /\ pc[t] = "interrupting"
        /\ \E p \in {"interrupting", "running", "waiting"} : pc' = [pc EXCEPT ![t] = p]
        /\ UNCHANGED <<cancel, active, arrivals>>
        /\ \A u \in Turns : awaits'[u] \subseteq awaits[u]
    BY <1>3, ResumeFacts DEF Typed
  <2> QED
    BY <1>0, <2>1 DEF Ordinary, Typed
<1>4. ASSUME NEW t \in Turns, Moves(t) PROVE Ordinary
  BY <1>0, <1>4, MoveFacts DEF Ordinary, Typed
<1>5. ASSUME NEW x \in Stops, Stop(x) PROVE Ordinary
  <2>1. active[SessionOf[x]] \in SUBSET Turns
    BY DEF Typed
  <2>2. /\ UNCHANGED <<pc, awaits, arrivals>>
        /\ cancel \subseteq cancel'
        /\ \A s \in Sessions : active'[s] \subseteq active[s]
    BY <1>5, <2>1, DeliverHits DEF Stop, Typed
  <2> QED
    BY <1>0, <2>2 DEF Ordinary
<1>6. ASSUME NEW x \in Stops, AnswerStop(x) PROVE Ordinary
  BY <1>0, <1>6 DEF AnswerStop, turnVars, Ordinary
<1>7. CASE UNCHANGED vars
  BY <1>0, <1>7 DEF vars, turnVars, Ordinary
<1> QED
  BY <1>1, <1>2, <1>3, <1>4, <1>5, <1>6, <1>7, StepCases

\* Who ends leaves _active_tasks, who arrives enters it.
LEMMA TrackedStep ==
    Typed /\ ReadySpawned /\ Tracked /\ [Next]_vars => Tracked'
<1> SUFFICES ASSUME Typed, ReadySpawned, Tracked, [Next]_vars PROVE Tracked'
  OBVIOUS
<1> USE SessionsOf
<1>1. ASSUME NEW t \in Turns, Arrive(t) \/ Direct(t) PROVE Tracked'
  <2>1. active' = [active EXCEPT ![SessionOf[t]] = @ \union {t}]
    BY <1>1 DEF Arrive, Direct
  <2>2. \E p \in {"spawned", "running", "waiting"} : pc' = [pc EXCEPT ![t] = p]
    BY <1>1, RequestPhase DEF Arrive, Direct
  <2> QED
    BY <2>1, <2>2 DEF Tracked, Typed, Unfinished
<1>2. CASE Start
  <2> PICK t \in Turns :
              /\ NeverRun(t) \/ Interrupt(t) \/ DispatchAtOnce(t)
              /\ pc[t] = "spawned"
    BY <1>2, StartFacts
  <2>1. CASE NeverRun(t)
    BY <2>1 DEF NeverRun, Tracked, Typed, Unfinished
  <2>2. CASE Interrupt(t)
    BY <2>2 DEF Interrupt, Tracked, Typed, Unfinished
  <2>3. CASE DispatchAtOnce(t)
    BY <2>3, RequestPhase DEF DispatchAtOnce, Dispatch, Tracked, Typed, Unfinished
  <2> QED
    BY <2>1, <2>2, <2>3
<1>3. ASSUME NEW t \in Turns, Resume(t) PROVE Tracked'
  BY <1>3, ResumeFacts DEF Tracked, Typed, Unfinished
<1>4. ASSUME NEW t \in Turns, Moves(t) PROVE Tracked'
  <2>1. CASE Leave(t)
    BY <2>1 DEF Leave, Tracked, Typed, Unfinished
  <2>2. CASE pc'[t] # "done"
    BY <1>4, <2>2, MoveFacts DEF Tracked, Typed, Unfinished
  <2>3. CASE ~Leave(t) /\ pc'[t] = "done"
    BY <1>4, <2>3 DEF Moves, Acquire, Conclude, Err, Close, Cancelled, Typed
  <2> QED
    BY <2>1, <2>2, <2>3
<1>5. ASSUME NEW x \in Stops, Stop(x) \/ AnswerStop(x) PROVE Tracked'
  <2>1. /\ pc' = pc
        /\ \A s \in Sessions : active'[s] \subseteq active[s]
    BY <1>5 DEF Stop, AnswerStop, turnVars, Typed
  <2> QED
    BY <2>1 DEF Tracked, Unfinished
<1>6. CASE UNCHANGED vars
  BY <1>6 DEF vars, turnVars, Tracked, Unfinished
<1> QED
  BY <1>1, <1>2, <1>3, <1>4, <1>5, <1>6, StepCases

\* What the beginning of an interruption changes.
LEMMA InterruptFacts ==
    ASSUME Typed, Lined, Tracked, NEW t \in Turns, pc[t] = "spawned", t = ready[1],
           1 \in 1..Len(ready), Interrupt(t), arrivals' = arrivals
    PROVE  /\ t \notin cancel /\ cancel \subseteq cancel'
           /\ pc' = [pc EXCEPT ![t] = "interrupting"]
           /\ awaits' = [awaits EXCEPT ![t] = Others(t)]
           /\ \A s \in Sessions : active'[s] \subseteq active[s]
           /\ \A u, v \in Turns : Before(u, v) <=> Before(u, v)'
           /\ \A u \in Others(t) :
                 /\ u \in Turns /\ u # t /\ SessionOf[u] = SessionOf[t]
                 /\ u \in active[SessionOf[t]] /\ Unfinished(u) /\ pc'[u] = pc[u]
                 /\ u \notin active'[SessionOf[u]]
                 /\ pc[u] = "interrupting" => Before(u, t)
                 /\ pc[u] = "spawned" => u \in cancel'
<1> USE SessionsOf
<1>1. /\ t \notin cancel /\ cancel' = Deliver(Others(t))
      /\ pc' = [pc EXCEPT ![t] = "interrupting"]
      /\ awaits' = [awaits EXCEPT ![t] = Others(t)]
      /\ active' = [active EXCEPT ![SessionOf[t]] = @ \intersect {t}]
  BY DEF Interrupt
<1>2. Others(t) \subseteq active[SessionOf[t]] /\ t \notin Others(t) /\ Others(t) \in SUBSET Turns
  BY DEF Others, Typed
<1>3. \A s \in Sessions : active'[s] \subseteq active[s]
  BY <1>1 DEF Typed
<1>4. \A u, v \in Turns : Before(u, v) <=> Before(u, v)'
  BY DEF Before
<1>5. cancel \subseteq cancel' /\ \A u \in Others(t) : pc[u] = "spawned" => u \in cancel'
  BY <1>1, <1>2, DeliverHits
<1> SUFFICES ASSUME NEW u \in Others(t)
             PROVE  /\ u \in Turns /\ u # t /\ SessionOf[u] = SessionOf[t]
                    /\ u \in active[SessionOf[t]] /\ Unfinished(u) /\ pc'[u] = pc[u]
                    /\ u \notin active'[SessionOf[u]]
                    /\ pc[u] = "interrupting" => Before(u, t)
  BY <1>1, <1>3, <1>4, <1>5
<1>6. /\ u \in Turns /\ u # t /\ u \in active[SessionOf[t]]
      /\ SessionOf[u] = SessionOf[t] /\ Unfinished(u)
  BY <1>2 DEF Tracked
<1>7. u \notin active'[SessionOf[u]] /\ pc'[u] = pc[u]
  BY <1>1, <1>6 DEF Typed
<1>8. pc[u] = "interrupting" => Before(u, t)
  BY <1>6 DEF Lined
<1> QED
  BY <1>6, <1>7, <1>8

\* Every step keeps the chains of awaits.
LEMMA ChainedStep ==
    Typed /\ ReadySpawned /\ Past /\ Arrived /\ Lined /\ Tracked /\ Chained /\ [Next]_vars
      => Chained'
<1> SUFFICES ASSUME Typed, ReadySpawned, Past, Arrived, Lined, Tracked, Chained, [Next]_vars
             PROVE  Chained'
  OBVIOUS
<1> USE SessionsOf
<1> SUFFICES ASSUME NEW u \in Turns, NEW v \in awaits'[u], pc'[u] = "interrupting"
             PROVE  /\ SessionOf[v] = SessionOf[u]
                    /\ pc'[v] # "absent"
                    /\ v \notin active'[SessionOf[v]]
                    /\ pc'[v] = "interrupting" => Before(v, u)'
                    /\ pc'[v] = "spawned" => v \in cancel'
  BY DEF Chained
<1>1. CASE Ordinary
  <2>1. pc[u] = "interrupting" /\ v \in awaits[u]
    BY <1>1 DEF Ordinary
  <2>2. v \in Turns
    BY <2>1 DEF Typed
  <2>3. /\ SessionOf[v] = SessionOf[u]
        /\ pc[v] # "absent"
        /\ v \notin active[SessionOf[v]]
        /\ pc[v] = "interrupting" => Before(v, u)
        /\ pc[v] = "spawned" => v \in cancel
    BY <2>1 DEF Chained
  <2> QED
    BY <1>1, <2>2, <2>3 DEF Ordinary
<1>2. CASE ~Ordinary
  <2> PICK t \in Turns : /\ pc[t] = "spawned" /\ t = ready[1] /\ 1 \in 1..Len(ready)
                         /\ Interrupt(t)
                         /\ UNCHANGED <<stopVars, arrivals>>
    BY <1>2, OrdinarySteps
  <2>1. /\ t \notin cancel /\ cancel \subseteq cancel'
        /\ pc' = [pc EXCEPT ![t] = "interrupting"]
        /\ awaits' = [awaits EXCEPT ![t] = Others(t)]
        /\ \A s \in Sessions : active'[s] \subseteq active[s]
        /\ \A a, b \in Turns : Before(a, b) <=> Before(a, b)'
    BY InterruptFacts
  <2>2. CASE u = t
    <3>1. v \in Others(t)
      BY <2>1, <2>2 DEF Typed
    <3>2. /\ v \in Turns /\ SessionOf[v] = SessionOf[t]
          /\ Unfinished(v) /\ pc'[v] = pc[v]
          /\ v \notin active'[SessionOf[v]]
          /\ pc[v] = "interrupting" => Before(v, t)
          /\ pc[v] = "spawned" => v \in cancel'
      BY <3>1, InterruptFacts
    <3> QED
      BY <2>1, <2>2, <3>2 DEF Unfinished
  <2>3. CASE u # t
    <3>1. pc[u] = "interrupting" /\ v \in awaits[u]
      BY <2>1, <2>3 DEF Typed
    <3>2. v \in Turns
      BY <3>1 DEF Typed
    <3>3. /\ SessionOf[v] = SessionOf[u]
          /\ pc[v] # "absent"
          /\ v \notin active[SessionOf[v]]
          /\ pc[v] = "interrupting" => Before(v, u)
          /\ pc[v] = "spawned" => v \in cancel
      BY <3>1 DEF Chained
    <3>4. v # t
      BY <2>1, <3>3
    <3>5. pc'[v] = pc[v]
      BY <2>1, <3>2, <3>4 DEF Typed
    <3> QED
      BY <2>1, <3>2, <3>3, <3>5
  <2> QED
    BY <2>2, <2>3
<1> QED
  BY <1>1, <1>2

\* A step that starts neither an interruption nor a stop.
LEMMA AimedKept ==
    ASSUME Typed, Past, Aimed, Ordinary, UNCHANGED <<targets, aimed>>,
           \A x \in Stops : stop'[x] = "waiting" => stop[x] = "waiting"
    PROVE  Aimed'
<1> USE SessionsOf
<1>0. \A x \in Stops : aimed[x] \subseteq Turns
  BY DEF Past
<1>1. ASSUME NEW x \in Stops, NEW t \in aimed'[x]
      PROVE  /\ SessionOf[t] = SessionOf[x]
             /\ pc'[t] # "absent"
             /\ t \notin active'[SessionOf[t]]
             /\ pc'[t] = "spawned" => t \in cancel'
  <2>1. t \in Turns /\ t \in aimed[x]
    BY <1>0
  <2> QED
    BY <2>1 DEF Aimed, Ordinary
<1>2. ASSUME NEW x \in Stops, NEW u \in Turns, NEW v \in awaits'[u], pc'[u] = "interrupting"
      PROVE  /\ v \in aimed'[x] => u \in aimed'[x]
             /\ u \in aimed'[x] => v \in aimed'[x] \/ pc'[v] = "done"
  <2>1. pc[u] = "interrupting" /\ v \in awaits[u]
    BY <1>2 DEF Ordinary
  <2>2. v \in Turns
    BY <2>1 DEF Typed
  <2> QED
    BY <2>1, <2>2 DEF Aimed, Ordinary
<1>3. \A x \in Stops : stop'[x] = "waiting" => targets'[x] \subseteq aimed'[x]
  BY DEF Aimed
<1> QED
  BY <1>1, <1>2, <1>3 DEF Aimed

\* An interrupting turn takes nobody that a stop has found.
LEMMA AimedInterrupt ==
    ASSUME Typed, Past, Lined, Tracked, Aimed, NEW t \in Turns, pc[t] = "spawned",
           t = ready[1], 1 \in 1..Len(ready), Interrupt(t), UNCHANGED <<stopVars, arrivals>>
    PROVE  Aimed'
<1> USE SessionsOf
<1>0. \A x \in Stops : aimed[x] \subseteq Turns
  BY DEF Past
<1>1. /\ t \notin cancel /\ cancel \subseteq cancel'
      /\ pc' = [pc EXCEPT ![t] = "interrupting"]
      /\ awaits' = [awaits EXCEPT ![t] = Others(t)]
      /\ \A s \in Sessions : active'[s] \subseteq active[s]
      /\ UNCHANGED <<stop, targets, aimed>>
  BY InterruptFacts DEF stopVars
<1>2. ASSUME NEW x \in Stops, NEW u \in aimed'[x]
      PROVE  /\ SessionOf[u] = SessionOf[x]
             /\ pc'[u] # "absent"
             /\ u \notin active'[SessionOf[u]]
             /\ pc'[u] = "spawned" => u \in cancel'
  <2>1. u \in Turns /\ u \in aimed[x]
    BY <1>0, <1>1
  <2>2. /\ SessionOf[u] = SessionOf[x] /\ pc[u] # "absent" /\ u \notin active[SessionOf[u]]
        /\ pc[u] = "spawned" => u \in cancel
    BY <2>1 DEF Aimed
  <2> QED
    BY <1>1, <2>1, <2>2 DEF Typed
<1>3. ASSUME NEW x \in Stops, NEW u \in Turns, NEW v \in awaits'[u], pc'[u] = "interrupting"
      PROVE  /\ v \in aimed'[x] => u \in aimed'[x]
             /\ u \in aimed'[x] => v \in aimed'[x] \/ pc'[v] = "done"
  <2>1. CASE u = t
    <3>1. v \in Others(t)
      BY <1>1, <2>1 DEF Typed
    <3>2. v \in Turns /\ SessionOf[v] = SessionOf[t] /\ v \in active[SessionOf[t]]
      BY <3>1, InterruptFacts
    <3>3. v \notin aimed[x] /\ t \notin aimed[x]
      BY <1>1, <3>2 DEF Aimed
    <3> QED
      BY <1>1, <2>1, <3>3
  <2>2. CASE u # t
    <3>1. pc[u] = "interrupting" /\ v \in awaits[u]
      BY <1>1, <1>3, <2>2 DEF Typed
    <3>2. v \in Turns /\ (pc[v] = "done" => pc'[v] = "done")
      BY <1>1, <3>1 DEF Typed
    <3> QED
      BY <1>1, <3>1, <3>2 DEF Aimed
  <2> QED
    BY <2>1, <2>2
<1>4. \A x \in Stops : stop'[x] = "waiting" => targets'[x] \subseteq aimed'[x]
  BY <1>1 DEF Aimed
<1> QED
  BY <1>2, <1>3, <1>4 DEF Aimed

\* A stop finds every unfinished turn of its session, even those that a
\* correction or an earlier stop had taken out of _active_tasks.
LEMMA AimedStop ==
    ASSUME Typed, Past, Tracked, NobodyLost, Chained, Aimed, NEW x \in Stops, Stop(x)
    PROVE  Aimed'
<1> USE SessionsOf
<1> DEFINE s == SessionOf[x]
<1>0. /\ \A y \in Stops : aimed[y] \subseteq Turns /\ targets[y] \subseteq Turns
      /\ active[s] \in SUBSET Turns
  BY DEF Past, Typed
<1>1. /\ pc' = pc /\ awaits' = awaits
      /\ cancel' = Deliver(active[s]) /\ cancel \subseteq cancel'
      /\ active'[s] = {} /\ \A r \in Sessions : active'[r] \subseteq active[r]
  BY <1>0, DeliverHits DEF Stop, Typed
<1>2. aimed'[x] = {t \in Turns : SessionOf[t] = s /\ Unfinished(t)}
  BY DEF Stop, Past
<1>3. targets'[x] = active[s]
  BY DEF Stop, StopTargets, Typed
<1>4. \A y \in Stops \ {x} : aimed'[y] = aimed[y] /\ targets'[y] = targets[y] /\ stop'[y] = stop[y]
  BY DEF Stop, Past, Typed
<1>5. ASSUME NEW t \in Turns, pc[t] = "spawned", SessionOf[t] = s PROVE t \in cancel'
  <2>1. CASE t \in active[s]
    BY <1>0, <1>1, <1>5, <2>1, DeliverHits
  <2>2. ASSUME NEW u \in Turns, pc[u] = "interrupting", t \in awaits[u] PROVE t \in cancel'
    BY <1>1, <1>5, <2>2 DEF Chained
  <2>3. ASSUME NEW y \in Stops, stop[y] = "waiting", t \in targets[y] PROVE t \in cancel'
    BY <1>1, <1>5, <2>3 DEF Aimed
  <2> QED
    BY <1>5, <2>1, <2>2, <2>3 DEF NobodyLost, Unfinished
<1>6. ASSUME NEW y \in Stops, NEW t \in aimed'[y]
      PROVE  /\ SessionOf[t] = SessionOf[y]
             /\ pc'[t] # "absent"
             /\ t \notin active'[SessionOf[t]]
             /\ pc'[t] = "spawned" => t \in cancel'
  <2>1. CASE y = x
    <3>1. t \in Turns /\ SessionOf[t] = s /\ pc[t] # "absent"
      BY <1>2, <2>1 DEF Unfinished
    <3> QED
      BY <1>1, <1>5, <2>1, <3>1
  <2>2. CASE y # x
    <3>1. t \in Turns /\ t \in aimed[y]
      BY <1>0, <1>4, <2>2
    <3> QED
      BY <1>1, <3>1 DEF Aimed
  <2> QED
    BY <2>1, <2>2
<1>7. ASSUME NEW y \in Stops, NEW u \in Turns, NEW v \in awaits'[u], pc'[u] = "interrupting"
      PROVE  /\ v \in aimed'[y] => u \in aimed'[y]
             /\ u \in aimed'[y] => v \in aimed'[y] \/ pc'[v] = "done"
  <2>1. pc[u] = "interrupting" /\ v \in awaits[u]
    BY <1>1, <1>7
  <2>2. v \in Turns /\ SessionOf[v] = SessionOf[u] /\ pc[v] # "absent"
    BY <2>1 DEF Typed, Chained
  <2>3. CASE y = x
    BY <1>1, <1>2, <2>1, <2>2, <2>3 DEF Unfinished
  <2>4. CASE y # x
    BY <1>1, <1>4, <2>1, <2>4 DEF Aimed
  <2> QED
    BY <2>3, <2>4
<1>8. ASSUME NEW y \in Stops, stop'[y] = "waiting" PROVE targets'[y] \subseteq aimed'[y]
  <2>1. CASE y = x
    BY <1>0, <1>2, <1>3, <2>1 DEF Tracked
  <2>2. CASE y # x
    BY <1>4, <1>8, <2>2 DEF Aimed
  <2> QED
    BY <2>1, <2>2
<1> QED
  BY <1>6, <1>7, <1>8 DEF Aimed

\* Every step keeps what the stops have found.
LEMMA AimedStep ==
    /\ Typed /\ ReadySpawned /\ NobodyLost /\ Past /\ Arrived /\ Lined
    /\ Tracked /\ Chained /\ Aimed /\ [Next]_vars
    => Aimed'
<1> SUFFICES ASSUME Typed, ReadySpawned, NobodyLost, Past, Arrived, Lined,
                    Tracked, Chained, Aimed, [Next]_vars
             PROVE  Aimed'
  OBVIOUS
<1>1. ASSUME NEW x \in Stops, Stop(x) PROVE Aimed'
  BY <1>1, AimedStop
<1>2. CASE ~Ordinary
  BY <1>2, OrdinarySteps, AimedInterrupt
<1>3. ASSUME Ordinary, \A x \in Stops : ~Stop(x) PROVE Aimed'
  <2>1. ASSUME NEW x \in Stops, AnswerStop(x)
        PROVE  /\ UNCHANGED <<targets, aimed>>
               /\ \A y \in Stops : stop'[y] = "waiting" => stop[y] = "waiting"
    BY <2>1 DEF AnswerStop, Typed
  <2>2. UNCHANGED stopVars \/ \E x \in Stops : AnswerStop(x)
    BY <1>3, StepCases, StartFacts, ResumeFacts, MoveFacts DEF Arrive, Direct, vars
  <2>3. UNCHANGED <<targets, aimed>> /\ \A y \in Stops : stop'[y] = "waiting" => stop[y] = "waiting"
    BY <2>1, <2>2 DEF stopVars
  <2> QED
    BY <1>3, <2>3, AimedKept
<1> QED
  BY <1>1, <1>2, <1>3

-----------------------------------------------------------------------------
(* An answered stop *)

\* A turn that a stop found and that has not ended is awaited by a waiting
\* stop, or by an interrupting turn that the stop found too.
LEMMA AimedAwaited ==
    ASSUME Typed, Past, NobodyLost, Aimed, NEW x \in Stops, NEW t \in aimed[x], Unfinished(t),
           \A y \in Stops : stop[y] = "waiting" => t \notin aimed[y]
    PROVE  \E u \in Turns : /\ pc[u] = "interrupting" /\ t \in awaits[u] /\ u \in aimed[x]
                            /\ \A y \in Stops : stop[y] = "waiting" => u \notin aimed[y]
<1>1. t \in Turns /\ t \notin active[SessionOf[t]] /\ pc[t] # "done"
  BY DEF Past, Aimed, Unfinished
<1>2. \A y \in Stops : stop[y] = "waiting" => t \notin targets[y]
  BY DEF Aimed
<1>3. PICK u \in Turns : pc[u] = "interrupting" /\ t \in awaits[u]
  BY <1>1, <1>2 DEF NobodyLost
<1>4. u \in aimed[x]
  BY <1>3 DEF Aimed
<1>5. \A y \in Stops : stop[y] = "waiting" => u \notin aimed[y]
  BY <1>1, <1>3 DEF Aimed
<1> QED
  BY <1>3, <1>4, <1>5

\* The chain of awaits from a turn that a stop found leads to a waiting stop:
\* each interrupter arrived after those it awaits, and there is a last one.
LEMMA AimedCovered ==
    ASSUME Typed, Past, Arrived, NobodyLost, Chained, Aimed,
           NEW x \in Stops, NEW t \in aimed[x], Unfinished(t)
    PROVE  \E y \in Stops : stop[y] = "waiting" /\ t \in aimed[y]
<1> DEFINE Orphan(u) == /\ pc[u] = "interrupting" /\ u \in aimed[x]
                        /\ \A y \in Stops : stop[y] = "waiting" => u \notin aimed[y]
           I == {i \in 1..Len(arrivals) : Orphan(arrivals[i])}
<1> SUFFICES ASSUME \A y \in Stops : stop[y] = "waiting" => t \notin aimed[y] PROVE FALSE
  OBVIOUS
<1>1. /\ DOMAIN arrivals = 1..Len(arrivals) /\ Len(arrivals) \in Nat
      /\ \A i \in 1..Len(arrivals) : arrivals[i] \in Turns
  BY DEF Past
<1>2. \A u \in Turns : Orphan(u) => \E i \in I : arrivals[i] = u
  BY DEF Arrived
<1>3. I # {}
  BY <1>2, AimedAwaited
<1>4. PICK i \in I : \A j \in I : j <= i
  <2>1. I \in SUBSET (1..Len(arrivals))
    OBVIOUS
  <2> HIDE DEF I
  <2> QED
    BY <1>1, <1>3, <2>1, LastPosition
<1>5. Orphan(arrivals[i]) /\ arrivals[i] \in Turns
  BY <1>1
<1>6. PICK u \in Turns : Orphan(u) /\ arrivals[i] \in awaits[u]
  BY <1>5, AimedAwaited DEF Unfinished
<1>7. Before(arrivals[i], u)
  BY <1>5, <1>6 DEF Chained
<1>8. PICK k \in 1..Len(arrivals), l \in 1..Len(arrivals) :
         k < l /\ arrivals[k] = arrivals[i] /\ arrivals[l] = u
  BY <1>1, <1>7 DEF Before
<1>9. k = i /\ l \in I
  BY <1>6, <1>8 DEF Arrived
<1> HIDE DEF Orphan, I
<1>10. l <= i /\ i < l /\ i \in Int /\ l \in Int
  BY <1>4, <1>8, <1>9
<1> QED
  BY <1>10

StopsInv ==
    /\ Typed /\ ReadySpawned /\ NobodyLost /\ Past /\ Arrived /\ Lined
    /\ Tracked /\ Chained /\ Aimed

LEMMA InitStops == Init => StopsInv
<1> SUFFICES ASSUME Init PROVE StopsInv
  OBVIOUS
<1>1. /\ arrivals = <<>> /\ ready = <<>>
      /\ \A t \in Turns : pc[t] = "absent"
      /\ \A s \in Sessions : active[s] = {}
      /\ \A x \in Stops : aimed[x] = {} /\ stop[x] = "absent"
      /\ aimed \in [Stops -> SUBSET Turns]
  BY DEF Init
<1>2. Past /\ Arrived
  BY <1>1 DEF Past, Arrived
<1>3. Lined
  BY <1>1, TurnsAssumption DEF Lined
<1>4. Tracked /\ Chained /\ Aimed
  BY <1>1 DEF Tracked, Chained, Aimed
<1> QED
  BY <1>2, <1>3, <1>4, InitTyped DEF StopsInv

LEMMA StopsStep == StopsInv /\ [Next]_vars => StopsInv'
  BY TypedStep, ReadyStep, NobodyLostStep, PastStep, ArrivedStep, LinedStep,
     TrackedStep, ChainedStep, AimedStep
  DEF StopsInv

\* An answered stop leaves no turn of those it found in the session alive,
\* unless another stop still awaits it, however many corrections and stops cut
\* in on each other: _handle_stop awaits every task it pops, and a correction
\* that is itself cancelled goes on awaiting those it popped.
THEOREM StopsLeaveNothing == Spec => []StopLeavesNothing
<1>1. StopsInv => StopLeavesNothing
  BY AimedCovered DEF StopsInv, StopLeavesNothing
<1> QED
  BY <1>1, InitStops, StopsStep, PTL DEF Spec

-----------------------------------------------------------------------------
(* The queue of a lock *)

\* The turns in the queue are those that wait, each once.
Waits ==
    /\ \A t \in Turns : pc[t] = "waiting" => \E i \in 1..Len(waiters) : waiters[i] = t
    /\ \A i \in 1..Len(waiters) : pc[waiters[i]] = "waiting"
    /\ \A i, j \in 1..Len(waiters) : i < j => waiters[i] # waiters[j]

\* A turn that asks for its lock and does not get it is appended.
LEMMA RequestWaits ==
    ASSUME Typed, Stored, Waits, NEW t \in Turns, RequestLock(t), pc[t] # "waiting"
    PROVE  Waits'
<1>1. \/ pc' = [pc EXCEPT ![t] = "running"] /\ waiters' = waiters
      \/ pc' = [pc EXCEPT ![t] = "waiting"] /\ waiters' = Append(waiters, t)
  BY DEF RequestLock
<1>2. Len(waiters) \in Nat /\ \A i \in 1..Len(waiters) : waiters[i] \in Turns /\ waiters[i] # t
  BY DEF Stored, Waits
<1>3. CASE pc' = [pc EXCEPT ![t] = "running"] /\ waiters' = waiters
  <2>1. \A i \in 1..Len(waiters) : pc'[waiters[i]] = "waiting"
    BY <1>2, <1>3 DEF Waits, Typed
  <2>2. \A u \in Turns : pc'[u] = "waiting" => pc[u] = "waiting"
    BY <1>3 DEF Typed
  <2> QED
    BY <1>2, <1>3, <2>1, <2>2 DEF Waits
<1>4. CASE pc' = [pc EXCEPT ![t] = "waiting"] /\ waiters' = Append(waiters, t)
  <2>1. /\ Len(waiters') = Len(waiters) + 1
        /\ \A i \in 1..Len(waiters) : waiters'[i] = waiters[i]
        /\ waiters'[Len(waiters')] = t
        /\ \A i \in 1..Len(waiters') : i \in 1..Len(waiters) \/ i = Len(waiters')
    BY <1>4 DEF Stored
  <2>2. ASSUME NEW u \in Turns, pc'[u] = "waiting" PROVE \E i \in 1..Len(waiters') : waiters'[i] = u
    <3>1. CASE u = t
      <4>1. Len(waiters') \in 1..Len(waiters')
        BY <1>2, <2>1
      <4> QED
        BY <2>1, <3>1, <4>1
    <3>2. CASE u # t
      <4>1. PICK i \in 1..Len(waiters) : waiters[i] = u
        BY <1>4, <2>2, <3>2 DEF Waits, Typed
      <4>2. i \in 1..Len(waiters')
        BY <1>2, <2>1
      <4> QED
        BY <2>1, <4>1, <4>2
    <3> QED
      BY <3>1, <3>2
  <2>3. \A i \in 1..Len(waiters') : pc'[waiters'[i]] = "waiting"
    <3>1. \A i \in 1..Len(waiters) : pc'[waiters[i]] = "waiting"
      BY <1>2, <1>4 DEF Waits, Typed
    <3>2. pc'[t] = "waiting"
      BY <1>4 DEF Typed
    <3> QED
      BY <2>1, <3>1, <3>2
  <2>4. ASSUME NEW i \in 1..Len(waiters'), NEW j \in 1..Len(waiters'), i < j
        PROVE  waiters'[i] # waiters'[j]
    <3>1. i \in 1..Len(waiters) /\ waiters'[i] = waiters[i]
      BY <1>2, <2>1, <2>4
    <3> QED
      BY <1>2, <2>1, <2>4, <3>1 DEF Waits
  <2> QED
    BY <2>2, <2>3, <2>4 DEF Waits
<1> QED
  BY <1>1, <1>3, <1>4

\* A turn that ends or takes the lock leaves the queue.
LEMMA DropLacks ==
    ASSUME Stored, Waits, NEW t \in Turns,
           waiters' = DropWaiter(t) \/ (pc[t] # "waiting" /\ waiters' = waiters)
    PROVE  Lacks(waiters, t, waiters')
<1>1. CASE waiters' = DropWaiter(t)
  <2>1. waiters' = Without(waiters, t) /\ waiters \in Seq(Turns)
    BY <1>1 DEF DropWaiter, Stored
  <2>2. \A i, j \in 1..Len(waiters) : i < j => waiters[i] # waiters[j]
    BY DEF Waits
  <2> QED
    BY <2>1, <2>2, WithoutOrder
<1>2. CASE pc[t] # "waiting" /\ waiters' = waiters
  <2>1. \A i \in 1..Len(waiters) : waiters[i] # t
    BY <1>2 DEF Waits
  <2> QED
    BY <1>2, <2>1 DEF Lacks
<1> QED
  BY <1>1, <1>2

LEMMA DropWaits ==
    ASSUME Typed, Stored, Waits, NEW t \in Turns, NEW p,
           pc' = [pc EXCEPT ![t] = p], p # "waiting",
           waiters' = DropWaiter(t) \/ (pc[t] # "waiting" /\ waiters' = waiters)
    PROVE  Waits'
<1>1. Lacks(waiters, t, waiters')
  BY DropLacks
<1>2. \A i \in 1..Len(waiters) : waiters[i] \in Turns
  BY DEF Stored
<1>3. ASSUME NEW u \in Turns, pc'[u] = "waiting" PROVE \E i \in 1..Len(waiters') : waiters'[i] = u
  <2>1. u # t /\ pc[u] = "waiting"
    BY <1>3 DEF Typed
  <2>2. PICK k \in 1..Len(waiters) : waiters[k] = u
    BY <2>1 DEF Waits
  <2> QED
    BY <1>1, <2>1, <2>2 DEF Lacks
<1>4. ASSUME NEW i \in 1..Len(waiters') PROVE pc'[waiters'[i]] = "waiting"
  <2>1. PICK k \in 1..Len(waiters) : waiters[k] = waiters'[i] /\ waiters'[i] # t
    BY <1>1 DEF Lacks
  <2> QED
    BY <1>2, <2>1 DEF Waits, Typed
<1>5. ASSUME NEW i \in 1..Len(waiters'), NEW j \in 1..Len(waiters'), i < j
      PROVE  waiters'[i] # waiters'[j]
  <2>1. PICK k \in 1..Len(waiters), l \in 1..Len(waiters) :
           k < l /\ waiters[k] = waiters'[i] /\ waiters[l] = waiters'[j]
    BY <1>1, <1>5 DEF Lacks
  <2> QED
    BY <2>1 DEF Waits
<1> QED
  BY <1>3, <1>4, <1>5 DEF Waits

\* Every step keeps the queue.
LEMMA WaitsStep == Typed /\ Stored /\ ReadySpawned /\ Waits /\ [Next]_vars => Waits'
<1> SUFFICES ASSUME Typed, Stored, ReadySpawned, Waits, [Next]_vars PROVE Waits'
  OBVIOUS
<1>1. ASSUME NEW t \in Turns, Arrive(t) PROVE Waits'
  <2>1. pc[t] = "absent" /\ pc' = [pc EXCEPT ![t] = "spawned"] /\ waiters' = waiters
    BY <1>1 DEF Arrive, lockVars
  <2> QED
    BY <2>1, DropWaits
<1>2. ASSUME NEW t \in Turns, Direct(t) PROVE Waits'
  BY <1>2, RequestWaits DEF Direct
<1>3. CASE Start
  <2> PICK t \in Turns : /\ pc[t] = "spawned"
                         /\ NeverRun(t) \/ Interrupt(t) \/ DispatchAtOnce(t)
    BY <1>3, StartFacts
  <2>1. CASE NeverRun(t)
    <3>1. pc' = [pc EXCEPT ![t] = "done"] /\ waiters' = waiters
      BY <2>1 DEF NeverRun, lockVars
    <3> QED
      BY <3>1, DropWaits
  <2>2. CASE Interrupt(t)
    <3>1. pc' = [pc EXCEPT ![t] = "interrupting"] /\ waiters' = waiters
      BY <2>2 DEF Interrupt, lockVars
    <3> QED
      BY <3>1, DropWaits
  <2>3. CASE DispatchAtOnce(t)
    BY <2>3, RequestWaits DEF DispatchAtOnce, Dispatch
  <2> QED
    BY <2>1, <2>2, <2>3
<1>4. ASSUME NEW t \in Turns, Resume(t) PROVE Waits'
  <2>1. pc[t] = "interrupting" /\ (Dispatch(t) \/ (pc' = pc /\ waiters' = waiters))
    BY <1>4 DEF Resume, lockVars
  <2>2. CASE Dispatch(t)
    BY <2>1, <2>2, RequestWaits DEF Dispatch
  <2>3. CASE pc' = pc /\ waiters' = waiters
    BY <2>3 DEF Waits
  <2> QED
    BY <2>1, <2>2, <2>3
<1>5. ASSUME NEW t \in Turns, Moves(t) PROVE Waits'
  <2>1. \E p \in {"running", "ending", "done"} : pc' = [pc EXCEPT ![t] = p]
    BY <1>5, MoveFacts
  <2>2. waiters' = DropWaiter(t) \/ (pc[t] # "waiting" /\ waiters' = waiters)
    BY <1>5 DEF Moves, Acquire, Conclude, Err, Close, Cancelled, lockVars
  <2> QED
    BY <2>1, <2>2, DropWaits
<1>6. ASSUME NEW x \in Stops, Stop(x) \/ AnswerStop(x) PROVE Waits'
  <2>1. pc' = pc /\ waiters' = waiters
    BY <1>6 DEF Stop, AnswerStop, turnVars, lockVars
  <2> QED
    BY <2>1 DEF Waits
<1>7. CASE UNCHANGED vars
  BY <1>7 DEF vars, turnVars, lockVars, Waits
<1> QED
  BY <1>1, <1>2, <1>3, <1>4, <1>5, <1>6, <1>7, StepCases

-----------------------------------------------------------------------------
(* No session is stuck *)

\* Turn t can go on by itself or with the event loop's next steps: its task is
\* in line to be started, it holds its lock, the turn it awaits is over, or it
\* is cancelled in the queue of a lock or first in the queue of a free one.
CanMove(t) ==
    \/ pc[t] = "spawned" /\ \E i \in 1..Len(ready) : ready[i] = t
    \/ InTurn(t)
    \/ pc[t] = "interrupting" /\ pc[First(awaits[t])] = "done"
    \/ pc[t] = "waiting" /\ t \in cancel
    \/ /\ pc[t] = "waiting" /\ ~Locked(lock[t])
       /\ \E i \in 1..Len(waiters) :
             waiters[i] = t /\ \A j \in 1..(i - 1) : lock[waiters[j]] # lock[t]

\* As long as a session has work, or a stop of it waits for work, some turn of
\* it can move: no corrections, stops and lock waiters wait for each other in a
\* circle, nor for a turn of another session or for one that is gone.
NobodyStuck ==
    /\ \A t \in Turns : Unfinished(t) =>
          \E u \in Turns : SessionOf[u] = SessionOf[t] /\ CanMove(u)
    /\ \A x \in Stops : stop[x] = "waiting" =>
          \/ \A t \in targets[x] : pc[t] = "done"
          \/ \E u \in Turns : SessionOf[u] = SessionOf[x] /\ CanMove(u)

\* A session's lock was made by a turn of the session, and a turn is at such a
\* lock.
OwnLocks ==
    /\ \A s \in Sessions : lockOf[s] # None => SessionOf[lockOf[s]] = s
    /\ \A t \in Turns : pc[t] \in {"waiting", "running", "ending"} =>
          lock[t] # None /\ SessionOf[lock[t]] = SessionOf[t]

\* An interrupting turn awaits somebody.
Awaiting == \A t \in Turns : pc[t] = "interrupting" => awaits[t] # {}

LEMMA RequestOwn ==
    ASSUME TableInv, OwnLocks, NEW t \in Turns, RequestLock(t)
    PROVE  OwnLocks'
<1> USE SessionsOf
<1> DEFINE s    == SessionOf[t]
           mine == TableFor(t).table[s]
<1>0. /\ Typed /\ Stored /\ Listed /\ pc \in [Turns -> Phases]
      /\ lock \in [Turns -> Turns \union {None}]
  BY DEF TableInv, Typed, Stored
<1>1. /\ EvictsIdle(s, TableFor(t))
      /\ mine = IF lockOf[s] = None THEN t ELSE lockOf[s]
  BY <1>0, TableFacts
<1>2. lockOf' = TableFor(t).table /\ lock' = [lock EXCEPT ![t] = mine]
  BY DEF RequestLock
<1>3. PICK p \in {"running", "waiting"} : pc' = [pc EXCEPT ![t] = p]
  BY DEF RequestLock
<1>4. mine # None /\ SessionOf[mine] = s
  BY <1>1, TurnsAssumption DEF OwnLocks
<1>5. lockOf'[s] = mine /\ \A r \in Sessions \ {s} : lockOf'[r] = lockOf[r] \/ lockOf'[r] = None
  BY <1>1, <1>2 DEF EvictsIdle
<1> HIDE DEF mine
<1>6. \A r \in Sessions : lockOf'[r] # None => SessionOf[lockOf'[r]] = r
  BY <1>4, <1>5 DEF OwnLocks
<1>7. \A u \in Turns : pc'[u] \in {"waiting", "running", "ending"} =>
         lock'[u] # None /\ SessionOf[lock'[u]] = SessionOf[u]
  BY <1>0, <1>2, <1>3, <1>4 DEF OwnLocks
<1> QED
  BY <1>6, <1>7 DEF OwnLocks

\* Every step keeps each session at its own locks.
LEMMA OwnStep == TableInv /\ ReadySpawned /\ OwnLocks /\ [Next]_vars => OwnLocks'
<1> SUFFICES ASSUME TableInv, ReadySpawned, OwnLocks, [Next]_vars PROVE OwnLocks'
  OBVIOUS
<1>0. Typed
  BY DEF TableInv
<1>1. ASSUME NEW t \in Turns, Arrive(t) PROVE OwnLocks'
  BY <1>0, <1>1 DEF Arrive, lockVars, OwnLocks, Typed
<1>2. ASSUME NEW t \in Turns, Direct(t) PROVE OwnLocks'
  BY <1>2, RequestOwn DEF Direct
<1>3. CASE Start
  <2> PICK t \in Turns : NeverRun(t) \/ Interrupt(t) \/ DispatchAtOnce(t)
    BY <1>0, <1>3, StartFacts
  <2>1. CASE NeverRun(t) \/ Interrupt(t)
    BY <1>0, <2>1 DEF NeverRun, Interrupt, lockVars, OwnLocks, Typed
  <2>2. CASE DispatchAtOnce(t)
    BY <2>2, RequestOwn DEF DispatchAtOnce, Dispatch
  <2> QED
    BY <2>1, <2>2
<1>4. ASSUME NEW t \in Turns, Resume(t) PROVE OwnLocks'
  <2>1. Dispatch(t) \/ UNCHANGED <<pc, lockOf, lock>>
    BY <1>4 DEF Resume, lockVars
  <2> QED
    BY <2>1, RequestOwn DEF Dispatch, OwnLocks
<1>5. ASSUME NEW t \in Turns, Moves(t) PROVE OwnLocks'
  <2>1. /\ pc[t] \in {"waiting", "running", "ending"}
        /\ \E p \in {"running", "ending", "done"} : pc' = [pc EXCEPT ![t] = p]
    BY <1>0, <1>5, MoveFacts
  <2>2. UNCHANGED <<lockOf, lock>>
    BY <1>5 DEF Moves, Acquire, Conclude, Err, Close, Cancelled, lockVars
  <2> QED
    BY <1>0, <2>1, <2>2 DEF OwnLocks, Typed
<1>6. ASSUME NEW x \in Stops, Stop(x) \/ AnswerStop(x) PROVE OwnLocks'
  <2>1. UNCHANGED <<pc, lockOf, lock>>
    BY <1>6 DEF Stop, AnswerStop, turnVars, lockVars
  <2> QED
    BY <2>1 DEF OwnLocks
<1>7. CASE UNCHANGED vars
  BY <1>7 DEF vars, turnVars, lockVars, OwnLocks
<1> QED
  BY <1>1, <1>2, <1>3, <1>4, <1>5, <1>6, <1>7, StepCases

\* Who interrupts has turns to await, until it asks for the lock.
LEMMA AwaitingStep ==
    Typed /\ ReadySpawned /\ Awaiting /\ [Next]_vars => Awaiting'
<1> SUFFICES ASSUME Typed, ReadySpawned, Awaiting, [Next]_vars PROVE Awaiting'
  OBVIOUS
<1>1. ASSUME NEW t \in Turns, Arrive(t) \/ Direct(t) PROVE Awaiting'
  <2>1. awaits' = awaits
    BY <1>1 DEF Arrive, Direct
  <2>2. \E p \in {"spawned", "running", "waiting"} : pc' = [pc EXCEPT ![t] = p]
    BY <1>1, RequestPhase DEF Arrive, Direct
  <2> QED
    BY <2>1, <2>2 DEF Awaiting, Typed
<1>2. CASE Start
  <2> PICK t \in Turns : NeverRun(t) \/ Interrupt(t) \/ DispatchAtOnce(t)
    BY <1>2, StartFacts
  <2>1. CASE NeverRun(t)
    BY <2>1 DEF NeverRun, Awaiting, Typed
  <2>2. CASE Interrupt(t)
    BY <2>2 DEF Interrupt, Awaiting, Typed
  <2>3. CASE DispatchAtOnce(t)
    BY <2>3, RequestPhase DEF DispatchAtOnce, Dispatch, Awaiting, Typed
  <2> QED
    BY <2>1, <2>2, <2>3
<1>3. ASSUME NEW t \in Turns, Resume(t) PROVE Awaiting'
  <2>1. CASE Dispatch(t)
    BY <2>1, RequestPhase DEF Dispatch, Awaiting, Typed
  <2>2. CASE ~Dispatch(t)
    <3>1. /\ {u \in awaits[t] : Unfinished(u)} # {}
          /\ awaits' = [awaits EXCEPT ![t] = {u \in awaits[t] : Unfinished(u)}] /\ pc' = pc
      BY <1>3, <2>2 DEF Resume
    <3> QED
      BY <3>1 DEF Awaiting, Typed
  <2> QED
    BY <2>1, <2>2
<1>4. ASSUME NEW t \in Turns, Moves(t) PROVE Awaiting'
  BY <1>4, MoveFacts DEF Awaiting, Typed
<1>5. ASSUME NEW x \in Stops, Stop(x) \/ AnswerStop(x) PROVE Awaiting'
  BY <1>5, StopFacts DEF Awaiting
<1>6. CASE UNCHANGED vars
  BY <1>6 DEF vars, turnVars, Awaiting
<1> QED
  BY <1>1, <1>2, <1>3, <1>4, <1>5, <1>6, StepCases

\* A set of positions in a sequence has a first one.
LEMMA FirstPosition ==
    ASSUME NEW n \in Nat, NEW I \in SUBSET (1..n), I # {}
    PROVE  \E i \in I : \A j \in I : i <= j
<1> DEFINE J == {k \in 1..n : n + 1 - k \in I}
<1>1. \A i \in I : i \in 1..n /\ n + 1 - i \in 1..n /\ n + 1 - (n + 1 - i) = i
  OBVIOUS
<1>2. J \in SUBSET (1..n) /\ J # {} /\ \A i \in I : n + 1 - i \in J
  BY <1>1
<1>3. PICK k \in J : \A l \in J : l <= k
  <2> HIDE DEF J
  <2> QED
    BY <1>2, LastPosition
<1>4. k \in 1..n /\ n + 1 - k \in I /\ \A i \in I : n + 1 - i <= k
  BY <1>2, <1>3
<1>5. \A i \in I : n + 1 - k <= i
  BY <1>1, <1>4
<1> QED
  BY <1>4, <1>5

\* Of some turns that have arrived one was the first.
LEMMA FirstFacts ==
    ASSUME Past, Arrived, NEW ts \in SUBSET Turns, ts # {}, \A t \in ts : pc[t] # "absent"
    PROVE  First(ts) \in ts /\ \A u \in ts \ {First(ts)} : Before(First(ts), u)
<1> DEFINE I == {i \in 1..Len(arrivals) : arrivals[i] \in ts}
<1>1. DOMAIN arrivals = 1..Len(arrivals) /\ Len(arrivals) \in Nat
  BY DEF Past
<1>2. \A t \in ts : \E i \in 1..Len(arrivals) : arrivals[i] = t
  BY DEF Arrived
<1>3. I \in SUBSET (1..Len(arrivals)) /\ I # {}
  BY <1>2
<1>4. PICK i \in I : \A j \in I : i <= j
  <2> HIDE DEF I
  <2> QED
    BY <1>1, <1>3, FirstPosition
<1>5. ASSUME NEW u \in ts \ {arrivals[i]} PROVE Before(arrivals[i], u)
  <2>1. PICK j \in 1..Len(arrivals) : arrivals[j] = u
    BY <1>2
  <2>2. j \in I /\ j # i
    BY <1>5, <2>1
  <2>3. i < j
    BY <1>1, <1>4, <2>2
  <2> QED
    BY <1>1, <2>1, <2>3 DEF Before
<1>6. \E t \in ts : \A u \in ts \ {t} : Before(t, u)
  BY <1>5
<1> QED
  BY <1>6 DEF First

\* Where a turn waits for a lock, some turn of the session can move: the one
\* that holds the lock, or the first in its queue.
LEMMA QueueMoves ==
    ASSUME TableInv, Waits, OwnLocks, NEW t \in Turns, pc[t] = "waiting"
    PROVE  \E u \in Turns : SessionOf[u] = SessionOf[t] /\ CanMove(u)
<1>1. CASE Locked(lock[t])
  <2>1. PICK u \in Turns : lock[u] = lock[t] /\ InTurn(u)
    BY <1>1 DEF Locked
  <2>2. SessionOf[u] = SessionOf[t]
    BY <2>1 DEF OwnLocks, InTurn
  <2> QED
    BY <2>1, <2>2 DEF CanMove
<1>2. CASE ~Locked(lock[t])
  <2> DEFINE I == {i \in 1..Len(waiters) : lock[waiters[i]] = lock[t]}
  <2>1. Len(waiters) \in Nat /\ \A i \in 1..Len(waiters) : waiters[i] \in Turns
    BY DEF TableInv, Stored
  <2>2. I \in SUBSET (1..Len(waiters)) /\ I # {}
    BY DEF Waits
  <2>3. PICK i \in I : \A j \in I : i <= j
    <3> HIDE DEF I
    <3> QED
      BY <2>1, <2>2, FirstPosition
  <2>4. /\ i \in 1..Len(waiters) /\ waiters[i] \in Turns
        /\ lock[waiters[i]] = lock[t] /\ pc[waiters[i]] = "waiting"
    BY <2>1, <2>3 DEF Waits
  <2>5. SessionOf[waiters[i]] = SessionOf[t]
    BY <2>4 DEF OwnLocks
  <2>6. \A j \in 1..(i - 1) : lock[waiters[j]] # lock[t]
    <3>1. \A j \in 1..(i - 1) : j \in 1..Len(waiters) /\ ~(i <= j)
      BY <2>1, <2>4
    <3> QED
      BY <2>3, <3>1
  <2>7. CanMove(waiters[i])
    BY <1>2, <2>4, <2>6 DEF CanMove
  <2> QED
    BY <2>4, <2>5, <2>7
<1> QED
  BY <1>1, <1>2

LivelyInv == StopsInv /\ TableInv /\ Waits /\ OwnLocks /\ Awaiting

\* Where turns interrupt, the first of them awaits one that is over or does not
\* interrupt.
LEMMA SomeoneMoves ==
    ASSUME LivelyInv, NEW t \in Turns, Unfinished(t)
    PROVE  \E u \in Turns : SessionOf[u] = SessionOf[t] /\ CanMove(u)
<1> DEFINE Moving(v) == \E u \in Turns : SessionOf[u] = SessionOf[v] /\ CanMove(u)
<1>0. /\ Typed /\ Past /\ Arrived /\ Lined /\ Chained /\ Awaiting /\ TableInv /\ Waits /\ OwnLocks
      /\ pc \in [Turns -> Phases] /\ awaits \in [Turns -> SUBSET Turns]
  BY DEF LivelyInv, StopsInv, Typed
<1>1. ASSUME NEW v \in Turns, pc[v] \notin {"absent", "done", "interrupting"} PROVE Moving(v)
  <2>1. CASE pc[v] = "spawned"
    BY <1>0, <2>1 DEF Lined, CanMove
  <2>2. CASE InTurn(v)
    BY <2>2 DEF CanMove
  <2>3. CASE pc[v] = "waiting"
    BY <1>0, <2>3, QueueMoves
  <2> QED
    BY <1>0, <1>1, <2>1, <2>2, <2>3 DEF Phases, InTurn
<1>2. CASE pc[t] = "interrupting"
  <2> DEFINE cut == {v \in Turns : pc[v] = "interrupting" /\ SessionOf[v] = SessionOf[t]}
             v   == First(cut)
             w   == First(awaits[v])
  <2>1. v \in cut /\ \A u \in cut \ {v} : Before(v, u)
    <3>1. cut \in SUBSET Turns /\ cut # {} /\ \A u \in cut : pc[u] # "absent"
      BY <1>2
    <3> HIDE DEF cut
    <3> QED
      BY <1>0, <3>1, FirstFacts
  <2>2. v \in Turns /\ pc[v] = "interrupting" /\ SessionOf[v] = SessionOf[t]
    BY <2>1
  <2> HIDE DEF v
  <2>3. awaits[v] \in SUBSET Turns /\ awaits[v] # {} /\ \A u \in awaits[v] : pc[u] # "absent"
    BY <1>0, <2>2 DEF Chained, Awaiting
  <2>4. w \in awaits[v]
    BY <1>0, <2>3, FirstFacts
  <2>5. CASE pc[w] = "done"
    BY <2>2, <2>5 DEF CanMove
  <2> HIDE DEF w
  <2>6. w \in Turns /\ pc[w] # "absent" /\ SessionOf[w] = SessionOf[t]
    BY <1>0, <2>2, <2>3, <2>4 DEF Chained
  <2>7. pc[w] # "interrupting"
    <3> SUFFICES ASSUME pc[w] = "interrupting" PROVE FALSE
      OBVIOUS
    <3>1. Before(w, v)
      BY <1>0, <2>2, <2>4 DEF Chained
    <3>2. w # v /\ ~Before(v, w)
      BY <1>0, <2>2, <2>6, <3>1, BeforeOneWay
    <3>3. w \in cut
      BY <2>6
    <3> QED
      BY <2>1, <3>2, <3>3
  <2> QED
    BY <1>1, <2>5, <2>6, <2>7
<1>3. CASE pc[t] # "interrupting"
  BY <1>1, <1>3 DEF Unfinished
<1> QED
  BY <1>2, <1>3

LEMMA InitLively == Init => LivelyInv
<1> SUFFICES ASSUME Init PROVE LivelyInv
  OBVIOUS
<1>1. Waits /\ OwnLocks /\ Awaiting
  BY DEF Init, Waits, OwnLocks, Awaiting
<1> QED
  BY <1>1, InitStops, InitTable DEF LivelyInv

LEMMA LivelyStep == LivelyInv /\ [Next]_vars => LivelyInv'
  BY StopsStep, TableStep, WaitsStep, OwnStep, AwaitingStep DEF LivelyInv, StopsInv, TableInv

\* The waits of a session are never circular, however many corrections, stops
\* and turns there are and whatever the lock table evicts: `await task` of
\* _cancel_session_work leads to earlier interrupters only, and the queue of a
\* lock to turns of the session that are still there.
THEOREM SessionsNeverStuck == Spec => []NobodyStuck
<1>1. LivelyInv => NobodyStuck
  <2> SUFFICES ASSUME LivelyInv PROVE NobodyStuck
    OBVIOUS
  <2>1. ASSUME NEW x \in Stops, stop[x] = "waiting", NEW t \in targets[x], pc[t] # "done"
        PROVE  \E u \in Turns : SessionOf[u] = SessionOf[x] /\ CanMove(u)
    <3>1. t \in aimed[x] /\ t \in Turns
      BY <2>1 DEF LivelyInv, StopsInv, Aimed, Past
    <3>2. SessionOf[t] = SessionOf[x] /\ Unfinished(t)
      BY <2>1, <3>1 DEF LivelyInv, StopsInv, Aimed, Unfinished
    <3> QED
      BY <3>1, <3>2, SomeoneMoves
  <2> QED
    BY <2>1, SomeoneMoves DEF NobodyStuck
<1> QED
  BY <1>1, InitLively, LivelyStep, PTL DEF Spec

-----------------------------------------------------------------------------
(* No message interrupts the work of its session *)

NoCorrections == Corrections = {}

\* Then no turn awaits another, ...
Calm == \A t \in Turns : pc[t] # "interrupting"

\* ... and who was taken out of _active_tasks before it ran is marked.
Marked ==
    \A t \in Turns :
        pc[t] \in {"spawned", "waiting"} /\ t \notin active[SessionOf[t]] => t \in cancel

LEMMA CalmStep ==
    ASSUME NoCorrections
    PROVE  Typed /\ ReadySpawned /\ Past /\ Arrived /\ Calm /\ [Next]_vars => Calm' /\ Ordinary
<1> SUFFICES ASSUME Typed, ReadySpawned, Past, Arrived, Calm, [Next]_vars
             PROVE  Calm' /\ Ordinary
  OBVIOUS
<1>1. Ordinary
  BY OrdinarySteps DEF Interrupt, NoCorrections
<1> QED
  BY <1>1 DEF Calm, Ordinary

LEMMA MarkedStep ==
    ASSUME NoCorrections
    PROVE  Typed /\ ReadySpawned /\ Calm /\ Marked /\ [Next]_vars => Marked'
<1> SUFFICES ASSUME Typed, ReadySpawned, Calm, Marked, [Next]_vars PROVE Marked'
  OBVIOUS
<1> USE SessionsOf
<1>1. ASSUME NEW t \in Turns, Arrive(t) \/ Direct(t) PROVE Marked'
  <2>1. active' = [active EXCEPT ![SessionOf[t]] = @ \union {t}] /\ cancel' = cancel
    BY <1>1 DEF Arrive, Direct
  <2>2. \E p \in {"spawned", "running", "waiting"} : pc' = [pc EXCEPT ![t] = p]
    BY <1>1, RequestPhase DEF Arrive, Direct
  <2> QED
    BY <2>1, <2>2 DEF Marked, Typed
<1>2. CASE Start
  <2> PICK t \in Turns :
              /\ NeverRun(t) \/ Interrupt(t) \/ DispatchAtOnce(t)
              /\ pc[t] = "spawned"
    BY <1>2, StartFacts
  <2>1. CASE NeverRun(t)
    BY <2>1 DEF NeverRun, Marked, Typed
  <2>2. CASE DispatchAtOnce(t)
    <3>1. t \notin cancel /\ UNCHANGED <<cancel, active>>
      BY <2>2 DEF DispatchAtOnce
    <3>2. \E p \in {"running", "waiting"} : pc' = [pc EXCEPT ![t] = p]
      BY <2>2, RequestPhase DEF DispatchAtOnce, Dispatch
    <3> QED
      BY <3>1, <3>2 DEF Marked, Typed
  <2> QED
    BY <2>1, <2>2 DEF Interrupt, NoCorrections
<1>3. ASSUME NEW t \in Turns, Moves(t) PROVE Marked'
  BY <1>3, MoveFacts DEF Marked, Typed
<1>4. ASSUME NEW x \in Stops, Stop(x) PROVE Marked'
  <2>1. active[SessionOf[x]] \in SUBSET Turns
    BY DEF Typed
  <2>2. /\ pc' = pc /\ cancel' = Deliver(active[SessionOf[x]])
        /\ active' = [active EXCEPT ![SessionOf[x]] = {}]
    BY <1>4 DEF Stop
  <2> QED
    BY <2>1, <2>2, DeliverHits DEF Marked, Typed
<1>5. ASSUME NEW x \in Stops, AnswerStop(x) PROVE Marked'
  BY <1>5 DEF AnswerStop, turnVars, Marked
<1>6. CASE UNCHANGED vars
  BY <1>6 DEF vars, turnVars, Marked
<1> QED
  BY <1>1, <1>2, <1>3, <1>4, <1>5, <1>6, StepCases DEF Resume, Calm

\* Who begins to run was not there, or had not run and is not cancelled.
LEMMA WhoRuns ==
    ASSUME Typed, ReadySpawned, Calm, [Next]_vars, NEW t \in Turns,
           pc[t] # "running", pc'[t] = "running"
    PROVE  pc[t] = "absent" \/ (pc[t] \in {"spawned", "waiting"} /\ t \notin cancel)
<1>1. ASSUME NEW u \in Turns, Arrive(u) \/ Direct(u) PROVE pc[t] = "absent"
  <2>1. /\ pc[u] = "absent"
        /\ \E p \in {"spawned", "running", "waiting"} : pc' = [pc EXCEPT ![u] = p]
    BY <1>1, RequestPhase DEF Arrive, Direct
  <2> QED
    BY <2>1 DEF Typed
<1>2. CASE Start
  <2> PICK u \in Turns :
              /\ NeverRun(u) \/ Interrupt(u) \/ DispatchAtOnce(u)
              /\ pc[u] = "spawned"
              /\ \E p \in {"done", "interrupting", "running", "waiting"} :
                    pc' = [pc EXCEPT ![u] = p]
    BY <1>2, StartFacts
  <2>1. u = t
    BY DEF Typed
  <2>2. ~NeverRun(u) /\ ~Interrupt(u)
    BY <2>1 DEF NeverRun, Interrupt, Typed
  <2> QED
    BY <2>1, <2>2 DEF DispatchAtOnce
<1>3. ASSUME NEW u \in Turns, Moves(u) PROVE pc[t] = "waiting" /\ t \notin cancel
  <2>1. u = t
    BY <1>3, MoveFacts DEF Typed
  <2>2. CASE Acquire(t)
    BY <2>2 DEF Acquire
  <2>3. CASE ~Acquire(t)
    BY <1>3, <2>1, <2>3 DEF Moves, Conclude, Err, Close, Cancelled, Leave, Typed
  <2> QED
    BY <2>2, <2>3
<1> QED
  BY <1>1, <1>2, <1>3, StepCases, StopFacts DEF Resume, Calm, vars, turnVars

CalmInv == StopsInv /\ Calm /\ Marked

\* In a session whose messages interrupt nothing, a turn that a stop found
\* before it ran never runs: `task.cancel()` marks it, and it ends where it
\* is, before its first step or in the lock's queue.
THEOREM StoppedStayStopped == ASSUME NoCorrections PROVE Spec => StoppedNeverRuns
<1>1. Init => CalmInv
  BY InitStops DEF Init, CalmInv, Calm, Marked
<1>2. CalmInv /\ [Next]_vars => CalmInv'
  BY StopsStep, CalmStep, MarkedStep DEF CalmInv, StopsInv
<1>3. CalmInv /\ [Next]_vars
        => [\A x \in Stops : \A t \in aimed[x] : pc[t] # "running" => pc'[t] # "running"]_vars
  <2> SUFFICES ASSUME CalmInv, [Next]_vars, NEW x \in Stops, NEW t \in aimed[x],
                      pc[t] # "running", pc'[t] = "running"
               PROVE  FALSE
    OBVIOUS
  <2>1. t \in Turns /\ pc[t] # "absent" /\ t \notin active[SessionOf[t]]
    BY DEF CalmInv, StopsInv, Past, Aimed
  <2>2. pc[t] \in {"spawned", "waiting"} /\ t \notin cancel
    BY <2>1, WhoRuns DEF CalmInv, StopsInv
  <2> QED
    BY <2>1, <2>2 DEF CalmInv, Marked
<1> QED
  BY <1>1, <1>2, <1>3, PTL DEF Spec, StoppedNeverRuns

-----------------------------------------------------------------------------
(* The order of the queue *)

\* Of two turns of a kind in the queue the first to arrive is before the other.
Queued ==
    \A i, j \in 1..Len(waiters) :
        i < j /\ (waiters[i] \in Directs <=> waiters[j] \in Directs)
            => Before(waiters[i], waiters[j])

\* A turn that has to wait joins the end of the queue.
LEMMA RequestQueued ==
    ASSUME Stored, Waits, Queued, NEW t \in Turns, RequestLock(t),
           \A w \in Turns : pc[w] = "waiting" /\ (w \in Directs <=> t \in Directs) => Before(w, t)',
           \A a, b \in Turns : Before(a, b) => Before(a, b)'
    PROVE  Queued'
<1>1. waiters' = waiters \/ waiters' = Append(waiters, t)
  BY DEF RequestLock
<1>2. /\ Len(waiters) \in Nat
      /\ \A i \in 1..Len(waiters) : waiters[i] \in Turns /\ pc[waiters[i]] = "waiting"
  BY DEF Stored, Waits
<1>3. CASE waiters' = waiters
  BY <1>2, <1>3 DEF Queued
<1>4. CASE waiters' = Append(waiters, t)
  <2>1. /\ Len(waiters') = Len(waiters) + 1
        /\ \A i \in 1..Len(waiters) : waiters'[i] = waiters[i]
        /\ waiters'[Len(waiters')] = t
        /\ \A i \in 1..Len(waiters') : i \in 1..Len(waiters) \/ i = Len(waiters')
    BY <1>4 DEF Stored
  <2>2. ASSUME NEW i \in 1..Len(waiters'), NEW j \in 1..Len(waiters'), i < j,
               waiters'[i] \in Directs <=> waiters'[j] \in Directs
        PROVE  Before(waiters[i], waiters[j])'
    <3>1. i \in 1..Len(waiters) /\ waiters'[i] = waiters[i]
      BY <1>2, <2>1, <2>2
    <3>2. CASE j \in 1..Len(waiters)
      BY <1>2, <2>1, <2>2, <3>1, <3>2 DEF Queued
    <3>3. CASE j = Len(waiters')
      <4>1. waiters'[j] = t /\ (waiters[i] \in Directs <=> t \in Directs)
        BY <2>1, <2>2, <3>1, <3>3
      <4>2. Before(waiters[i], t)'
        BY <1>2, <3>1, <4>1
      <4> QED
        BY <3>1, <4>1, <4>2
    <3> QED
      BY <2>1, <3>2, <3>3
  <2> QED
    BY <2>2 DEF Queued
<1> QED
  BY <1>1, <1>3, <1>4

\* The rest of the queue keeps its order when a turn leaves it.
LEMMA DropQueued ==
    ASSUME Stored, Waits, Queued, NEW t \in Turns,
           waiters' = DropWaiter(t) \/ (pc[t] # "waiting" /\ waiters' = waiters),
           arrivals' = arrivals
    PROVE  Queued'
<1>1. \A a, b : Before(a, b) <=> Before(a, b)'
  BY DEF Before
<1>2. Lacks(waiters, t, waiters')
  BY DropLacks
<1>3. ASSUME NEW i \in 1..Len(waiters'), NEW j \in 1..Len(waiters'), i < j,
             waiters'[i] \in Directs <=> waiters'[j] \in Directs
      PROVE  Before(waiters[i], waiters[j])'
  <2>1. PICK k \in 1..Len(waiters), l \in 1..Len(waiters) :
           k < l /\ waiters[k] = waiters'[i] /\ waiters[l] = waiters'[j]
    BY <1>2, <1>3 DEF Lacks
  <2>2. Before(waiters[k], waiters[l])
    BY <1>3, <2>1 DEF Queued
  <2> QED
    BY <1>1, <2>1, <2>2
<1> QED
  BY <1>3 DEF Queued

\* Every step keeps the order of the queue.
LEMMA QueuedStep ==
    Typed /\ Stored /\ ReadySpawned /\ Past /\ Arrived /\ Lined /\ Calm /\ Waits /\ Queued
      /\ [Next]_vars /\ Ordinary => Queued'
<1> SUFFICES ASSUME Typed, Stored, ReadySpawned, Past, Arrived, Lined, Calm, Waits, Queued,
                    [Next]_vars, Ordinary
             PROVE  Queued'
  OBVIOUS
<1>0. /\ \A a, b \in Turns : Before(a, b) => Before(a, b)'
      /\ \A i \in 1..Len(waiters) : waiters[i] \in Turns
  BY DEF Ordinary, Stored
<1>1. ASSUME NEW t \in Turns, Arrive(t) PROVE Queued'
  <2>1. waiters' = waiters
    BY <1>1 DEF Arrive, lockVars
  <2> QED
    BY <1>0, <2>1 DEF Queued
<1>2. ASSUME NEW t \in Turns, Direct(t) PROVE Queued'
  <2>1. pc[t] = "absent" /\ RequestLock(t) /\ arrivals' = Append(arrivals, t)
    BY <1>2 DEF Direct
  <2>2. \A w \in Turns : pc[w] = "waiting" => Before(w, t)'
    BY <2>1, BeforeGrows
  <2> QED
    BY <1>0, <2>1, <2>2, RequestQueued
<1>3. CASE Start
  <2> PICK t \in Turns :
              /\ ready # <<>> /\ t = ready[1] /\ 1 \in 1..Len(ready)
              /\ pc[t] = "spawned"
              /\ NeverRun(t) \/ Interrupt(t) \/ DispatchAtOnce(t)
              /\ UNCHANGED <<stopVars, arrivals>>
    BY <1>3, StartFacts
  <2>1. CASE NeverRun(t)
    BY <1>0, <2>1 DEF NeverRun, lockVars, Queued
  <2>2. CASE DispatchAtOnce(t)
    <3>1. RequestLock(t)
      BY <2>2 DEF DispatchAtOnce, Dispatch
    <3>2. ASSUME NEW w \in Turns, pc[w] = "waiting", w \in Directs <=> t \in Directs
          PROVE  Before(w, t)'
      <4>1. w \notin Directs
        BY <3>2 DEF Lined
      <4>2. Before(w, ready[1])
        BY <3>2, <4>1 DEF Lined
      <4> QED
        BY <1>0, <4>2
    <3> QED
      BY <1>0, <3>1, <3>2, RequestQueued
  <2>3. CASE Interrupt(t)
    <3>1. pc'[t] = "interrupting"
      BY <2>3 DEF Interrupt, Typed
    <3> QED
      BY <3>1 DEF Ordinary, Calm
  <2> QED
    BY <2>1, <2>2, <2>3
<1>4. ASSUME NEW t \in Turns, Moves(t) PROVE Queued'
  <2>1. arrivals' = arrivals
    BY <1>4, MoveFacts
  <2>2. waiters' = DropWaiter(t) \/ (pc[t] # "waiting" /\ waiters' = waiters)
    BY <1>4 DEF Moves, Acquire, Conclude, Err, Close, Cancelled, lockVars
  <2> QED
    BY <2>1, <2>2, DropQueued
<1>5. ASSUME NEW x \in Stops, Stop(x) \/ AnswerStop(x) PROVE Queued'
  <2>1. pc' = pc /\ waiters' = waiters /\ arrivals' = arrivals
    BY <1>5 DEF Stop, AnswerStop, turnVars, lockVars
  <2> QED
    BY <2>1 DEF Queued, Before
<1>6. CASE UNCHANGED vars
  BY <1>6 DEF vars, turnVars, lockVars, Queued, Before
<1> QED
  BY <1>1, <1>2, <1>3, <1>4, <1>5, <1>6, StepCases DEF Resume, Calm

OrderInv == ExclusionInv /\ Past /\ Arrived /\ Lined /\ Calm /\ Waits /\ Queued

\* Who takes the lock as it asks for it finds no turn of the session at it,
\* but for cancelled ones.
LEMMA RequestOrder ==
    ASSUME OrderInv, NEW u \in Turns, RequestLock(u), pc'[u] = "running",
           NEW t \in Turns, SessionOf[t] = SessionOf[u], pc[t] \in {"waiting", "running", "ending"}
    PROVE  t \in cancel
<1> SUFFICES ASSUME t \notin cancel PROVE FALSE
  OBVIOUS
<1>1. Typed /\ Stored /\ Listed /\ LockShared
  BY DEF OrderInv, ExclusionInv, TableInv
<1>0. lock[t] # None /\ lock[t] = lockOf[SessionOf[u]]
  BY <1>1 DEF LockShared, AtLock, InTurn
<1>2. TableFor(u).table[SessionOf[u]] = lock[t]
  BY <1>0, <1>1, TableFacts DEF EvictsIdle
<1>3. MayTake(lock[t])
  <2>1. SUFFICES ASSUME ~MayTake(lock[t]) PROVE FALSE
    OBVIOUS
  <2>2. pc' = [pc EXCEPT ![u] = "waiting"]
    BY <1>2, <2>1 DEF RequestLock
  <2> QED
    BY <1>1, <2>2 DEF Typed
<1>4. pc[t] = "waiting"
  BY <1>3 DEF MayTake, Locked, InTurn
<1>5. PICK i \in 1..Len(waiters) : waiters[i] = t
  BY <1>4 DEF OrderInv, Waits
<1>6. i \in DOMAIN waiters
  BY <1>1 DEF Stored
<1> QED
  BY <1>3, <1>5, <1>6 DEF MayTake

\* A turn that begins to run passes no turn of its kind that came earlier.
LEMMA OrderKept ==
    ASSUME OrderInv, OrderInv', [Next]_vars, NEW t \in Turns, NEW u \in Turns,
           SessionOf[t] = SessionOf[u], t \in Directs <=> u \in Directs, Before(t, u)',
           pc[u] # "running", pc'[u] = "running"
    PROVE  pc[t] = "done" \/ t \in cancel
<1>0. /\ Typed /\ ReadySpawned /\ Past /\ Arrived /\ Lined /\ Calm /\ Waits /\ Queued
      /\ Stored /\ LockShared /\ Typed' /\ Past' /\ Arrived'
  BY DEF OrderInv, ExclusionInv, TableInv
<1>1. t # u /\ pc'[t] # "absent"
  <2>1. DOMAIN arrivals' = 1..Len(arrivals') /\ Len(arrivals') \in Nat
    BY <1>0 DEF Past
  <2>2. PICK i \in 1..Len(arrivals'), j \in 1..Len(arrivals') :
           i < j /\ arrivals'[i] = t /\ arrivals'[j] = u
    BY <2>1 DEF Before
  <2>3. i # j
    BY <2>1, <2>2
  <2> QED
    BY <1>0, <2>2, <2>3 DEF Arrived
<1>2. pc[t] \in {"absent", "spawned", "waiting", "running", "ending", "done"}
  BY <1>0 DEF Typed, Phases, Calm
<1>3. \A d \in Directs : pc[d] # "spawned"
  BY <1>0, TurnsAssumption DEF Lined
<1>4. ASSUME NEW v \in Turns, Arrive(v) PROVE FALSE
  BY <1>0, <1>4 DEF Arrive, Typed
<1>5. ASSUME NEW v \in Turns, Direct(v) PROVE pc[t] = "done" \/ t \in cancel
  <2>1. pc[v] = "absent" /\ v \in Directs /\ RequestLock(v)
    BY <1>5 DEF Direct
  <2>2. \E p \in {"running", "waiting"} : pc' = [pc EXCEPT ![v] = p]
    BY <1>0, <2>1, RequestPhase
  <2>3. v = u
    BY <1>0, <2>2 DEF Typed
  <2>4. pc[t] # "absent" /\ pc[t] # "spawned"
    BY <1>0, <1>1, <1>3, <2>1, <2>2, <2>3 DEF Typed
  <2> QED
    BY <1>2, <2>1, <2>3, <2>4, RequestOrder
<1>6. ASSUME arrivals' = arrivals PROVE Before(t, u) /\ pc[t] # "absent" /\ ~Before(u, t)
  <2>1. Before(t, u)
    BY <1>6 DEF Before
  <2> QED
    BY <1>0, <2>1, BeforeOneWay
<1>7. CASE Start
  <2> PICK v \in Turns :
              /\ ready # <<>> /\ v = ready[1] /\ 1 \in 1..Len(ready)
              /\ pc[v] = "spawned"
              /\ NeverRun(v) \/ Interrupt(v) \/ DispatchAtOnce(v)
              /\ \E p \in {"done", "interrupting", "running", "waiting"} :
                    pc' = [pc EXCEPT ![v] = p]
              /\ UNCHANGED <<stopVars, arrivals>>
    BY <1>0, <1>7, StartFacts
  <2>1. v = u
    BY <1>0 DEF Typed
  <2>2. RequestLock(u)
    <3>1. ~NeverRun(u) /\ ~Interrupt(u)
      BY <1>0 DEF NeverRun, Interrupt, Typed
    <3> QED
      BY <2>1, <3>1 DEF DispatchAtOnce, Dispatch
  <2>3. pc[t] # "spawned"
    <3> SUFFICES ASSUME pc[t] = "spawned" PROVE FALSE
      OBVIOUS
    <3>1. PICK j \in 1..Len(ready) : ready[j] = t
      BY <1>0 DEF Lined
    <3>2. Len(ready) \in Nat
      BY <1>0 DEF Typed
    <3>3. 1 < j
      <4>1. j # 1
        BY <1>1, <2>1, <3>1
      <4> QED
        BY <3>2, <4>1
    <3>4. Before(ready[1], ready[j])
      BY <1>0, <3>3 DEF Lined
    <3>5. Before(u, t)
      BY <2>1, <3>1, <3>4
    <3> QED
      BY <1>6, <3>5
  <2> QED
    BY <1>2, <1>6, <2>2, <2>3, RequestOrder
<1>8. ASSUME NEW v \in Turns, Moves(v) PROVE pc[t] = "done" \/ t \in cancel
  <2>1. v = u /\ arrivals' = arrivals
    BY <1>0, <1>8, MoveFacts DEF Typed
  <2>2. Acquire(u)
    BY <1>0, <1>8, <2>1 DEF Moves, Conclude, Err, Close, Cancelled, Leave, Typed
  <2>3. PICK i \in DOMAIN waiters :
           waiters[i] = u /\ \A j \in 1..(i - 1) : lock[waiters[j]] # lock[u]
    BY <2>2 DEF Acquire
  <2>4. pc[u] = "waiting" /\ ~Locked(lock[u]) /\ AtLock(u)
    BY <2>2 DEF Acquire, AtLock
  <2>5. DOMAIN waiters = 1..Len(waiters) /\ Len(waiters) \in Nat
    BY <1>0 DEF Stored
  <2>6. pc[t] # "spawned"
    <3> SUFFICES ASSUME pc[t] = "spawned" PROVE FALSE
      OBVIOUS
    <3>1. PICK j \in 1..Len(ready) : ready[j] = t
      BY <1>0 DEF Lined
    <3>2. u \notin Directs
      BY <1>3
    <3>3. Before(u, t)
      BY <1>0, <2>4, <3>1, <3>2 DEF Lined
    <3> QED
      BY <1>6, <2>1, <3>3
  <2>7. AtLock(t) => lock[t] = lock[u]
    BY <1>0, <2>4 DEF LockShared
  <2>8. pc[t] \notin {"running", "ending"}
    BY <2>4, <2>7 DEF AtLock, Locked, InTurn
  <2>9. pc[t] = "waiting" => t \in cancel
    <3> SUFFICES ASSUME pc[t] = "waiting", t \notin cancel PROVE FALSE
      OBVIOUS
    <3>1. PICK j \in 1..Len(waiters) : waiters[j] = t
      BY <1>0 DEF Waits
    <3>2. j \notin 1..(i - 1) /\ j # i
      BY <1>1, <2>3, <2>7, <3>1 DEF AtLock
    <3>3. i < j
      BY <2>3, <2>5, <3>1, <3>2
    <3>4. Before(u, t)
      BY <1>0, <2>3, <2>5, <3>1, <3>3 DEF Queued
    <3> QED
      BY <1>6, <2>1, <3>4
  <2> QED
    BY <1>2, <1>6, <2>1, <2>6, <2>8, <2>9
<1> QED
  BY <1>0, <1>4, <1>5, <1>7, <1>8, StepCases, StopFacts DEF Resume, Calm, vars, turnVars

\* The first state: nothing has arrived.
LEMMA InitOrder == Init => OrderInv
<1> SUFFICES ASSUME Init PROVE OrderInv
  OBVIOUS
<1>1. Past /\ Arrived /\ Lined
  BY InitStops DEF StopsInv
<1>2. Calm /\ Waits /\ Queued
  BY DEF Init, Calm, Waits, Queued
<1> QED
  BY <1>1, <1>2, InitExclusion DEF OrderInv

\* The turns of a session run in the order in which they arrived, those of the
\* bus and those of process_direct each among themselves, when no awaited lock
\* is evicted and no message interrupts: tasks start in the order in which
\* they were made, and asyncio.Lock serves its waiters first come first served.
THEOREM ArrivalOrderUnlessEvicted ==
    ASSUME NoCorrections PROVE Spec /\ [][AwaitedLocksStay]_vars => ArrivalOrder
<1>1. OrderInv /\ [Next]_vars /\ [AwaitedLocksStay]_vars => OrderInv'
  <2>1. OrderInv /\ [Next]_vars /\ [AwaitedLocksStay]_vars => ExclusionInv'
    BY ExclusionInvStays DEF OrderInv
  <2> QED
    BY <2>1, PastStep, ArrivedStep, LinedStep, CalmStep, WaitsStep, QueuedStep
    DEF OrderInv, ExclusionInv, TableInv
<1>2. OrderInv /\ OrderInv' /\ [Next]_vars =>
        [\A t, u \in Turns :
           /\ SessionOf[t] = SessionOf[u]
           /\ t \in Directs <=> u \in Directs
           /\ Before(t, u)'
           /\ pc[u] # "running" /\ pc'[u] = "running"
           => pc[t] = "done" \/ t \in cancel]_vars
  BY OrderKept
<1> QED
  BY <1>1, <1>2, InitOrder, PTL DEF Spec, ArrivalOrder

\* With room for every session in the table and no message that interrupts,
\* the turns of a session run in the order in which they arrived (_dispatch).
THEOREM ArrivalOrderKept == ASSUME Fits, NoCorrections PROVE Spec => ArrivalOrder
  BY RoomForAll, ArrivalOrderUnlessEvicted, PTL
=============================================================================
