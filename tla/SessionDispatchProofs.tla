------------------------ MODULE SessionDispatchProofs ------------------------
(***************************************************************************)
(* What holds of SessionDispatch for every number of sessions, turns and   *)
(* stops: no turn is lost by those who cancel it, and, as long as the lock *)
(* table has room for every session, one turn per session runs at a time.  *)
(***************************************************************************)
EXTENDS SessionDispatch, FiniteSetTheorems, SequenceTheorems, TLAPS

-----------------------------------------------------------------------------
(* Types of what the cancellation protocol reads and writes *)

Typed ==
    /\ pc \in [Turns -> Phases]
    /\ awaits \in [Turns -> SUBSET Turns]
    /\ ready \in Seq(Turns)
    /\ active \in [Sessions -> SUBSET Turns]
    /\ stop \in [Stops -> {"absent", "waiting", "answered"}]
    /\ targets \in [Stops -> SUBSET Turns]

\* Only tasks that have not run are in the ready queue, each once.
ReadySpawned ==
    /\ \A i \in 1..Len(ready) : pc[ready[i]] = "spawned"
    /\ \A i, j \in 1..Len(ready) : ready[i] = ready[j] => i = j

\* The first state: no turn has arrived.
LEMMA InitTyped == Init => Typed /\ ReadySpawned /\ NobodyLost
  BY DEF Init, Typed, ReadySpawned, NobodyLost, Phases, Unfinished

\* Taking or awaiting a lock changes one turn's phase.
LEMMA RequestPhase ==
    ASSUME NEW t \in Turns, Typed, RequestLock(t)
    PROVE  \E p \in {"running", "waiting"} : pc' = [pc EXCEPT ![t] = p]
  BY DEF RequestLock, Typed

\* Every turn belongs to a session.
LEMMA SessionsOf ==
    /\ \A t \in Turns : SessionOf[t] \in Sessions
    /\ \A x \in Stops : SessionOf[x] \in Sessions
  BY TurnsAssumption

\* Every step keeps the types of what a turn is and whom it awaits.
LEMMA TypedStep == Typed /\ [Next]_vars => Typed'
<1> SUFFICES ASSUME Typed, [Next]_vars PROVE Typed'
  OBVIOUS
<1> USE SessionsOf
<1>1. ASSUME NEW t \in Turns, Arrive(t) PROVE Typed'
  BY <1>1 DEF Arrive, Typed, Phases, stopVars
<1>2. ASSUME NEW t \in Turns, Direct(t) PROVE Typed'
  BY <1>2, RequestPhase DEF Direct, Typed, Phases, stopVars
<1>3. ASSUME Start PROVE Typed'
  <2> PICK t \in Turns : t = Head(ready)
    BY <1>3 DEF Start, Typed
  <2>1. ready' \in Seq(Turns) /\ stop' = stop /\ targets' = targets
    BY <1>3 DEF Start, stopVars, Typed
  <2>2. CASE NeverRun(t)
    BY <2>1, <2>2 DEF NeverRun, Typed, Phases
  <2>3. CASE Interrupt(t)
    BY <2>1, <2>3 DEF Interrupt, Others, Typed, Phases
  <2>4. CASE DispatchAtOnce(t)
    BY <2>1, <2>4, RequestPhase DEF DispatchAtOnce, Dispatch, Typed, Phases
  <2> QED
    BY <1>3, <2>2, <2>3, <2>4 DEF Start
<1>4. ASSUME NEW t \in Turns, Resume(t) PROVE Typed'
  BY <1>4, RequestPhase DEF Resume, Dispatch, Typed, Phases, stopVars
<1>5. ASSUME NEW t \in Turns, Acquire(t) PROVE Typed'
  BY <1>5 DEF Acquire, Typed, Phases, stopVars
<1>6. ASSUME NEW t \in Turns, Conclude(t) \/ Err(t) \/ Close(t) \/ Cancelled(t) PROVE Typed'
  BY <1>6 DEF Conclude, Err, Close, Cancelled, Leave, Typed, Phases, stopVars
<1>7. ASSUME NEW x \in Stops, Stop(x) \/ AnswerStop(x) PROVE Typed'
  BY <1>7 DEF Stop, AnswerStop, StopTargets, Typed, turnVars
<1>8. CASE UNCHANGED vars
  BY <1>8 DEF vars, turnVars, stopVars, Typed
<1> QED
  BY <1>1, <1>2, <1>3, <1>4, <1>5, <1>6, <1>7, <1>8 DEF Next

-----------------------------------------------------------------------------
(* Nobody is lost *)

\* A step of one turn that has run before leaves the ready queue as it is.
LEMMA ReadyKept ==
    ASSUME Typed, ReadySpawned, NEW t \in Turns, NEW p,
           pc[t] # "spawned", pc' = [pc EXCEPT ![t] = p], ready' = ready
    PROVE  ReadySpawned'
  BY DEF Typed, ReadySpawned

\* What is ready to run for the first time has not run.
LEMMA ReadyStep == Typed /\ ReadySpawned /\ [Next]_vars => ReadySpawned'
<1> SUFFICES ASSUME Typed, ReadySpawned, [Next]_vars PROVE ReadySpawned'
  OBVIOUS
<1>1. ASSUME NEW t \in Turns, Arrive(t) PROVE ReadySpawned'
  <2>1. \A i \in 1..Len(ready) : ready[i] # t
    BY <1>1 DEF Arrive, ReadySpawned
  <2>2. /\ ready' = Append(ready, t)
        /\ pc' = [pc EXCEPT ![t] = "spawned"]
    BY <1>1 DEF Arrive
  <2> QED
    BY <2>1, <2>2 DEF Typed, ReadySpawned
<1>2. ASSUME NEW t \in Turns, Direct(t) PROVE ReadySpawned'
  BY <1>2, RequestPhase, ReadyKept DEF Direct
<1>3. ASSUME Start PROVE ReadySpawned'
  <2> PICK t \in Turns : t = Head(ready)
    BY <1>3 DEF Start, Typed
  <2>1. \E p : pc' = [pc EXCEPT ![t] = p]
    BY <1>3, RequestPhase DEF Start, NeverRun, Interrupt, DispatchAtOnce, Dispatch
  <2>2. ready' = Tail(ready) /\ ready # <<>>
    BY <1>3 DEF Start
  <2>3. /\ Len(ready') = Len(ready) - 1
        /\ \A i \in 1..Len(ready') : ready'[i] = ready[i + 1] /\ i + 1 \in 1..Len(ready)
    BY <2>2 DEF Typed
  <2>4. t = ready[1] /\ 1 \in 1..Len(ready)
    BY <2>2 DEF Typed
  <2>5. ASSUME NEW i \in 1..Len(ready') PROVE pc'[ready'[i]] = "spawned"
    <3>1. ready[i + 1] # t /\ ready[i + 1] \in Turns
      BY <2>3, <2>4 DEF ReadySpawned, Typed
    <3> QED
      BY <2>1, <2>3, <3>1 DEF ReadySpawned, Typed
  <2>6. ASSUME NEW i \in 1..Len(ready'), NEW j \in 1..Len(ready'), ready'[i] = ready'[j]
        PROVE  i = j
    <3>1. i + 1 = j + 1
      BY <2>3, <2>6 DEF ReadySpawned
    <3> QED
      BY <3>1, <2>3 DEF Typed
  <2> QED
    BY <2>5, <2>6 DEF ReadySpawned
<1>4. ASSUME NEW t \in Turns, Resume(t) PROVE ReadySpawned'
  <2>1. pc' = pc \/ \E p : pc' = [pc EXCEPT ![t] = p]
    BY <1>4, RequestPhase DEF Resume, Dispatch
  <2> QED
    BY <1>4, <2>1, ReadyKept DEF Resume, ReadySpawned
<1>5. ASSUME NEW t \in Turns, Acquire(t) PROVE ReadySpawned'
  BY <1>5, ReadyKept DEF Acquire
<1>6. ASSUME NEW t \in Turns, Conclude(t) \/ Err(t) \/ Close(t) \/ Cancelled(t)
      PROVE  ReadySpawned'
  <2>1. pc[t] # "spawned" /\ ready' = ready
    BY <1>6 DEF Conclude, Err, Close, Cancelled
  <2>2. pc' = pc \/ \E p : pc' = [pc EXCEPT ![t] = p]
    BY <1>6 DEF Conclude, Err, Close, Cancelled, Leave
  <2> QED
    BY <2>1, <2>2, ReadyKept DEF ReadySpawned
<1>7. ASSUME NEW x \in Stops, Stop(x) \/ AnswerStop(x) PROVE ReadySpawned'
  BY <1>7 DEF Stop, AnswerStop, turnVars, ReadySpawned
<1>8. CASE UNCHANGED vars
  BY <1>8 DEF vars, turnVars, ReadySpawned
<1> QED
  BY <1>1, <1>2, <1>3, <1>4, <1>5, <1>6, <1>7, <1>8 DEF Next

\* Somebody knows of turn t.
Known(t) ==
    \/ t \in active[SessionOf[t]]
    \/ \E u \in Turns : pc[u] = "interrupting" /\ t \in awaits[u]
    \/ \E x \in Stops : stop[x] = "waiting" /\ t \in targets[x]

\* A step of turn t that is not interrupting and that takes nobody else out of
\* _active_tasks loses nobody.
LEMMA KnownKept ==
    ASSUME Typed, NobodyLost, NEW t \in Turns, NEW p,
           pc[t] # "interrupting", pc' = [pc EXCEPT ![t] = p],
           p = "done" \/ t \in active'[SessionOf[t]] \/ Unfinished(t),
           \A s \in Sessions : active[s] \ {t} \subseteq active'[s],
           p = "done" \/ \A s \in Sessions : active[s] \subseteq active'[s],
           UNCHANGED <<awaits, stopVars>>
    PROVE  NobodyLost'
<1> SUFFICES ASSUME NEW u \in Turns, Unfinished(u)' PROVE Known(u)'
  BY DEF NobodyLost, Known
<1>1. CASE u = t
  <2>1. p # "done"
    BY <1>1 DEF Unfinished, Typed
  <2>2. CASE t \in active'[SessionOf[t]]
    BY <1>1, <2>2 DEF Known
  <2>3. CASE Unfinished(t)
    <3>1. Known(t)
      BY <2>3 DEF NobodyLost, Known
    <3> QED
      BY <1>1, <2>1, <3>1, SessionsOf DEF Known, Typed, stopVars
  <2> QED
    BY <2>1, <2>2, <2>3
<1>2. CASE u # t
  <2>1. Unfinished(u) /\ Known(u)
    BY <1>2 DEF Unfinished, Typed, NobodyLost, Known
  <2> QED
    BY <1>2, <2>1, SessionsOf DEF Known, Typed, stopVars
<1> QED
  BY <1>1, <1>2

\* Who takes a turn off the table awaits it.
LEMMA NobodyLostStep ==
    Typed /\ ReadySpawned /\ NobodyLost /\ [Next]_vars => NobodyLost'
<1> SUFFICES ASSUME Typed, ReadySpawned, NobodyLost, [Next]_vars PROVE NobodyLost'
  OBVIOUS
<1> USE SessionsOf
<1>1. ASSUME NEW t \in Turns, Arrive(t) PROVE NobodyLost'
  <2>1. \A s \in Sessions : active[s] \subseteq active'[s]
    BY <1>1 DEF Arrive, Typed
  <2>2. t \in active'[SessionOf[t]]
    BY <1>1 DEF Arrive, Typed
  <2> QED
    BY <1>1, <2>1, <2>2, KnownKept DEF Arrive
<1>2. ASSUME NEW t \in Turns, Direct(t) PROVE NobodyLost'
  <2>1. \A s \in Sessions : active[s] \subseteq active'[s]
    BY <1>2 DEF Direct, Typed
  <2>2. t \in active'[SessionOf[t]]
    BY <1>2 DEF Direct, Typed
  <2>3. PICK p : pc' = [pc EXCEPT ![t] = p]
    BY <1>2, RequestPhase DEF Direct
  <2>4. pc[t] # "interrupting" /\ UNCHANGED <<awaits, stopVars>>
    BY <1>2 DEF Direct
  <2> QED
    BY <2>1, <2>2, <2>3, <2>4, KnownKept
<1>3. ASSUME Start PROVE NobodyLost'
  <2> PICK t \in Turns : t = Head(ready)
    BY <1>3 DEF Start, Typed
  <2>1. pc[t] = "spawned"
    <3>1. t = ready[1] /\ 1 \in 1..Len(ready)
      BY <1>3 DEF Start, Typed
    <3> QED
      BY <3>1 DEF ReadySpawned
  <2>2. UNCHANGED stopVars
    BY <1>3 DEF Start
  <2>3. CASE NeverRun(t)
    <3>1. \A s \in Sessions : active[s] \ {t} \subseteq active'[s]
      BY <2>3 DEF NeverRun, Typed
    <3> QED
      BY <2>1, <2>2, <2>3, <3>1, KnownKept DEF NeverRun
  <2>4. CASE Interrupt(t)
    <3> SUFFICES ASSUME NEW u \in Turns, Unfinished(u)' PROVE Known(u)'
      BY DEF NobodyLost, Known
    <3>1. Unfinished(u) /\ Known(u)
      BY <2>1, <2>4 DEF Interrupt, Typed, Unfinished, NobodyLost, Known
    <3>2. pc'[t] = "interrupting" /\ awaits'[t] = active[SessionOf[t]] \ {t}
      BY <2>4 DEF Interrupt, Others, Typed
    <3>3. CASE u \in active[SessionOf[u]] /\ u \notin active'[SessionOf[u]]
      <4>1. SessionOf[u] = SessionOf[t] /\ u # t
        BY <2>4, <3>3 DEF Interrupt, Typed
      <4> QED
        BY <3>2, <3>3, <4>1 DEF Known
    <3>4. CASE u \in active'[SessionOf[u]]
      BY <3>4 DEF Known
    <3>5. CASE u \notin active[SessionOf[u]]
      BY <2>1, <2>2, <2>4, <3>1, <3>5 DEF Known, Interrupt, Typed, stopVars
    <3> QED
      BY <3>3, <3>4, <3>5
  <2>5. CASE DispatchAtOnce(t)
    <3>1. PICK p : pc' = [pc EXCEPT ![t] = p]
      BY <2>5, RequestPhase DEF DispatchAtOnce, Dispatch
    <3> SUFFICES ASSUME NEW u \in Turns, Unfinished(u)' PROVE Known(u)'
      BY DEF NobodyLost, Known
    <3>2. Unfinished(u) /\ Known(u)
      BY <2>1, <3>1 DEF Typed, Unfinished, NobodyLost, Known
    <3>3. awaits' = [awaits EXCEPT ![t] = {}] /\ active' = active
      BY <2>5 DEF DispatchAtOnce, Dispatch
    <3> QED
      BY <2>1, <2>2, <3>1, <3>2, <3>3 DEF Known, Typed, stopVars
  <2> QED
    BY <1>3, <2>3, <2>4, <2>5 DEF Start
<1>4. ASSUME NEW t \in Turns, Resume(t) PROVE NobodyLost'
  <2> SUFFICES ASSUME NEW u \in Turns, Unfinished(u)' PROVE Known(u)'
    BY DEF NobodyLost, Known
  <2> DEFINE left == {w \in awaits[t] : Unfinished(w)}
  <2>1. pc[t] = "interrupting" /\ UNCHANGED <<active, stopVars>>
    BY <1>4 DEF Resume
  <2>2. CASE left # {} /\ awaits' = [awaits EXCEPT ![t] = left] /\ pc' = pc
    <3>1. Unfinished(u) /\ Known(u)
      BY <2>2 DEF Unfinished, NobodyLost, Known
    <3> QED
      BY <2>1, <2>2, <3>1 DEF Known, Typed, stopVars
  <2>3. CASE left = {} /\ Dispatch(t)
    <3>1. PICK p : pc' = [pc EXCEPT ![t] = p]
      BY <2>3, RequestPhase DEF Dispatch
    <3>2. Unfinished(u) /\ Known(u)
      BY <2>1, <3>1 DEF Typed, Unfinished, NobodyLost, Known
    <3>3. u \notin awaits[t]
      BY <2>3, <3>2
    <3>4. awaits' = [awaits EXCEPT ![t] = {}]
      BY <2>3 DEF Dispatch
    <3> QED
      BY <2>1, <3>1, <3>2, <3>3, <3>4 DEF Known, Typed, stopVars
  <2> QED
    BY <1>4, <2>2, <2>3 DEF Resume
<1>5. ASSUME NEW t \in Turns, Acquire(t) PROVE NobodyLost'
  BY <1>5, KnownKept DEF Acquire, Unfinished
<1>6. ASSUME NEW t \in Turns, Conclude(t) \/ Err(t) \/ Close(t) \/ Cancelled(t)
      PROVE  NobodyLost'
  <2>1. /\ pc[t] \in {"waiting", "running", "ending"}
        /\ UNCHANGED <<awaits, stopVars>>
    BY <1>6 DEF Conclude, Err, Close, Cancelled
  <2>2. CASE Leave(t)
    <3>1. \A s \in Sessions : active[s] \ {t} \subseteq active'[s]
      BY <2>2 DEF Leave, Typed
    <3> QED
      BY <2>1, <2>2, <3>1, KnownKept DEF Leave
  <2>3. CASE pc' = [pc EXCEPT ![t] = "ending"] /\ active' = active
    BY <2>1, <2>3, KnownKept DEF Unfinished
  <2>4. CASE pc' = pc /\ active' = active
    BY <2>1, <2>4 DEF NobodyLost, Unfinished, stopVars
  <2> QED
    BY <1>6, <2>2, <2>3, <2>4 DEF Conclude, Err, Close, Cancelled
<1>7. ASSUME NEW x \in Stops, Stop(x) PROVE NobodyLost'
  <2> SUFFICES ASSUME NEW u \in Turns, Unfinished(u)' PROVE Known(u)'
    BY DEF NobodyLost, Known
  <2>1. Unfinished(u) /\ Known(u) /\ pc' = pc /\ awaits' = awaits
    BY <1>7 DEF Stop, Unfinished, NobodyLost, Known
  <2>2. CASE u \in active[SessionOf[u]] /\ SessionOf[u] = SessionOf[x]
    <3>1. targets'[x] = active[SessionOf[x]]
      BY <1>7 DEF Stop, StopTargets, Typed
    <3>2. stop'[x] = "waiting"
      BY <1>7, <2>2 DEF Stop, StopTargets, Typed
    <3> QED
      BY <2>2, <3>1, <3>2 DEF Known
  <2>3. CASE u \in active[SessionOf[u]] /\ SessionOf[u] # SessionOf[x]
    BY <1>7, <2>3 DEF Stop, Typed, Known
  <2>4. CASE u \notin active[SessionOf[u]]
    BY <1>7, <2>1, <2>4 DEF Stop, Typed, Known
  <2> QED
    BY <2>2, <2>3, <2>4
<1>8. ASSUME NEW x \in Stops, AnswerStop(x) PROVE NobodyLost'
  BY <1>8 DEF AnswerStop, NobodyLost, Unfinished, Typed, turnVars
<1>9. CASE UNCHANGED vars
  BY <1>9 DEF vars, turnVars, stopVars, NobodyLost, Unfinished
<1> QED
  BY <1>1, <1>2, <1>3, <1>4, <1>5, <1>6, <1>7, <1>8, <1>9 DEF Next

\* Whatever the corrections and stops of a session do to one another, every
\* turn that has not ended is in _active_tasks or awaited by a turn or a stop
\* that took it out of there (_cancel_session_work).
THEOREM NobodyIsLost == Spec => []NobodyLost
<1>1. Init => Typed /\ ReadySpawned /\ NobodyLost
  BY InitTyped
<1>2. Typed /\ ReadySpawned /\ NobodyLost /\ [Next]_vars
        => (Typed /\ ReadySpawned /\ NobodyLost)'
  BY TypedStep, ReadyStep, NobodyLostStep
<1> QED
  BY <1>1, <1>2, PTL DEF Spec

-----------------------------------------------------------------------------
(* Sequences *)

\* Nothing occurs twice in seq.
Once(seq) == \A i, j \in 1..Len(seq) : seq[i] = seq[j] => i = j

Rank(at, i) == Cardinality({j \in at : j < i})

\* The members of a set of numbers are ranked from 0 without a gap.
LEMMA Ranks ==
    ASSUME NEW n \in Nat, NEW at \in SUBSET (1..n)
    PROVE  /\ Cardinality(at) \in Nat
           /\ \A i \in at : Rank(at, i) \in 0..(Cardinality(at) - 1)
           /\ \A i, j \in at : Rank(at, i) = Rank(at, j) => i = j
           /\ \A k \in 1..Cardinality(at) : \E i \in at : Rank(at, i) = k - 1
<1>0. IsFiniteSet(1..n)
  BY FS_Interval, 1 \in Int, n \in Int
<1>1. IsFiniteSet(at)
  BY <1>0, FS_Subset
<1>2. Cardinality(at) \in Nat
  BY <1>1, FS_CardinalityType
<1>3. ASSUME NEW i \in at, NEW j \in at, i < j
      PROVE  Rank(at, i) < Rank(at, j)
  <2> DEFINE I == {k \in at : k < i}
             J == {k \in at : k < j}
  <2>a. i \in Int /\ j \in Int /\ \A k \in at : k \in Int
    OBVIOUS
  <2>1. I \subseteq J /\ i \in J /\ i \notin I
    <3>1. \A k \in at : k < i => k < j
      BY <1>3, <2>a
    <3>2. ~(i < i)
      BY <2>a
    <3>3. I \subseteq J
      BY <3>1
    <3> QED
      BY <1>3, <3>2, <3>3
  <2>0. J \in SUBSET at
    OBVIOUS
  <2> HIDE DEF I, J
  <2>2. IsFiniteSet(J)
    BY <1>1, <2>0, FS_Subset
  <2>3. /\ Cardinality(I) <= Cardinality(J) /\ Cardinality(I) # Cardinality(J)
        /\ IsFiniteSet(I)
    BY <2>1, <2>2, FS_Subset
  <2>4. Cardinality(I) \in Nat /\ Cardinality(J) \in Nat
    BY <2>2, <2>3, FS_CardinalityType
  <2>5. Cardinality(I) < Cardinality(J)
    BY <2>3, <2>4
  <2> QED
    BY <2>5 DEF Rank, I, J
<1>4. ASSUME NEW i \in at PROVE Rank(at, i) \in 0..(Cardinality(at) - 1)
  <2> DEFINE I == {k \in at : k < i}
  <2>1. I \subseteq at /\ i \notin I
    OBVIOUS
  <2> HIDE DEF I
  <2>2. IsFiniteSet(I) /\ Cardinality(I) <= Cardinality(at) /\ Cardinality(I) # Cardinality(at)
    BY <1>1, <2>1, FS_Subset
  <2>3. Cardinality(I) \in Nat
    BY <2>2, FS_CardinalityType
  <2>4. Cardinality(I) \in 0..(Cardinality(at) - 1)
    BY <1>2, <2>2, <2>3
  <2> QED
    BY <2>4 DEF Rank, I
<1>5. ASSUME NEW i \in at, NEW j \in at, Rank(at, i) = Rank(at, j) PROVE i = j
  <2>1. i \in Int /\ j \in Int
    OBVIOUS
  <2>2. Rank(at, i) \in Int /\ Rank(at, j) \in Int
    BY <1>2, <1>4
  <2>3. ~(i < j) /\ ~(j < i)
    BY <1>3, <1>5, <2>2
  <2> QED
    BY <2>1, <2>3
<1>6. ASSUME NEW k \in 1..Cardinality(at) PROVE \E i \in at : Rank(at, i) = k - 1
  <2> DEFINE N == 0..(Cardinality(at) - 1)
             f == [i \in at |-> Rank(at, i)]
  <2>1. f \in Injection(at, N)
    <3>1. f \in [at -> N]
      BY <1>4
    <3>2. \A i, j \in at : f[i] = f[j] => i = j
      BY <1>5
    <3> HIDE DEF f, N
    <3> QED
      BY <3>1, <3>2 DEF Injection, IsInjective
  <2> DEFINE c == Cardinality(at)
  <2> HIDE DEF c
  <2>c. c \in Nat
    BY <1>2 DEF c
  <2>i. /\ IsFiniteSet(0..(c - 1))
        /\ Cardinality(0..(c - 1)) = IF 0 > c - 1 THEN 0 ELSE c - 1 - 0 + 1
    BY <2>c, FS_Interval, 0 \in Int, c - 1 \in Int
  <2>2. IsFiniteSet(N) /\ Cardinality(N) = Cardinality(at)
    BY <2>i, <2>c DEF c
  <2>3. f \in Surjection(at, N)
    <3> HIDE DEF f, N
    <3> QED
      BY <1>1, <2>1, <2>2, FS_Injection
  <2>4. k - 1 \in N
    BY <1>2
  <2> QED
    BY <2>3, <2>4 DEF Surjection
<1> QED
  BY <1>2, <1>4, <1>5, <1>6

\* Kept has the members it is asked for, each once if it was there once.
LEMMA KeptFacts ==
    ASSUME NEW S, NEW seq \in Seq(S), NEW set
    PROVE  /\ Kept(seq, set) \in Seq(S)
           /\ Elems(Kept(seq, set)) = Elems(seq) \intersect set
           /\ Once(seq) => Once(Kept(seq, set))
<1> DEFINE at     == {i \in DOMAIN seq : seq[i] \in set}
           nth(k) == CHOOSE i \in at : Rank(at, i) = k - 1
           c == Cardinality(at)
<1>1. DOMAIN seq = 1..Len(seq) /\ Len(seq) \in Nat /\ \A i \in 1..Len(seq) : seq[i] \in S
  OBVIOUS
<1>2. at \in SUBSET (1..Len(seq))
  BY <1>1
<1>3. Kept(seq, set) = [k \in 1..c |-> seq[nth(k)]]
  BY DEF Kept, Rank
<1>4. \A i \in at : i \in 1..Len(seq) /\ seq[i] \in set
  BY <1>1
<1>5. \A i \in 1..Len(seq) : seq[i] \in set => i \in at
  BY <1>1
<1> HIDE DEF at
<1>6. /\ c \in Nat
      /\ \A i \in at : Rank(at, i) \in 0..(c - 1)
      /\ \A i, j \in at : Rank(at, i) = Rank(at, j) => i = j
      /\ \A k \in 1..c : \E i \in at : Rank(at, i) = k - 1
  BY <1>1, <1>2, Ranks
<1>7. \A k \in 1..c : nth(k) \in at /\ Rank(at, nth(k)) = k - 1
  BY <1>6
<1>8. \A i \in at : Rank(at, i) + 1 \in 1..c /\ nth(Rank(at, i) + 1) = i
  <2> SUFFICES ASSUME NEW i \in at
               PROVE  Rank(at, i) + 1 \in 1..c /\ nth(Rank(at, i) + 1) = i
    OBVIOUS
  <2> DEFINE k == Rank(at, i) + 1
  <2>1. k \in 1..c /\ Rank(at, i) = k - 1
    BY <1>6
  <2>2. nth(k) \in at /\ Rank(at, nth(k)) = Rank(at, i)
    BY <1>7, <2>1
  <2> QED
    BY <1>6, <2>1, <2>2
<1> HIDE DEF nth, c
<1> DEFINE w == Kept(seq, set)
<1>9. /\ w \in [1..c -> S] /\ DOMAIN w = 1..c
      /\ \A k \in 1..c : w[k] = seq[nth(k)]
  BY <1>1, <1>3, <1>4, <1>7
<1>10. w \in Seq(S) /\ Len(w) = c
  BY <1>6, <1>9, IsASeq
<1> HIDE DEF w
<1>11. Elems(w) = Elems(seq) \intersect set
  <2>1. \A x \in Elems(w) : x \in Elems(seq) \intersect set
    BY <1>1, <1>4, <1>7, <1>9 DEF Elems
  <2>2. ASSUME NEW x \in Elems(seq) \intersect set PROVE x \in Elems(w)
    <3>1. PICK i \in 1..Len(seq) : seq[i] = x
      BY <1>1 DEF Elems
    <3>2. i \in at
      BY <1>5, <3>1
    <3> QED
      BY <1>8, <1>9, <3>1, <3>2 DEF Elems
  <2> QED
    BY <2>1, <2>2
<1>12. ASSUME Once(seq) PROVE Once(w)
  <2> SUFFICES ASSUME NEW k \in 1..c, NEW l \in 1..c, w[k] = w[l] PROVE k = l
    BY <1>10 DEF Once
  <2>1. nth(k) = nth(l)
    BY <1>4, <1>7, <1>9, <1>12 DEF Once
  <2>2. k - 1 = l - 1
    BY <1>7, <2>1
  <2> QED
    BY <1>6, <2>2
<1> QED
  BY <1>10, <1>11, <1>12 DEF w

\* A sequence in which nothing occurs twice is as long as it has members.
LEMMA OnceCounted ==
    ASSUME NEW S, NEW seq \in Seq(S), Once(seq)
    PROVE  Len(seq) = Cardinality(Elems(seq))
<1>1. DOMAIN seq = 1..Len(seq) /\ Len(seq) \in Nat /\ seq \in [1..Len(seq) -> Elems(seq)]
  BY DEF Elems
<1>a. seq \in Injection(1..Len(seq), Elems(seq))
  <2>1. \A i, j \in 1..Len(seq) : seq[i] = seq[j] => i = j
    BY DEF Once
  <2> QED
    BY <1>1, <2>1 DEF Injection, IsInjective
<1>b. \A x \in Elems(seq) : \E i \in 1..Len(seq) : seq[i] = x
  BY <1>1 DEF Elems
<1>2. seq \in Bijection(1..Len(seq), Elems(seq))
  BY <1>a, <1>b DEF Bijection, Injection, Surjection
<1>3. ExistsBijection(1..Len(seq), Elems(seq))
  BY <1>2 DEF ExistsBijection
<1> QED
  BY <1>1, <1>3, FS_CountingElements

\* Two sequences without a member in common, one after the other.
LEMMA ConcatFacts ==
    ASSUME NEW S, NEW a \in Seq(S), NEW b \in Seq(S)
    PROVE  /\ a \o b \in Seq(S)
           /\ Elems(a \o b) = Elems(a) \union Elems(b)
           /\ Once(a) /\ Once(b) /\ Elems(a) \intersect Elems(b) = {} => Once(a \o b)
<1> DEFINE w == a \o b
<1>1. /\ w \in Seq(S) /\ Len(w) = Len(a) + Len(b)
      /\ \A i \in 1..(Len(a) + Len(b)) : w[i] = IF i <= Len(a) THEN a[i] ELSE b[i - Len(a)]
  BY ConcatProperties
<1> HIDE DEF w
<1>2. /\ DOMAIN a = 1..Len(a) /\ DOMAIN b = 1..Len(b) /\ DOMAIN w = 1..Len(w)
      /\ Len(a) \in Nat /\ Len(b) \in Nat
  BY <1>1
<1>3. \A i \in 1..Len(a) : i \in 1..Len(w) /\ w[i] = a[i]
  BY <1>1, <1>2
<1>4. \A i \in 1..Len(b) : i + Len(a) \in 1..Len(w) /\ w[i + Len(a)] = b[i]
  BY <1>1, <1>2
<1>5. \A i \in 1..Len(w) : \/ i \in 1..Len(a)
                           \/ i - Len(a) \in 1..Len(b) /\ w[i] = b[i - Len(a)] /\ ~(i <= Len(a))
  BY <1>1, <1>2
<1>6. Elems(w) = Elems(a) \union Elems(b)
  <2>1. \A x \in Elems(w) : x \in Elems(a) \union Elems(b)
    BY <1>2, <1>3, <1>5 DEF Elems
  <2>2. \A x \in Elems(a) : x \in Elems(w)
    BY <1>2, <1>3 DEF Elems
  <2>3. \A x \in Elems(b) : x \in Elems(w)
    BY <1>2, <1>4 DEF Elems
  <2> QED
    BY <2>1, <2>2, <2>3
<1>7. ASSUME Once(a), Once(b), Elems(a) \intersect Elems(b) = {} PROVE Once(w)
  <2>0. \A i \in 1..Len(a), j \in 1..Len(b) : a[i] # b[j]
    BY <1>2, <1>7 DEF Elems
  <2> SUFFICES ASSUME NEW i \in 1..Len(w), NEW j \in 1..Len(w), w[i] = w[j] PROVE i = j
    BY DEF Once
  <2>1. CASE i \in 1..Len(a) /\ j \in 1..Len(a)
    BY <1>3, <1>7, <2>1 DEF Once
  <2>2. CASE i \in 1..Len(a) /\ j \notin 1..Len(a)
    BY <1>3, <1>5, <2>0, <2>2
  <2>3. CASE i \notin 1..Len(a) /\ j \in 1..Len(a)
    BY <1>3, <1>5, <2>0, <2>3
  <2>4. CASE i \notin 1..Len(a) /\ j \notin 1..Len(a)
    <3>1. i - Len(a) = j - Len(a)
      BY <1>5, <1>7, <2>4 DEF Once
    <3> QED
      BY <1>1, <1>2, <3>1
  <2> QED
    BY <2>1, <2>2, <2>3, <2>4
<1> QED
  BY <1>1, <1>6, <1>7 DEF w

\* What comes before a place in a sequence, and what comes after it.
LEMMA SplitFacts ==
    ASSUME NEW S, NEW seq \in Seq(S), NEW n \in 0..Len(seq)
    PROVE  LET a == SubSeq(seq, 1, n)
               b == SubSeq(seq, n + 1, Len(seq))
           IN  /\ a \in Seq(S) /\ b \in Seq(S) /\ Len(a) = n
               /\ Elems(seq) = Elems(a) \union Elems(b)
               /\ Once(seq) => Once(a) /\ Once(b) /\ Elems(a) \intersect Elems(b) = {}
<1> DEFINE a == SubSeq(seq, 1, n)
           b == SubSeq(seq, n + 1, Len(seq))
           m == Len(seq)
<1>1. m \in Nat /\ DOMAIN seq = 1..m /\ n \in Nat /\ n <= m /\ \A i \in 1..m : seq[i] \in S
  OBVIOUS
<1>2. a \in Seq(S) /\ Len(a) = n /\ \A i \in 1..n : a[i] = seq[i]
  <2>1. \A i \in 1..n : seq[i] \in S
    BY <1>1
  <2>2. /\ a \in Seq(S) /\ Len(a) = IF 1 <= n THEN n - 1 + 1 ELSE 0
        /\ \A i \in 1..(n - 1 + 1) : a[i] = seq[1 + i - 1]
    BY <1>1, <2>1, SubSeqProperties
  <2> HIDE DEF a
  <2> QED
    BY <1>1, <2>2
<1>3. b \in Seq(S) /\ Len(b) = m - n /\ \A i \in 1..(m - n) : b[i] = seq[n + i]
  <2>1. \A i \in (n + 1)..m : seq[i] \in S
    BY <1>1
  <2>2. /\ b \in Seq(S) /\ Len(b) = IF n + 1 <= m THEN m - (n + 1) + 1 ELSE 0
        /\ \A i \in 1..(m - (n + 1) + 1) : b[i] = seq[n + 1 + i - 1]
    BY <1>1, <2>1, SubSeqProperties
  <2> HIDE DEF b, m
  <2>3. Len(b) = m - n /\ m - (n + 1) + 1 = m - n
    BY <1>1, <2>2
  <2>4. \A i \in 1..(m - n) : n + 1 + i - 1 = n + i
    BY <1>1
  <2> QED
    BY <2>2, <2>3, <2>4
<1>4. DOMAIN a = 1..n /\ DOMAIN b = 1..(m - n)
  <2> HIDE DEF a, b
  <2> QED
    BY <1>2, <1>3
<1> HIDE DEF a, b, m
<1>5. /\ \A i \in 1..n : i \in 1..m
      /\ \A i \in 1..(m - n) : n + i \in 1..m
      /\ \A i \in 1..m : i \in 1..n \/ (i - n \in 1..(m - n) /\ n + (i - n) = i)
  BY <1>1
<1>6. Elems(seq) = Elems(a) \union Elems(b)
  <2>1. ASSUME NEW x \in Elems(seq) PROVE x \in Elems(a) \union Elems(b)
    <3>1. PICK i \in 1..m : seq[i] = x
      BY <1>1 DEF Elems
    <3>2. CASE i \in 1..n
      BY <1>2, <1>4, <3>1, <3>2 DEF Elems
    <3>3. CASE i - n \in 1..(m - n) /\ n + (i - n) = i
      <4>1. b[i - n] = x
        BY <1>3, <3>1, <3>3
      <4> QED
        BY <1>4, <3>3, <4>1 DEF Elems
    <3> QED
      BY <1>5, <3>2, <3>3
  <2>2. \A x \in Elems(a) : x \in Elems(seq)
    BY <1>1, <1>2, <1>4, <1>5 DEF Elems
  <2>3. \A x \in Elems(b) : x \in Elems(seq)
    BY <1>1, <1>3, <1>4, <1>5 DEF Elems
  <2> QED
    BY <2>1, <2>2, <2>3
<1>7. ASSUME Once(seq) PROVE Once(a) /\ Once(b) /\ Elems(a) \intersect Elems(b) = {}
  <2>0. \A i, j \in 1..m : seq[i] = seq[j] => i = j
    BY <1>7 DEF Once, m
  <2>1. Once(a)
    BY <1>2, <1>5, <2>0 DEF Once
  <2>2. Once(b)
    <3> SUFFICES ASSUME NEW i \in 1..(m - n), NEW j \in 1..(m - n), b[i] = b[j] PROVE i = j
      BY <1>3 DEF Once
    <3>1. n + i = n + j
      BY <1>3, <1>5, <2>0
    <3> QED
      BY <1>1, <3>1
  <2>3. \A i \in 1..n, j \in 1..(m - n) : a[i] # b[j]
    <3> SUFFICES ASSUME NEW i \in 1..n, NEW j \in 1..(m - n), a[i] = b[j] PROVE FALSE
      OBVIOUS
    <3>1. i = n + j
      BY <1>2, <1>3, <1>5, <2>0
    <3> QED
      BY <1>1, <3>1
  <2>4. Elems(a) \intersect Elems(b) = {}
    BY <1>4, <2>3 DEF Elems
  <2> QED
    BY <2>1, <2>2, <2>4
<1> QED
  BY <1>2, <1>3, <1>6, <1>7 DEF a, b, m

\* A sequence without one of its elements is one over the same set.
LEMMA WithoutTyped ==
    ASSUME NEW S, NEW seq \in Seq(S), NEW x
    PROVE  Without(seq, x) \in Seq(S)
<1>1. CASE x \in Elems(seq)
  <2> DEFINE i == CHOOSE i \in DOMAIN seq : seq[i] = x
  <2>1. i \in 1..Len(seq)
    BY <1>1 DEF Elems
  <2>2. Without(seq, x) = SubSeq(seq, 1, i - 1) \o SubSeq(seq, i + 1, Len(seq))
    BY <1>1 DEF Without
  <2> HIDE DEF i
  <2>3. /\ i - 1 \in 0..Len(seq)
        /\ i + 1 \in 1..(Len(seq) + 1)
        /\ 1 \in 1..(Len(seq) + 1)
        /\ Len(seq) \in 0..Len(seq)
    BY <2>1
  <2>4. SubSeq(seq, 1, i - 1) \in Seq(S) /\ SubSeq(seq, i + 1, Len(seq)) \in Seq(S)
    BY <2>3, SubSeqProperties
  <2> QED
    BY <2>2, <2>4, ConcatProperties
<1>2. CASE x \notin Elems(seq)
  BY <1>2 DEF Without
<1> QED
  BY <1>1, <1>2

\* Sequence w has what seq has besides x, in the same order.
Lacks(seq, x, w) ==
    /\ \A i \in 1..Len(w) : w[i] # x /\ \E k \in 1..Len(seq) : seq[k] = w[i]
    /\ \A k \in 1..Len(seq) : seq[k] # x => \E i \in 1..Len(w) : w[i] = seq[k]
    /\ \A i, j \in 1..Len(w) : i < j =>
          \E k, l \in 1..Len(seq) : k < l /\ seq[k] = w[i] /\ seq[l] = w[j]

\* Taking an element out of a sequence keeps the others and their order.
LEMMA WithoutOrder ==
    ASSUME NEW S, NEW seq \in Seq(S), NEW x,
           \A i, j \in 1..Len(seq) : i < j => seq[i] # seq[j]
    PROVE  Lacks(seq, x, Without(seq, x))
<1> DEFINE w == Without(seq, x)
<1>0. DOMAIN seq = 1..Len(seq) /\ Len(seq) \in Nat
  OBVIOUS
<1>1. CASE x \notin Elems(seq)
  <2>1. w = seq
    BY <1>1 DEF Without
  <2> QED
    BY <1>0, <1>1, <2>1 DEF Elems, Lacks
<1>2. CASE x \in Elems(seq)
  <2> DEFINE c == CHOOSE i \in DOMAIN seq : seq[i] = x
             F(i) == IF i < c THEN i ELSE i + 1
  <2>1. c \in 1..Len(seq) /\ seq[c] = x
    BY <1>0, <1>2 DEF Elems
  <2>2. w = SubSeq(seq, 1, c - 1) \o SubSeq(seq, c + 1, Len(seq))
    BY <1>2 DEF Without
  <2> HIDE DEF c, w
  <2>3. /\ c - 1 \in 0..Len(seq) /\ c + 1 \in 1..(Len(seq) + 1)
        /\ 1 \in 1..(Len(seq) + 1) /\ Len(seq) \in 0..Len(seq)
    BY <1>0, <2>1
  <2> DEFINE a == SubSeq(seq, 1, c - 1)
             b == SubSeq(seq, c + 1, Len(seq))
  <2>4. /\ a \in Seq(S) /\ Len(a) = c - 1
        /\ \A i \in 1..(c - 1) : a[i] = seq[i]
    <3>1. Len(a) = IF 1 <= c - 1 THEN (c - 1) - 1 + 1 ELSE 0
      BY <2>3, SubSeqProperties
    <3>2. \A i \in 1..((c - 1) - 1 + 1) : a[i] = seq[1 + i - 1]
      BY <2>3, SubSeqProperties
    <3>3. a \in Seq(S)
      BY <2>3, SubSeqProperties
    <3> HIDE DEF a
    <3> QED
      BY <2>1, <3>1, <3>2, <3>3
  <2>5. /\ b \in Seq(S) /\ Len(b) = Len(seq) - c
        /\ \A i \in 1..(Len(seq) - c) : b[i] = seq[c + i]
    <3>1. Len(b) = IF c + 1 <= Len(seq) THEN Len(seq) - (c + 1) + 1 ELSE 0
      BY <2>3, SubSeqProperties
    <3>2. \A i \in 1..(Len(seq) - (c + 1) + 1) : b[i] = seq[c + 1 + i - 1]
      BY <2>3, SubSeqProperties
    <3>3. b \in Seq(S)
      BY <2>3, SubSeqProperties
    <3>4. Len(seq) - (c + 1) + 1 = Len(seq) - c /\ (~(c + 1 <= Len(seq)) => Len(seq) - c = 0)
      <4> DEFINE n == Len(seq)
      <4>1. n \in Nat /\ c \in 1..n
        BY <1>0, <2>1
      <4> HIDE DEF n
      <4>2. n - (c + 1) + 1 = n - c /\ (~(c + 1 <= n) => n - c = 0)
        BY <4>1
      <4> QED
        BY <4>2 DEF n
    <3>5. Len(b) = Len(seq) - c
      BY <3>1, <3>4
    <3>6. ASSUME NEW i \in 1..(Len(seq) - c) PROVE b[i] = seq[c + i]
      <4>1. b[i] = seq[c + 1 + i - 1]
        BY <3>2, <3>4
      <4>2. c + 1 + i - 1 = c + i
        BY <1>0, <2>1
      <4> QED
        BY <4>1, <4>2
    <3> QED
      BY <3>3, <3>5, <3>6
  <2>6. /\ Len(w) = Len(a) + Len(b)
        /\ \A i \in 1..Len(w) : w[i] = IF i <= Len(a) THEN a[i] ELSE b[i - Len(a)]
    BY <2>2, <2>4, <2>5, ConcatProperties
  <2> HIDE DEF a, b
  <2>7. Len(w) = Len(seq) - 1 /\ \A i \in 1..Len(w) : w[i] = seq[F(i)] /\ F(i) \in 1..Len(seq)
    <3>1. Len(w) = Len(seq) - 1
      BY <1>0, <2>1, <2>4, <2>5, <2>6
    <3>2. ASSUME NEW i \in 1..Len(w), i < c PROVE w[i] = seq[i] /\ i \in 1..Len(seq)
      BY <1>0, <2>1, <2>4, <2>6, <3>1, <3>2
    <3>3. ASSUME NEW i \in 1..Len(w), ~(i < c) PROVE w[i] = seq[i + 1] /\ i + 1 \in 1..Len(seq)
      <4>1. /\ i - (c - 1) \in 1..(Len(seq) - c) /\ ~(i <= Len(a)) /\ c + (i - (c - 1)) = i + 1
            /\ i + 1 \in 1..Len(seq)
        BY <1>0, <2>1, <2>4, <3>1, <3>3
      <4>2. w[i] = b[i - (c - 1)]
        BY <2>4, <2>6, <4>1
      <4> QED
        BY <2>5, <4>1, <4>2
    <3> QED
      BY <3>1, <3>2, <3>3
  <2>8. \A i, j \in 1..Len(w) : F(i) # c /\ (i < j => F(i) < F(j))
    BY <1>0, <2>1, <2>7
  <2>9. \A k \in 1..Len(seq) : k # c => \E i \in 1..Len(w) : F(i) = k
    <3> SUFFICES ASSUME NEW k \in 1..Len(seq), k # c PROVE \E i \in 1..Len(w) : F(i) = k
      OBVIOUS
    <3>1. CASE k < c
      BY <1>0, <2>1, <2>7, <3>1
    <3>2. CASE k > c
      <4>1. k - 1 \in 1..Len(w) /\ F(k - 1) = k
        BY <1>0, <2>1, <2>7, <3>2
      <4> QED
        BY <4>1
    <3> QED
      BY <1>0, <2>1, <3>1, <3>2
  <2>10. \A k \in 1..Len(seq) : k # c => seq[k] # x
    <3> SUFFICES ASSUME NEW k \in 1..Len(seq), k # c PROVE seq[k] # x
      OBVIOUS
    <3>1. k < c \/ c < k
      BY <1>0, <2>1
    <3> QED
      BY <2>1, <3>1
  <2> HIDE DEF F
  <2>11. \A i \in 1..Len(w) : w[i] # x /\ \E k \in 1..Len(seq) : seq[k] = w[i]
    BY <2>7, <2>8, <2>10
  <2>12. \A k \in 1..Len(seq) : seq[k] # x => \E i \in 1..Len(w) : w[i] = seq[k]
    <3> SUFFICES ASSUME NEW k \in 1..Len(seq), seq[k] # x PROVE \E i \in 1..Len(w) : w[i] = seq[k]
      OBVIOUS
    <3>1. PICK i \in 1..Len(w) : F(i) = k
      BY <2>1, <2>9
    <3> QED
      BY <2>7, <3>1
  <2>13. \A i, j \in 1..Len(w) : i < j =>
            \E k, l \in 1..Len(seq) : k < l /\ seq[k] = w[i] /\ seq[l] = w[j]
    BY <2>7, <2>8
  <2> QED
    BY <2>11, <2>12, <2>13 DEF Lacks, w
<1> QED
  BY <1>1, <1>2

-----------------------------------------------------------------------------
(* The table of session locks *)

\* A sequence without one of its elements has all the others, as often as before.
LEMMA WithoutFacts ==
    ASSUME NEW S, NEW seq \in Seq(S), NEW x, Once(seq)
    PROVE  /\ Without(seq, x) \in Seq(S)
           /\ Elems(Without(seq, x)) = Elems(seq) \ {x}
           /\ Once(Without(seq, x))
<1> DEFINE w == Without(seq, x)
<1>1. /\ DOMAIN seq = 1..Len(seq)
      /\ \A i, j \in 1..Len(seq) : i < j => seq[i] # seq[j]
  BY DEF Once
<1>2. w \in Seq(S)
  BY WithoutTyped
<1>3. Lacks(seq, x, w)
  BY <1>1, WithoutOrder
<1> HIDE DEF w
<1>4. DOMAIN w = 1..Len(w) /\ Len(w) \in Nat
  BY <1>2
<1>5. Elems(w) = Elems(seq) \ {x}
  <2>1. \A y \in Elems(w) : y \in Elems(seq) \ {x}
    BY <1>1, <1>3, <1>4 DEF Lacks, Elems
  <2>2. ASSUME NEW y \in Elems(seq) \ {x} PROVE y \in Elems(w)
    <3>1. PICK k \in 1..Len(seq) : seq[k] = y
      BY <1>1 DEF Elems
    <3>2. PICK i \in 1..Len(w) : w[i] = seq[k]
      BY <1>3, <2>2, <3>1 DEF Lacks
    <3> QED
      BY <1>4, <3>1, <3>2 DEF Elems
  <2> QED
    BY <2>1, <2>2
<1>6. \A i, j \in 1..Len(w) : i < j => w[i] # w[j]
  BY <1>1, <1>3 DEF Lacks
<1>7. Once(w)
  BY <1>4, <1>6 DEF Once
<1> QED
  BY <1>2, <1>5, <1>7 DEF w

\* Types of the locks and of the ledger task, and of the history.
Stored ==
    /\ cancel \subseteq Turns
    /\ task \in [Turns -> Statuses]
    /\ lockOf \in [Sessions -> Turns \union {None}]
    /\ order \in Seq(Sessions)
    /\ lock \in [Turns -> Turns \union {None}]
    /\ waiters \in Seq(Turns)
    /\ arrivals \in Seq(Turns)
    /\ aimed \in [Stops -> SUBSET Turns]

\* The LRU order lists the sessions that have a lock, each once.
Listed == Elems(order) = Held(lockOf) /\ Once(order)

\* An eviction looks at a first part of the order.
LEMMA ScannedFacts ==
    ASSUME Stored, NEW excess
    PROVE  \E n \in 0..Len(order) : Scanned(excess) = SubSeq(order, 1, n)
<1> DEFINE cap     == IF Len(order) < MaxScan THEN Len(order) ELSE MaxScan
           idle(m) == Cardinality({i \in 1..m : IdleLock(order[i])})
           looked  == {i \in 1..cap : idle(i - 1) < excess}
<1>1. Len(order) \in Nat
  BY DEF Stored
<1>2. cap \in Nat /\ cap <= Len(order)
  BY <1>1, LocksAssumption
<1>3. looked \in SUBSET (1..cap)
  OBVIOUS
<1>4. Scanned(excess) = SubSeq(order, 1, Cardinality(looked))
  BY DEF Scanned
<1> HIDE DEF cap, looked
<1>5. IsFiniteSet(1..cap) /\ Cardinality(1..cap) = IF 1 > cap THEN 0 ELSE cap - 1 + 1
  BY <1>2, FS_Interval, 1 \in Int, cap \in Int
<1>6. IsFiniteSet(looked) /\ Cardinality(looked) <= Cardinality(1..cap)
  BY <1>3, <1>5, FS_Subset
<1>7. Cardinality(looked) \in Nat
  BY <1>6, FS_CardinalityType
<1>8. Cardinality(1..cap) <= Len(order) /\ Cardinality(1..cap) \in Nat
  BY <1>1, <1>2, <1>5
<1>9. Cardinality(looked) \in 0..Len(order)
  BY <1>1, <1>6, <1>7, <1>8
<1> QED
  BY <1>4, <1>9

\* What an eviction for session s leaves: it takes locks of other sessions that
\* nobody holds, and nothing else.
EvictsIdle(s, left) ==
    /\ left.table \in [Sessions -> Turns \union {None}]
    /\ left.order \in Seq(Sessions)
    /\ Once(left.order)
    /\ left.table[s] # None
    /\ lockOf[s] # None => left.table[s] = lockOf[s]
    /\ \A r \in Sessions \ {s} :
          left.table[r] = lockOf[r] \/ (left.table[r] = None /\ IdleLock(r))
    /\ Elems(left.order) \ {s} = Held(left.table) \ {s}

\* _evict_idle_session_locks keeps the order and the table in step.
LEMMA EvictionFacts ==
    ASSUME Stored, Listed, NEW t \in Turns, lockOf[SessionOf[t]] = None
    PROVE  /\ EvictsIdle(SessionOf[t], Evicted([lockOf EXCEPT ![SessionOf[t]] = t]))
           /\ Evicted([lockOf EXCEPT ![SessionOf[t]] = t]).table[SessionOf[t]] = t
<1> USE SessionsOf
<1> DEFINE s     == SessionOf[t]
           grown == [lockOf EXCEPT ![s] = t]
           busy  == {r \in Sessions : ~IdleLock(r)}
           c     == Cardinality(Held(grown)) - MaxLocks
           a     == Scanned(c)
           b     == SubSeq(order, Len(a) + 1, Len(order))
           k     == Kept(a, busy)
           left  == [r \in Sessions |-> IF r \in Elems(a) /\ IdleLock(r) THEN None ELSE grown[r]]
<1>1. Evicted(grown) = [table |-> left, order |-> b \o k]
  BY DEF Evicted
<1>2. /\ order \in Seq(Sessions) /\ Once(order) /\ Elems(order) = Held(lockOf)
      /\ s \in Sessions /\ t # None
      /\ lockOf \in [Sessions -> Turns \union {None}]
  BY TurnsAssumption DEF Stored, Listed
<1>3. PICK n \in 0..Len(order) : a = SubSeq(order, 1, n)
  <2> HIDE DEF c
  <2> QED
    BY ScannedFacts
<1>4. /\ Len(a) = n /\ a \in Seq(Sessions) /\ b \in Seq(Sessions)
      /\ Elems(order) = Elems(a) \union Elems(b)
      /\ Once(a) /\ Once(b) /\ Elems(a) \intersect Elems(b) = {}
  <2>1. LET x == SubSeq(order, 1, n)
            y == SubSeq(order, n + 1, Len(order))
        IN  /\ x \in Seq(Sessions) /\ y \in Seq(Sessions) /\ Len(x) = n
            /\ Elems(order) = Elems(x) \union Elems(y)
            /\ Once(x) /\ Once(y) /\ Elems(x) \intersect Elems(y) = {}
    BY <1>2, SplitFacts
  <2> HIDE DEF c
  <2> QED
    BY <1>3, <2>1
<1> HIDE DEF a, b
<1>5. /\ k \in Seq(Sessions) /\ Once(k) /\ Elems(k) = Elems(a) \intersect busy
  <2> HIDE DEF busy
  <2> QED
    BY <1>4, KeptFacts
<1> HIDE DEF k
<1>6. /\ b \o k \in Seq(Sessions) /\ Once(b \o k)
      /\ Elems(b \o k) = Elems(b) \union (Elems(a) \intersect busy)
  BY <1>4, <1>5, ConcatFacts
<1>7. s \notin Elems(a) /\ s \notin Elems(b)
  BY <1>2, <1>4 DEF Held
<1>8. /\ left \in [Sessions -> Turns \union {None}]
      /\ left[s] = t
      /\ \A r \in Sessions \ {s} :
            IF r \in Elems(a) /\ IdleLock(r) THEN left[r] = None ELSE left[r] = lockOf[r]
  BY <1>2, <1>7
<1> HIDE DEF left
<1>9. \A r \in Sessions \ {s} : r \in Elems(b \o k) <=> left[r] # None
  <2> TAKE r \in Sessions \ {s}
  <2>1. r \in Elems(a) \union Elems(b) <=> lockOf[r] # None
    BY <1>2, <1>4 DEF Held
  <2>2. r \in busy <=> ~IdleLock(r)
    OBVIOUS
  <2> QED
    BY <1>4, <1>6, <1>8, <2>1, <2>2
<1>10. Elems(b \o k) \subseteq Sessions
  BY <1>2, <1>4, <1>6 DEF Held
<1>11. Elems(b \o k) \ {s} = Held(left) \ {s}
  BY <1>9, <1>10 DEF Held
<1>12. EvictsIdle(s, [table |-> left, order |-> b \o k])
  BY <1>2, <1>6, <1>8, <1>11 DEF EvictsIdle
<1>13. Evicted(grown).table = left
  BY <1>1
<1> HIDE DEF grown
<1> QED
  BY <1>1, <1>8, <1>12, <1>13 DEF grown

\* The table and its order once turn t's session has a lock.
LEMMA TableFacts ==
    ASSUME Stored, Listed, NEW t \in Turns
    PROVE  /\ EvictsIdle(SessionOf[t], TableFor(t))
           /\ TableFor(t).table[SessionOf[t]] =
                 IF lockOf[SessionOf[t]] = None THEN t ELSE lockOf[SessionOf[t]]
<1> USE SessionsOf
<1> DEFINE s     == SessionOf[t]
           grown == [lockOf EXCEPT ![s] = t]
<1>0. /\ order \in Seq(Sessions) /\ Once(order) /\ Elems(order) = Held(lockOf)
      /\ s \in Sessions /\ t # None
      /\ lockOf \in [Sessions -> Turns \union {None}]
  BY TurnsAssumption DEF Stored, Listed
<1>1. CASE lockOf[s] # None
  <2>1. TableFor(t) = [table |-> lockOf, order |-> order]
    BY <1>1 DEF TableFor
  <2> QED
    BY <1>0, <1>1, <2>1 DEF EvictsIdle
<1>2. CASE lockOf[s] = None /\ Cardinality(Held(grown)) > MaxLocks
  <2>1. TableFor(t) = Evicted(grown)
    BY <1>2 DEF TableFor
  <2> QED
    BY <1>2, <2>1, EvictionFacts
<1>3. CASE lockOf[s] = None /\ ~(Cardinality(Held(grown)) > MaxLocks)
  <2>1. TableFor(t) = [table |-> grown, order |-> order]
    BY <1>3 DEF TableFor
  <2>2. /\ grown \in [Sessions -> Turns \union {None}] /\ grown[s] = t
        /\ \A r \in Sessions \ {s} : grown[r] = lockOf[r]
    BY <1>0
  <2> HIDE DEF grown
  <2>3. Elems(order) \ {s} = Held(grown) \ {s}
    BY <1>0, <2>2 DEF Held
  <2> QED
    BY <1>0, <1>3, <2>1, <2>2, <2>3 DEF EvictsIdle
<1> QED
  BY <1>1, <1>2, <1>3

\* What a turn does to the locks when it asks for its session's: the session
\* becomes the last of the order.
LEMMA RequestStored ==
    ASSUME Typed, Stored, Listed, NEW t \in Turns, RequestLock(t)
    PROVE  /\ lockOf' \in [Sessions -> Turns \union {None}]
           /\ order' \in Seq(Sessions)
           /\ lock' \in [Turns -> Turns \union {None}]
           /\ waiters' \in Seq(Turns)
           /\ Listed'
<1> USE SessionsOf
<1> DEFINE s    == SessionOf[t]
           left == TableFor(t)
           rest == Without(left.order, s)
<1>1. EvictsIdle(s, left)
  BY TableFacts
<1>2. /\ lockOf' = left.table
      /\ order' = Append(rest, s)
      /\ lock' = [lock EXCEPT ![t] = left.table[s]]
      /\ waiters' = waiters \/ waiters' = Append(waiters, t)
  BY DEF RequestLock
<1> HIDE DEF left
<1>3. /\ rest \in Seq(Sessions) /\ Once(rest) /\ Elems(rest) = Elems(left.order) \ {s}
  BY <1>1, WithoutFacts DEF EvictsIdle
<1> HIDE DEF rest
<1>4. order' = rest \o <<s>> /\ <<s>> \in Seq(Sessions) /\ Elems(<<s>>) = {s} /\ Once(<<s>>)
  BY <1>2, <1>3 DEF Elems, Once
<1>5. /\ order' \in Seq(Sessions) /\ Once(order')
      /\ Elems(order') = (Elems(left.order) \ {s}) \union {s}
  <2>1. Elems(rest) \intersect Elems(<<s>>) = {}
    BY <1>3, <1>4
  <2> DEFINE one == <<s>>
  <2>2. one \in Seq(Sessions) /\ Once(one) /\ Elems(rest) \intersect Elems(one) = {}
    BY <1>4, <2>1
  <2>3. order' = rest \o one /\ Elems(one) = {s}
    BY <1>4
  <2> HIDE DEF one
  <2>4. /\ rest \o one \in Seq(Sessions) /\ Once(rest \o one)
        /\ Elems(rest \o one) = Elems(rest) \union Elems(one)
    BY <1>3, <2>2, ConcatFacts
  <2> QED
    BY <1>3, <2>3, <2>4
<1>6. s \in Held(lockOf') /\ lockOf' \in [Sessions -> Turns \union {None}]
  BY <1>1, <1>2 DEF EvictsIdle, Held
<1>7. Elems(order') = Held(lockOf')
  BY <1>1, <1>2, <1>5, <1>6 DEF EvictsIdle
<1>8. Listed'
  BY <1>5, <1>7 DEF Listed
<1>9. lock' \in [Turns -> Turns \union {None}]
  BY <1>1, <1>2 DEF EvictsIdle, Stored
<1>10. waiters' \in Seq(Turns)
  <2>1. waiters \in Seq(Turns) /\ Append(waiters, t) \in Seq(Turns)
    BY AppendProperties DEF Stored
  <2> QED
    BY <1>2, <2>1
<1> QED
  BY <1>5, <1>6, <1>8, <1>9, <1>10

\* A step that leaves the table and the order as they are.
LEMMA ListedKept == ASSUME Listed, UNCHANGED <<lockOf, order>> PROVE Listed'
  BY DEF Listed, Held, Elems, Once

\* A cancellation reaches turns only.
LEMMA DeliverTyped == ASSUME Stored, NEW ts PROVE Deliver(ts) \subseteq Turns
  BY DEF Deliver, Reached, Stored

\* Every step keeps the types of tables, locks and history.
LEMMA StoredStep == Typed /\ Stored /\ Listed /\ [Next]_vars => Stored'
<1> SUFFICES ASSUME Typed, Stored, Listed, [Next]_vars PROVE Stored'
  OBVIOUS
<1> USE SessionsOf
<1>1. ASSUME NEW t \in Turns, Arrive(t) PROVE Stored'
  BY <1>1 DEF Arrive, Stored, lockVars, stopVars
<1>2. ASSUME NEW t \in Turns, Direct(t) PROVE Stored'
  BY <1>2, RequestStored DEF Direct, Stored, Statuses, stopVars
<1>3. ASSUME Start PROVE Stored'
  <2> PICK t \in Turns : t = Head(ready)
    BY <1>3 DEF Start, Typed
  <2>1. UNCHANGED <<stopVars, arrivals>>
    BY <1>3 DEF Start
  <2>2. CASE NeverRun(t)
    BY <2>1, <2>2 DEF NeverRun, Stored, lockVars, stopVars
  <2>3. CASE Interrupt(t)
    BY <2>1, <2>3, DeliverTyped DEF Interrupt, Stored, lockVars, stopVars
  <2>4. CASE DispatchAtOnce(t)
    BY <2>1, <2>4, RequestStored DEF DispatchAtOnce, Dispatch, Stored, Statuses, stopVars
  <2> QED
    BY <1>3, <2>2, <2>3, <2>4 DEF Start
<1>4. ASSUME NEW t \in Turns, Resume(t) PROVE Stored'
  <2>1. CASE Dispatch(t)
    BY <1>4, <2>1, RequestStored DEF Resume, Dispatch, Stored, Statuses, stopVars
  <2>2. CASE UNCHANGED <<pc, task, lockVars>>
    BY <1>4, <2>2 DEF Resume, Stored, lockVars, stopVars
  <2> QED
    BY <1>4, <2>1, <2>2 DEF Resume
<1>5. ASSUME NEW t \in Turns, Acquire(t) PROVE Stored'
  BY <1>5, WithoutTyped DEF Acquire, DropWaiter, Stored, Statuses, stopVars
<1>6. ASSUME NEW t \in Turns, Conclude(t) \/ Err(t) \/ Close(t) PROVE Stored'
  BY <1>6 DEF Conclude, Err, Close, Stored, Statuses, lockVars, stopVars
<1>7. ASSUME NEW t \in Turns, Cancelled(t) PROVE Stored'
  <2>1. CancelStatus(t) \in Statuses
    BY DEF CancelStatus, Stored, Statuses
  <2> QED
    BY <1>7, <2>1, WithoutTyped DEF Cancelled, DropWaiter, Stored, stopVars
<1>8. ASSUME NEW x \in Stops, Stop(x) \/ AnswerStop(x) PROVE Stored'
  BY <1>8, DeliverTyped DEF Stop, AnswerStop, Stored, turnVars, lockVars
<1>9. CASE UNCHANGED vars
  BY <1>9 DEF vars, turnVars, lockVars, stopVars, Stored
<1> QED
  BY <1>1, <1>2, <1>3, <1>4, <1>5, <1>6, <1>7, <1>8, <1>9 DEF Next

\* Every step keeps the order in step with the table: only a request for a lock
\* touches either.
LEMMA ListedStep == Typed /\ Stored /\ Listed /\ [Next]_vars => Listed'
<1> SUFFICES ASSUME Typed, Stored, Listed, [Next]_vars PROVE Listed'
  OBVIOUS
<1>1. ASSUME NEW t \in Turns, RequestLock(t) PROVE Listed'
  BY <1>1, RequestStored
<1>2. ASSUME UNCHANGED <<lockOf, order>> PROVE Listed'
  BY <1>2, ListedKept
<1>3. CASE Start
  <2> PICK t \in Turns : t = Head(ready)
    BY <1>3 DEF Start, Typed
  <2> QED
    BY <1>1, <1>2, <1>3
    DEF Start, NeverRun, Interrupt, DispatchAtOnce, Dispatch, lockVars
<1>4. ASSUME NEW t \in Turns, Direct(t) \/ Resume(t) PROVE Listed'
  BY <1>1, <1>2, <1>4 DEF Direct, Resume, Dispatch, lockVars
<1>5. ASSUME NEW t \in Turns,
             Arrive(t) \/ Acquire(t) \/ Conclude(t) \/ Err(t) \/ Close(t) \/ Cancelled(t)
      PROVE  Listed'
  BY <1>2, <1>5 DEF Arrive, Acquire, Conclude, Err, Close, Cancelled, lockVars
<1>6. ASSUME NEW x \in Stops, Stop(x) \/ AnswerStop(x) PROVE Listed'
  BY <1>2, <1>6 DEF Stop, AnswerStop, lockVars
<1>7. CASE UNCHANGED vars
  BY <1>2, <1>7 DEF vars, lockVars
<1> QED
  BY <1>3, <1>4, <1>5, <1>6, <1>7 DEF Next

TableInv == Typed /\ Stored /\ Listed

\* The first state: an empty table.
LEMMA InitTable == Init => TableInv
<1> SUFFICES ASSUME Init PROVE TableInv
  OBVIOUS
<1>1. Typed /\ Stored
  BY InitTyped DEF Init, Stored, Statuses
<1>2. Listed
  BY DEF Init, Listed, Held, Elems, Once
<1> QED
  BY <1>1, <1>2 DEF TableInv

\* Every step keeps the table.
LEMMA TableStep == TableInv /\ [Next]_vars => TableInv'
  BY TypedStep, StoredStep, ListedStep DEF TableInv

\* Type correctness, with any number of locks in the table and whatever is
\* evicted from it.
THEOREM DispatchTypeCorrect == Spec => []TypeOK
<1>1. TableInv => TypeOK
  BY DEF TableInv, Typed, Stored, TypeOK
<1> QED
  BY <1>1, InitTable, TableStep, PTL DEF Spec

\* The LRU order lists exactly the sessions that have a lock, each once,
\* whatever _evict_idle_session_locks takes and wherever it stops: it can
\* reach every lock, and finds none twice.
THEOREM OrderListsLocks == Spec => []OrderMatchesLocks
<1>1. TableInv => OrderMatchesLocks
  BY OnceCounted DEF TableInv, Stored, Listed, OrderMatchesLocks
<1> QED
  BY <1>1, InitTable, TableStep, PTL DEF Spec

-----------------------------------------------------------------------------
(* One turn per session *)

\* An eviction takes no lock for which a turn of the session waits.
AwaitedLocksStay ==
    \A t \in Turns \ cancel :
        pc[t] = "waiting" /\ lock[t] = lockOf[SessionOf[t]]
            => lockOf'[SessionOf[t]] = lock[t]

\* Turn t holds its session's lock, or waits for it and will take it.
AtLock(t) == InTurn(t) \/ (pc[t] = "waiting" /\ t \notin cancel)

\* A turn at its session's lock refers to the lock that is in the table.
LockShared ==
    \A t \in Turns : AtLock(t) => lock[t] # None /\ lock[t] = lockOf[SessionOf[t]]

\* A lock has one holder.
LockExclusive ==
    \A t, u \in Turns : InTurn(t) /\ InTurn(u) /\ lock[t] = lock[u] => t = u

ExclusionInv == TableInv /\ ReadySpawned /\ LockShared /\ LockExclusive

\* A step that moves one turn to a phase without the lock, or leaves it where
\* it was.
LEMMA LocksKept ==
    ASSUME ExclusionInv, NEW t \in Turns, NEW p, pc' = [pc EXCEPT ![t] = p],
           p \in {"spawned", "interrupting", "done"} \/ (p = "ending" /\ InTurn(t)),
           cancel \subseteq cancel', UNCHANGED <<lockOf, lock>>
    PROVE  (LockShared /\ LockExclusive)'
  BY DEF ExclusionInv, TableInv, Typed, LockShared, LockExclusive, AtLock, InTurn

\* A turn that asks for its session's lock gets that lock, or waits for it.
LEMMA RequestExclusive ==
    ASSUME ExclusionInv, AwaitedLocksStay, NEW t \in Turns, RequestLock(t), ~InTurn(t),
           pc[t] # "waiting", cancel' = cancel
    PROVE  (LockShared /\ LockExclusive)'
<1> USE SessionsOf
<1> DEFINE s    == SessionOf[t]
           mine == TableFor(t).table[s]
<1>0. /\ Typed /\ Stored /\ Listed /\ LockShared /\ LockExclusive
      /\ pc \in [Turns -> Phases] /\ lock \in [Turns -> Turns \union {None}]
  BY DEF ExclusionInv, TableInv, Typed, Stored
<1>1. EvictsIdle(s, TableFor(t))
  BY <1>0, TableFacts
<1>2. lockOf' = TableFor(t).table /\ lock' = [lock EXCEPT ![t] = mine]
  BY DEF RequestLock
<1>3. /\ mine # None /\ mine = lockOf'[s]
      /\ lockOf[s] # None => lockOf'[s] = lockOf[s]
      /\ \A r \in Sessions \ {s} : lockOf'[r] = lockOf[r] \/ IdleLock(r)
  BY <1>1, <1>2 DEF EvictsIdle
<1>4. PICK p \in {"running", "waiting"} : pc' = [pc EXCEPT ![t] = p]
  BY DEF RequestLock
<1>5. p = "running" => ~Locked(mine)
  <2>1. SUFFICES ASSUME ~MayTake(mine) PROVE p # "running"
    BY DEF MayTake
  <2>2. pc' = [pc EXCEPT ![t] = "waiting"]
    BY <2>1 DEF RequestLock
  <2> QED
    BY <1>0, <1>4, <2>2
<1> HIDE DEF mine
<1>6. ASSUME NEW u \in Turns, u # t, AtLock(u)
      PROVE  lock[u] # None /\ lockOf'[SessionOf[u]] = lock[u]
  <2>1. lock[u] # None /\ lock[u] = lockOf[SessionOf[u]]
    BY <1>0, <1>6 DEF LockShared
  <2>2. CASE InTurn(u)
    <3>1. ~IdleLock(SessionOf[u])
      BY <2>1, <2>2 DEF IdleLock, Locked
    <3> QED
      BY <1>3, <2>1, <3>1
  <2>3. CASE pc[u] = "waiting" /\ u \notin cancel
    BY <2>1, <2>3 DEF AwaitedLocksStay
  <2> QED
    BY <1>6, <2>1, <2>2, <2>3 DEF AtLock
<1>7. LockShared'
  <2> SUFFICES ASSUME NEW u \in Turns, AtLock(u)'
               PROVE  lock'[u] # None /\ lock'[u] = lockOf'[SessionOf[u]]
    BY DEF LockShared
  <2>1. CASE u = t
    BY <1>0, <1>2, <1>3, <2>1
  <2>2. CASE u # t
    <3>1. AtLock(u) /\ lock'[u] = lock[u]
      BY <1>0, <1>2, <1>4, <2>2 DEF AtLock, InTurn
    <3> QED
      BY <1>6, <2>2, <3>1
  <2> QED
    BY <2>1, <2>2
<1>8. LockExclusive'
  BY <1>0, <1>2, <1>4, <1>5 DEF LockExclusive, Locked, InTurn
<1> QED
  BY <1>7, <1>8

\* Every step keeps a lock with one holder and a session with one lock.
LEMMA ExclusionStep ==
    ExclusionInv /\ [Next]_vars /\ AwaitedLocksStay => (LockShared /\ LockExclusive)'
<1> SUFFICES ASSUME ExclusionInv, [Next]_vars, AwaitedLocksStay
             PROVE  (LockShared /\ LockExclusive)'
  OBVIOUS
<1>0. /\ Typed /\ Stored /\ ReadySpawned /\ LockShared /\ LockExclusive
      /\ pc \in [Turns -> Phases] /\ lock \in [Turns -> Turns \union {None}]
  BY DEF ExclusionInv, TableInv, Typed, Stored
<1>1. ASSUME NEW t \in Turns, Arrive(t) PROVE (LockShared /\ LockExclusive)'
  BY <1>1, LocksKept DEF Arrive, lockVars
<1>2. ASSUME NEW t \in Turns, Direct(t) PROVE (LockShared /\ LockExclusive)'
  BY <1>2, RequestExclusive DEF Direct, InTurn
<1>3. ASSUME Start PROVE (LockShared /\ LockExclusive)'
  <2> PICK t \in Turns : t = Head(ready)
    BY <1>0, <1>3 DEF Start, Typed
  <2>1. pc[t] = "spawned"
    <3>1. t = ready[1] /\ 1 \in 1..Len(ready)
      BY <1>0, <1>3 DEF Start, Typed
    <3> QED
      BY <1>0, <3>1 DEF ReadySpawned
  <2>2. CASE NeverRun(t)
    BY <2>2, LocksKept DEF NeverRun, lockVars
  <2>3. CASE Interrupt(t)
    BY <2>3, LocksKept DEF Interrupt, Deliver, lockVars
  <2>4. CASE DispatchAtOnce(t)
    BY <2>1, <2>4, RequestExclusive DEF DispatchAtOnce, Dispatch, InTurn
  <2> QED
    BY <1>3, <2>2, <2>3, <2>4 DEF Start
<1>4. ASSUME NEW t \in Turns, Resume(t) PROVE (LockShared /\ LockExclusive)'
  <2>1. CASE Dispatch(t)
    BY <1>4, <2>1, RequestExclusive DEF Resume, Dispatch, InTurn
  <2>2. CASE UNCHANGED <<pc, task, lockVars>>
    BY <1>0, <1>4, <2>2 DEF Resume, LockShared, LockExclusive, AtLock, InTurn, lockVars
  <2> QED
    BY <1>4, <2>1, <2>2 DEF Resume
<1>5. ASSUME NEW t \in Turns, Acquire(t) PROVE (LockShared /\ LockExclusive)'
  <2>1. /\ pc' = [pc EXCEPT ![t] = "running"] /\ AtLock(t) /\ ~Locked(lock[t])
        /\ UNCHANGED <<cancel, lockOf, lock>>
    BY <1>5 DEF Acquire, AtLock
  <2>2. LockShared'
    BY <1>0, <2>1 DEF LockShared, AtLock, InTurn
  <2>3. LockExclusive'
    BY <1>0, <2>1 DEF LockExclusive, Locked, InTurn
  <2> QED
    BY <2>2, <2>3
<1>6. ASSUME NEW t \in Turns, Conclude(t) \/ Err(t) \/ Close(t) \/ Cancelled(t)
      PROVE  (LockShared /\ LockExclusive)'
  <2>1. UNCHANGED <<cancel, lockOf, lock>>
    BY <1>6 DEF Conclude, Err, Close, Cancelled, lockVars
  <2>2. CASE Leave(t)
    BY <2>1, <2>2, LocksKept DEF Leave
  <2>3. CASE pc[t] = "running" /\ pc' = [pc EXCEPT ![t] = "ending"]
    BY <2>1, <2>3, LocksKept DEF InTurn
  <2>4. CASE pc' = pc
    BY <1>0, <2>1, <2>4 DEF LockShared, LockExclusive, AtLock, InTurn
  <2> QED
    BY <1>6, <2>2, <2>3, <2>4 DEF Conclude, Err, Close, Cancelled
<1>7. ASSUME NEW x \in Stops, Stop(x) \/ AnswerStop(x)
      PROVE  (LockShared /\ LockExclusive)'
  <2>1. cancel \subseteq cancel' /\ UNCHANGED <<pc, lockOf, lock>>
    BY <1>7 DEF Stop, AnswerStop, Deliver, turnVars, lockVars
  <2> QED
    BY <1>0, <2>1 DEF LockShared, LockExclusive, AtLock, InTurn
<1>8. CASE UNCHANGED vars
  BY <1>0, <1>8 DEF vars, turnVars, lockVars, LockShared, LockExclusive, AtLock, InTurn
<1> QED
  BY <1>1, <1>2, <1>3, <1>4, <1>5, <1>6, <1>7, <1>8 DEF Next

\* The first state: no turn is at a lock.
LEMMA InitExclusion == Init => ExclusionInv
  BY InitTyped, InitTable
  DEF Init, ExclusionInv, LockShared, LockExclusive, AtLock, InTurn

\* Every step keeps the invariant, if no awaited lock is evicted.
LEMMA ExclusionInvStep == ExclusionInv /\ [Next]_vars /\ AwaitedLocksStay => ExclusionInv'
  BY TableStep, ReadyStep, ExclusionStep DEF ExclusionInv, TableInv

\* The same of a step that may leave the state as it is.
LEMMA ExclusionInvStays ==
    ExclusionInv /\ [Next]_vars /\ [AwaitedLocksStay]_vars => ExclusionInv'
<1>1. ExclusionInv /\ UNCHANGED vars => AwaitedLocksStay
  BY DEF vars, lockVars, AwaitedLocksStay
<1> QED
  BY <1>1, ExclusionInvStep

\* The only way to two turns of a session at a time is the eviction of a lock
\* for which a turn waits (_evict_idle_session_locks asks locked(), which says
\* no between a release and the next waiter's turn): as long as none is taken,
\* the turns of a session run one at a time ("Process a message under a
\* per-session lock"), whatever the size of the table and however many turns,
\* corrections and stops there are.
THEOREM OneTurnUnlessEvicted == Spec /\ [][AwaitedLocksStay]_vars => []MutualExclusion
<1>1. ExclusionInv => MutualExclusion
  BY DEF ExclusionInv, LockShared, LockExclusive, MutualExclusion, AtLock, InTurn
<1> QED
  BY <1>1, InitExclusion, ExclusionInvStays, PTL DEF Spec

-----------------------------------------------------------------------------
(* A table with room for every session *)

Fits == Cardinality(Sessions) <= MaxLocks

\* Nothing is evicted from it.
LEMMA NoEviction ==
    ASSUME Fits, NEW t \in Turns
    PROVE  TableFor(t) =
             [table |-> IF lockOf[SessionOf[t]] # None THEN lockOf
                        ELSE [lockOf EXCEPT ![SessionOf[t]] = t],
              order |-> order]
<1> DEFINE grown == [lockOf EXCEPT ![SessionOf[t]] = t]
<1>1. Held(grown) \subseteq Sessions
  BY DEF Held
<1>2. /\ Cardinality(Held(grown)) <= Cardinality(Sessions)
      /\ Cardinality(Held(grown)) \in Nat
      /\ Cardinality(Sessions) \in Nat
  BY <1>1, FS_Subset, FS_CardinalityType, LocksAssumption
<1>3. ~(Cardinality(Held(grown)) > MaxLocks)
  BY <1>2, LocksAssumption DEF Fits
<1> QED
  BY <1>3 DEF TableFor

\* So no awaited lock is taken from it.
LEMMA RoomStep ==
    ASSUME Fits, ExclusionInv, [Next]_vars PROVE AwaitedLocksStay
<1>0. /\ LockShared /\ lockOf \in [Sessions -> Turns \union {None}]
      /\ \A t \in Turns \ cancel : pc[t] = "waiting" => lock[t] # None
  BY DEF ExclusionInv, TableInv, Stored, LockShared, AtLock
<1>1. ASSUME NEW t \in Turns, RequestLock(t) PROVE AwaitedLocksStay
  <2>1. lockOf' = IF lockOf[SessionOf[t]] # None THEN lockOf
                  ELSE [lockOf EXCEPT ![SessionOf[t]] = t]
    BY <1>1, NoEviction DEF RequestLock
  <2>2. \A s \in Sessions : lockOf[s] # None => lockOf'[s] = lockOf[s]
    BY <1>0, <2>1
  <2> QED
    BY <1>0, <2>2, SessionsOf DEF AwaitedLocksStay
<1>2. ASSUME lockOf' = lockOf PROVE AwaitedLocksStay
  BY <1>2 DEF AwaitedLocksStay
<1>3. CASE Start
  <2> PICK t \in Turns : t = Head(ready)
    BY <1>3 DEF Start, ExclusionInv, TableInv, Typed
  <2> QED
    BY <1>1, <1>2, <1>3
    DEF Start, NeverRun, Interrupt, DispatchAtOnce, Dispatch, lockVars
<1>4. ASSUME NEW t \in Turns, Direct(t) \/ Resume(t) PROVE AwaitedLocksStay
  BY <1>1, <1>2, <1>4 DEF Direct, Resume, Dispatch, lockVars
<1>5. ASSUME NEW t \in Turns,
             Arrive(t) \/ Acquire(t) \/ Conclude(t) \/ Err(t) \/ Close(t) \/ Cancelled(t)
      PROVE  AwaitedLocksStay
  BY <1>2, <1>5 DEF Arrive, Acquire, Conclude, Err, Close, Cancelled, lockVars
<1>6. ASSUME NEW x \in Stops, Stop(x) \/ AnswerStop(x) PROVE AwaitedLocksStay
  BY <1>2, <1>6 DEF Stop, AnswerStop, lockVars
<1>7. CASE UNCHANGED vars
  BY <1>2, <1>7 DEF vars, lockVars
<1> QED
  BY <1>3, <1>4, <1>5, <1>6, <1>7 DEF Next

\* In a table with room for every session no awaited lock is ever taken.
LEMMA RoomForAll == ASSUME Fits PROVE Spec => [][AwaitedLocksStay]_vars
<1>1. ExclusionInv /\ [Next]_vars => ExclusionInv' /\ AwaitedLocksStay
  BY RoomStep, ExclusionInvStep
<1> QED
  BY <1>1, InitExclusion, PTL DEF Spec

\* In a table with room for every session the turns of a session run one at a
\* time, however many turns, corrections and stops there are (_dispatch).
THEOREM OneTurnPerSession == ASSUME Fits PROVE Spec => []MutualExclusion
  BY RoomForAll, OneTurnUnlessEvicted, PTL
=============================================================================
