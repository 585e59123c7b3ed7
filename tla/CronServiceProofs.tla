-------------------------- MODULE CronServiceProofs --------------------------
(***************************************************************************)
(* What holds of CronService for every set of jobs and timer tasks.        *)
(***************************************************************************)
EXTENDS CronService, TLAPS

-----------------------------------------------------------------------------
(* The inductive invariant *)

\* What is stored was added, and is not what its user removed.
Stored ==
    /\ jobs \subseteq known
    /\ saved \subseteq known
    /\ removed \intersect (jobs \union saved) = {}

\* Only enabled jobs have a next run.
Listed == \A j \in Jobs : next[j] # "none" => j \in enabled

\* No timer task outlives the process.
Resting == process = "down" => \A t \in Ticks : phase[t] = "free"

\* The jobs a timer task still works on are enabled.
Batch == \A t \in Ticks : Busy(t) =>
    cur[t] \in enabled /\ todo[t] \subseteq enabled /\ cur[t] \notin todo[t]

\* One-shots that are due or taken have had their time.
Timely ==
    \A j \in OneShots :
        /\ next[j] = "due" => j \in past
        /\ \A t \in Ticks : Busy(t) /\ (cur[t] = j \/ j \in todo[t]) => j \in past

\* A one-shot that has been run has no way back.
Over ==
    \A j \in concluded :
        /\ j \in past /\ next[j] = "none"
        /\ \A t \in Ticks : Busy(t) => cur[t] # j /\ j \notin todo[t]

CronInv ==
    /\ TypeOK /\ Stored /\ Listed /\ Resting /\ OneTimer /\ Batch /\ Timely /\ Over
    /\ TimerSet /\ SavedWhenIdle

-----------------------------------------------------------------------------
(* Arming *)

\* A phase after the cancellations of Arm, for the tasks it does not create.
Left(t, ended) ==
    IF t \in ended THEN "free" ELSE IF t = timer THEN Cancel(t) ELSE phase[t]
Wanted(when) == process' = "up" /\ \E j \in enabled' : next'[j] \in when

Armed(ended) ==
    /\ halted' = FALSE
    /\ timer' \in Ticks \union {None}
    /\ phase' \in [Ticks -> Phases]
    /\ \A t \in Ticks : t # timer' => phase'[t] = Left(t, ended)
    /\ Wanted({"future", "due"}) =>
         /\ timer' \in Ticks
         /\ phase'[timer'] = IF Wanted({"due"}) THEN "ringing" ELSE "asleep"
    /\ ~Wanted({"future", "due"}) => timer' = None

\* What is true before the timer is armed.
LEMMA ArmFacts ==
    ASSUME phase \in [Ticks -> Phases], NEW ended \in SUBSET Ticks, Arm(ended)
    PROVE  Armed(ended)
<1> DEFINE left == [t \in Ticks |-> Left(t, ended)]
           unused == {t \in Ticks : left[t] = "free"}
           new == CHOOSE t \in unused : TRUE
<1>1. left \in [Ticks -> Phases]
  BY DEF Left, Cancel, Phases
<1>2. CASE Wanted({"future", "due"})
  <2>1. unused # {} /\ timer' = new
        /\ phase' = [left EXCEPT ![new] = IF Wanted({"due"}) THEN "ringing" ELSE "asleep"]
    BY <1>2 DEF Arm, Left, Wanted
  <2>2. new \in Ticks
    BY <2>1
  <2> HIDE DEF new, left
  <2>3. \A t \in Ticks : left[t] = Left(t, ended)
    BY DEF left
  <2> QED
    BY <1>1, <1>2, <2>1, <2>2, <2>3, JobsAssumption DEF Arm, Phases, Armed
<1>3. CASE ~Wanted({"future", "due"})
  <2>1. timer' = None /\ phase' = left
    BY <1>3 DEF Arm, Left, Wanted
  <2> QED
    BY <1>1, <1>3, <2>1 DEF Arm, Armed
<1> QED
  BY <1>2, <1>3

\* What arming leaves behind: no job is being run but by cancelled tasks, and
\* the new task waits for what there is.
LEMMA ArmedWell ==
    ASSUME TypeOK, OneTimer, NEW ended \in SUBSET Ticks, Arm(ended),
           \A j \in Jobs : next'[j] \in {"none", "future", "due"},
           enabled' \subseteq Jobs
    PROVE  OneTimer' /\ TimerSet' /\ \A t \in Ticks : ~Busy(t)'
<1>0. Armed(ended)
  BY ArmFacts DEF TypeOK
<1>1. \A t \in Ticks : t # timer' => phase'[t] \in {"free", "winding"}
  BY <1>0 DEF Armed, OneTimer, Left, Cancel, Alive, Busy, Phases, TypeOK
<1>2. timer' \in Ticks => phase'[timer'] \in {"asleep", "ringing"}
  BY <1>0, JobsAssumption DEF Armed
<1>3. OneTimer'
  BY <1>1 DEF OneTimer, Alive
<1>4. \A t \in Ticks : ~Busy(t)'
  BY <1>1, <1>2 DEF Busy
<1>5. TimerSet'
  <2> SUFFICES ASSUME process' = "up", \E j \in enabled' : next'[j] # "none"
               PROVE  /\ timer' # None /\ Alive(timer)'
                      /\ phase'[timer'] = "asleep" => \A j \in enabled' : next'[j] # "due"
    BY DEF TimerSet
  <2>1. Wanted({"future", "due"})
    BY DEF Wanted
  <2>2. /\ timer' \in Ticks
        /\ phase'[timer'] = IF Wanted({"due"}) THEN "ringing" ELSE "asleep"
    BY <2>1, <1>0 DEF Armed
  <2> QED
    BY <2>2, JobsAssumption DEF Wanted, Alive
<1> QED
  BY <1>3, <1>4, <1>5

\* Steps that save the store and arm the timer: what is left to show for each
\* of them is about the store.
LEMMA ArmingStep ==
    ASSUME CronInv, NEW ended \in SUBSET Ticks, Save, Arm(ended),
           next' \in [Jobs -> {"none", "future", "due"}],
           jobs' \subseteq Jobs, enabled' \subseteq jobs'
    PROVE  /\ OneTimer' /\ TimerSet' /\ SavedWhenIdle' /\ Batch'
           /\ \A t \in Ticks : ~Busy(t)'
           /\ timer' \in Ticks \union {None}
           /\ phase' \in [Ticks -> Phases]
           /\ saved' \subseteq Jobs /\ savedOn' \subseteq saved'
           /\ halted' = FALSE
<1>1. OneTimer' /\ TimerSet' /\ \A t \in Ticks : ~Busy(t)'
  BY ArmedWell DEF CronInv
<1>2. Armed(ended)
  BY ArmFacts DEF CronInv, TypeOK
<1>3. SavedWhenIdle'
  BY DEF SavedWhenIdle, Save
<1>4. Batch'
  BY <1>1 DEF Batch
<1> QED
  BY <1>1, <1>2, <1>3, <1>4 DEF Armed, Save

\* The first state has it.
LEMMA InitInv == Init => CronInv
<1> SUFFICES ASSUME Init PROVE CronInv
  OBVIOUS
<1>1. TypeOK
  <2>1. /\ restarts \in 0..MaxRestarts /\ stops \in 0..MaxStops
        /\ errors \in 0..MaxErrors
    BY BoundsAssumption DEF Init
  <2>2. /\ next \in [Jobs -> {"none", "future", "due"}]
        /\ phase \in [Ticks -> Phases]
        /\ cur \in [Ticks -> Jobs \union {None}]
        /\ todo \in [Ticks -> SUBSET Jobs]
    BY DEF Init, Phases
  <2> QED
    BY <2>1, <2>2 DEF Init, TypeOK
<1>2. Stored /\ Listed /\ Resting
  BY DEF Init, Stored, Listed, Resting
<1>3. OneTimer /\ Batch /\ Timely /\ Over /\ TimerSet /\ SavedWhenIdle
  BY JobsAssumption DEF Init, OneTimer, Batch, Timely, Over, TimerSet, SavedWhenIdle, Alive, Busy
<1> QED
  BY <1>1, <1>2, <1>3 DEF CronInv

\* An addition keeps it: the job is new and the timer is armed for it.
LEMMA AddInv == ASSUME CronInv, NEW j \in Jobs, Add(j) PROVE CronInv'
<1>1. /\ next' \in [Jobs -> {"none", "future", "due"}]
      /\ jobs' \subseteq Jobs /\ enabled' \subseteq jobs'
  BY DEF Add, CronInv, TypeOK, NextRun
<1>2. Save /\ Arm({})
  BY DEF Add
<1>3. /\ OneTimer' /\ TimerSet' /\ SavedWhenIdle' /\ Batch'
      /\ \A t \in Ticks : ~Busy(t)'
      /\ timer' \in Ticks \union {None}
      /\ phase' \in [Ticks -> Phases]
      /\ saved' \subseteq Jobs /\ savedOn' \subseteq saved'
      /\ halted' = FALSE
  BY <1>1, <1>2, ArmingStep
<1>4. TypeOK'
  BY <1>1, <1>3 DEF Add, CronInv, TypeOK, boundVars
<1>5. Stored' /\ Listed' /\ Resting'
  BY DEF Add, Save, CronInv, TypeOK, Stored, Listed, Resting, NextRun
<1>6. Timely'
  BY <1>3, JobsAssumption DEF Add, CronInv, TypeOK, Timely, NextRun
<1>7. Over'
  BY <1>3, JobsAssumption DEF Add, CronInv, TypeOK, Over, NextRun
<1> QED
  BY <1>3, <1>4, <1>5, <1>6, <1>7 DEF CronInv

\* A removal keeps it: the arming cancels the task that may have the job.
LEMMA RemoveInv == ASSUME CronInv, NEW j \in Jobs, Remove(j) PROVE CronInv'
<1>1. /\ next' \in [Jobs -> {"none", "future", "due"}]
      /\ jobs' \subseteq Jobs /\ enabled' \subseteq jobs'
  BY DEF Remove, CronInv, TypeOK
<1>2. Save /\ Arm({})
  BY DEF Remove
<1>3. /\ OneTimer' /\ TimerSet' /\ SavedWhenIdle' /\ Batch'
      /\ \A t \in Ticks : ~Busy(t)'
      /\ timer' \in Ticks \union {None}
      /\ phase' \in [Ticks -> Phases]
      /\ saved' \subseteq Jobs /\ savedOn' \subseteq saved'
      /\ halted' = FALSE
  BY <1>1, <1>2, ArmingStep
<1>4. TypeOK'
  BY <1>1, <1>3, ZenonT(30) DEF Remove, CronInv, TypeOK, Stored, boundVars
<1>5. Stored' /\ Listed' /\ Resting'
  BY DEF Remove, Save, CronInv, TypeOK, Stored, Listed, Resting
<1>6. Timely' /\ Over'
  BY <1>3, JobsAssumption DEF Remove, CronInv, TypeOK, Timely, Over
<1> QED
  BY <1>3, <1>4, <1>5, <1>6 DEF CronInv

\* A boot keeps it: what the file holds was never removed or over.
LEMMA BootInv == ASSUME CronInv, Boot PROVE CronInv'
<1>1. /\ next' \in [Jobs -> {"none", "future", "due"}]
      /\ jobs' \subseteq Jobs /\ enabled' \subseteq jobs'
  BY DEF Boot, CronInv, TypeOK, NextRun
<1>2. Save /\ Arm({})
  BY DEF Boot
<1>3. /\ OneTimer' /\ TimerSet' /\ SavedWhenIdle' /\ Batch'
      /\ \A t \in Ticks : ~Busy(t)'
      /\ timer' \in Ticks \union {None}
      /\ phase' \in [Ticks -> Phases]
      /\ saved' \subseteq Jobs /\ savedOn' \subseteq saved'
      /\ halted' = FALSE
  BY <1>1, <1>2, ArmingStep
<1>4. TypeOK'
  BY <1>1, <1>3 DEF Boot, CronInv, TypeOK, boundVars, pastVars
<1>5. Stored' /\ Listed' /\ Resting'
  BY DEF Boot, Save, CronInv, TypeOK, Stored, Listed, Resting, pastVars
<1>6. Timely' /\ Over'
  BY <1>3, JobsAssumption DEF Boot, CronInv, TypeOK, Timely, Over, NextRun, pastVars
<1> QED
  BY <1>3, <1>4, <1>5, <1>6 DEF CronInv

\* A timer that rings keeps it: its batch is what is due and enabled.
LEMMA WakeInv == ASSUME CronInv, NEW t \in Ticks, Wake(t) PROVE CronInv'
<1> DEFINE due == {j \in enabled : next[j] = "due"}
<1>0. UNCHANGED <<process, storeVars, past, boundVars, pastVars>>
  BY DEF Wake
<1>1. CASE due = {}
  <2>1. Save /\ Arm({t}) /\ UNCHANGED <<cur, todo>>
    BY <1>1 DEF Wake
  <2>2. /\ next' \in [Jobs -> {"none", "future", "due"}]
        /\ jobs' \subseteq Jobs /\ enabled' \subseteq jobs'
    BY <1>0 DEF CronInv, TypeOK, storeVars
  <2>3. /\ OneTimer' /\ TimerSet' /\ SavedWhenIdle' /\ Batch'
        /\ \A k \in Ticks : ~Busy(k)'
        /\ timer' \in Ticks \union {None}
        /\ phase' \in [Ticks -> Phases]
        /\ saved' \subseteq Jobs /\ savedOn' \subseteq saved'
        /\ halted' = FALSE
    BY <2>1, <2>2, ArmingStep
  <2>4. TypeOK'
    BY <1>0, <2>1, <2>3 DEF CronInv, TypeOK, storeVars, boundVars, pastVars
  <2>5. Stored' /\ Listed'
    BY <1>0, <2>1 DEF Save, CronInv, TypeOK, Stored, Listed, storeVars, pastVars
  <2>6. Resting'
    BY <1>0 DEF Wake, CronInv, Resting
  <2>7. Timely' /\ Over'
    BY <1>0, <2>3 DEF CronInv, Timely, Over, storeVars, pastVars
  <2> QED
    BY <2>3, <2>4, <2>5, <2>6, <2>7 DEF CronInv
<1>2. CASE due # {}
  <2>1. PICK j \in due :
            /\ phase' = [phase EXCEPT ![t] = "working"]
            /\ cur' = [cur EXCEPT ![t] = j]
            /\ todo' = [todo EXCEPT ![t] = due \ {j}]
            /\ UNCHANGED <<timer, halted, fileVars>>
    BY <1>2 DEF Wake, Execute
  <2>2. t = timer /\ phase[t] = "ringing"
    BY DEF Wake, CronInv, OneTimer, Alive
  <2>3. TypeOK'
    BY <1>0, <2>1 DEF CronInv, TypeOK, Phases, storeVars, fileVars, boundVars, pastVars
  <2>4. Stored' /\ Listed'
    BY <1>0, <2>1 DEF CronInv, Stored, Listed, storeVars, fileVars, pastVars
  <2>5. Resting'
    BY <1>0, <2>2 DEF CronInv, Resting
  <2>6. OneTimer' /\ TimerSet'
    BY <1>0, <2>1, <2>2, JobsAssumption
    DEF CronInv, TypeOK, OneTimer, TimerSet, Alive, storeVars
  <2>7. Batch'
    BY <1>0, <2>1 DEF CronInv, TypeOK, Batch, Busy, storeVars
  <2>8. Timely'
    BY <1>0, <2>1 DEF CronInv, TypeOK, Timely, Busy, storeVars
  <2>9. Over'
    BY <1>0, <2>1, JobsAssumption DEF CronInv, TypeOK, Over, Busy, storeVars, pastVars
  <2>10. SavedWhenIdle'
    BY <2>1 DEF CronInv, TypeOK, SavedWhenIdle, Busy
  <2> QED
    BY <2>3, <2>4, <2>5, <2>6, <2>7, <2>8, <2>9, <2>10 DEF CronInv
<1> QED
  BY <1>1, <1>2

\* The end of a job keeps it, whether the batch goes on or is saved.
LEMMA FinishInv == ASSUME CronInv, NEW t \in Ticks, Finish(t) PROVE CronInv'
<1> DEFINE j == cur[t]
<1>0. /\ Busy(t) /\ Handled(j) /\ UNCHANGED process
      /\ UNCHANGED <<past, boundVars, known, removed>>
      /\ t = timer
      /\ j \in enabled /\ j \in jobs /\ j \in Jobs
  BY DEF Finish, CronInv, TypeOK, Batch, OneTimer, Alive, Busy
<1>1. /\ next' \in [Jobs -> {"none", "future", "due"}]
      /\ jobs' \subseteq Jobs /\ enabled' \subseteq jobs'
      /\ concluded' \subseteq OneShots
      /\ jobs' \subseteq jobs
  BY <1>0, JobsAssumption DEF Handled, CronInv, TypeOK, NextRun
<1>2. Listed'
  BY <1>0 DEF Handled, CronInv, TypeOK, Listed
<1>3. \A i \in OneShots : next'[i] = "due" => i \in past
  BY <1>0, JobsAssumption DEF Handled, CronInv, TypeOK, Timely, NextRun
<1>4. \A i \in concluded' : i \in past /\ next'[i] = "none"
  BY <1>0, JobsAssumption DEF Handled, CronInv, TypeOK, Over, Timely
<1>5. \A k \in Ticks : Busy(k) => k = t
  BY <1>0 DEF CronInv, OneTimer, Alive, Busy
<1>6. CASE todo[t] = {}
  <2>1. Save /\ Arm({t}) /\ cur' = [cur EXCEPT ![t] = None] /\ UNCHANGED todo
    BY <1>6 DEF Finish
  <2>2. /\ OneTimer' /\ TimerSet' /\ SavedWhenIdle' /\ Batch'
        /\ \A k \in Ticks : ~Busy(k)'
        /\ timer' \in Ticks \union {None}
        /\ phase' \in [Ticks -> Phases]
        /\ saved' \subseteq Jobs /\ savedOn' \subseteq saved'
        /\ halted' = FALSE
    BY <1>1, <2>1, ArmingStep
  <2>3. TypeOK'
    BY <1>0, <1>1, <2>1, <2>2 DEF CronInv, TypeOK, boundVars
  <2>4. Stored' /\ Resting'
    BY <1>0, <1>1, <2>1 DEF Save, CronInv, TypeOK, Stored, Resting, Busy
  <2>5. Timely' /\ Over'
    BY <1>0, <1>3, <1>4, <2>2 DEF Timely, Over
  <2> QED
    BY <1>2, <2>2, <2>3, <2>4, <2>5 DEF CronInv
<1>7. CASE todo[t] # {}
  <2>1. PICK i \in todo[t] :
            /\ phase' = [phase EXCEPT ![t] = "working"]
            /\ cur' = [cur EXCEPT ![t] = i]
            /\ todo' = [todo EXCEPT ![t] = todo[t] \ {i}]
            /\ UNCHANGED <<timer, halted, fileVars>>
    BY <1>7 DEF Finish, Execute
  <2>2. \A k \in Ticks : Busy(k)' => k = t
    BY <1>5, <2>1 DEF Busy, CronInv, TypeOK
  <2>3. TypeOK'
    BY <1>0, <1>1, <2>1 DEF CronInv, TypeOK, Phases, fileVars, boundVars
  <2>4. Stored'
    BY <1>0, <1>1, <2>1 DEF CronInv, TypeOK, Stored, fileVars
  <2>5. Resting'
    BY <1>0 DEF CronInv, Resting, Busy
  <2>6. OneTimer'
    BY <1>0, <2>1 DEF CronInv, TypeOK, OneTimer, Alive
  <2>7. TimerSet'
    BY <1>0, <2>1, JobsAssumption DEF CronInv, TypeOK, TimerSet, Alive
  <2>8. Batch'
    BY <1>0, <2>1, <2>2 DEF Handled, CronInv, TypeOK, Batch
  <2>9. Timely'
    BY <1>0, <1>3, <2>1, <2>2 DEF CronInv, TypeOK, Timely
  <2>10. \A c \in concluded' : cur'[t] # c /\ c \notin todo'[t]
    BY <1>0, <2>1 DEF Handled, CronInv, TypeOK, Over, Batch
  <2>11. Over'
    BY <1>0, <1>4, <2>2, <2>10 DEF Over
  <2>12. SavedWhenIdle'
    BY <2>1 DEF CronInv, TypeOK, SavedWhenIdle, Busy
  <2> QED
    BY <1>2, <2>3, <2>4, <2>5, <2>6, <2>7, <2>8, <2>9, <2>11, <2>12 DEF CronInv
<1> QED
  BY <1>6, <1>7

\* Steps of one timer task that leave the store alone.
LEMMA TaskInv ==
    ASSUME CronInv, NEW t \in Ticks, Return(t) \/ Raise(t) \/ StopTurn(t) \/ Unwind(t)
    PROVE  CronInv'
<1>1. CASE Return(t)
  <2>1. t = timer
    BY <1>1 DEF Return, CronInv, OneTimer, Alive
  <2>2. TypeOK'
    BY <1>1 DEF Return, CronInv, TypeOK, Phases, storeVars, fileVars, boundVars, pastVars
  <2>3. Stored' /\ Listed' /\ Resting'
    BY <1>1 DEF Return, CronInv, Stored, Listed, Resting, storeVars, fileVars, pastVars
  <2>4. OneTimer' /\ TimerSet' /\ SavedWhenIdle'
    BY <1>1, <2>1, JobsAssumption
    DEF Return, CronInv, TypeOK, OneTimer, TimerSet, SavedWhenIdle, Alive, Busy, storeVars
  <2>5. Batch' /\ Timely' /\ Over'
    BY <1>1 DEF Return, CronInv, TypeOK, Batch, Timely, Over, Busy, storeVars, pastVars
  <2> QED
    BY <2>2, <2>3, <2>4, <2>5 DEF CronInv
<1>2. CASE Raise(t)
  <2>1. TypeOK'
    BY <1>2, BoundsAssumption
    DEF Raise, CronInv, TypeOK, Phases, storeVars, fileVars, pastVars
  <2>2. Stored' /\ Listed' /\ Resting'
    BY <1>2 DEF Raise, CronInv, Stored, Listed, Resting, storeVars, fileVars, pastVars
  <2>3. OneTimer' /\ TimerSet' /\ SavedWhenIdle'
    BY <1>2 DEF Raise, CronInv, TypeOK, OneTimer, TimerSet, SavedWhenIdle, Alive
  <2>4. Batch' /\ Timely' /\ Over'
    BY <1>2 DEF Raise, CronInv, TypeOK, Batch, Timely, Over, Busy, storeVars, pastVars
  <2> QED
    BY <2>1, <2>2, <2>3, <2>4 DEF CronInv
<1>3. CASE StopTurn(t)
  <2>1. TypeOK'
    BY <1>3, BoundsAssumption
    DEF StopTurn, CronInv, TypeOK, Phases, storeVars, fileVars, pastVars
  <2>2. Stored' /\ Listed' /\ Resting'
    BY <1>3 DEF StopTurn, CronInv, Stored, Listed, Resting, storeVars, fileVars, pastVars
  <2>3. OneTimer' /\ TimerSet' /\ SavedWhenIdle'
    BY <1>3 DEF StopTurn, CronInv, TypeOK, OneTimer, TimerSet, SavedWhenIdle, Alive
  <2>4. Batch' /\ Timely' /\ Over'
    BY <1>3 DEF StopTurn, CronInv, TypeOK, Batch, Timely, Over, Busy, storeVars, pastVars
  <2> QED
    BY <2>1, <2>2, <2>3, <2>4 DEF CronInv
<1>4. CASE Unwind(t)
  <2>1. TypeOK'
    BY <1>4 DEF Unwind, CronInv, TypeOK, Phases, storeVars, fileVars, boundVars, pastVars
  <2>2. Stored' /\ Listed' /\ Resting'
    BY <1>4 DEF Unwind, CronInv, Stored, Listed, Resting, storeVars, fileVars, pastVars
  <2>3. OneTimer'
    BY <1>4 DEF Unwind, CronInv, TypeOK, OneTimer, Alive
  <2>4. TimerSet'
    BY <1>4, JobsAssumption DEF Unwind, CronInv, TypeOK, TimerSet, Alive, storeVars
  <2>5. SavedWhenIdle'
    BY <1>4 DEF Unwind, CronInv, TypeOK, SavedWhenIdle, Busy, storeVars, fileVars
  <2>6. Batch' /\ Timely' /\ Over'
    BY <1>4 DEF Unwind, CronInv, TypeOK, Batch, Timely, Over, Busy, storeVars, pastVars
  <2> QED
    BY <2>1, <2>2, <2>3, <2>4, <2>5, <2>6 DEF CronInv
<1> QED
  BY <1>1, <1>2, <1>3, <1>4

\* A stop of the service keeps it.
LEMMA StopInv == ASSUME CronInv, Stop PROVE CronInv'
<1>1. TypeOK'
  BY DEF Stop, CronInv, TypeOK, Cancel, Phases, storeVars, fileVars, boundVars, pastVars
<1>2. Stored' /\ Listed' /\ Resting'
  BY DEF Stop, CronInv, Stored, Listed, Resting, storeVars, fileVars, pastVars
<1>3. \A t \in Ticks : ~Alive(t)'
  BY DEF Stop, CronInv, TypeOK, OneTimer, Alive, Cancel, Busy
<1>4. OneTimer' /\ TimerSet' /\ SavedWhenIdle'
  BY <1>3 DEF Stop, OneTimer, TimerSet, SavedWhenIdle
<1>5. Batch' /\ Timely' /\ Over'
  BY <1>3 DEF Stop, CronInv, Batch, Timely, Over, Busy, Alive, storeVars, pastVars
<1> QED
  BY <1>1, <1>2, <1>4, <1>5 DEF CronInv

\* A crash keeps it: the file stays as it is.
LEMMA CrashInv == ASSUME CronInv, Crash PROVE CronInv'
<1>1. TypeOK'
  <2>1. restarts' \in 0..MaxRestarts
    BY BoundsAssumption DEF Crash, CronInv, TypeOK
  <2> QED
    BY <2>1 DEF Crash, CronInv, TypeOK, Phases, fileVars, pastVars
<1>2. Stored' /\ Listed' /\ Resting'
  BY DEF Crash, CronInv, Stored, Listed, Resting, fileVars, pastVars
<1>3. OneTimer' /\ TimerSet' /\ SavedWhenIdle'
  BY DEF Crash, OneTimer, TimerSet, SavedWhenIdle, Alive
<1>4. Batch' /\ Timely' /\ Over'
  BY JobsAssumption DEF Crash, CronInv, TypeOK, Batch, Timely, Over, Busy, pastVars
<1> QED
  BY <1>1, <1>2, <1>3, <1>4 DEF CronInv

\* The clock keeps it.
LEMMA ReachInv == ASSUME CronInv, NEW j \in Jobs, Reach(j) PROVE CronInv'
<1>0. UNCHANGED <<process, jobs, enabled, fileVars, timer, cur, todo, halted,
                  boundVars, pastVars>>
  BY DEF Reach
<1>1. /\ next' \in [Jobs -> {"none", "future", "due"}]
      /\ \A i \in Jobs : next'[i] # next[i] => i = j /\ next[i] = "future" /\ next'[i] = "due"
      /\ past \subseteq past' /\ past' \subseteq OneShots
      /\ j \in OneShots => j \in past'
  BY DEF Reach, CronInv, TypeOK
<1>2. /\ phase' \in [Ticks -> Phases]
      /\ \A t \in Ticks : phase'[t] # phase[t] => phase[t] = "asleep" /\ phase'[t] = "ringing"
      /\ next'[j] # next[j] => \A t \in Ticks : phase'[t] # "asleep"
  BY DEF Reach, CronInv, TypeOK, Phases
<1>3. TypeOK'
  BY <1>0, <1>1, <1>2 DEF CronInv, TypeOK, fileVars, boundVars, pastVars
<1>4. Stored' /\ Resting'
  BY <1>0, <1>2 DEF CronInv, Stored, Resting, fileVars, pastVars
<1>5. Listed'
  BY <1>0, <1>1 DEF CronInv, Listed
<1>6. \A t \in Ticks : (Alive(t)' <=> Alive(t)) /\ (Busy(t)' <=> Busy(t))
  BY <1>2 DEF Alive, Busy
<1>7. OneTimer' /\ Batch' /\ SavedWhenIdle'
  BY <1>0, <1>6 DEF CronInv, OneTimer, Batch, SavedWhenIdle, fileVars
<1>8. TimerSet'
  <2> SUFFICES ASSUME process = "up", ~halted, NEW i \in enabled, next'[i] # "none"
               PROVE  /\ timer # None /\ Alive(timer)'
                      /\ phase'[timer] = "asleep" => \A k \in enabled : next'[k] # "due"
    BY <1>0 DEF TimerSet
  <2>1. i \in Jobs /\ next[i] # "none"
    BY <1>1 DEF CronInv, TypeOK
  <2>2. timer \in Ticks /\ Alive(timer)
        /\ (phase[timer] = "asleep" => \A k \in enabled : next[k] # "due")
    BY <2>1 DEF CronInv, TimerSet, TypeOK
  <2>3. ASSUME phase'[timer] = "asleep", NEW k \in enabled PROVE next'[k] # "due"
    <3>1. next' = next
      BY <1>2, <2>2, <2>3 DEF Reach, CronInv, TypeOK
    <3>2. phase[timer] = "asleep"
      BY <1>2, <2>2, <2>3
    <3> QED
      BY <2>2, <3>1, <3>2
  <2> QED
    BY <1>0, <1>6, <2>2, <2>3, JobsAssumption
<1>9. Timely'
  BY <1>0, <1>1, <1>6, JobsAssumption DEF CronInv, Timely
<1>10. Over'
  BY <1>0, <1>1, <1>6, JobsAssumption DEF CronInv, TypeOK, Over, pastVars
<1> QED
  BY <1>3, <1>4, <1>5, <1>7, <1>8, <1>9, <1>10 DEF CronInv

\* A stuttering step keeps it.
LEMMA StutterInv == ASSUME CronInv, UNCHANGED vars PROVE CronInv'
<1> USE DEF vars, storeVars, fileVars, timerVars, boundVars, pastVars
<1>1. TypeOK'
  BY DEF CronInv, TypeOK
<1>2. Stored' /\ Listed' /\ Resting'
  BY DEF CronInv, Stored, Listed, Resting
<1>3. OneTimer' /\ TimerSet' /\ SavedWhenIdle'
  BY DEF CronInv, OneTimer, TimerSet, SavedWhenIdle, Alive, Busy
<1>4. Batch' /\ Timely' /\ Over'
  BY DEF CronInv, Batch, Timely, Over, Busy
<1> QED
  BY <1>1, <1>2, <1>3, <1>4 DEF CronInv

\* Every step keeps it.
LEMMA StepInv == CronInv /\ [Next]_vars => CronInv'
<1> SUFFICES ASSUME CronInv, [Next]_vars PROVE CronInv'
  OBVIOUS
<1>1. ASSUME NEW t \in Ticks, Wake(t) PROVE CronInv'
  BY <1>1, WakeInv
<1>2. ASSUME NEW t \in Ticks, Finish(t) PROVE CronInv'
  BY <1>2, FinishInv
<1>3. ASSUME NEW t \in Ticks, Return(t) \/ Raise(t) \/ StopTurn(t) \/ Unwind(t)
      PROVE  CronInv'
  BY <1>3, TaskInv
<1>4. ASSUME NEW j \in Jobs, Add(j) PROVE CronInv'
  BY <1>4, AddInv
<1>5. ASSUME NEW j \in Jobs, Remove(j) PROVE CronInv'
  BY <1>5, RemoveInv
<1>6. ASSUME NEW j \in Jobs, Reach(j) PROVE CronInv'
  BY <1>6, ReachInv
<1>7. Boot => CronInv'
  BY BootInv
<1>8. Stop => CronInv'
  BY StopInv
<1>9. Crash => CronInv'
  BY CrashInv
<1>10. UNCHANGED vars => CronInv'
  BY StutterInv
<1> QED
  BY <1>1, <1>2, <1>3, <1>4, <1>5, <1>6, <1>7, <1>8, <1>9, <1>10 DEF Next

\* A job is started only from the due jobs, which are enabled and not yet over.
LEMMA StartsDue ==
    ASSUME CronInv, [Next]_vars, NEW t \in Ticks, NEW j \in Jobs, Starts(t, j)
    PROVE  j \in enabled /\ j \notin concluded
<1> DEFINE Quiet == \A k \in Ticks : phase'[k] # "working" \/ (phase'[k] = phase[k] /\ cur'[k] = cur[k])
<1>0. Quiet => FALSE
  BY DEF Starts
<1> HIDE DEF Quiet
<1>1. ASSUME NEW k \in Ticks, Wake(k), {i \in enabled : next[i] = "due"} # {}
      PROVE  j \in enabled /\ j \notin concluded
  <2>1. PICK i \in {i \in enabled : next[i] = "due"} :
            phase' = [phase EXCEPT ![k] = "working"] /\ cur' = [cur EXCEPT ![k] = i]
    BY <1>1 DEF Wake, Execute
  <2>2. i = j
    BY <2>1 DEF Starts, CronInv, TypeOK
  <2> QED
    BY <2>2 DEF CronInv, Over
<1>2. ASSUME NEW k \in Ticks, Finish(k), todo[k] # {}
      PROVE  j \in enabled /\ j \notin concluded
  <2>1. PICK i \in todo[k] :
            phase' = [phase EXCEPT ![k] = "working"] /\ cur' = [cur EXCEPT ![k] = i]
    BY <1>2 DEF Finish, Execute
  <2>2. i = j
    BY <2>1 DEF Starts, CronInv, TypeOK
  <2> QED
    BY <1>2, <2>2 DEF Finish, CronInv, Batch, Over
<1>3. ASSUME NEW ended \in SUBSET Ticks, Arm(ended), CronInv' PROVE Quiet
  <2>1. \A k \in Ticks : ~Busy(k)'
    BY <1>3, ArmedWell DEF CronInv, TypeOK
  <2> QED
    BY <2>1 DEF Busy, Quiet
<1>4. CronInv'
  BY StepInv
<1>5. ASSUME NEW k \in Ticks, Wake(k), {i \in enabled : next[i] = "due"} = {} PROVE Quiet
  BY <1>3, <1>4, <1>5 DEF Wake
<1>6. ASSUME NEW k \in Ticks, Finish(k), todo[k] = {} PROVE Quiet
  BY <1>3, <1>4, <1>6 DEF Finish
<1>7. ASSUME NEW k \in Ticks, Return(k) \/ Raise(k) \/ StopTurn(k) \/ Unwind(k) PROVE Quiet
  BY <1>7 DEF Quiet, Return, Raise, StopTurn, Unwind, CronInv, TypeOK
<1>8. ASSUME NEW i \in Jobs, Add(i) \/ Remove(i) PROVE Quiet
  BY <1>3, <1>4, <1>8 DEF Add, Remove
<1>9. ASSUME NEW i \in Jobs, Reach(i) PROVE Quiet
  BY <1>9 DEF Quiet, Reach, CronInv, TypeOK
<1>10. Boot => Quiet
  BY <1>3, <1>4 DEF Boot
<1>11. Stop \/ Crash => Quiet
  BY DEF Quiet, Stop, Crash, Cancel, CronInv, TypeOK
<1>12. UNCHANGED vars => Quiet
  BY DEF Quiet, vars, timerVars
<1> QED
  BY <1>0, <1>1, <1>2, <1>5, <1>6, <1>7, <1>8, <1>9, <1>10, <1>11, <1>12 DEF Next

\* It is an invariant of the specification.
LEMMA CronInvariant == Spec => []CronInv
  BY InitInv, StepInv, PTL DEF Spec

-----------------------------------------------------------------------------
(* The theorems *)

\* Every variable of the cron service keeps its type.
THEOREM CronTypeCorrect == Spec => []TypeOK
  BY CronInvariant, PTL DEF CronInv

\* Only the task in _timer_task goes on: however often the timer is armed
\* during a job, no two tasks work through the due jobs.
THEOREM OneTimerOnly == Spec => []OneTimer
  BY CronInvariant, PTL DEF CronInv

\* Unless it was stopped or failed, the timer is set whenever a job has a next
\* run, and is awake when one is due.
THEOREM TimerIsSet == Spec => []TimerSet
  BY CronInvariant, PTL DEF CronInv

\* Between jobs the file holds the store.
THEOREM StoreIsSaved == Spec => []SavedWhenIdle
  BY CronInvariant, PTL DEF CronInv

\* A removed job is not started, from whichever list it was taken.
THEOREM RemovedStaysRemoved == Spec => RemovedNeverStarts
<1>1. CronInv /\ [Next]_vars => [\A t \in Ticks : \A j \in removed : ~Starts(t, j)]_vars
  BY StartsDue DEF CronInv, TypeOK, Stored
<1> QED
  BY <1>1, CronInvariant, PTL DEF Spec, RemovedNeverStarts

\* A one-shot that was run to its end is over, in this process and in the next.
THEOREM OneShotIsOver == Spec => OneShotRunsOnce
<1>1. CronInv /\ [Next]_vars => [\A t \in Ticks : \A j \in concluded : ~Starts(t, j)]_vars
  BY StartsDue, JobsAssumption DEF CronInv, TypeOK
<1> QED
  BY <1>1, CronInvariant, PTL DEF Spec, OneShotRunsOnce
=============================================================================
