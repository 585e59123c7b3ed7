--------------------------- MODULE SessionHistory ---------------------------
(***************************************************************************)
(* The messages of one session and everybody who rewrites them: the turn   *)
(* that holds the session's lock, /new and /model, the background          *)
(* consolidation into the memory files, the archive jobs of /new           *)
(* (agent/loop.py, agent/memory.py), and those who take no lock at all:    *)
(* the AgentBridge channel, the web UI's routes and the watchdog.          *)
(*                                                                         *)
(* A session is an object in a cache and a file that is written as a whole *)
(* (session/manager.py).  A turn keeps the object it was given at its      *)
(* start until it saves it; whoever finds the cache empty meanwhile loads  *)
(* a second object from the file.  One step is what the event loop runs    *)
(* between two awaits, so the sections under _consolidation_locks, which   *)
(* never await, are atomic.  Messages are numbered in the order in which   *)
(* they are first saved; a turn's messages count as one.                   *)
(***************************************************************************)
EXTENDS Naturals, Sequences, SequencesExt, FiniteSets

CONSTANTS
    Archivists,    \* archive jobs of /new under way at the same time
    Consolidator,  \* the session's background consolidation
    None,
    Window,        \* memory_window, in messages
    MaxMessages,   \* bound: messages saved
    MaxNews,       \* bound: /new and /model commands that clear the session
    MaxStuck,      \* bound: sessions the watchdog takes for stuck
    MaxDrops,      \* bound: sessions the web UI deletes or archives
    MaxFailures    \* bound: crashes and failed memory writes

Jobs    == Archivists \union {Consolidator}
Objects == {"a", "b"}     \* the cached one, and one that only the turn has
Ids     == 1..MaxMessages
Keep    == Window \div 2

ASSUME HistoryAssumption ==
    /\ Consolidator \notin Archivists
    /\ None \notin Objects /\ None \notin Seq(Ids)
    /\ Window \in Nat \ {0, 1}
    /\ MaxMessages \in Nat /\ MaxNews \in Nat
    /\ MaxStuck \in Nat /\ MaxDrops \in Nat /\ MaxFailures \in Nat

VARIABLES
    \* sessions
    messages,      \* the message list of each session object in memory
    cached,        \* the object in the manager's cache
    file,          \* the session's file, None if there is none
    archive,       \* messages in archived session files
    latest,        \* those in the file named after the present second
    \* the turn
    turn,          \* "started", "running", "saved" and about to save again, or "idle"
    held,          \* its session object
    \* background jobs
    job,           \* where each job is
    text,          \* what it summarises
    original,      \* the snapshot of the consolidation
    since,         \* the epoch it was taken in
    epoch,         \* _consolidation_epochs
    consolidating, \* the session is in _consolidating
    queue,         \* the memory store's lock: its holder, then its waiters
    memory,        \* how often each message was written to HISTORY.md
    \* history for the properties, and bounds
    count,         \* messages saved so far
    cleared,       \* messages removed by /new, /model or DELETE
    dropped,       \* those of them that are kept nowhere on purpose
    lost,          \* those that another save or archive has overwritten
    blank,         \* those that a consolidation cut without an entry in HISTORY.md
    again,         \* summarised by a job that was overtaken before its end
    detached,      \* a turn used an object that was not the cached one any more
    news, stuck, drops, failures

sessions == <<messages, cached, file, archive, latest>>
turns    == <<turn, held>>
jobs     == <<job, text, original, since, epoch, consolidating, queue, memory>>
history  == <<cleared, dropped, lost, blank, again, detached>>
bounds   == <<news, stuck, drops, failures>>
vars     == <<sessions, turns, jobs, count, history, bounds>>

Lists    == Seq(Ids)
Stages   == {"idle", "created", "queued", "asking", "writing", "written", "skipped"}

Init ==
    /\ messages = [o \in Objects |-> <<>>]
    /\ cached = None /\ file = None
    /\ archive = {} /\ latest = {}
    /\ turn = "idle" /\ held = None
    /\ job = [j \in Jobs |-> "idle"]
    /\ text = [j \in Jobs |-> <<>>]
    /\ original = <<>> /\ since = 0 /\ epoch = 0
    /\ consolidating = FALSE
    /\ queue = <<>>
    /\ memory = [n \in Ids |-> 0]
    /\ count = 0
    /\ cleared = {} /\ dropped = {} /\ lost = {} /\ blank = {}
    /\ again = {} /\ detached = FALSE
    /\ news = 0 /\ stuck = 0 /\ drops = 0 /\ failures = 0

-----------------------------------------------------------------------------
(* The session manager *)

Stored == IF file = None THEN <<>> ELSE file

\* get_or_create: the cached object, or a new one with what the file holds.
Live == IF cached # None THEN cached ELSE CHOOSE o \in Objects : o # held

Content(o) == IF o = cached THEN messages[o] ELSE Stored

\* Nobody but the holder of o has an object any more.
Only(o) == [x \in Objects |-> IF x = o THEN messages[x] ELSE <<>>]

\* save: the whole file is replaced and the object goes (back) into the cache.
Save(o, list) ==
    /\ messages' = [Only(held) EXCEPT ![o] = list]
    /\ file' = list
    /\ cached' = o

\* archive_session: the file's messages move to a file named after the second.
Archived(sameSecond) ==
    /\ archive' = (IF sameSecond THEN archive \ latest ELSE archive) \union Range(Stored)
    /\ latest' = Range(Stored)
    /\ lost' = IF sameSecond THEN lost \union latest ELSE lost

-----------------------------------------------------------------------------
(* The turn, which has the session's lock *)

\* _process_message: the turn takes its session...
StartTurn ==
    /\ turn = "idle"
    /\ turn' = "started" /\ held' = Live
    /\ cached' = Live
    /\ messages' = [messages EXCEPT ![Live] = Content(Live)]
    /\ UNCHANGED <<file, archive, latest, jobs, count, history, bounds>>

\* ... and, if it is no command, schedules a consolidation when enough has
\* piled up.
Proceed ==
    /\ turn = "started"
    /\ turn' = "running"
    /\ IF Len(messages[held]) >= Window /\ ~consolidating
       THEN /\ consolidating' = TRUE
            /\ job' = [job EXCEPT ![Consolidator] = "created"]
       ELSE UNCHANGED <<consolidating, job>>
    /\ UNCHANGED <<sessions, held, text, original, since, epoch, queue, memory>>
    /\ UNCHANGED <<count, history, bounds>>

\* _save_turn and save; when the message tool has sent messages they are
\* appended and saved after the budget alerts were published.
SaveTurn ==
    /\ turn \in {"running", "saved"} /\ count < MaxMessages
    /\ Save(held, Append(messages[held], count + 1))
    /\ count' = count + 1
    /\ detached' = (detached \/ held # cached)
    /\ lost' = lost \union (Range(Stored) \ Range(messages[held]))
    /\ \/ turn = "running" /\ turn' = "saved" /\ UNCHANGED held
       \/ turn' = "idle" /\ held' = None
    /\ UNCHANGED <<archive, latest, jobs, cleared, dropped, blank, again, bounds>>

\* The turn ends without saving (again): cancelled, failed, nothing sent.
LeaveTurn ==
    /\ turn # "idle"
    /\ turn' = "idle" /\ held' = None
    /\ messages' = Only(cached)
    /\ UNCHANGED <<cached, file, archive, latest, jobs, count, history, bounds>>

\* Mutants of NextEpoch: /new does not tell the consolidation, or pops the epoch.
NextEpochSame   == epoch
NextEpochPopped == None

NextEpoch == epoch + 1

\* Messages that a consolidation has written and not yet cut off.
Overtaken == IF job[Consolidator] \in {"writing", "written"}
             THEN Range(text[Consolidator]) ELSE {}

\* /new: the messages go to an archive job and an archived file, the session
\* starts over.
New ==
    /\ turn = "started" /\ news < MaxNews
    /\ turn' = "idle" /\ held' = None
    /\ \E sameSecond \in BOOLEAN : Archived(sameSecond)
    /\ file' = <<>> /\ cached' = None /\ messages' = Only(None)
    /\ epoch' = NextEpoch
    /\ IF messages[held] = <<>> THEN UNCHANGED <<job, text>>
       ELSE \E j \in Archivists :
                /\ job[j] = "idle"
                /\ job' = [job EXCEPT ![j] = "created"]
                /\ text' = [text EXCEPT ![j] = messages[held]]
    /\ cleared' = cleared \union Range(Stored)
    /\ again' = again \union Overtaken
    /\ detached' = (detached \/ held # cached)
    /\ news' = news + 1
    /\ UNCHANGED <<original, since, consolidating, queue, memory>>
    /\ UNCHANGED <<count, dropped, blank, stuck, drops, failures>>

\* /model to another family of providers: the messages are discarded.
SwitchModel ==
    /\ turn = "started" /\ news < MaxNews
    /\ turn' = "idle" /\ held' = None
    /\ Save(held, <<>>)
    /\ cleared' = cleared \union Range(Stored)
    /\ dropped' = dropped \union Range(Stored)
    /\ news' = news + 1
    /\ UNCHANGED <<archive, latest, jobs, count, lost, blank, again, detached>>
    /\ UNCHANGED <<stuck, drops, failures>>

-----------------------------------------------------------------------------
(* Background jobs *)

\* What a consolidation of this snapshot summarises, and what it keeps.
OldPart(list) == SubSeq(list, 1, Len(list) - Keep)
NewPart(list) == SubSeq(list, Len(OldPart(list)) + 1, Len(list))

\* The consolidation takes a snapshot of the session and of its epoch.
Snapshot ==
    /\ job[Consolidator] = "created"
    /\ messages' = [messages EXCEPT ![Live] = Content(Live)]
    /\ cached' = Live
    /\ IF Content(Live) = <<>>
       THEN /\ job' = [job EXCEPT ![Consolidator] = "idle"]
            /\ consolidating' = FALSE
            /\ UNCHANGED <<original, since, text, queue>>
       ELSE /\ job' = [job EXCEPT ![Consolidator] = "queued"]
            /\ original' = Content(Live) /\ since' = epoch
            /\ text' = [text EXCEPT ![Consolidator] = OldPart(Content(Live))]
            /\ queue' = Append(queue, Consolidator)
            /\ UNCHANGED consolidating
    /\ UNCHANGED <<file, archive, latest, turns, epoch, memory, count, history, bounds>>

\* An archive job asks for the memory store's lock.
Enter(j) ==
    /\ j # Consolidator /\ job[j] = "created"
    /\ job' = [job EXCEPT ![j] = "queued"]
    /\ queue' = Append(queue, j)
    /\ UNCHANGED <<sessions, turns, text, original, since, epoch, consolidating, memory>>
    /\ UNCHANGED <<count, history, bounds>>

\* Mutant of Release: only a job that succeeds clears _consolidating.
ReleaseKeeping(j) ==
    /\ job' = [job EXCEPT ![j] = "idle"]
    /\ queue' = Tail(queue)
    /\ text' = [text EXCEPT ![j] = <<>>]
    /\ IF j = Consolidator THEN original' = <<>> /\ since' = 0 ELSE UNCHANGED <<original, since>>
    /\ consolidating' = (consolidating /\ job[j] # "written")

\* consolidate returns and its caller ends: the lock and the flag are free.
Release(j) ==
    /\ job' = [job EXCEPT ![j] = "idle"]
    /\ queue' = Tail(queue)
    /\ text' = [text EXCEPT ![j] = <<>>]
    /\ IF j = Consolidator THEN original' = <<>> /\ since' = 0 ELSE UNCHANGED <<original, since>>
    /\ consolidating' = (consolidating /\ j # Consolidator)

\* The cached object as it is, or loaded again: nothing of it changes.
Reload ==
    /\ messages' = [messages EXCEPT ![Live] = Content(Live)]
    /\ cached' = Live

\* The job has the lock and the model is asked; or it ends, with nothing old
\* enough or nothing usable to summarise, and cuts nothing.
Ask(j) ==
    /\ job[j] = "queued" /\ Head(queue) = j
    /\ \/ /\ Release(j)
          /\ IF j = Consolidator THEN Reload ELSE UNCHANGED <<messages, cached>>
       \/ /\ text[j] # <<>>
          /\ job' = [job EXCEPT ![j] = "asking"]
          /\ UNCHANGED <<messages, cached, queue, text, original, since, consolidating>>
    /\ UNCHANGED <<file, archive, latest, turns, epoch, memory, count, history, bounds>>

\* should_commit
Superseded(j) == j = Consolidator /\ epoch # since

\* The model has answered in time: the job goes on to write, unless /new came.
\* An answer with no history_entry is taken for a good one: only MEMORY.md is
\* written.
Answer(j) ==
    /\ job[j] = "asking"
    /\ IF Superseded(j)
       THEN Release(j)
       ELSE /\ \E stage \in {"writing", "skipped"} : job' = [job EXCEPT ![j] = stage]
            /\ UNCHANGED <<queue, text, original, since, consolidating>>
    /\ UNCHANGED <<sessions, turns, epoch, memory, count, history, bounds>>

\* No answer within the timeout, or no usable one.
AskFails(j) ==
    /\ job[j] = "asking"
    /\ Release(j)
    /\ UNCHANGED <<sessions, turns, epoch, memory, count, history, bounds>>

\* The entry for HISTORY.md, in a thread.
WriteHistory(j) ==
    /\ job[j] = "writing"
    /\ memory' = [n \in Ids |-> IF n \in Range(text[j]) THEN memory[n] + 1 ELSE memory[n]]
    /\ job' = [job EXCEPT ![j] = "written"]
    /\ UNCHANGED <<sessions, turns, text, original, since, epoch, consolidating, queue>>
    /\ UNCHANGED <<count, history, bounds>>

\* A write raises, of HISTORY.md or of MEMORY.md: what is written stays.
WriteFails(j) ==
    /\ job[j] \in {"writing", "written", "skipped"} /\ failures < MaxFailures
    /\ again' = IF job[j] = "written" THEN again \union Range(text[j]) ELSE again
    /\ Release(j)
    /\ failures' = failures + 1
    /\ UNCHANGED <<sessions, turns, epoch, memory, count>>
    /\ UNCHANGED <<cleared, dropped, lost, blank, detached, news, stuck, drops>>

\* Mutants of Shortened: what was said meanwhile is forgotten; all is appended.
ShortenedAlone(list) == NewPart(original)
ShortenedTwice(list) == NewPart(original) \o list

\* The session without what was summarised, with what was added meanwhile.
Shortened(list) == NewPart(original) \o SubSeq(list, Len(original) + 1, Len(list))

\* Mutant of Applies: the snapshot is taken to fit.
AppliesAlways(list) == TRUE

\* _history_prefix_matches
Applies(list) == IsPrefix(original, list)

\* MEMORY.md is written; a consolidation cuts the session if it still fits.
Finish(j) ==
    /\ job[j] \in {"written", "skipped"}
    /\ Release(j)
    /\ IF j # Consolidator
       THEN UNCHANGED <<messages, cached, file, blank>>
       ELSE IF ~Applies(Content(Live))
       THEN Reload /\ UNCHANGED <<file, blank>>
       ELSE /\ Save(Live, Shortened(Content(Live)))
            /\ blank' = IF job[j] = "skipped" THEN blank \union Range(text[j]) ELSE blank
    /\ UNCHANGED <<archive, latest, turns, epoch, memory, count>>
    /\ UNCHANGED <<cleared, dropped, lost, again, detached, bounds>>

Work(j) == Enter(j) \/ Ask(j) \/ Answer(j) \/ AskFails(j) \/ WriteHistory(j) \/ Finish(j)

-----------------------------------------------------------------------------
(* Those who take no lock *)

\* The AgentBridge channel appends a message that was sent to its client.
Persist ==
    /\ count < MaxMessages
    /\ Save(Live, Append(Content(Live), count + 1))
    /\ count' = count + 1
    /\ UNCHANGED <<archive, latest, turns, jobs, history, bounds>>

\* A title, a prompt or a model is set: the session is saved as it is.
Touch ==
    /\ Save(Live, Content(Live))
    /\ UNCHANGED <<archive, latest, turns, jobs, count, history, bounds>>

\* The watchdog takes a session for stuck because the last turn that saved it
\* was long ago.
Invalidate ==
    /\ cached # None /\ messages[cached] # <<>> /\ stuck < MaxStuck
    /\ turn # "saved"
    /\ cached' = None /\ messages' = Only(held)
    /\ stuck' = stuck + 1
    /\ UNCHANGED <<file, archive, latest, turns, jobs, count, history, news, drops, failures>>

\* DELETE of a session in the web UI.
Delete ==
    /\ drops < MaxDrops
    /\ cached' = None /\ file' = None /\ messages' = Only(held)
    /\ cleared' = cleared \union Range(Stored)
    /\ dropped' = dropped \union Range(Stored)
    /\ drops' = drops + 1
    /\ UNCHANGED <<archive, latest, turns, jobs, count, lost, blank, again, detached>>
    /\ UNCHANGED <<news, stuck, failures>>

\* The web UI's default session starts over when the default model is of
\* another family.
Realign ==
    /\ Content(Live) # <<>> /\ drops < MaxDrops
    /\ LET fresh == CHOOSE o \in Objects : o # held IN
        /\ \E sameSecond \in BOOLEAN : Archived(sameSecond)
        /\ cleared' = cleared \union Range(Stored)
        /\ Save(fresh, <<>>)
    /\ drops' = drops + 1
    /\ UNCHANGED <<turns, jobs, count, dropped, blank, again, detached, news, stuck, failures>>

\* The clock's second is over.
SecondPasses ==
    /\ latest # {}
    /\ latest' = {}
    /\ UNCHANGED <<messages, cached, file, archive, turns, jobs, count, history, bounds>>

\* The process dies and another starts on the files.
Crash ==
    /\ failures < MaxFailures
    /\ messages' = Only(None) /\ cached' = None
    /\ turn' = "idle" /\ held' = None
    /\ job' = [j \in Jobs |-> "idle"] /\ text' = [j \in Jobs |-> <<>>]
    /\ original' = <<>> /\ since' = 0 /\ epoch' = 0
    /\ consolidating' = FALSE /\ queue' = <<>>
    /\ again' = IF job[Consolidator] = "written"
                THEN again \union Range(text[Consolidator]) ELSE again
    /\ failures' = failures + 1
    /\ UNCHANGED <<file, archive, latest, memory, count, cleared, dropped, lost, blank, detached>>
    /\ UNCHANGED <<news, stuck, drops>>

Next ==
    \/ StartTurn \/ Proceed \/ SaveTurn \/ LeaveTurn \/ New \/ SwitchModel
    \/ Snapshot
    \/ \E j \in Jobs : Work(j) \/ WriteFails(j)
    \/ Persist \/ Touch \/ Invalidate \/ Delete \/ Realign
    \/ SecondPasses \/ Crash

\* The event loop runs its tasks and the model's answer has a timeout.
Fairness ==
    /\ WF_vars(Snapshot)
    /\ \A j \in Jobs : WF_vars(Work(j))

Spec     == Init /\ [][Next]_vars
FairSpec == Spec /\ Fairness

-----------------------------------------------------------------------------
(* Properties *)

TypeOK ==
    /\ messages \in [Objects -> Lists]
    /\ cached \in Objects \union {None}
    /\ file \in Lists \union {None}
    /\ archive \subseteq Ids /\ latest \subseteq Ids
    /\ turn \in {"idle", "started", "running", "saved"}
    /\ held \in Objects \union {None}
    /\ job \in [Jobs -> Stages]
    /\ text \in [Jobs -> Lists]
    /\ original \in Lists
    /\ since \in Nat /\ epoch \in Nat
    /\ consolidating \in BOOLEAN
    /\ queue \in Seq(Jobs)
    /\ memory \in [Ids -> Nat]
    /\ count \in 0..MaxMessages
    /\ cleared \subseteq Ids /\ dropped \subseteq Ids
    /\ lost \subseteq Ids /\ blank \subseteq Ids /\ again \subseteq Ids
    /\ detached \in BOOLEAN
    /\ news \in 0..MaxNews /\ stuck \in 0..MaxStuck /\ drops \in 0..MaxDrops /\ failures \in 0..MaxFailures

\* Where a message may be: in the session's file, in an archived one, or in an
\* entry that was written to HISTORY.md (which drops its oldest entries later).
Kept(n) == n \in Range(Stored) \union archive \/ memory[n] > 0

\* A message that was saved is kept, or was discarded by its user, or was
\* overwritten by the save of a stale object or by an archive of the same
\* second, or was cut by a consolidation whose answer held no history_entry:
\* /new, crashes, failed writes, late answers and consolidations that were
\* overtaken lose nothing.
NothingLost == \A n \in 1..count : Kept(n) \/ n \in dropped \union lost \union blank

\* No message is written to the memory twice, unless a consolidation was
\* overtaken between its write and its cut (by /new, a crash or a failed
\* write), or a turn brought back messages with a stale object.
SummarisedOnce == \A n \in Ids : memory[n] > 1 => n \in again \/ detached

\* What /new, /model or DELETE took out of the session does not come back,
\* neither with a consolidation that was under way nor from the cache, as long
\* as no turn has worked on an object that was not the cached one any more.
ClearedStaysCleared ==
    ~detached => cleared \cap (Range(Stored) \union Range(Content(Live))) = {}

\* The session's messages are in the order in which they were saved, each once.
InOrder == \A i, k \in DOMAIN Stored : i < k => Stored[i] < Stored[k]

\* Every background job ends and frees the session for the next one, whatever
\* the model answers.
Busy(j) == job[j] # "idle" \/ (j = Consolidator /\ consolidating)
JobsEnd == \A j \in Jobs : Busy(j) ~> ~Busy(j)

-----------------------------------------------------------------------------
(* What the repository says of sessions and the code does not do *)

\* "Messages are append-only" (session/manager.py:109): a turn whose object
\* the watchdog dropped from the cache overwrites what was saved meanwhile
\* (whatever a consolidation cuts without an entry).
SavedIsKept == \A n \in 1..count : Kept(n) \/ n \in dropped \union blank

=============================================================================
