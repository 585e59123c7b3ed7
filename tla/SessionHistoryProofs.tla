------------------------ MODULE SessionHistoryProofs ------------------------
(***************************************************************************)
(* What SessionHistory guarantees for every window and every number of     *)
(* messages, commands, jobs and failures: its types, that no message is    *)
(* lost, that the session stays in order, that what was cleared stays      *)
(* cleared, that a message is summarised once, and that no job waits for   *)
(* the memory in vain.                                                     *)
(***************************************************************************)
EXTENDS SessionHistory, SequenceTheorems, TLAPS

-----------------------------------------------------------------------------
(* Lists of messages *)

Increasing(s) == \A i, k \in DOMAIN s : i < k => s[i] < s[k]

\* Half a window is a number of messages.
LEMMA KeepNat == Keep \in Nat
BY HistoryAssumption DEF Keep

\* What Append does to the messages of a list.
LEMMA AppendFacts ==
    ASSUME NEW s \in Lists, NEW n \in Ids
    PROVE  /\ Append(s, n) \in Lists
           /\ Range(Append(s, n)) = Range(s) \union {n}
           /\ Increasing(s) /\ (\A i \in DOMAIN s : s[i] < n) => Increasing(Append(s, n))
<1>1. /\ Append(s, n) \in Lists /\ Len(Append(s, n)) = Len(s) + 1
      /\ \A i \in 1..Len(s) : Append(s, n)[i] = s[i]
      /\ Append(s, n)[Len(s) + 1] = n
      /\ Len(s) \in Nat /\ DOMAIN s = 1..Len(s)
      /\ DOMAIN Append(s, n) = 1..Len(s) + 1
  BY AppendProperties, LenProperties DEF Lists
<1>2. Range(Append(s, n)) = Range(s) \union {n}
  BY <1>1 DEF Range
<1>3. Increasing(s) /\ (\A i \in DOMAIN s : s[i] < n) => Increasing(Append(s, n))
  BY <1>1 DEF Increasing
<1> QED
  BY <1>1, <1>2, <1>3

\* The two parts of a snapshot.
LEMMA PartFacts ==
    ASSUME NEW list \in Lists
    PROVE  /\ OldPart(list) \in Lists /\ NewPart(list) \in Lists
           /\ Len(OldPart(list)) \in 0..Len(list)
           /\ \A i \in 1..Len(OldPart(list)) : OldPart(list)[i] = list[i]
           /\ Len(NewPart(list)) = Len(list) - Len(OldPart(list))
           /\ \A i \in 1..Len(NewPart(list)) : NewPart(list)[i] = list[Len(OldPart(list)) + i]
           /\ Range(OldPart(list)) \subseteq Range(list)
<1>1. Len(list) \in Nat /\ list \in Seq(Ids) /\ DOMAIN list = 1..Len(list)
  BY LenProperties DEF Lists
<1> DEFINE m == Len(list) - Keep
<1>2. m \in Int /\ m <= Len(list)
  BY <1>1, KeepNat
<1>3. /\ OldPart(list) \in Seq(Ids)
      /\ Len(OldPart(list)) = IF 1 <= m THEN m ELSE 0
      /\ \A i \in 1..m : OldPart(list)[i] = list[i]
  <2>1. \A i \in 1..m : list[i] \in Ids
    BY <1>1, <1>2, ElementOfSeq
  <2> QED
    BY <1>1, <1>2, <2>1, SubSeqProperties DEF OldPart
<1> DEFINE k == Len(OldPart(list))
<1>4. k \in 0..Len(list) /\ \A i \in 1..k : OldPart(list)[i] = list[i]
  BY <1>1, <1>2, <1>3
<1> HIDE DEF k, m
<1>5. /\ NewPart(list) \in Seq(Ids)
      /\ Len(NewPart(list)) = Len(list) - k
      /\ \A i \in 1..Len(NewPart(list)) : NewPart(list)[i] = list[k + i]
  <2>1. NewPart(list) = SubSeq(list, k + 1, Len(list))
    BY DEF NewPart, k
  <2>2. \A i \in k + 1..Len(list) : list[i] \in Ids
    BY <1>1, <1>4, ElementOfSeq
  <2>3. k + 1 \in Int /\ Len(list) \in Int
    BY <1>1, <1>4
  <2>4. /\ NewPart(list) \in Seq(Ids)
        /\ Len(NewPart(list)) = IF k + 1 <= Len(list) THEN Len(list) - (k + 1) + 1 ELSE 0
        /\ \A i \in 1..Len(list) - (k + 1) + 1 : NewPart(list)[i] = list[k + 1 + i - 1]
    BY <2>1, <2>2, <2>3, SubSeqProperties
  <2>5. Len(NewPart(list)) = Len(list) - k
    <3>1. k \in Int /\ k <= Len(list) /\ Len(list) \in Int
      BY <1>1, <1>4
    <3>2. CASE k + 1 <= Len(list)
      <4>1. Len(NewPart(list)) = Len(list) - (k + 1) + 1
        BY <2>4, <3>2
      <4> QED
        BY <3>1, <4>1
    <3>3. CASE ~(k + 1 <= Len(list))
      <4>1. Len(NewPart(list)) = 0
        BY <2>4, <3>3
      <4> QED
        BY <3>1, <3>3, <4>1
    <3> QED
      BY <3>2, <3>3
  <2>6. ASSUME NEW i \in 1..Len(NewPart(list)) PROVE NewPart(list)[i] = list[k + i]
    <3>1. i \in 1..Len(list) - (k + 1) + 1 /\ k + 1 + i - 1 = k + i
      BY <1>1, <1>4, <2>5
    <3> QED
      BY <2>4, <3>1
  <2> QED
    BY <2>4, <2>5, <2>6
<1>6. Range(OldPart(list)) \subseteq Range(list)
  BY <1>1, <1>3, <1>4, LenProperties DEF Range, k
<1> QED
  BY <1>3, <1>4, <1>5, <1>6 DEF Lists, k

\* A list that still begins with the snapshot loses its old part, no more.
LEMMA CutFacts ==
    ASSUME original \in Lists, NEW list \in Lists, IsPrefix(original, list)
    PROVE  /\ Shortened(list) \in Lists
           /\ Range(Shortened(list)) \subseteq Range(list)
           /\ Range(list) \subseteq Range(Shortened(list)) \union Range(OldPart(original))
           /\ Increasing(list) => Increasing(Shortened(list))
           /\ Increasing(list) => Range(Shortened(list)) \cap Range(OldPart(original)) = {}
<1> DEFINE o == Len(original)
           k == Len(OldPart(original))
           rest == SubSeq(list, o + 1, Len(list))
           cut == Shortened(list)
<1>1. /\ o \in Nat /\ original \in Seq(Ids)
      /\ Len(list) \in Nat /\ list \in Seq(Ids) /\ DOMAIN list = 1..Len(list)
      /\ \A i \in 1..Len(list) : list[i] \in Ids
  BY LenProperties, ElementOfSeq DEF Lists
<1>2. /\ k \in 0..o /\ Len(NewPart(original)) = o - k
      /\ NewPart(original) \in Seq(Ids)
      /\ OldPart(original) \in Seq(Ids)
      /\ \A i \in 1..k : OldPart(original)[i] = original[i]
      /\ \A i \in 1..o - k : NewPart(original)[i] = original[k + i]
  BY PartFacts DEF Lists
<1> HIDE DEF k
<1>3. o <= Len(list) /\ \A i \in 1..o : original[i] = list[i]
  <2>1. o <= Len(list) /\ SubSeq(original, 1, o) = SubSeq(list, 1, o)
    BY DEF IsPrefix
  <2>2. \A i \in 1..o : SubSeq(original, 1, o)[i] = original[i]
    BY <1>1, SubSeqFull
  <2>3. \A i \in 1..o : SubSeq(list, 1, o)[i] = list[i]
    <3>1. \A i \in 1..o : list[i] \in Ids
      BY <1>1, <2>1
    <3>2. \A i \in 1..o - 1 + 1 : SubSeq(list, 1, o)[i] = list[1 + i - 1]
      BY <1>1, <3>1, SubSeqProperties
    <3> QED
      BY <1>1, <3>2
  <2> QED
    BY <2>1, <2>2, <2>3
<1>4. /\ rest \in Seq(Ids) /\ Len(rest) = Len(list) - o
      /\ \A i \in 1..Len(list) - o : rest[i] = list[o + i]
  <2>1. \A i \in o + 1..Len(list) : list[i] \in Ids
    BY <1>1
  <2>2. /\ rest \in Seq(Ids)
        /\ Len(rest) = IF o + 1 <= Len(list) THEN Len(list) - (o + 1) + 1 ELSE 0
        /\ \A i \in 1..Len(list) - (o + 1) + 1 : rest[i] = list[o + 1 + i - 1]
    BY <1>1, <2>1, SubSeqProperties
  <2> QED
    BY <1>1, <1>3, <2>2
<1> HIDE DEF o, rest
<1>5. /\ cut \in Seq(Ids) /\ Len(cut) = Len(list) - k
      /\ \A i \in 1..Len(list) - k : cut[i] = list[k + i]
  <2>1. cut = NewPart(original) \o rest
    BY DEF Shortened, rest, o
  <2> HIDE DEF cut
  <2>2. /\ cut \in Seq(Ids)
        /\ Len(cut) = (o - k) + (Len(list) - o)
        /\ \A i \in 1..(o - k) + (Len(list) - o) :
               cut[i] = IF i <= o - k THEN NewPart(original)[i] ELSE rest[i - (o - k)]
    BY <1>2, <1>4, <2>1, ConcatProperties
  <2>3. ASSUME NEW i \in 1..Len(list) - k PROVE cut[i] = list[k + i]
    <3>1. i \in 1..(o - k) + (Len(list) - o)
      BY <1>1, <1>2, <2>3
    <3>2. CASE i <= o - k
      <4>1. cut[i] = NewPart(original)[i] /\ i \in 1..o - k /\ k + i \in 1..o
        BY <1>1, <1>2, <2>2, <3>1, <3>2
      <4> QED
        BY <1>2, <1>3, <4>1
    <3>3. CASE ~(i <= o - k)
      <4>1. cut[i] = rest[i - (o - k)] /\ i - (o - k) \in 1..Len(list) - o
        BY <1>1, <1>2, <2>2, <2>3, <3>1, <3>3
      <4>2. rest[i - (o - k)] = list[o + (i - (o - k))]
        BY <1>4, <4>1
      <4>3. o + (i - (o - k)) = k + i
        BY <1>1, <1>2
      <4> QED
        BY <4>1, <4>2, <4>3
    <3> QED
      BY <3>2, <3>3
  <2> QED
    BY <1>1, <1>2, <2>2, <2>3
<1> HIDE DEF cut
<1>6. /\ DOMAIN cut = 1..Len(list) - k
      /\ Range(cut) = {list[k + i] : i \in 1..Len(list) - k}
  BY <1>5, LenProperties DEF Range
<1>7. Range(OldPart(original)) = {list[i] : i \in 1..k}
  <2>1. DOMAIN OldPart(original) = 1..k
    BY <1>2, LenProperties DEF k
  <2>2. \A i \in 1..k : OldPart(original)[i] = list[i]
    BY <1>1, <1>2, <1>3
  <2> QED
    BY <2>1, <2>2 DEF Range
<1>8. Range(list) = {list[i] : i \in 1..Len(list)}
  BY <1>1 DEF Range
<1>9. Range(cut) \subseteq Range(list)
  BY <1>1, <1>2, <1>6, <1>8
<1>10. Range(list) \subseteq Range(cut) \union Range(OldPart(original))
  <2>1. ASSUME NEW i \in 1..Len(list)
        PROVE  i \in 1..k \/ \E l \in 1..Len(list) - k : i = k + l
    <3>1. ~(i \in 1..k) => i - k \in 1..Len(list) - k /\ i = k + (i - k)
      BY <1>1, <1>2
    <3> QED
      BY <3>1
  <2> QED
    BY <1>6, <1>7, <1>8, <2>1
<1>11. Increasing(list) => Increasing(cut)
  <2> SUFFICES ASSUME Increasing(list), NEW i \in 1..Len(list) - k, NEW l \in 1..Len(list) - k, i < l
               PROVE  cut[i] < cut[l]
    BY <1>6 DEF Increasing
  <2>1. k + i \in DOMAIN list /\ k + l \in DOMAIN list /\ k + i < k + l
    BY <1>1, <1>2, <1>3
  <2>2. list[k + i] < list[k + l]
    BY <2>1 DEF Increasing
  <2> QED
    BY <1>5, <2>2
<1>12. Increasing(list) => Range(cut) \cap Range(OldPart(original)) = {}
  <2> SUFFICES ASSUME Increasing(list), NEW i \in 1..k, NEW l \in 1..Len(list) - k
               PROVE  list[i] # list[k + l]
    BY <1>6, <1>7
  <2>1. i \in DOMAIN list /\ k + l \in DOMAIN list /\ i < k + l
    BY <1>1, <1>2, <1>3
  <2>2. list[i] < list[k + l]
    BY <2>1 DEF Increasing
  <2>3. list[i] \in Ids /\ list[k + l] \in Ids /\ Ids \subseteq Nat
    BY <1>1, <2>1, HistoryAssumption DEF Ids
  <2>4. list[i] \in Nat /\ list[k + l] \in Nat
    BY <2>3
  <2> QED
    BY <2>2, <2>4
<1> QED
  BY <1>5, <1>9, <1>10, <1>11, <1>12 DEF cut, Lists

-----------------------------------------------------------------------------
(* What is true between any two steps *)

Working(j) == job[j] \in {"asking", "writing", "written", "skipped"}

\* A job waits in the queue of the memory store's lock or is at its head, and
\* what the consolidation summarises is the old part of its snapshot.
QueueInv ==
    /\ \A j \in Jobs : job[j] = "queued" => j \in Range(queue)
    /\ \A j \in Jobs : Working(j) => queue # <<>> /\ Head(queue) = j
    /\ job[Consolidator] \in {"queued", "asking", "writing", "written", "skipped"}
           => text[Consolidator] = OldPart(original)

\* The cached object is what the file holds.
CacheInv == cached # None => messages[cached] = Stored

\* Lists are in order, of messages that have been saved.
OrderInv ==
    /\ \A o \in Objects : Increasing(messages[o]) /\ Range(messages[o]) \subseteq 1..count
    /\ Increasing(Stored) /\ Range(Stored) \subseteq 1..count

\* What a job has written is in the memory.
WrittenInv == \A j \in Jobs : job[j] = "written" => \A n \in Range(text[j]) : memory[n] > 0

KeptInv == OrderInv /\ CacheInv /\ WrittenInv /\ NothingLost

\* A turn that is not idle has a session object.
HeldInv == turn # "idle" => held # None

Typed == TypeOK /\ HeldInv /\ QueueInv

-----------------------------------------------------------------------------
(* Types *)

TypeSessions == /\ messages \in [Objects -> Lists]
                /\ cached \in Objects \union {None}
                /\ file \in Lists \union {None}
                /\ archive \subseteq Ids /\ latest \subseteq Ids
TypeTurn     == turn \in {"idle", "started", "running", "saved"} /\ held \in Objects \union {None}
TypeJobs     == /\ job \in [Jobs -> Stages] /\ text \in [Jobs -> Lists] /\ original \in Lists
                /\ queue \in Seq(Jobs) /\ memory \in [Ids -> Nat]
TypeEpochs   == since \in Nat /\ epoch \in Nat /\ consolidating \in BOOLEAN
TypeHistory  == /\ cleared \subseteq Ids /\ dropped \subseteq Ids
                /\ lost \subseteq Ids /\ blank \subseteq Ids
                /\ again \subseteq Ids /\ detached \in BOOLEAN
TypeBounds   == /\ count \in 0..MaxMessages /\ news \in 0..MaxNews /\ stuck \in 0..MaxStuck
                /\ drops \in 0..MaxDrops /\ failures \in 0..MaxFailures

\* TypeOK is these six.
LEMMA TypeParts ==
    TypeOK <=> TypeSessions /\ TypeTurn /\ TypeJobs /\ TypeEpochs /\ TypeHistory /\ TypeBounds
BY DEF TypeOK, TypeSessions, TypeTurn, TypeJobs, TypeEpochs, TypeHistory, TypeBounds

\* The empty list is a list in order, and has no messages.
LEMMA EmptyFacts == <<>> \in Lists /\ Range(<<>>) = {} /\ Increasing(<<>>) /\ Len(<<>>) = 0
BY EmptySeq DEF Lists, Range, Increasing

\* The messages of a list are messages.
LEMMA RangeFacts ==
    ASSUME NEW s \in Lists
    PROVE  Range(s) \subseteq Ids /\ (s # <<>> <=> Range(s) # {})
<1>1. s \in Seq(Ids) /\ Len(s) \in Nat /\ DOMAIN s = 1..Len(s) /\ \A i \in 1..Len(s) : s[i] \in Ids
  BY LenProperties, ElementOfSeq DEF Lists
<1>2. s = <<>> <=> Len(s) = 0
  BY <1>1, EmptySeq
<1> QED
  BY <1>1, <1>2 DEF Range

\* What the manager gives to whoever asks for the session.
LEMMA LiveFacts ==
    ASSUME TypeSessions, TypeTurn
    PROVE  /\ Live \in Objects /\ Stored \in Lists /\ Content(Live) \in Lists
           /\ cached # None => Live = cached
           /\ cached = None => Live # held /\ Content(Live) = Stored
           /\ CacheInv => Content(Live) = Stored
<1>1. \E o \in Objects : o # held
  BY DEF Objects
<1>2. Live \in Objects /\ (cached # None => Live = cached) /\ (cached = None => Live # held)
  BY <1>1 DEF Live, TypeSessions
<1>3. Stored \in Lists
  BY EmptyFacts DEF Stored, TypeSessions
<1>4. cached = None => Live # cached
  BY <1>2, HistoryAssumption
<1> QED
  BY <1>2, <1>3, <1>4 DEF Content, TypeSessions, CacheInv

\* A save makes the file, the cache and the object agree.
LEMMA SaveFacts ==
    ASSUME TypeSessions, NEW o \in Objects, NEW list \in Lists, Save(o, list)
    PROVE  /\ messages' \in [Objects -> Lists] /\ messages'[o] = list
           /\ \A x \in Objects : messages'[x] \in {list, messages[x], <<>>}
           /\ file' = list /\ Stored' = list /\ cached' = o /\ cached' # None
<1>1. file' = list /\ cached' = o /\ list # None
  BY HistoryAssumption DEF Save, Lists
<1>2. Stored' = list
  BY <1>1 DEF Stored
<1>3. messages' = [Only(held) EXCEPT ![o] = list]
  BY DEF Save
<1>4. messages' \in [Objects -> Lists] /\ messages'[o] = list
  BY <1>3, EmptyFacts DEF Only, TypeSessions
<1>5. \A x \in Objects : messages'[x] \in {list, messages[x], <<>>}
  BY <1>3 DEF Only
<1>6. o # None
  BY HistoryAssumption
<1> QED
  BY <1>1, <1>2, <1>4, <1>5, <1>6

\* Whoever drops the cache leaves lists behind.
LEMMA OnlyFacts ==
    ASSUME TypeSessions, NEW o, messages' = Only(o)
    PROVE  /\ messages' \in [Objects -> Lists]
           /\ \A x \in Objects : messages'[x] \in {messages[x], <<>>} /\ (x = o => messages'[x] = messages[x])
BY EmptyFacts DEF Only, TypeSessions

\* Shortening a list that begins with the snapshot makes a list.
LEMMA ShortenedType ==
    ASSUME original \in Lists, NEW list \in Lists, Applies(list)
    PROVE  Shortened(list) \in Lists
BY CutFacts DEF Applies

\* Every step that changes the session keeps its types.
LEMMA SessionsTyped ==
    Typed /\ [Next]_vars => TypeSessions'
<1> SUFFICES ASSUME Typed, [Next]_vars PROVE TypeSessions'
  OBVIOUS
<1>0. TypeSessions /\ TypeTurn /\ TypeJobs /\ TypeBounds /\ HeldInv
  BY TypeParts DEF Typed
<1> USE <1>0, LiveFacts, EmptyFacts
<1>a. \A n \in Nat : n < MaxMessages => n + 1 \in Ids
  BY HistoryAssumption DEF Ids
<1>b. count \in Nat
  BY HistoryAssumption DEF TypeBounds
<1>c. ASSUME NEW b \in BOOLEAN, Archived(b) PROVE archive' \subseteq Ids /\ latest' \subseteq Ids
  BY <1>c, RangeFacts DEF Archived, TypeSessions
<1>d. turn # "idle" => held \in Objects /\ messages[held] \in Lists
  BY DEF HeldInv, TypeTurn, TypeSessions
<1>1. CASE StartTurn
  BY <1>1 DEF StartTurn, TypeSessions
<1>2. CASE SaveTurn
  <2>1. count + 1 \in Ids /\ Append(messages[held], count + 1) \in Lists
    BY <1>2, <1>a, <1>b, <1>d, AppendFacts DEF SaveTurn
  <2> QED
    BY <1>2, <1>d, <2>1, SaveFacts DEF SaveTurn, TypeSessions
<1>3. CASE LeaveTurn
  BY <1>3, OnlyFacts DEF LeaveTurn, TypeSessions
<1>4. CASE New
  BY <1>4, <1>c, OnlyFacts DEF New, TypeSessions
<1>5. CASE SwitchModel
  BY <1>5, <1>d, SaveFacts DEF SwitchModel, TypeSessions
<1>6. CASE Snapshot
  BY <1>6 DEF Snapshot, TypeSessions
<1>7. ASSUME NEW j \in Jobs, Finish(j) PROVE TypeSessions'
  <2>1. CASE j = Consolidator /\ Applies(Content(Live))
    <3>1. Shortened(Content(Live)) \in Lists
      BY <2>1, ShortenedType DEF TypeJobs
    <3>2. Save(Live, Shortened(Content(Live)))
      BY <1>7, <2>1 DEF Finish
    <3> QED
      BY <1>7, <3>1, <3>2, SaveFacts DEF Finish, TypeSessions
  <2>2. CASE ~(j = Consolidator /\ Applies(Content(Live)))
    BY <1>7, <2>2 DEF Finish, Reload, TypeSessions
  <2> QED
    BY <2>1, <2>2
<1>8. CASE Persist
  <2>1. count + 1 \in Ids /\ Append(Content(Live), count + 1) \in Lists
    BY <1>8, <1>a, <1>b, AppendFacts DEF Persist
  <2> QED
    BY <1>8, <2>1, SaveFacts DEF Persist, TypeSessions
<1>9. CASE Touch
  BY <1>9, SaveFacts DEF Touch, TypeSessions
<1>10. CASE Invalidate \/ Delete \/ Crash
  BY <1>10, OnlyFacts DEF Invalidate, Delete, Crash, TypeSessions
<1>11. CASE Realign
  <2> DEFINE fresh == CHOOSE o \in Objects : o # held
  <2>1. fresh \in Objects
    <3>1. \E o \in Objects : o # held
      BY DEF Objects
    <3> QED
      BY <3>1
  <2>2. Save(fresh, <<>>) /\ \E b \in BOOLEAN : Archived(b)
    BY <1>11 DEF Realign
  <2> QED
    BY <1>c, <2>1, <2>2, SaveFacts DEF TypeSessions
<1>12. CASE SecondPasses
  BY <1>12 DEF SecondPasses, TypeSessions
<1>13. ASSUME \/ Proceed \/ UNCHANGED vars
              \/ \E j \in Jobs : \/ Enter(j) \/ Answer(j) \/ AskFails(j)
                                 \/ WriteHistory(j) \/ WriteFails(j)
       PROVE  UNCHANGED sessions
  BY <1>13 DEF Proceed, Enter, Answer, AskFails, WriteHistory, WriteFails, vars, sessions
<1>15. ASSUME NEW j \in Jobs, Ask(j) PROVE TypeSessions'
  BY <1>15 DEF Ask, Reload, TypeSessions
<1>14. CASE UNCHANGED sessions
  BY <1>14 DEF sessions, TypeSessions
<1> QED
  BY <1>1, <1>2, <1>3, <1>4, <1>5, <1>6, <1>7, <1>8, <1>9, <1>10, <1>11, <1>12, <1>13, <1>14, <1>15
  DEF Next, Work

\* A turn has an object from its start to its end.
LEMMA TurnTyped ==
    Typed /\ [Next]_vars => (TypeTurn /\ HeldInv)'
<1> SUFFICES ASSUME Typed, [Next]_vars PROVE (TypeTurn /\ HeldInv)'
  OBVIOUS
<1>0. TypeSessions /\ TypeTurn /\ HeldInv
  BY TypeParts DEF Typed
<1> USE <1>0, LiveFacts DEF TypeTurn, HeldInv
<1>1. CASE StartTurn
  BY <1>1, HistoryAssumption DEF StartTurn
<1>2. CASE SaveTurn \/ LeaveTurn \/ New \/ SwitchModel \/ Proceed
  BY <1>2 DEF SaveTurn, LeaveTurn, New, SwitchModel, Proceed
<1>3. CASE Snapshot \/ Persist \/ Touch \/ Invalidate \/ Delete \/ Realign
  BY <1>3 DEF Snapshot, Persist, Touch, Invalidate, Delete, Realign, turns
<1>4. ASSUME NEW j \in Jobs, Work(j) \/ WriteFails(j) PROVE UNCHANGED turns
  BY <1>4 DEF Work, Enter, Ask, Answer, AskFails, WriteHistory, Finish, WriteFails
<1>5. CASE SecondPasses \/ UNCHANGED vars
  BY <1>5 DEF SecondPasses, turns, vars
<1>6. CASE Crash
  BY <1>6 DEF Crash
<1> QED
  BY <1>1, <1>2, <1>3, <1>4, <1>5, <1>6 DEF Next, turns

\* The epochs are numbers.
LEMMA EpochsTyped ==
    Typed /\ [Next]_vars => TypeEpochs'
<1> SUFFICES ASSUME Typed, [Next]_vars PROVE TypeEpochs'
  OBVIOUS
<1>0. since \in Nat /\ epoch \in Nat /\ consolidating \in BOOLEAN
  BY TypeParts DEF Typed, TypeEpochs
<1>1. since' \in {since, epoch, 0} /\ epoch' \in {epoch, epoch + 1, 0}
  <2>1. CASE StartTurn \/ SaveTurn \/ LeaveTurn \/ SwitchModel \/ Proceed
    BY <2>1 DEF StartTurn, SaveTurn, LeaveTurn, SwitchModel, Proceed, jobs
  <2>2. CASE New \/ Snapshot
    BY <2>2 DEF New, NextEpoch, Snapshot
  <2>3. CASE Persist \/ Touch \/ Invalidate \/ Delete \/ Realign \/ SecondPasses \/ UNCHANGED vars
    BY <2>3 DEF Persist, Touch, Invalidate, Delete, Realign, SecondPasses, jobs, vars
  <2>4. ASSUME NEW j \in Jobs, Work(j) \/ WriteFails(j)
        PROVE  since' \in {since, 0} /\ epoch' = epoch
    BY <2>4 DEF Work, Enter, Ask, Answer, AskFails, WriteHistory, Finish, WriteFails, Release
  <2>5. CASE Crash
    BY <2>5 DEF Crash
  <2> QED
    BY <2>1, <2>2, <2>3, <2>4, <2>5 DEF Next
<1>2. consolidating' \in BOOLEAN
  <2>1. CASE StartTurn \/ SaveTurn \/ LeaveTurn \/ SwitchModel \/ Proceed
    BY <1>0, <2>1 DEF StartTurn, SaveTurn, LeaveTurn, SwitchModel, Proceed, jobs
  <2>2. CASE New \/ Snapshot
    BY <1>0, <2>2 DEF New, Snapshot
  <2>3. CASE Persist \/ Touch \/ Invalidate \/ Delete \/ Realign \/ SecondPasses \/ UNCHANGED vars
    BY <1>0, <2>3 DEF Persist, Touch, Invalidate, Delete, Realign, SecondPasses, jobs, vars
  <2>4. ASSUME NEW j \in Jobs, Work(j) \/ WriteFails(j) PROVE consolidating' \in BOOLEAN
    <3>1. consolidating' = consolidating \/ consolidating' = (consolidating /\ j # Consolidator)
      BY <2>4 DEF Work, Enter, Ask, Answer, AskFails, WriteHistory, Finish, WriteFails, Release
    <3> QED
      BY <1>0, <3>1, Zenon
  <2>5. CASE Crash
    BY <2>5 DEF Crash
  <2> QED
    BY <2>1, <2>2, <2>3, <2>4, <2>5 DEF Next
<1> QED
  BY <1>0, <1>1, <1>2 DEF TypeEpochs

\* What the history names are messages.
LEMMA HistoryTyped ==
    Typed /\ [Next]_vars => TypeHistory'
<1> SUFFICES ASSUME Typed, [Next]_vars PROVE TypeHistory'
  OBVIOUS
<1>0. TypeSessions /\ TypeTurn /\ TypeJobs /\ TypeHistory
  BY TypeParts DEF Typed
<1>1. Stored \in Lists /\ Range(Stored) \subseteq Ids
  BY <1>0, LiveFacts, RangeFacts
<1>2. \A j \in Jobs : Range(text[j]) \subseteq Ids
  BY <1>0, RangeFacts DEF TypeJobs
<1>3. Consolidator \in Jobs
  BY DEF Jobs
<1>4. Overtaken \subseteq Ids
  BY <1>2, <1>3 DEF Overtaken
<1>5. latest \subseteq Ids
  BY <1>0 DEF TypeSessions
<1> USE <1>0, <1>1 DEF TypeHistory
<1>6. CASE StartTurn \/ LeaveTurn \/ Proceed \/ Snapshot \/ Persist \/ Touch \/ Invalidate
           \/ SecondPasses \/ UNCHANGED vars
  BY <1>6 DEF StartTurn, LeaveTurn, Proceed, Snapshot, Persist, Touch, Invalidate, SecondPasses, history, vars
<1>7. CASE SaveTurn
  BY <1>7 DEF SaveTurn
<1>8. CASE New
  BY <1>4, <1>5, <1>8 DEF New, Archived
<1>9. CASE SwitchModel \/ Delete
  BY <1>9 DEF SwitchModel, Delete
<1>10. CASE Realign
  BY <1>5, <1>10 DEF Realign, Archived
<1>11. CASE Crash
  BY <1>2, <1>3, <1>11 DEF Crash
<1>12. ASSUME NEW j \in Jobs, Work(j) PROVE TypeHistory'
  <2>1. UNCHANGED <<cleared, dropped, lost, again, detached>>
    BY <1>12 DEF Work, Enter, Ask, Answer, AskFails, WriteHistory, Finish, history
  <2>2. blank' = blank \/ blank' = blank \union Range(text[j])
    BY <1>12 DEF Work, Enter, Ask, Answer, AskFails, WriteHistory, Finish, history
  <2> QED
    BY <1>2, <2>1, <2>2
<1>13. ASSUME NEW j \in Jobs, WriteFails(j) PROVE TypeHistory'
  BY <1>2, <1>13 DEF WriteFails
<1> QED
  BY <1>6, <1>7, <1>8, <1>9, <1>10, <1>11, <1>12, <1>13 DEF Next

\* No count passes its bound.
LEMMA BoundsTyped ==
    Typed /\ [Next]_vars => TypeBounds'
<1> SUFFICES ASSUME Typed, [Next]_vars PROVE TypeBounds'
  OBVIOUS
<1>0. TypeBounds
  BY TypeParts DEF Typed
<1> USE <1>0, HistoryAssumption DEF TypeBounds, bounds
<1>1. CASE StartTurn \/ LeaveTurn \/ Proceed \/ Snapshot \/ Touch \/ SecondPasses \/ UNCHANGED vars
  BY <1>1 DEF StartTurn, LeaveTurn, Proceed, Snapshot, Touch, SecondPasses, vars
<1>2. CASE SaveTurn \/ Persist
  BY <1>2 DEF SaveTurn, Persist
<1>3. CASE New \/ SwitchModel
  BY <1>3 DEF New, SwitchModel
<1>4. CASE Invalidate \/ Delete \/ Realign \/ Crash
  BY <1>4 DEF Invalidate, Delete, Realign, Crash
<1>5. ASSUME NEW j \in Jobs, Work(j) PROVE TypeBounds'
  BY <1>5 DEF Work, Enter, Ask, Answer, AskFails, WriteHistory, Finish
<1>6. ASSUME NEW j \in Jobs, WriteFails(j) PROVE TypeBounds'
  BY <1>6 DEF WriteFails
<1> QED
  BY <1>1, <1>2, <1>3, <1>4, <1>5, <1>6 DEF Next

\* A sequence without its head.
LEMMA TailFacts ==
    ASSUME NEW S, NEW s \in Seq(S), s # <<>>
    PROVE  /\ Tail(s) \in Seq(S) /\ Head(s) \in S
           /\ \A x \in Range(s) : x = Head(s) \/ x \in Range(Tail(s))
<1>1. /\ Len(s) \in Nat /\ DOMAIN s = 1..Len(s)
      /\ Tail(s) \in Seq(S) /\ Len(Tail(s)) = Len(s) - 1 /\ DOMAIN Tail(s) = 1..Len(Tail(s))
      /\ \A i \in 1..Len(Tail(s)) : Tail(s)[i] = s[i + 1]
      /\ Head(s) \in S /\ Head(s) = s[1]
  BY HeadTailProperties, LenProperties
<1>2. ASSUME NEW i \in 1..Len(s) PROVE s[i] = Head(s) \/ s[i] \in Range(Tail(s))
  <2>1. CASE i = 1
    BY <1>1, <2>1
  <2>2. CASE i # 1
    <3>1. i - 1 \in DOMAIN Tail(s) /\ Tail(s)[i - 1] = s[i - 1 + 1] /\ i - 1 + 1 = i
      BY <1>1, <2>2
    <3> QED
      BY <3>1 DEF Range
  <2> QED
    BY <2>1, <2>2
<1> QED
  BY <1>1, <1>2 DEF Range

\* A job that joins the queue joins its tail.
LEMMA JoinFacts ==
    ASSUME queue \in Seq(Jobs), NEW j \in Jobs, queue' = Append(queue, j)
    PROVE  /\ queue' \in Seq(Jobs) /\ queue' # <<>>
           /\ Range(queue') = Range(queue) \union {j}
           /\ queue # <<>> => Head(queue') = Head(queue)
<1>1. /\ Len(queue) \in Nat /\ DOMAIN queue = 1..Len(queue)
      /\ queue' \in Seq(Jobs) /\ Len(queue') = Len(queue) + 1 /\ queue' # <<>>
      /\ \A i \in 1..Len(queue) : queue'[i] = queue[i]
      /\ queue'[Len(queue) + 1] = j
  BY AppendProperties, LenProperties
<1>2. DOMAIN queue' = 1..Len(queue) + 1
  BY <1>1, LenProperties
<1>3. Range(queue') = Range(queue) \union {j}
  BY <1>1, <1>2 DEF Range
<1>4. queue # <<>> => Head(queue') = Head(queue)
  BY HeadTailAppend
<1> QED
  BY <1>1, <1>3, <1>4

QueueStep ==
    /\ job' \in [Jobs -> Stages] /\ text' \in [Jobs -> Lists] /\ original' \in Lists
    /\ queue' \in Seq(Jobs) /\ QueueInv'

\* The head of the queue may leave it.
LEMMA ReleaseFacts ==
    ASSUME TypeJobs, QueueInv, NEW j \in Jobs, queue # <<>>, Head(queue) = j, Release(j)
    PROVE  QueueStep
<1>1. /\ job' = [job EXCEPT ![j] = "idle"]
      /\ queue' = Tail(queue)
      /\ text' = [text EXCEPT ![j] = <<>>]
      /\ original' = IF j = Consolidator THEN <<>> ELSE original
  BY DEF Release
<1>2. job' \in [Jobs -> Stages] /\ text' \in [Jobs -> Lists] /\ original' \in Lists
  BY <1>1, EmptyFacts DEF TypeJobs, Stages
<1>3. /\ queue' \in Seq(Jobs)
      /\ \A x \in Range(queue) : x = j \/ x \in Range(queue')
  BY <1>1, TailFacts DEF TypeJobs
<1>4. ASSUME NEW k \in Jobs, job'[k] = "queued" PROVE k \in Range(queue')
  BY <1>1, <1>2, <1>3, <1>4 DEF QueueInv, TypeJobs
<1>5. ASSUME NEW k \in Jobs PROVE ~Working(k)'
  BY <1>1 DEF QueueInv, Working, TypeJobs
<1>6. Consolidator \in Jobs
  BY DEF Jobs
<1>7. ASSUME job'[Consolidator] \in {"queued", "asking", "writing", "written", "skipped"}
      PROVE  text'[Consolidator] = OldPart(original)'
  <2>1. j # Consolidator /\ job[Consolidator] \in {"queued", "asking", "writing", "written", "skipped"}
    BY <1>1, <1>6, <1>7 DEF TypeJobs
  <2> QED
    BY <1>1, <1>6, <2>1 DEF TypeJobs, QueueInv
<1> QED
  BY <1>2, <1>3, <1>4, <1>5, <1>7 DEF QueueStep, QueueInv

\* So every step keeps the jobs and their queue in order.
LEMMA QueueTyped ==
    Typed /\ [Next]_vars => QueueStep
<1> SUFFICES ASSUME Typed, [Next]_vars PROVE QueueStep
  OBVIOUS
<1>0. TypeSessions /\ TypeTurn /\ TypeJobs /\ HeldInv /\ QueueInv
  BY TypeParts DEF Typed
<1>a. Consolidator \in Jobs /\ \A j \in Archivists : j \in Jobs /\ j # Consolidator
  BY HistoryAssumption DEF Jobs
<1>b. ASSUME NEW j \in Jobs, Working(j) \/ (job[j] = "queued" /\ Head(queue) = j)
      PROVE  queue # <<>> /\ Head(queue) = j
  <2>1. Range(<<>>) = {}
    BY EmptyFacts
  <2> QED
    BY <1>0, <1>b, <2>1 DEF QueueInv
<1> USE <1>0, <1>a DEF TypeJobs, QueueStep, QueueInv, Working, Stages
<1>1. CASE UNCHANGED jobs
  BY <1>1 DEF jobs
<1>2. CASE StartTurn \/ SaveTurn \/ LeaveTurn \/ SwitchModel \/ Persist \/ Touch
           \/ Invalidate \/ Delete \/ Realign \/ SecondPasses \/ UNCHANGED vars
  <2>1. UNCHANGED jobs
    BY <1>2 DEF StartTurn, SaveTurn, LeaveTurn, SwitchModel, Persist, Touch, Invalidate,
       Delete, Realign, SecondPasses, vars
  <2> QED
    BY <1>1, <2>1
<1>3. CASE Proceed
  BY <1>3 DEF Proceed
<1>4. CASE New
  <2>1. messages[held] \in Lists
    BY <1>4 DEF New, HeldInv, TypeTurn, TypeSessions
  <2>2. UNCHANGED <<queue, original>>
    BY <1>4 DEF New
  <2>3. CASE UNCHANGED <<job, text>>
    BY <2>2, <2>3
  <2>4. ASSUME NEW j \in Archivists, job[j] = "idle",
               job' = [job EXCEPT ![j] = "created"], text' = [text EXCEPT ![j] = messages[held]]
        PROVE  QueueStep
    BY <2>1, <2>2, <2>4
  <2> QED
    BY <1>4, <2>3, <2>4 DEF New
<1>5. CASE Snapshot
  <2>1. Content(Live) \in Lists
    BY LiveFacts
  <2>2. OldPart(Content(Live)) \in Lists
    BY <2>1, PartFacts
  <2>3. CASE Content(Live) = <<>>
    BY <1>5, <2>3 DEF Snapshot
  <2>4. CASE Content(Live) # <<>>
    <3>1. /\ job[Consolidator] = "created"
          /\ job' = [job EXCEPT ![Consolidator] = "queued"]
          /\ original' = Content(Live)
          /\ text' = [text EXCEPT ![Consolidator] = OldPart(original')]
          /\ queue' = Append(queue, Consolidator)
      BY <1>5, <2>4 DEF Snapshot
    <3>2. /\ queue' \in Seq(Jobs) /\ queue' # <<>>
          /\ Range(queue') = Range(queue) \union {Consolidator}
          /\ queue # <<>> => Head(queue') = Head(queue)
      BY <3>1, JoinFacts
    <3> QED
      BY <2>1, <2>2, <3>1, <3>2
  <2> QED
    BY <2>3, <2>4
<1>6. ASSUME NEW j \in Jobs, Enter(j) PROVE QueueStep
  <2>1. /\ j # Consolidator /\ job[j] = "created"
        /\ job' = [job EXCEPT ![j] = "queued"]
        /\ queue' = Append(queue, j)
        /\ UNCHANGED <<text, original>>
    BY <1>6 DEF Enter
  <2>2. /\ queue' \in Seq(Jobs) /\ queue' # <<>>
        /\ Range(queue') = Range(queue) \union {j}
        /\ queue # <<>> => Head(queue') = Head(queue)
    BY <2>1, JoinFacts
  <2> QED
    BY <2>1, <2>2
<1>7. ASSUME NEW j \in Jobs, Ask(j) \/ Answer(j) \/ AskFails(j) \/ WriteHistory(j)
                             \/ Finish(j) \/ WriteFails(j)
      PROVE  QueueStep
  <2>1. queue # <<>> /\ Head(queue) = j
    BY <1>7, <1>b DEF Ask, Answer, AskFails, WriteHistory, Finish, WriteFails
  <2>2. CASE Release(j)
    BY <2>1, <2>2, ReleaseFacts
  <2>3. ASSUME NEW l \in {"asking", "writing", "written", "skipped"}, job' = [job EXCEPT ![j] = l],
               job[j] \in {"queued", "asking", "writing"}, UNCHANGED <<queue, text, original>>
        PROVE  QueueStep
    BY <2>1, <2>3
  <2> QED
    BY <1>7, <2>2, <2>3 DEF Ask, Answer, AskFails, WriteHistory, Finish, WriteFails
<1>8. CASE Crash
  <2>1. job' = [j \in Jobs |-> "idle"] /\ text' = [j \in Jobs |-> <<>>] /\ original' = <<>> /\ queue' = <<>>
    BY <1>8 DEF Crash
  <2> QED
    BY <2>1, EmptyFacts DEF Lists
<1> QED
  BY <1>2, <1>3, <1>4, <1>5, <1>6, <1>7, <1>8 DEF Next, Work

\* The memory counts, and forgets nothing.
LEMMA MemoryTyped ==
    Typed /\ [Next]_vars => memory' \in [Ids -> Nat] /\ \A n \in Ids : memory'[n] >= memory[n]
<1> SUFFICES ASSUME Typed, [Next]_vars
             PROVE  memory' \in [Ids -> Nat] /\ \A n \in Ids : memory'[n] >= memory[n]
  OBVIOUS
<1>0. memory \in [Ids -> Nat]
  BY DEF Typed, TypeOK
<1>1. ASSUME NEW j \in Jobs, WriteHistory(j)
      PROVE  memory' \in [Ids -> Nat] /\ \A n \in Ids : memory'[n] >= memory[n]
  BY <1>0, <1>1 DEF WriteHistory
<1>2. CASE UNCHANGED memory
  BY <1>0, <1>2
<1>3. ASSUME NEW j \in Jobs, Enter(j) \/ Ask(j) \/ Answer(j) \/ AskFails(j) \/ Finish(j) \/ WriteFails(j)
      PROVE  UNCHANGED memory
  BY <1>3 DEF Enter, Ask, Answer, AskFails, Finish, WriteFails
<1>4. CASE \/ StartTurn \/ Proceed \/ SaveTurn \/ LeaveTurn \/ New \/ SwitchModel \/ Snapshot
           \/ Persist \/ Touch \/ Invalidate \/ Delete \/ Realign
           \/ SecondPasses \/ Crash \/ UNCHANGED vars
  BY <1>2, <1>4 DEF StartTurn, Proceed, SaveTurn, LeaveTurn, New, SwitchModel, Snapshot, Persist,
     Touch, Invalidate, Delete, Realign, SecondPasses, Crash, vars, jobs
<1> QED
  BY <1>1, <1>2, <1>3, <1>4 DEF Next, Work

\* The first state is well typed.
LEMMA InitTyped == Init => Typed
<1> SUFFICES ASSUME Init PROVE Typed
  OBVIOUS
<1>1. TypeSessions /\ TypeTurn /\ TypeHistory
  BY EmptyFacts DEF Init, TypeSessions, TypeTurn, TypeHistory
<1>2. TypeJobs /\ TypeEpochs
  <2>1. since \in Nat /\ epoch \in Nat /\ memory \in [Ids -> Nat]
    BY DEF Init
  <2>2. consolidating \in BOOLEAN /\ queue \in Seq(Jobs)
    BY EmptySeq DEF Init
  <2>3. job \in [Jobs -> Stages] /\ text \in [Jobs -> Lists] /\ original \in Lists
    BY EmptyFacts DEF Init, Stages
  <2> QED
    BY <2>1, <2>2, <2>3 DEF TypeJobs, TypeEpochs
<1>3. TypeBounds
  BY HistoryAssumption DEF Init, TypeBounds
<1>4. HeldInv /\ QueueInv
  BY DEF Init, HeldInv, QueueInv, Working, Jobs
<1> QED
  BY <1>1, <1>2, <1>3, <1>4, TypeParts DEF Typed

\* Every step keeps the types.
LEMMA NextTyped == Typed /\ [Next]_vars => Typed'
<1> SUFFICES ASSUME Typed, [Next]_vars PROVE Typed'
  OBVIOUS
<1>1. TypeSessions' /\ (TypeTurn /\ HeldInv)' /\ TypeEpochs' /\ TypeHistory' /\ TypeBounds'
  BY SessionsTyped, TurnTyped, EpochsTyped, HistoryTyped, BoundsTyped
<1>2. TypeJobs' /\ QueueInv'
  BY QueueTyped, MemoryTyped DEF QueueStep, TypeJobs
<1>3. TypeOK'
  BY <1>1, <1>2
  DEF TypeOK, TypeSessions, TypeTurn, TypeJobs, TypeEpochs, TypeHistory, TypeBounds
<1> QED
  BY <1>1, <1>2, <1>3 DEF Typed

\* Every variable keeps its type: jobs, queues and lists of messages are what
\* they say, whatever commands, jobs and failures come in between.
THEOREM HistoryTypeCorrect == Spec => []TypeOK
<1>1. Spec => []Typed
  BY InitTyped, NextTyped, PTL DEF Spec
<1>2. Typed => TypeOK
  BY DEF Typed
<1> QED
  BY <1>1, <1>2, PTL

-----------------------------------------------------------------------------
(***************************************************************************)
(* How the session moves: it stays, it is cleared and kept elsewhere, a    *)
(* turn or another writer adds a message, or a consolidation cuts it.      *)
(***************************************************************************)
Grown == count < MaxMessages /\ count' = count + 1

Cleared ==
    /\ Stored' = <<>> /\ count' = count
    /\ Range(Stored) \subseteq cleared' /\ Range(Stored) \subseteq archive' \union dropped'

SavedByTurn ==
    /\ turn # "idle" /\ Grown
    /\ Stored' = Append(messages[held], count + 1)
    /\ Range(Stored) \subseteq Range(messages[held]) \union lost'
    /\ held # cached => detached'

Cut ==
    /\ job[Consolidator] \in {"written", "skipped"} /\ Applies(Stored)
    /\ Stored' = Shortened(Stored) /\ count' = count
    /\ job[Consolidator] = "skipped" => Range(text[Consolidator]) \subseteq blank'
    /\ job'[Consolidator] = "idle"

StoredMove ==
    \/ Stored' = Stored /\ count' = count
    \/ Cleared
    \/ SavedByTurn
    \/ Stored' = Append(Stored, count + 1) /\ Grown
    \/ Cut

ObjectsMove == \A o \in Objects : messages'[o] \in {messages[o], <<>>, Stored, Stored'}

\* Every step moves the session in one of these ways, and leaves the cached
\* object equal to the file.
LEMMA SessionMoves ==
    Typed /\ CacheInv /\ [Next]_vars => StoredMove /\ ObjectsMove /\ CacheInv'
<1> SUFFICES ASSUME Typed, CacheInv, [Next]_vars PROVE StoredMove /\ ObjectsMove /\ CacheInv'
  OBVIOUS
<1>0. TypeSessions /\ TypeTurn /\ TypeJobs /\ TypeBounds /\ HeldInv
  BY TypeParts DEF Typed
<1>a. /\ Live \in Objects /\ Live # None /\ Stored \in Lists /\ Content(Live) = Stored
      /\ cached # None => Live = cached
  BY <1>0, LiveFacts, HistoryAssumption
<1>b. turn # "idle" => held \in Objects /\ held # None /\ messages[held] \in Lists
  BY <1>0, HistoryAssumption DEF HeldInv, TypeTurn, TypeSessions
<1>c. count \in Nat /\ (count < MaxMessages => count + 1 \in Ids)
  BY <1>0, HistoryAssumption DEF TypeBounds, Ids
<1>d. ASSUME NEW o \in Objects, NEW list \in Lists, Save(o, list)
      PROVE  Stored' = list /\ ObjectsMove /\ CacheInv'
  <2>1. /\ messages'[o] = list /\ cached' = o /\ Stored' = list
        /\ \A x \in Objects : messages'[x] \in {list, messages[x], <<>>}
    BY <1>0, <1>d, SaveFacts
  <2> QED
    BY <2>1 DEF ObjectsMove, CacheInv
<1>e. ASSUME UNCHANGED <<file, cached>>, messages' = Only(cached) PROVE Stored' = Stored /\ ObjectsMove /\ CacheInv'
  <2>1. \A x \in Objects : messages'[x] \in {messages[x], <<>>} /\ (x = cached => messages'[x] = messages[x])
    BY <1>0, <1>e, OnlyFacts
  <2>2. Stored' = Stored /\ (cached # None => cached \in Objects)
    BY <1>0, <1>e DEF Stored, TypeSessions
  <2> QED
    BY <1>e, <2>1, <2>2 DEF ObjectsMove, CacheInv
<1>f. ASSUME cached' = None, NEW o, messages' = Only(o) PROVE ObjectsMove /\ CacheInv'
  BY <1>0, <1>f, OnlyFacts DEF ObjectsMove, CacheInv
<1>g. ASSUME cached' = Live, file' = file, messages' = [messages EXCEPT ![Live] = Stored]
      PROVE  Stored' = Stored /\ ObjectsMove /\ CacheInv'
  <2>1. Stored' = Stored
    BY <1>g DEF Stored
  <2>2. messages'[Live] = Stored /\ \A x \in Objects : messages'[x] \in {messages[x], Stored}
    BY <1>0, <1>a, <1>g DEF TypeSessions
  <2>3. ObjectsMove
    BY <2>2 DEF ObjectsMove
  <2>4. CacheInv'
    BY <1>g, <2>1, <2>2 DEF CacheInv
  <2> QED
    BY <2>1, <2>3, <2>4
<1>h. ASSUME UNCHANGED sessions PROVE Stored' = Stored /\ ObjectsMove /\ CacheInv'
  BY <1>h DEF sessions, Stored, ObjectsMove, CacheInv
<1>1. CASE StartTurn
  <2>1. count' = count
    BY <1>1 DEF StartTurn
  <2> QED
    BY <1>1, <1>a, <1>g, <2>1 DEF StartTurn, StoredMove
<1>2. CASE SaveTurn
  <2>1. Append(messages[held], count + 1) \in Lists /\ held \in Objects /\ Grown /\ turn # "idle"
    BY <1>2, <1>b, <1>c, AppendFacts DEF SaveTurn, Grown
  <2>2. Save(held, Append(messages[held], count + 1))
    BY <1>2 DEF SaveTurn
  <2>3. Range(Stored) \subseteq Range(messages[held]) \union lost' /\ (held # cached => detached')
    BY <1>2 DEF SaveTurn
  <2> QED
    BY <1>d, <2>1, <2>2, <2>3 DEF SavedByTurn, StoredMove
<1>3. CASE LeaveTurn
  <2>1. count' = count
    BY <1>3 DEF LeaveTurn
  <2> QED
    BY <1>3, <1>e, <2>1 DEF LeaveTurn, StoredMove
<1>4. CASE New
  <2>1. /\ file' = <<>> /\ cached' = None /\ messages' = Only(None) /\ count' = count
        /\ Range(Stored) \subseteq cleared' /\ Range(Stored) \subseteq archive'
    BY <1>4 DEF New, Archived
  <2>2. Stored' = <<>>
    BY <2>1 DEF Stored
  <2> QED
    BY <1>f, <2>1, <2>2 DEF Cleared, StoredMove
<1>5. CASE SwitchModel
  <2>1. Save(held, <<>>) /\ held \in Objects /\ count' = count
    BY <1>5, <1>b DEF SwitchModel
  <2>2. Range(Stored) \subseteq cleared' /\ Range(Stored) \subseteq dropped'
    BY <1>5 DEF SwitchModel
  <2> QED
    BY <1>d, <2>1, <2>2, EmptyFacts DEF Cleared, StoredMove
<1>6. CASE Snapshot
  <2>1. count' = count
    BY <1>6 DEF Snapshot
  <2> QED
    BY <1>6, <1>a, <1>g, <2>1 DEF Snapshot, StoredMove
<1>7. ASSUME NEW j \in Jobs, Finish(j) PROVE StoredMove /\ ObjectsMove /\ CacheInv'
  <2>1. count' = count /\ job[j] \in {"written", "skipped"}
    BY <1>7 DEF Finish
  <2>2. CASE j = Consolidator /\ Applies(Stored)
    <3>1. Shortened(Stored) \in Lists
      BY <1>0, <1>a, <2>2, ShortenedType DEF TypeJobs
    <3>2. /\ Save(Live, Shortened(Stored))
          /\ job[Consolidator] = "skipped" => Range(text[Consolidator]) \subseteq blank'
      BY <1>7, <1>a, <2>2 DEF Finish
    <3>3. job'[Consolidator] = "idle"
      BY <1>0, <1>7, <2>2 DEF Finish, Release, TypeJobs
    <3>4. Cut
      BY <1>a, <1>d, <2>1, <2>2, <3>1, <3>2, <3>3 DEF Cut
    <3> QED
      BY <1>a, <1>d, <3>1, <3>2, <3>4 DEF StoredMove
  <2>3. CASE j = Consolidator /\ ~Applies(Stored)
    <3>1. cached' = Live /\ file' = file /\ messages' = [messages EXCEPT ![Live] = Stored]
      BY <1>7, <1>a, <2>3 DEF Finish, Reload
    <3> QED
      BY <1>g, <2>1, <3>1 DEF StoredMove
  <2>4. CASE j # Consolidator
    <3>1. UNCHANGED sessions
      BY <1>7, <2>4 DEF Finish, sessions
    <3> QED
      BY <1>h, <2>1, <3>1 DEF StoredMove
  <2> QED
    BY <2>2, <2>3, <2>4
<1>8. CASE Persist
  <2>1. Append(Stored, count + 1) \in Lists /\ Grown /\ Save(Live, Append(Stored, count + 1))
    BY <1>8, <1>a, <1>c, AppendFacts DEF Persist, Grown
  <2> QED
    BY <1>a, <1>d, <2>1 DEF StoredMove
<1>9. CASE Touch
  <2>1. Save(Live, Stored) /\ count' = count
    BY <1>9, <1>a DEF Touch
  <2> QED
    BY <1>a, <1>d, <2>1 DEF StoredMove
<1>10. CASE Invalidate \/ Crash
  <2>1. cached' = None /\ count' = count /\ file' = file /\ (messages' = Only(None) \/ messages' = Only(held))
    BY <1>10 DEF Invalidate, Crash
  <2>2. Stored' = Stored
    BY <2>1 DEF Stored
  <2> QED
    BY <1>f, <2>1, <2>2 DEF StoredMove
<1>11. CASE Delete
  <2>1. /\ cached' = None /\ file' = None /\ messages' = Only(held) /\ count' = count
        /\ Range(Stored) \subseteq cleared' /\ Range(Stored) \subseteq dropped'
    BY <1>11 DEF Delete
  <2>2. Stored' = <<>>
    BY <2>1 DEF Stored
  <2> QED
    BY <1>f, <2>1, <2>2 DEF Cleared, StoredMove
<1>12. CASE Realign
  <2> DEFINE fresh == CHOOSE o \in Objects : o # held
  <2>1. fresh \in Objects
    <3>1. \E o \in Objects : o # held
      BY DEF Objects
    <3> QED
      BY <3>1
  <2>2. /\ Save(fresh, <<>>) /\ count' = count
        /\ Range(Stored) \subseteq cleared' /\ Range(Stored) \subseteq archive'
    BY <1>12 DEF Realign, Archived
  <2> QED
    BY <1>d, <2>1, <2>2, EmptyFacts DEF Cleared, StoredMove
<1>13. CASE SecondPasses
  <2>1. UNCHANGED <<messages, cached, file, count>>
    BY <1>13 DEF SecondPasses
  <2> QED
    BY <2>1 DEF Stored, StoredMove, ObjectsMove, CacheInv
<1>14. ASSUME \/ Proceed \/ UNCHANGED vars
              \/ \E j \in Jobs : \/ Enter(j) \/ Answer(j) \/ AskFails(j)
                                 \/ WriteHistory(j) \/ WriteFails(j)
       PROVE  StoredMove /\ ObjectsMove /\ CacheInv'
  <2>1. UNCHANGED sessions /\ count' = count
    BY <1>14 DEF Proceed, Enter, Answer, AskFails, WriteHistory, WriteFails, vars, sessions
  <2> QED
    BY <1>h, <2>1 DEF StoredMove
<1>15. ASSUME NEW j \in Jobs, Ask(j) PROVE StoredMove /\ ObjectsMove /\ CacheInv'
  <2>1. count' = count /\ file' = file
    BY <1>15 DEF Ask
  <2>2. CASE Reload
    BY <1>a, <1>g, <2>1, <2>2 DEF Reload, StoredMove
  <2>3. CASE UNCHANGED <<messages, cached>>
    <3>1. UNCHANGED sessions
      BY <1>15, <2>1, <2>3 DEF Ask, sessions
    <3> QED
      BY <1>h, <2>1, <3>1 DEF StoredMove
  <2> QED
    BY <1>15, <2>2, <2>3 DEF Ask
<1> QED
  BY <1>1, <1>2, <1>3, <1>4, <1>5, <1>6, <1>7, <1>8, <1>9, <1>10, <1>11, <1>12, <1>13, <1>14, <1>15
  DEF Next, Work

-----------------------------------------------------------------------------
(* Order *)

Ordered(list, n) == list \in Lists /\ Increasing(list) /\ Range(list) \subseteq 1..n

\* A message with the next number keeps a list in order.
LEMMA NextNumber ==
    ASSUME NEW n \in Nat, n + 1 \in Ids, NEW list, Ordered(list, n)
    PROVE  Ordered(Append(list, n + 1), n + 1)
<1>1. \A i \in DOMAIN list : list[i] < n + 1
  <2>1. \A i \in DOMAIN list : list[i] \in 1..n
    BY DEF Ordered, Range
  <2> QED
    BY <2>1
<1> QED
  BY <1>1, AppendFacts DEF Ordered

\* The lists of a session stay in order.
LEMMA OrderStep ==
    Typed /\ CacheInv /\ OrderInv /\ [Next]_vars => OrderInv'
<1> SUFFICES ASSUME Typed, CacheInv, OrderInv, [Next]_vars PROVE OrderInv'
  OBVIOUS
<1>0. TypeSessions /\ TypeTurn /\ TypeJobs /\ TypeBounds /\ HeldInv
  BY TypeParts DEF Typed
<1>1. count \in Nat /\ (count < MaxMessages => count + 1 \in Ids)
  BY <1>0, HistoryAssumption DEF TypeBounds, Ids
<1>2. Ordered(Stored, count) /\ \A o \in Objects : Ordered(messages[o], count)
  BY <1>0, LiveFacts DEF OrderInv, Ordered, TypeSessions
<1>3. StoredMove /\ ObjectsMove
  BY SessionMoves
<1>4. count' \in {count, count + 1}
  BY <1>3 DEF StoredMove, Cleared, SavedByTurn, Cut, Grown
<1>5. \A list : Ordered(list, count) => Ordered(list, count')
  BY <1>1, <1>4 DEF Ordered
<1>6. Ordered(<<>>, count')
  BY EmptyFacts DEF Ordered
<1>7. Ordered(Stored', count')
  <2>1. CASE Stored' = Stored /\ count' = count
    BY <1>2, <2>1
  <2>2. CASE Cleared
    BY <1>6, <2>2 DEF Cleared
  <2>3. CASE SavedByTurn
    <3>1. held \in Objects /\ Stored' = Append(messages[held], count + 1)
          /\ count' = count + 1 /\ count + 1 \in Ids
      BY <1>0, <1>1, <2>3 DEF SavedByTurn, Grown, HeldInv, TypeTurn
    <3> QED
      BY <1>1, <1>2, <3>1, NextNumber
  <2>4. CASE Stored' = Append(Stored, count + 1) /\ Grown
    <3>1. count' = count + 1 /\ count + 1 \in Ids
      BY <1>1, <2>4 DEF Grown
    <3> QED
      BY <1>1, <1>2, <2>4, <3>1, NextNumber
  <2>5. CASE Cut
    <3>1. Stored' = Shortened(Stored) /\ count' = count /\ IsPrefix(original, Stored) /\ original \in Lists
      BY <1>0, <2>5 DEF Cut, Applies, TypeJobs
    <3> QED
      BY <1>2, <3>1, CutFacts DEF Ordered
  <2> QED
    BY <1>3, <2>1, <2>2, <2>3, <2>4, <2>5 DEF StoredMove
<1>8. \A o \in Objects : Ordered(messages'[o], count')
  BY <1>2, <1>3, <1>5, <1>6, <1>7 DEF ObjectsMove
<1> QED
  BY <1>7, <1>8 DEF OrderInv, Ordered

\* Nothing is in the session at first.
LEMMA InitOrder == Init => CacheInv /\ OrderInv
<1> SUFFICES ASSUME Init PROVE CacheInv /\ OrderInv
  OBVIOUS
<1>1. Stored = <<>> /\ \A o \in Objects : messages[o] = <<>>
  BY DEF Init, Stored
<1> QED
  BY <1>1, EmptyFacts DEF Init, CacheInv, OrderInv

\* The session's messages stay in the order in which they were saved, each
\* once, through every consolidation and every save of a stale object.
THEOREM StaysInOrder == Spec => []InOrder
<1>1. Init => Typed /\ CacheInv /\ OrderInv
  BY InitTyped, InitOrder
<1>2. Typed /\ CacheInv /\ OrderInv /\ [Next]_vars => (Typed /\ CacheInv /\ OrderInv)'
  BY NextTyped, SessionMoves, OrderStep
<1>3. OrderInv => InOrder
  BY DEF OrderInv, InOrder, Increasing
<1> QED
  BY <1>1, <1>2, <1>3, PTL DEF Spec

-----------------------------------------------------------------------------
(* Nothing is lost *)

\* What is archived stays archived unless an archive of the same second
\* replaces it; what has happened has happened.
LEMMA HistoryKept ==
    [Next]_vars =>
        /\ archive \subseteq archive' \union lost'
        /\ lost \subseteq lost' /\ dropped \subseteq dropped' /\ blank \subseteq blank'
        /\ cleared \subseteq cleared' /\ again \subseteq again'
        /\ detached => detached'
<1> SUFFICES ASSUME [Next]_vars
             PROVE  /\ archive \subseteq archive' \union lost'
                    /\ lost \subseteq lost' /\ dropped \subseteq dropped' /\ blank \subseteq blank'
                    /\ cleared \subseteq cleared' /\ again \subseteq again'
                    /\ detached => detached'
  OBVIOUS
<1>1. CASE SaveTurn
  BY <1>1 DEF SaveTurn
<1>2. CASE New
  BY <1>2 DEF New, Archived
<1>3. CASE SwitchModel \/ Delete \/ Crash
  BY <1>3 DEF SwitchModel, Delete, Crash
<1>4. CASE Realign
  BY <1>4 DEF Realign, Archived
<1>5. CASE \/ StartTurn \/ Proceed \/ LeaveTurn \/ Snapshot \/ Persist \/ Touch
           \/ Invalidate \/ SecondPasses \/ UNCHANGED vars
  BY <1>5 DEF StartTurn, Proceed, LeaveTurn, Snapshot, Persist, Touch, Invalidate, SecondPasses,
     vars, sessions, history
<1>6. ASSUME NEW j \in Jobs, Work(j)
      PROVE  blank \subseteq blank' /\ UNCHANGED <<archive, cleared, dropped, lost, again, detached>>
  BY <1>6 DEF Work, Enter, Ask, Answer, AskFails, WriteHistory, Finish, sessions, history
<1>7. ASSUME NEW j \in Jobs, WriteFails(j)
      PROVE  again \subseteq again' /\ UNCHANGED <<archive, cleared, dropped, lost, blank, detached>>
  BY <1>7 DEF WriteFails, sessions
<1> QED
  BY <1>1, <1>2, <1>3, <1>4, <1>5, <1>6, <1>7 DEF Next, history

\* What a job calls written is in the memory.
LEMMA WrittenStep ==
    Typed /\ WrittenInv /\ [Next]_vars => WrittenInv'
<1> SUFFICES ASSUME Typed, WrittenInv, [Next]_vars,
                    NEW j \in Jobs, job'[j] = "written", NEW n \in Range(text'[j])
             PROVE  memory'[n] > 0
  BY DEF WrittenInv
<1>0. TypeSessions /\ TypeTurn /\ TypeJobs /\ HeldInv
  BY TypeParts DEF Typed
<1>a. Consolidator \in Jobs /\ Archivists \subseteq Jobs
  BY DEF Jobs
<1>b. memory' \in [Ids -> Nat] /\ \A m \in Ids : memory'[m] >= memory[m]
  BY MemoryTyped
<1>1. CASE job[j] = "written" /\ text'[j] = text[j]
  <2>1. n \in Ids /\ memory[n] > 0
    BY <1>0, <1>1, RangeFacts DEF WrittenInv, TypeJobs
  <2> QED
    BY <1>0, <1>b, <2>1 DEF TypeJobs
<1>2. ASSUME NEW k \in Jobs, WriteHistory(k) PROVE memory'[n] > 0
  <2>1. CASE j = k
    <3>1. text'[j] = text[j] /\ n \in Ids
      BY <1>0, <1>2, <2>1, RangeFacts DEF WriteHistory, TypeJobs
    <3>2. memory'[n] = memory[n] + 1
      BY <1>2, <2>1, <3>1 DEF WriteHistory
    <3> QED
      BY <1>0, <3>1, <3>2 DEF TypeJobs
  <2>2. CASE j # k
    BY <1>0, <1>1, <1>2, <2>2 DEF WriteHistory, TypeJobs
  <2> QED
    BY <2>1, <2>2
<1>3. ASSUME NEW k \in Jobs, Enter(k) \/ Ask(k) \/ Answer(k) \/ AskFails(k) \/ Finish(k) \/ WriteFails(k)
      PROVE  memory'[n] > 0
  BY <1>0, <1>1, <1>3 DEF Enter, Ask, Answer, AskFails, Finish, WriteFails, Release, TypeJobs
<1>4. CASE New
  <2>1. job[j] = "written" /\ text'[j] = text[j]
    BY <1>0, <1>a, <1>4 DEF New, TypeJobs
  <2> QED
    BY <1>1, <2>1
<1>5. CASE Proceed \/ Snapshot
  <2>1. job[j] = "written" /\ text'[j] = text[j]
    BY <1>0, <1>a, <1>5 DEF Proceed, Snapshot, TypeJobs
  <2> QED
    BY <1>1, <2>1
<1>6. ~Crash
  BY DEF Crash
<1>7. CASE \/ StartTurn \/ SaveTurn \/ LeaveTurn \/ SwitchModel
           \/ Persist \/ Touch \/ Invalidate \/ Delete \/ Realign \/ SecondPasses \/ UNCHANGED vars
  BY <1>1, <1>7 DEF StartTurn, SaveTurn, LeaveTurn, SwitchModel, Persist, Touch, Invalidate,
     Delete, Realign, SecondPasses, vars, jobs
<1> QED
  BY <1>2, <1>3, <1>4, <1>5, <1>6, <1>7 DEF Next, Work

\* A message that is kept stays kept, and a new one is.
LEMMA KeptStep ==
    Typed /\ KeptInv /\ [Next]_vars => NothingLost'
<1> SUFFICES ASSUME Typed, KeptInv, [Next]_vars, NEW n \in 1..count'
             PROVE  Kept(n)' \/ n \in dropped' \union lost' \union blank'
  BY DEF NothingLost
<1>0. TypeSessions /\ TypeTurn /\ TypeJobs /\ TypeBounds /\ HeldInv /\ QueueInv
  BY TypeParts DEF Typed
<1>a. Consolidator \in Jobs
  BY DEF Jobs
<1>b. /\ archive \subseteq archive' \union lost' /\ lost \subseteq lost' /\ dropped \subseteq dropped'
      /\ blank \subseteq blank'
  BY HistoryKept
<1>c. memory' \in [Ids -> Nat] /\ \A m \in Ids : memory'[m] >= memory[m]
  BY MemoryTyped
<1>d. StoredMove /\ Stored \in Lists
  BY <1>0, SessionMoves, LiveFacts DEF KeptInv
<1>e. count \in Nat /\ count \in 0..MaxMessages /\ (count < MaxMessages => count + 1 \in Ids)
  BY <1>0, HistoryAssumption DEF TypeBounds, Ids
<1>f. \A m \in Ids : memory[m] > 0 => memory'[m] > 0
  BY <1>0, <1>c DEF TypeJobs
<1>1. n \in 1..count \/ (n = count + 1 /\ Grown)
  BY <1>d, <1>e DEF StoredMove, Cleared, SavedByTurn, Cut, Grown
<1>2. n \in 1..count => n \in Ids /\ (Kept(n) \/ n \in dropped \union lost \union blank)
  BY <1>e, HistoryAssumption DEF KeptInv, NothingLost, Ids
<1>3. n \in 1..count => n \in Range(Stored) \/ Kept(n)' \/ n \in dropped' \union lost' \union blank'
  BY <1>2, <1>b, <1>f DEF Kept
<1>4. ASSUME n \in Range(Stored) \/ (n = count + 1 /\ Grown)
      PROVE  Kept(n)' \/ n \in dropped' \union lost' \union blank'
  <2>1. CASE Stored' = Stored /\ count' = count
    BY <1>4, <1>e, <2>1 DEF Kept, Grown
  <2>2. CASE Cleared
    BY <1>4, <1>e, <2>2 DEF Kept, Grown, Cleared
  <2>3. CASE SavedByTurn
    <3>1. messages[held] \in Lists /\ count + 1 \in Ids /\ Stored' = Append(messages[held], count + 1)
      BY <1>0, <1>e, <2>3 DEF SavedByTurn, Grown, HeldInv, TypeTurn, TypeSessions
    <3>2. Range(Stored') = Range(messages[held]) \union {count + 1}
      BY <3>1, AppendFacts
    <3> QED
      BY <1>4, <2>3, <3>2 DEF Kept, SavedByTurn
  <2>4. CASE Stored' = Append(Stored, count + 1) /\ Grown
    <3>1. Range(Stored') = Range(Stored) \union {count + 1}
      BY <1>d, <1>e, <2>4, AppendFacts DEF Grown
    <3> QED
      BY <1>4, <3>1 DEF Kept
  <2>5. CASE Cut
    <3>1. /\ n \in Range(Stored) /\ original \in Lists /\ IsPrefix(original, Stored)
          /\ Stored' = Shortened(Stored) /\ text[Consolidator] = OldPart(original)
      BY <1>0, <1>4, <1>e, <2>5 DEF Cut, Applies, TypeJobs, QueueInv, Grown
    <3>2. n \in Range(Stored') \/ n \in Range(text[Consolidator])
      BY <1>d, <3>1, CutFacts
    <3>3. n \in Range(text[Consolidator]) => (n \in Ids /\ memory[n] > 0) \/ n \in blank'
      BY <1>0, <1>a, <2>5, RangeFacts DEF Cut, KeptInv, WrittenInv, TypeJobs
    <3> QED
      BY <1>f, <3>2, <3>3 DEF Kept
  <2> QED
    BY <1>d, <2>1, <2>2, <2>3, <2>4, <2>5 DEF StoredMove
<1> QED
  BY <1>1, <1>3, <1>4

\* Nothing is lost at first.
LEMMA InitKept == Init => KeptInv
<1> SUFFICES ASSUME Init PROVE KeptInv
  OBVIOUS
<1>1. NothingLost /\ WrittenInv
  BY DEF Init, NothingLost, WrittenInv
<1> QED
  BY <1>1, InitOrder DEF KeptInv

\* Every step keeps what is saved.
LEMMA NextKept == Typed /\ KeptInv /\ [Next]_vars => KeptInv'
<1> SUFFICES ASSUME Typed, KeptInv, [Next]_vars PROVE KeptInv'
  OBVIOUS
<1>1. CacheInv /\ OrderInv /\ WrittenInv
  BY DEF KeptInv
<1>2. CacheInv' /\ OrderInv' /\ WrittenInv' /\ NothingLost'
  BY <1>1, SessionMoves, OrderStep, WrittenStep, KeptStep
<1> QED
  BY <1>2 DEF KeptInv

\* A message that was saved is kept in the session, in an archive or in the
\* memory, unless its user discarded it, another save has overwritten it, or a
\* consolidation cut it on an answer without a history_entry: no interleaving
\* of commands, jobs, crashes and failures loses it otherwise.
THEOREM NoMessageIsLost == Spec => []NothingLost
<1>1. Init => Typed /\ KeptInv
  BY InitTyped, InitKept
<1>2. Typed /\ KeptInv /\ [Next]_vars => (Typed /\ KeptInv)'
  BY NextTyped, NextKept
<1>3. KeptInv => NothingLost
  BY DEF KeptInv
<1> QED
  BY <1>1, <1>2, <1>3, PTL DEF Spec

-----------------------------------------------------------------------------
(***************************************************************************)
(* When a turn's object is replaced, and what that costs.  Only the        *)
(* watchdog and the web UI take a session out of the cache while a turn    *)
(* has it; without that no turn saves a stale object, and a message can be *)
(* overwritten only by a second archive of the same second.                *)
(***************************************************************************)
LeavesTurnsAlone == Invalidate \/ Delete \/ Realign => turn = "idle"
ArchivesApart    == New \/ Realign => latest = {}

\* The turn has the cached object.
HeldCached == turn # "idle" => held = cached

\* It keeps it as long as nobody takes it out of the cache.
LEMMA HeldStep ==
    ASSUME Typed, HeldCached, ~detached, [Next]_vars, LeavesTurnsAlone \/ UNCHANGED vars
    PROVE  HeldCached' /\ ~detached'
<1>0. TypeSessions /\ TypeTurn /\ HeldInv
  BY TypeParts DEF Typed
<1>1. turn # "idle" => cached # None /\ Live = cached
  BY <1>0, LiveFacts DEF HeldCached, HeldInv
<1> USE DEF HeldCached
<1>2. CASE StartTurn
  BY <1>2 DEF StartTurn, history
<1>3. CASE Proceed
  BY <1>3 DEF Proceed, sessions, history
<1>4. CASE SaveTurn
  <2>1. held = cached /\ (detached' <=> detached \/ held # cached)
    BY <1>4 DEF SaveTurn
  <2>2. cached' = held /\ (held' = held \/ turn' = "idle")
    BY <1>4 DEF SaveTurn, Save
  <2>3. ~detached'
    BY <2>1
  <2> QED
    BY <2>2, <2>3
<1>5. CASE LeaveTurn \/ New \/ SwitchModel \/ Crash
  <2>1. turn' = "idle"
    BY <1>5 DEF LeaveTurn, New, SwitchModel, Crash
  <2>2. CASE New
    <3>1. held = cached /\ (detached' <=> detached \/ held # cached)
      BY <2>2 DEF New
    <3> QED
      BY <2>1, <3>1
  <2>3. LeaveTurn \/ SwitchModel \/ Crash => UNCHANGED detached
    BY DEF LeaveTurn, SwitchModel, Crash, history
  <2> QED
    BY <1>5, <2>1, <2>2, <2>3
<1>6. CASE Snapshot
  BY <1>1, <1>6 DEF Snapshot, turns, history
<1>7. ASSUME NEW j \in Jobs, Work(j) \/ WriteFails(j) PROVE HeldCached' /\ ~detached'
  BY <1>1, <1>7 DEF Work, Enter, Ask, Reload, Answer, AskFails, WriteHistory, Finish, Save, WriteFails,
     sessions, turns, history
<1>8. CASE Persist \/ Touch
  BY <1>1, <1>8 DEF Persist, Touch, Save, turns, history
<1>9. CASE Invalidate \/ Delete \/ Realign
  <2>1. turn = "idle" \/ UNCHANGED vars
    BY <1>9 DEF LeavesTurnsAlone
  <2> QED
    BY <1>9, <2>1 DEF Invalidate, Delete, Realign, turns, history, vars, sessions
<1>10. CASE SecondPasses \/ UNCHANGED vars
  BY <1>10 DEF SecondPasses, vars, sessions, turns, history
<1> QED
  BY <1>2, <1>3, <1>4, <1>5, <1>6, <1>7, <1>8, <1>9, <1>10 DEF Next

\* As long as neither the watchdog nor the web UI takes a session out of the
\* cache while a turn has it, no turn works on a stale object.
THEOREM TurnsStayAttached == Spec /\ [][LeavesTurnsAlone]_vars => []~detached
<1>1. Init => Typed /\ HeldCached /\ ~detached
  BY InitTyped DEF Init, HeldCached
<1>2. Typed /\ HeldCached /\ ~detached /\ [Next]_vars /\ [LeavesTurnsAlone]_vars
        => (Typed /\ HeldCached /\ ~detached)'
  BY NextTyped, HeldStep
<1> QED
  BY <1>1, <1>2, PTL DEF Spec

\* A turn that has the cached object overwrites nothing.
LEMMA NothingOverwritten ==
    ASSUME Typed, CacheInv, lost = {}, ~detached', [Next]_vars, ArchivesApart \/ UNCHANGED vars
    PROVE  lost' = {}
<1>0. TypeSessions /\ TypeTurn /\ HeldInv
  BY TypeParts DEF Typed
<1>1. CASE SaveTurn
  <2>1. held = cached /\ held # None
    BY <1>0, <1>1 DEF SaveTurn, HeldInv
  <2>2. messages[held] = Stored
    BY <2>1 DEF CacheInv
  <2> QED
    BY <1>1, <2>2 DEF SaveTurn
<1>2. CASE New \/ Realign
  <2>1. latest = {} \/ UNCHANGED vars
    BY <1>2 DEF ArchivesApart
  <2> QED
    BY <1>2, <2>1 DEF New, Realign, Archived, vars, history
<1>3. CASE \/ StartTurn \/ Proceed \/ LeaveTurn \/ SwitchModel \/ Snapshot \/ Persist \/ Touch
           \/ Invalidate \/ Delete \/ SecondPasses \/ Crash \/ UNCHANGED vars
  BY <1>3 DEF StartTurn, Proceed, LeaveTurn, SwitchModel, Snapshot, Persist, Touch, Invalidate,
     Delete, SecondPasses, Crash, vars, history
<1>4. ASSUME NEW j \in Jobs, Work(j) \/ WriteFails(j) PROVE lost' = {}
  BY <1>4 DEF Work, Enter, Ask, Answer, AskFails, WriteHistory, Finish, WriteFails, history
<1> QED
  BY <1>1, <1>2, <1>3, <1>4 DEF Next

\* What is saved is kept, or was discarded on purpose, or cut by a consolidation
\* whose answer held no history_entry, unless the session was taken from under
\* a turn that then saved it, or two archives fell in one second: no save and
\* no archive overwrites a message otherwise.
THEOREM SavedIsKeptUnlessReplaced ==
    Spec /\ []~detached /\ [][ArchivesApart]_vars => []SavedIsKept
<1> DEFINE Attached == ~detached
           I == Typed /\ KeptInv /\ lost = {}
<1>1. Init => I
  BY InitTyped, InitKept DEF Init
<1>2. I /\ Attached' /\ [Next]_vars /\ [ArchivesApart]_vars => I'
  <2>1. Typed /\ KeptInv /\ [Next]_vars => (Typed /\ KeptInv)'
    BY NextTyped, NextKept
  <2>2. I /\ Attached' /\ [Next]_vars /\ [ArchivesApart]_vars => lost' = {}
    BY NothingOverwritten DEF KeptInv
  <2> QED
    BY <2>1, <2>2
<1>3. I => SavedIsKept
  BY DEF KeptInv, NothingLost, SavedIsKept
<1> QED
  BY <1>1, <1>2, <1>3, PTL DEF Spec

-----------------------------------------------------------------------------
(* What was cleared stays cleared *)

\* Nothing that was cleared is in the session, unless a stale object brought it back.
ClearedInv ==
    /\ cleared \subseteq 1..count
    /\ ~detached => cleared \cap Range(Stored) = {}

\* Only what the session held is cleared, and then it is empty.
LEMMA ClearedMove ==
    ASSUME Typed, [Next]_vars
    PROVE  \/ cleared' = cleared
           \/ cleared' = cleared \union Range(Stored) /\ Stored' = <<>> /\ count' = count
<1>0. TypeSessions /\ TypeTurn /\ HeldInv
  BY TypeParts DEF Typed
<1>1. CASE New
  <2>1. cleared' = cleared \union Range(Stored) /\ file' = <<>> /\ count' = count
    BY <1>1 DEF New
  <2> QED
    BY <2>1 DEF Stored
<1>2. CASE SwitchModel
  <2>1. cleared' = cleared \union Range(Stored) /\ Save(held, <<>>) /\ count' = count
    BY <1>2 DEF SwitchModel
  <2>2. file' = <<>>
    BY <2>1 DEF Save
  <2> QED
    BY <2>1, <2>2 DEF Stored
<1>3. CASE Delete
  <2>1. cleared' = cleared \union Range(Stored) /\ file' = None /\ count' = count
    BY <1>3 DEF Delete
  <2> QED
    BY <2>1 DEF Stored
<1>4. CASE Realign
  <2>1. cleared' = cleared \union Range(Stored) /\ file' = <<>> /\ count' = count
    BY <1>4 DEF Realign, Save
  <2> QED
    BY <2>1 DEF Stored
<1>5. CASE \/ StartTurn \/ Proceed \/ SaveTurn \/ LeaveTurn \/ Snapshot \/ Persist \/ Touch
           \/ Invalidate \/ SecondPasses \/ Crash \/ UNCHANGED vars
  BY <1>5 DEF StartTurn, Proceed, SaveTurn, LeaveTurn, Snapshot, Persist, Touch, Invalidate,
     SecondPasses, Crash, vars, history
<1>6. ASSUME NEW j \in Jobs, Work(j) \/ WriteFails(j)
      PROVE  cleared' = cleared
  BY <1>6 DEF Work, Enter, Ask, Answer, AskFails, WriteHistory, Finish, WriteFails, history
<1> QED
  BY <1>1, <1>2, <1>3, <1>4, <1>5, <1>6 DEF Next

\* Where the session has been: numbers that were used, and the next one.
LEMMA CountFacts ==
    ASSUME Typed, CacheInv, [Next]_vars
    PROVE  /\ count \in Nat /\ count' \in {count, count + 1} /\ count + 1 \notin 1..count
           /\ 1..count \subseteq 1..count' /\ 1..count \subseteq Ids
           /\ count < MaxMessages => count + 1 \in Ids
<1>1. TypeBounds /\ StoredMove
  BY TypeParts, SessionMoves DEF Typed
<1>2. count \in Nat /\ count \in 0..MaxMessages
  BY <1>1, HistoryAssumption DEF TypeBounds
<1>3. count' \in {count, count + 1}
  BY <1>1 DEF StoredMove, Cleared, SavedByTurn, Cut, Grown
<1> QED
  BY <1>2, <1>3, HistoryAssumption DEF Ids

\* As long as no turn saves a stale object, the session gets new messages only.
LEMMA StoredGrows ==
    ASSUME Typed, CacheInv, [Next]_vars, ~detached'
    PROVE  /\ Range(Stored') \subseteq Range(Stored) \union {count + 1}
           /\ \/ Stored' = <<>>
              \/ Stored' = Stored
              \/ Stored' = Append(Stored, count + 1) /\ count + 1 \in Ids
              \/ Cut
<1>0. TypeSessions /\ TypeTurn /\ TypeJobs /\ HeldInv
  BY TypeParts DEF Typed
<1>1. StoredMove /\ Stored \in Lists /\ (count < MaxMessages => count + 1 \in Ids)
  BY <1>0, SessionMoves, LiveFacts, CountFacts
<1>2. \/ Stored' = <<>>
      \/ Stored' = Stored
      \/ Stored' = Append(Stored, count + 1) /\ count + 1 \in Ids
      \/ Cut
  <2>1. CASE SavedByTurn
    <3>1. held \in Objects /\ held = cached /\ cached # None
      BY <1>0, <2>1, HistoryAssumption DEF SavedByTurn, HeldInv, TypeTurn
    <3> QED
      BY <1>1, <2>1, <3>1 DEF SavedByTurn, Grown, CacheInv
  <2> QED
    BY <1>1, <2>1 DEF StoredMove, Cleared, Grown
<1>3. Stored' = <<>> => Range(Stored') = {}
  BY EmptyFacts
<1>4. Stored' = Append(Stored, count + 1) /\ count + 1 \in Ids
          => Range(Stored') = Range(Stored) \union {count + 1}
  BY <1>1, AppendFacts
<1>5. Cut => Range(Stored') \subseteq Range(Stored)
  BY <1>0, <1>1, CutFacts DEF Cut, Applies, TypeJobs
<1> QED
  BY <1>2, <1>3, <1>4, <1>5

\* What was cleared does not come back in one step.
LEMMA ClearedStep ==
    Typed /\ CacheInv /\ OrderInv /\ ClearedInv /\ [Next]_vars => ClearedInv'
<1> SUFFICES ASSUME Typed, CacheInv, OrderInv, ClearedInv, [Next]_vars PROVE ClearedInv'
  OBVIOUS
<1>1. Range(Stored) \subseteq 1..count /\ cleared \subseteq 1..count
  BY DEF OrderInv, ClearedInv
<1>2. 1..count \subseteq 1..count' /\ count + 1 \notin 1..count /\ (detached => detached')
  BY CountFacts, HistoryKept
<1>3. CASE cleared' = cleared \union Range(Stored) /\ Stored' = <<>> /\ count' = count
  BY <1>1, <1>3, EmptyFacts DEF ClearedInv
<1>4. CASE cleared' = cleared
  <2>1. ~detached' => Range(Stored') \subseteq Range(Stored) \union {count + 1}
    BY StoredGrows
  <2>2. ~detached' => cleared' \cap Range(Stored') = {}
    BY <1>1, <1>2, <1>4, <2>1 DEF ClearedInv
  <2> QED
    BY <1>1, <1>2, <1>4, <2>2 DEF ClearedInv
<1> QED
  BY <1>3, <1>4, ClearedMove

\* What /new, /model or DELETE took out of the session does not come back, with
\* a consolidation that was under way or from the cache, unless a turn saves an
\* object that is not the cached one any more.
THEOREM ClearedIsGone == Spec => []ClearedStaysCleared
<1>1. Init => Typed /\ CacheInv /\ OrderInv /\ ClearedInv
  <2>1. Init => ClearedInv
    BY DEF Init, ClearedInv
  <2> QED
    BY <2>1, InitTyped, InitOrder
<1>2. Typed /\ CacheInv /\ OrderInv /\ ClearedInv /\ [Next]_vars
          => (Typed /\ CacheInv /\ OrderInv /\ ClearedInv)'
  BY NextTyped, SessionMoves, OrderStep, ClearedStep
<1>3. Typed /\ CacheInv /\ OrderInv /\ ClearedInv => ClearedStaysCleared
  <2> SUFFICES ASSUME Typed, CacheInv, ClearedInv PROVE ClearedStaysCleared
    OBVIOUS
  <2>1. TypeSessions /\ TypeTurn
    BY TypeParts DEF Typed
  <2>2. Content(Live) = Stored
    BY <2>1, LiveFacts
  <2> QED
    BY <2>2 DEF ClearedInv, ClearedStaysCleared
<1> QED
  BY <1>1, <1>2, <1>3, PTL DEF Spec

-----------------------------------------------------------------------------
(* A message is summarised once *)

Summarising == {"queued", "asking", "writing", "written", "skipped"}

\* Only messages that exist are summarised; the flag says that a consolidation
\* is under way; its epoch is not ahead of the session's.
NumbersInv ==
    /\ \A j \in Jobs : Range(text[j]) \subseteq 1..count
    /\ Range(original) \subseteq 1..count
    /\ \A n \in Ids : n > count => memory[n] = 0
    /\ since <= epoch
    /\ job[Consolidator] # "idle" => consolidating

\* The session still begins with the consolidation's snapshot, or started over.
BehindInv ==
    ~detached /\ job[Consolidator] \in Summarising
        => IsPrefix(original, Stored) \/ Range(original) \cap Range(Stored) = {}

\* The job is going to write what it summarises.
WillWrite(j) ==
    \/ job[j] = "writing"
    \/ job[j] \in {"queued", "asking"} /\ ~Superseded(j)
    \/ job[j] = "created" /\ j # Consolidator

Pending(j) == IF WillWrite(j) THEN Range(text[j]) ELSE {}

\* The consolidation has written the message and not yet cut it off.
Uncut(n) == job[Consolidator] = "written" /\ n \in Range(text[Consolidator])

\* A message has been written once or is going to be, by one job; the session
\* has it only before the consolidation that writes it has cut it off.
Once(n) ==
    /\ memory[n] = 0 \/ (memory[n] = 1 /\ \A j \in Jobs : n \notin Pending(j))
    /\ \A j, k \in Jobs : n \in Pending(j) /\ n \in Pending(k) => j = k
    /\ n \in Range(Stored) => /\ \A j \in Archivists : n \notin Pending(j)
                              /\ memory[n] = 0 \/ Uncut(n)

OnceInv == ~detached => \A n \in Ids \ again : Once(n)

\* A list keeps its beginning when a message is appended.
LEMMA PrefixAppend ==
    ASSUME NEW s \in Lists, NEW list \in Lists, NEW n \in Ids, IsPrefix(s, list)
    PROVE  IsPrefix(s, Append(list, n))
<1>1. /\ Len(s) \in Nat /\ Len(list) \in Nat /\ s \in Seq(Ids) /\ list \in Seq(Ids)
      /\ Append(list, n) \in Seq(Ids) /\ Len(Append(list, n)) = Len(list) + 1
      /\ \A i \in 1..Len(list) : Append(list, n)[i] = list[i] /\ list[i] \in Ids
  BY LenProperties, AppendProperties, ElementOfSeq DEF Lists
<1>2. Len(s) <= Len(list) /\ SubSeq(s, 1, Len(s)) = SubSeq(list, 1, Len(s))
  BY DEF IsPrefix
<1>3. SubSeq(Append(list, n), 1, Len(s)) = SubSeq(list, 1, Len(s))
  <2> DEFINE more == Append(list, n)
             x    == SubSeq(list, 1, Len(s))
             y    == SubSeq(more, 1, Len(s))
  <2>1. \A i \in 1..Len(s) : list[i] \in Ids /\ more[i] = list[i] /\ more[i] \in Ids
    BY <1>1, <1>2
  <2>2. more \in Seq(Ids)
    BY <1>1
  <2> HIDE DEF more
  <2>3. /\ x \in Seq(Ids) /\ Len(x) = Len(s)
        /\ \A i \in 1..Len(s) : x[i] = list[i]
    BY <1>1, <2>1, SubSeqProperties
  <2>4. /\ y \in Seq(Ids) /\ Len(y) = Len(s)
        /\ \A i \in 1..Len(s) : y[i] = more[i]
    BY <1>1, <2>1, <2>2, SubSeqProperties
  <2> HIDE DEF x, y
  <2>5. x = y
    BY <2>1, <2>3, <2>4, SeqEqual
  <2> QED
    BY <2>5 DEF x, y, more
<1> QED
  BY <1>1, <1>2, <1>3 DEF IsPrefix

\* The steps of the turn, the web UI, the watchdog and the AgentBridge channel
\* that leave the background jobs alone.
JobsAlone ==
    \/ StartTurn \/ SaveTurn \/ LeaveTurn \/ SwitchModel \/ Persist \/ Touch
    \/ Invalidate \/ Delete \/ Realign \/ SecondPasses \/ UNCHANGED vars

\* They do.
LEMMA JobsAloneFacts ==
    JobsAlone => UNCHANGED <<jobs, again>>
BY DEF JobsAlone, StartTurn, SaveTurn, LeaveTurn, SwitchModel, Persist, Touch, Invalidate, Delete,
   Realign, SecondPasses, vars, jobs, history

\* Jobs that end leave no text behind; the consolidation no snapshot and no flag.
LEMMA EndFacts ==
    ASSUME TypeJobs, NEW j \in Jobs, Release(j)
    PROVE  /\ job' = [job EXCEPT ![j] = "idle"] /\ text' = [text EXCEPT ![j] = <<>>]
           /\ \A k \in Jobs : text'[k] \in {text[k], <<>>}
           /\ original' \in {original, <<>>}
           /\ j # Consolidator => since' = since /\ original' = original
           /\ since' \in {since, 0}
<1>1. job' = [job EXCEPT ![j] = "idle"] /\ text' = [text EXCEPT ![j] = <<>>]
  BY DEF Release
<1>2. \A k \in Jobs : text'[k] \in {text[k], <<>>}
  BY <1>1 DEF TypeJobs
<1>3. original' \in {original, <<>>} /\ since' \in {since, 0}
  BY DEF Release
<1>4. j # Consolidator => since' = since /\ original' = original
  BY DEF Release
<1> QED
  BY <1>1, <1>2, <1>3, <1>4

\* Only messages that exist are summarised, whatever the step.
LEMMA NumbersStep ==
    Typed /\ CacheInv /\ OrderInv /\ NumbersInv /\ [Next]_vars => NumbersInv'
<1> SUFFICES ASSUME Typed, CacheInv, OrderInv, NumbersInv, [Next]_vars PROVE NumbersInv'
  OBVIOUS
<1>0. TypeSessions /\ TypeTurn /\ TypeJobs /\ TypeEpochs /\ HeldInv
  BY TypeParts DEF Typed
<1>a. /\ count \in Nat /\ count' \in {count, count + 1} /\ 1..count \subseteq 1..count'
      /\ Consolidator \in Jobs /\ Archivists \subseteq Jobs
  BY CountFacts DEF Jobs
<1>b. Range(Content(Live)) \subseteq 1..count /\ Content(Live) \in Lists
      /\ Range(OldPart(Content(Live))) \subseteq 1..count
  <2>1. Content(Live) = Stored /\ Content(Live) \in Lists
    BY <1>0, LiveFacts
  <2> QED
    BY <2>1, PartFacts DEF OrderInv
<1>1. CASE JobsAlone
  <2>1. UNCHANGED jobs
    BY <1>1, JobsAloneFacts
  <2>2. \A n \in Ids : n > count' => n > count
    BY <1>a, HistoryAssumption DEF Ids
  <2> QED
    BY <1>a, <2>1, <2>2 DEF NumbersInv, jobs
<1>2. CASE Proceed
  BY <1>0, <1>2, <1>a DEF Proceed, NumbersInv, TypeJobs
<1>3. CASE New
  <2>1. count' = count /\ UNCHANGED <<original, since, consolidating, memory>> /\ epoch' = epoch + 1
    BY <1>3 DEF New, NextEpoch
  <2>2. since' <= epoch'
    BY <1>0, <2>1 DEF NumbersInv, TypeEpochs
  <2>3. job'[Consolidator] = job[Consolidator]
    BY <1>0, <1>3, <1>a, HistoryAssumption DEF New, TypeJobs
  <2>4. \A j \in Jobs : Range(text'[j]) \subseteq 1..count
    <3>1. Range(messages[held]) \subseteq 1..count
      BY <1>0, <1>3 DEF New, HeldInv, TypeTurn, OrderInv
    <3> QED
      BY <1>0, <1>3, <3>1 DEF New, NumbersInv, TypeJobs
  <2> QED
    BY <2>1, <2>2, <2>3, <2>4 DEF NumbersInv
<1>4. CASE Snapshot
  <2>1. count' = count /\ UNCHANGED <<epoch, memory>> /\ job[Consolidator] = "created"
    BY <1>4 DEF Snapshot
  <2>2. \A j \in Jobs : Range(text'[j]) \subseteq 1..count
    BY <1>0, <1>4, <1>b DEF Snapshot, NumbersInv, TypeJobs
  <2>3. Range(original') \subseteq 1..count
    BY <1>4, <1>b DEF Snapshot, NumbersInv
  <2>4. since' <= epoch'
    <3>1. since' = since \/ since' = epoch
      BY <1>4 DEF Snapshot
    <3> QED
      BY <1>0, <2>1, <3>1 DEF NumbersInv, TypeEpochs
  <2>5. job'[Consolidator] # "idle" => consolidating'
    BY <1>0, <1>4, <1>a, <2>1 DEF Snapshot, NumbersInv, TypeJobs
  <2> QED
    BY <2>1, <2>2, <2>3, <2>4, <2>5 DEF NumbersInv
<1>5. ASSUME NEW j \in Jobs, Release(j), UNCHANGED <<epoch, memory, count>>
      PROVE  NumbersInv'
  <2>1. /\ \A k \in Jobs : text'[k] \in {text[k], <<>>}
        /\ original' \in {original, <<>>} /\ since' \in {since, 0}
        /\ job' = [job EXCEPT ![j] = "idle"]
    BY <1>0, <1>5, EndFacts
  <2>2. \A k \in Jobs : Range(text'[k]) \subseteq 1..count
    BY <2>1, EmptyFacts DEF NumbersInv
  <2>3. Range(original') \subseteq 1..count
    BY <2>1, EmptyFacts DEF NumbersInv
  <2>4. since' <= epoch'
    BY <1>0, <1>5, <2>1 DEF NumbersInv, TypeEpochs
  <2>5. job'[Consolidator] # "idle" => consolidating'
    <3>1. ASSUME job'[Consolidator] # "idle" PROVE j # Consolidator /\ job[Consolidator] # "idle"
      BY <1>0, <1>a, <2>1, <3>1 DEF TypeJobs
    <3>2. consolidating' = (consolidating /\ j # Consolidator)
      BY <1>5 DEF Release
    <3> QED
      BY <3>1, <3>2, Zenon DEF NumbersInv
  <2> QED
    BY <1>5, <2>2, <2>3, <2>4, <2>5 DEF NumbersInv
<1>6. ASSUME NEW j \in Jobs, Ask(j) \/ Answer(j) \/ AskFails(j) \/ Finish(j) \/ WriteFails(j)
      PROVE  NumbersInv'
  <2>1. UNCHANGED <<epoch, memory, count>>
    BY <1>6 DEF Ask, Answer, AskFails, Finish, WriteFails
  <2>2. CASE Release(j)
    BY <1>5, <2>1, <2>2
  <2>3. CASE ~Release(j)
    <3>1. /\ job[j] \in {"queued", "asking"} /\ \E s \in {"asking", "writing", "skipped"} : job' = [job EXCEPT ![j] = s]
          /\ UNCHANGED <<text, original, since, consolidating>>
      BY <1>6, <2>3 DEF Ask, Answer, AskFails, Finish, WriteFails
    <3>2. job'[Consolidator] # "idle" => job[Consolidator] # "idle"
      BY <1>0, <1>a, <3>1 DEF TypeJobs
    <3> QED
      BY <2>1, <3>1, <3>2 DEF NumbersInv
  <2> QED
    BY <2>2, <2>3
<1>7. ASSUME NEW j \in Jobs, Enter(j)
      PROVE  NumbersInv'
  <2>1. /\ j # Consolidator /\ job' = [job EXCEPT ![j] = "queued"] /\ count' = count
        /\ UNCHANGED <<text, original, since, epoch, consolidating, memory>>
    BY <1>7 DEF Enter
  <2>2. job'[Consolidator] = job[Consolidator]
    BY <1>0, <1>a, <2>1 DEF TypeJobs
  <2> QED
    BY <2>1, <2>2 DEF NumbersInv
<1>8. ASSUME NEW j \in Jobs, WriteHistory(j)
      PROVE  NumbersInv'
  <2>1. /\ count' = count /\ job[j] = "writing" /\ job' = [job EXCEPT ![j] = "written"]
        /\ UNCHANGED <<text, original, since, epoch, consolidating>>
        /\ memory' = [n \in Ids |-> IF n \in Range(text[j]) THEN memory[n] + 1 ELSE memory[n]]
    BY <1>8 DEF WriteHistory
  <2>2. job'[Consolidator] # "idle" => job[Consolidator] # "idle"
    BY <1>0, <1>a, <2>1 DEF TypeJobs
  <2>3. ASSUME NEW n \in Ids, n > count PROVE memory'[n] = 0
    <3>1. n \notin Range(text[j])
      <4>1. n \notin 1..count
        BY <1>a, <2>3, HistoryAssumption DEF Ids
      <4> QED
        BY <4>1 DEF NumbersInv
    <3> QED
      BY <2>1, <2>3, <3>1 DEF NumbersInv
  <2> QED
    BY <2>1, <2>2, <2>3 DEF NumbersInv
<1>9. CASE Crash
  <2>1. /\ job'[Consolidator] = "idle" /\ \A j \in Jobs : text'[j] = <<>>
        /\ original' = <<>> /\ since' = 0 /\ epoch' = 0 /\ UNCHANGED <<memory, count>>
    BY <1>9, <1>a DEF Crash
  <2> QED
    BY <2>1, EmptyFacts DEF NumbersInv
<1> QED
  BY <1>1, <1>2, <1>3, <1>4, <1>6, <1>7, <1>8, <1>9 DEF Next, Work, JobsAlone

\* As long as the consolidation goes on, its snapshot is the beginning of the
\* session or nothing of it is left there.
LEMMA BehindStep ==
    Typed /\ CacheInv /\ NumbersInv /\ BehindInv /\ [Next]_vars => BehindInv'
<1> SUFFICES ASSUME Typed, CacheInv, NumbersInv, BehindInv, [Next]_vars,
                    ~detached', job'[Consolidator] \in Summarising
             PROVE  IsPrefix(original', Stored') \/ Range(original') \cap Range(Stored') = {}
  BY DEF BehindInv
<1>0. TypeSessions /\ TypeTurn /\ TypeJobs
  BY TypeParts DEF Typed
<1>a. /\ Stored \in Lists /\ original \in Lists /\ Content(Live) = Stored
      /\ Consolidator \in Jobs /\ Archivists \subseteq Jobs
  BY <1>0, LiveFacts DEF TypeJobs, Jobs
<1>1. CASE Snapshot
  <2>1. original' = Stored /\ file' = file
    BY <1>0, <1>1, <1>a DEF Snapshot, Summarising, TypeJobs
  <2>2. Stored' = Stored /\ Len(Stored) \in Nat
    BY <1>a, <2>1, LenProperties DEF Stored, Lists
  <2> QED
    BY <2>1, <2>2 DEF IsPrefix
<1>2. ASSUME job[Consolidator] \in Summarising, original' = original
      PROVE  IsPrefix(original', Stored') \/ Range(original') \cap Range(Stored') = {}
  <2>1. ~detached
    BY HistoryKept
  <2>2. IsPrefix(original, Stored) \/ Range(original) \cap Range(Stored) = {}
    BY <1>2, <2>1 DEF BehindInv
  <2>3. CASE Stored' = <<>>
    BY <2>3, EmptyFacts
  <2>4. CASE Stored' = Stored
    BY <1>2, <2>2, <2>4
  <2>5. CASE Stored' = Append(Stored, count + 1) /\ count + 1 \in Ids
    <3>1. CASE IsPrefix(original, Stored)
      BY <1>2, <1>a, <2>5, <3>1, PrefixAppend
    <3>2. CASE Range(original) \cap Range(Stored) = {}
      <4>1. count + 1 \notin Range(original)
        BY CountFacts DEF NumbersInv
      <4> QED
        BY <1>2, <1>a, <2>5, <3>2, <4>1, AppendFacts
    <3> QED
      BY <2>2, <3>1, <3>2
  <2>6. CASE Cut
    BY <2>6 DEF Cut, Summarising
  <2> QED
    BY <2>3, <2>4, <2>5, <2>6, StoredGrows
<1>3. CASE JobsAlone
  <2>1. job[Consolidator] \in Summarising /\ original' = original
    BY <1>3, JobsAloneFacts DEF jobs
  <2> QED
    BY <1>2, <2>1
<1>4. CASE Proceed
  <2>1. job[Consolidator] \in Summarising /\ original' = original
    BY <1>0, <1>4, <1>a DEF Proceed, Summarising, TypeJobs
  <2> QED
    BY <1>2, <2>1
<1>5. CASE New
  <2>1. job[Consolidator] \in Summarising /\ original' = original
    BY <1>0, <1>5, <1>a, HistoryAssumption DEF New, TypeJobs
  <2> QED
    BY <1>2, <2>1
<1>6. ASSUME NEW j \in Jobs, Work(j) \/ WriteFails(j)
      PROVE  job[Consolidator] \in Summarising /\ original' = original
  <2>1. CASE Release(j)
    <3>1. job' = [job EXCEPT ![j] = "idle"]
      BY <2>1 DEF Release
    <3>2. j # Consolidator
      BY <1>0, <1>a, <3>1 DEF Summarising, TypeJobs
    <3>3. original' = original
      BY <2>1, <3>2 DEF Release
    <3> QED
      BY <1>0, <1>a, <3>1, <3>2, <3>3 DEF TypeJobs
  <2>2. CASE ~Release(j)
    <3>1. /\ original' = original
          /\ job[j] = "created" => j # Consolidator
          /\ job[j] \in {"created", "queued", "asking", "writing"}
          /\ \E s \in Stages : job' = [job EXCEPT ![j] = s]
      BY <1>6, <2>2 DEF Work, Enter, Ask, Answer, AskFails, WriteHistory, Finish, WriteFails, Stages
    <3> QED
      BY <1>0, <1>a, <3>1 DEF Summarising, TypeJobs
  <2> QED
    BY <2>1, <2>2
<1>7. ~Crash
  BY <1>a DEF Crash, Summarising
<1> QED
  BY <1>1, <1>2, <1>3, <1>4, <1>5, <1>6, <1>7 DEF Next, JobsAlone

\* A message stays written at most once when nobody else is going to write it
\* and the session has it no longer than before.
LEMMA OnceKept ==
    ASSUME NEW n, Once(n), memory'[n] = memory[n],
           \A j \in Jobs : n \in Pending(j)' => n \in Pending(j),
           n \in Range(Stored') => n \in Range(Stored) /\ (Uncut(n) => Uncut(n)')
    PROVE  Once(n)'
<1>1. Archivists \subseteq Jobs
  BY DEF Jobs
<1> QED
  BY <1>1, Zenon DEF Once

\* A job that is left alone is going to write what it was going to write.
LEMMA PendingSame ==
    ASSUME NEW j \in Jobs, job'[j] = job[j], text'[j] = text[j],
           j = Consolidator => UNCHANGED <<epoch, since>>
    PROVE  Pending(j)' = Pending(j)
BY DEF Pending, WillWrite, Superseded

\* A job that has ended writes nothing any more; the others go on.
LEMMA PendingReleased ==
    ASSUME TypeJobs, NEW j \in Jobs, Release(j), UNCHANGED epoch
    PROVE  /\ Pending(j)' = {} /\ job'[j] = "idle"
           /\ \A k \in Jobs \ {j} : /\ job'[k] = job[k] /\ text'[k] = text[k]
                                   /\ Pending(k)' = Pending(k)
<1>1. /\ job' = [job EXCEPT ![j] = "idle"] /\ text' = [text EXCEPT ![j] = <<>>]
      /\ j # Consolidator => since' = since
  BY EndFacts
<1>2. job'[j] = "idle" /\ \A k \in Jobs \ {j} : job'[k] = job[k] /\ text'[k] = text[k]
  BY <1>1 DEF TypeJobs
<1>3. Pending(j)' = {}
  BY <1>2 DEF Pending, WillWrite
<1>4. ASSUME NEW k \in Jobs \ {j} PROVE Pending(k)' = Pending(k)
  BY <1>1, <1>2, PendingSame
<1> QED
  BY <1>2, <1>3, <1>4

\* /new hands the session's messages to one archive job; a consolidation that
\* has not begun to write them is overtaken.
LEMMA OnceNew ==
    ASSUME Typed, CacheInv, NumbersInv, New, ~detached',
           NEW n \in Ids \ again', Once(n)
    PROVE  Once(n)'
<1>0. TypeSessions /\ TypeTurn /\ TypeJobs /\ TypeEpochs /\ HeldInv
  BY TypeParts DEF Typed
<1>1. /\ Consolidator \in Jobs /\ Archivists \subseteq Jobs /\ Consolidator \notin Archivists
  BY HistoryAssumption DEF Jobs
<1>2. messages[held] = Stored
  <2>1. turn # "idle" /\ detached' = (detached \/ held # cached)
    BY DEF New
  <2>2. held = cached
    BY <2>1, Zenon
  <2> QED
    BY <1>0, <2>1, <2>2 DEF CacheInv, HeldInv
<1>3. /\ UNCHANGED <<since, memory>> /\ epoch' = epoch + 1 /\ file' = <<>>
      /\ n \notin Overtaken
  BY DEF New, NextEpoch
<1>4. Stored' = <<>> /\ Range(Stored') = {}
  BY <1>3, EmptyFacts DEF Stored
<1>5. job'[Consolidator] = job[Consolidator] /\ text'[Consolidator] = text[Consolidator]
  BY <1>0, <1>1 DEF New, TypeJobs
<1>6. n \notin Pending(Consolidator)'
  <2>1. CASE job[Consolidator] = "writing"
    BY <1>3, <1>5, <2>1 DEF Pending, Overtaken
  <2>2. CASE job[Consolidator] # "writing"
    <3>1. epoch' # since'
      BY <1>0, <1>3 DEF NumbersInv, TypeEpochs
    <3> QED
      BY <1>5, <2>2, <3>1 DEF Pending, WillWrite, Superseded
  <2> QED
    BY <2>1, <2>2
<1>7. CASE n \notin Range(Stored) \/ messages[held] = <<>>
  <2>1. ASSUME NEW k \in Jobs, n \in Pending(k)' PROVE n \in Pending(k)
    <3>1. k \in Archivists
      BY <1>6, <2>1 DEF Jobs
    <3>2. job'[k] = job[k] /\ text'[k] = text[k]
      <4>1. CASE messages[held] = <<>>
        BY <4>1 DEF New
      <4>2. CASE messages[held] # <<>>
        <5>1. PICK j \in Archivists : /\ job' = [job EXCEPT ![j] = "created"]
                                      /\ text' = [text EXCEPT ![j] = messages[held]]
          BY <4>2 DEF New
        <5>2. j # k
          <6>1. text'[j] = Stored
            BY <1>0, <1>1, <1>2, <5>1 DEF TypeJobs
          <6>2. n \in Range(text'[k])
            BY <2>1 DEF Pending
          <6> QED
            BY <1>2, <1>7, <4>2, <6>1, <6>2
        <5> QED
          BY <1>0, <1>1, <5>1, <5>2 DEF TypeJobs
      <4> QED
        BY <4>1, <4>2
    <3> QED
      BY <1>1, <2>1, <3>1, <3>2, PendingSame
  <2> QED
    BY <1>3, <1>4, <2>1, OnceKept
<1>8. CASE n \in Range(Stored) /\ messages[held] # <<>>
  <2>1. PICK j \in Archivists : /\ job' = [job EXCEPT ![j] = "created"]
                                /\ text' = [text EXCEPT ![j] = messages[held]]
    BY <1>8 DEF New
  <2>2. memory'[n] = 0
    BY <1>3, <1>8 DEF Once, Uncut, Overtaken
  <2>3. ASSUME NEW k \in Jobs, n \in Pending(k)' PROVE k = j
    <3>1. SUFFICES ASSUME k # j PROVE FALSE
      OBVIOUS
    <3>2. k \in Archivists
      BY <1>6, <2>3 DEF Jobs
    <3>3. job'[k] = job[k] /\ text'[k] = text[k]
      BY <1>0, <1>1, <2>1, <3>1, <3>2 DEF TypeJobs
    <3>4. n \in Pending(k)
      BY <1>1, <2>3, <3>2, <3>3, PendingSame
    <3> QED
      BY <1>8, <3>2, <3>4 DEF Once
  <2> QED
    BY <1>4, <2>2, <2>3 DEF Once
<1> QED
  BY <1>7, <1>8

\* A consolidation takes messages that nobody else summarises.
LEMMA OnceSnapshot ==
    ASSUME Typed, CacheInv, Snapshot, NEW n \in Ids, Once(n)
    PROVE  Once(n)'
<1>0. TypeSessions /\ TypeTurn /\ TypeJobs
  BY TypeParts DEF Typed
<1>1. /\ Consolidator \in Jobs /\ Archivists \subseteq Jobs /\ Consolidator \notin Archivists
  BY HistoryAssumption DEF Jobs
<1>2. Content(Live) = Stored /\ Stored \in Lists
  BY <1>0, LiveFacts
<1>3. /\ job[Consolidator] = "created" /\ UNCHANGED <<epoch, memory, file>> /\ Stored' = Stored
      /\ \/ job' = [job EXCEPT ![Consolidator] = "idle"] /\ text' = text
         \/ /\ job' = [job EXCEPT ![Consolidator] = "queued"]
            /\ text' = [text EXCEPT ![Consolidator] = OldPart(Stored)]
  BY <1>2 DEF Snapshot, Stored
<1>4. ASSUME NEW k \in Archivists PROVE Pending(k)' = Pending(k)
  <2>1. k \in Jobs /\ k # Consolidator /\ job'[k] = job[k] /\ text'[k] = text[k]
    BY <1>0, <1>1, <1>3 DEF TypeJobs
  <2> QED
    BY <2>1, PendingSame
<1>5. ~Uncut(n)
  BY <1>3 DEF Uncut
<1>6. CASE n \in Pending(Consolidator)'
  <2>1. n \in Range(Stored)
    <3>1. job'[Consolidator] # "idle" => text'[Consolidator] = OldPart(Stored)
      BY <1>0, <1>1, <1>3 DEF TypeJobs
    <3>2. n \in Range(OldPart(Stored))
      BY <1>6, <3>1 DEF Pending, WillWrite
    <3> QED
      BY <1>2, <3>2, PartFacts
  <2>2. memory'[n] = 0 /\ \A k \in Archivists : n \notin Pending(k)'
    BY <1>3, <1>4, <1>5, <2>1 DEF Once
  <2>3. \A k \in Jobs : n \in Pending(k)' => k = Consolidator
    BY <2>2 DEF Jobs
  <2> QED
    BY <2>2, <2>3 DEF Once
<1>7. CASE n \notin Pending(Consolidator)'
  <2>1. \A k \in Jobs : n \in Pending(k)' => n \in Pending(k)
    BY <1>4, <1>7 DEF Jobs
  <2> QED
    BY <1>3, <1>5, <2>1, OnceKept
<1> QED
  BY <1>6, <1>7

\* A job that ends early writes nothing; what it wrote before counts as overtaken.
LEMMA OnceReleased ==
    ASSUME Typed, NEW j \in Jobs, Release(j), UNCHANGED <<epoch, memory, file>>,
           NEW n \in Ids, Once(n), ~(j = Consolidator /\ Uncut(n))
    PROVE  Once(n)'
<1>0. TypeSessions /\ TypeJobs
  BY TypeParts DEF Typed
<1>1. /\ Pending(j)' = {} /\ \A k \in Jobs \ {j} : Pending(k)' = Pending(k)
      /\ \A k \in Jobs \ {j} : job'[k] = job[k] /\ text'[k] = text[k]
      /\ Consolidator \in Jobs /\ Stored' = Stored
  BY <1>0, PendingReleased DEF Jobs, Stored
<1>2. \A k \in Jobs : n \in Pending(k)' => n \in Pending(k)
  BY <1>1
<1>3. Uncut(n) => Uncut(n)'
  BY <1>1 DEF Uncut
<1> QED
  BY <1>1, <1>2, <1>3, OnceKept

\* A job writes what nobody has written, and the session keeps it only until
\* the consolidation that wrote it ends.
LEMMA OnceWritten ==
    ASSUME Typed, NEW j \in Jobs, WriteHistory(j), NEW n \in Ids, Once(n)
    PROVE  Once(n)'
<1>0. TypeJobs
  BY TypeParts DEF Typed
<1>1. /\ job[j] = "writing" /\ job' = [job EXCEPT ![j] = "written"] /\ text' = text
      /\ UNCHANGED <<epoch, since, file>> /\ Stored' = Stored
      /\ memory'[n] = IF n \in Range(text[j]) THEN memory[n] + 1 ELSE memory[n]
  BY DEF WriteHistory, sessions, Stored
<1>2. job'[j] = "written" /\ Pending(j)' = {} /\ Pending(j) = Range(text[j])
  BY <1>0, <1>1 DEF Pending, WillWrite, TypeJobs
<1>3. ASSUME NEW k \in Jobs \ {j} PROVE Pending(k)' = Pending(k)
  <2>1. job'[k] = job[k] /\ text'[k] = text[k]
    BY <1>0, <1>1 DEF TypeJobs
  <2> QED
    BY <1>1, <2>1, PendingSame
<1>4. Consolidator \in Jobs /\ Archivists \subseteq Jobs
  BY DEF Jobs
<1>5. CASE n \in Range(text[j])
  <2>1. memory'[n] = 1
    BY <1>1, <1>2, <1>5 DEF Once
  <2>2. \A k \in Jobs : n \notin Pending(k)'
    BY <1>2, <1>3, <1>5 DEF Once
  <2>3. n \in Range(Stored') => Uncut(n)'
    <3>1. n \in Range(Stored) => j = Consolidator
      BY <1>2, <1>5 DEF Once, Jobs
    <3> QED
      BY <1>1, <1>2, <1>5, <3>1 DEF Uncut
  <2> QED
    BY <1>4, <2>1, <2>2, <2>3 DEF Once
<1>6. CASE n \notin Range(text[j])
  <2>1. \A k \in Jobs : n \in Pending(k)' => n \in Pending(k)
    BY <1>2, <1>3
  <2>2. Uncut(n) => Uncut(n)'
    BY <1>0, <1>1, <1>4, <1>6 DEF Uncut, TypeJobs
  <2> QED
    BY <1>1, <1>6, <2>1, <2>2, OnceKept
<1> QED
  BY <1>5, <1>6

\* A consolidation that ends has cut off what it wrote, or the session started
\* over meanwhile.
LEMMA OnceFinished ==
    ASSUME Typed, CacheInv, OrderInv, BehindInv, ~detached, NEW j \in Jobs, Finish(j),
           NEW n \in Ids, Once(n)
    PROVE  Once(n)'
<1>0. TypeSessions /\ TypeTurn /\ TypeJobs /\ QueueInv
  BY TypeParts DEF Typed
<1>1. Release(j) /\ UNCHANGED <<epoch, memory>> /\ job[j] \in {"written", "skipped"}
  BY DEF Finish
<1>2. CASE j # Consolidator
  <2>1. file' = file
    BY <1>2 DEF Finish
  <2> QED
    BY <1>1, <1>2, <2>1, OnceReleased
<1>3. CASE j = Consolidator
  <2>1. Content(Live) = Stored /\ Stored \in Lists /\ Live \in Objects /\ original \in Lists
    BY <1>0, LiveFacts DEF TypeJobs
  <2>2. text[Consolidator] = OldPart(original)
    BY <1>0, <1>1, <1>3 DEF QueueInv
  <2>3. \A k \in Jobs : n \in Pending(k)' => n \in Pending(k)
    BY <1>0, <1>1, PendingReleased
  <2>4. Range(Stored') \subseteq Range(Stored) /\ Range(Stored') \cap Range(text[Consolidator]) = {}
    <3>1. CASE IsPrefix(original, Stored)
      <4>1. Applies(Stored) /\ Shortened(Stored) \in Lists
        BY <2>1, <3>1, CutFacts DEF Applies
      <4>2. Save(Live, Shortened(Stored))
        BY <1>3, <2>1, <4>1 DEF Finish
      <4>3. Stored' = Shortened(Stored)
        BY <1>0, <2>1, <4>1, <4>2, SaveFacts
      <4> QED
        BY <2>1, <2>2, <3>1, <4>3, CutFacts DEF OrderInv
    <3>2. CASE ~IsPrefix(original, Stored)
      <4>1. file' = file
        BY <1>3, <2>1, <3>2 DEF Finish, Reload, Applies
      <4>2. Stored' = Stored
        BY <4>1 DEF Stored
      <4>3. Range(original) \cap Range(Stored) = {}
        BY <1>1, <1>3, <3>2 DEF BehindInv, Summarising
      <4> QED
        BY <2>1, <2>2, <4>2, <4>3, PartFacts
    <3> QED
      BY <3>1, <3>2
  <2>5. n \in Range(Stored') => n \in Range(Stored) /\ ~Uncut(n)
    BY <2>4 DEF Uncut
  <2> QED
    BY <1>1, <2>3, <2>5, OnceKept
<1> QED
  BY <1>2, <1>3

\* No step has a message written a second time.
LEMMA OnceStep ==
    /\ Typed /\ CacheInv /\ OrderInv /\ NumbersInv /\ BehindInv /\ OnceInv /\ [Next]_vars
    => OnceInv'
<1> SUFFICES ASSUME Typed, CacheInv, OrderInv, NumbersInv, BehindInv, OnceInv, [Next]_vars,
                    ~detached', NEW n \in Ids \ again'
             PROVE  Once(n)'
  BY DEF OnceInv
<1>0. TypeSessions /\ TypeTurn /\ TypeJobs /\ TypeEpochs
  BY TypeParts DEF Typed
<1>a. ~detached /\ n \notin again /\ n \in Ids /\ Once(n)
  BY HistoryKept DEF OnceInv
<1>b. Consolidator \in Jobs /\ Archivists \subseteq Jobs /\ Consolidator \notin Archivists
  BY HistoryAssumption DEF Jobs
<1>1. CASE JobsAlone
  <2>1. UNCHANGED <<job, text, since, epoch, memory>>
    BY <1>1, JobsAloneFacts DEF jobs
  <2>2. \A k \in Jobs : Pending(k)' = Pending(k)
    BY <2>1, PendingSame
  <2>3. Uncut(n) => Uncut(n)'
    BY <2>1 DEF Uncut
  <2>4. Range(Stored') \subseteq Range(Stored) \union {count + 1}
    BY StoredGrows
  <2>5. CASE n # count + 1
    BY <1>a, <2>1, <2>2, <2>3, <2>4, <2>5, OnceKept
  <2>6. CASE n = count + 1
    <3>1. memory'[n] = 0
      <4>1. n > count
        BY <2>6, CountFacts
      <4> QED
        BY <1>a, <2>1, <4>1 DEF NumbersInv
    <3>2. \A k \in Jobs : n \notin Pending(k)'
      <4>1. n \notin 1..count
        BY <2>6, CountFacts
      <4> QED
        BY <2>2, <4>1 DEF NumbersInv, Pending
    <3> QED
      BY <1>b, <3>1, <3>2 DEF Once
  <2> QED
    BY <2>5, <2>6
<1>2. CASE Proceed
  <2>1. CASE job' = job
    <3>1. UNCHANGED <<file, text, since, epoch, memory>>
      BY <1>2 DEF Proceed, sessions
    <3>2. Stored' = Stored /\ (Uncut(n) => Uncut(n)') /\ \A k \in Jobs : Pending(k)' = Pending(k)
      BY <2>1, <3>1, PendingSame DEF Stored, Uncut
    <3> QED
      BY <1>a, <3>1, <3>2, OnceKept
  <2>2. CASE job' # job
    <3>1. /\ job' = [job EXCEPT ![Consolidator] = "created"] /\ job[Consolidator] = "idle"
          /\ UNCHANGED <<file, text, since, epoch, memory>>
      <4>1. ~consolidating
        BY <1>2, <2>2 DEF Proceed
      <4>2. job[Consolidator] = "idle"
        BY <4>1, Zenon DEF NumbersInv
      <4> QED
        BY <1>2, <2>2, <4>2 DEF Proceed, sessions
    <3>2. Stored' = Stored /\ ~Uncut(n)
      BY <3>1 DEF Stored, Uncut
    <3>3. ASSUME NEW k \in Jobs, n \in Pending(k)' PROVE n \in Pending(k)
      <4>1. k # Consolidator
        BY <1>0, <1>b, <3>1, <3>3 DEF Pending, WillWrite, TypeJobs
      <4>2. job'[k] = job[k] /\ text'[k] = text[k]
        BY <1>0, <3>1, <4>1 DEF TypeJobs
      <4> QED
        BY <3>3, <4>1, <4>2, PendingSame
    <3> QED
      BY <1>a, <3>1, <3>2, <3>3, OnceKept
  <2> QED
    BY <2>1, <2>2
<1>3. CASE New
  BY <1>3, <1>a, OnceNew
<1>4. CASE Snapshot
  BY <1>4, <1>a, OnceSnapshot
<1>5. ASSUME NEW j \in Jobs, Enter(j) \/ Ask(j) \/ Answer(j) \/ AskFails(j)
      PROVE  Once(n)'
  <2>1. /\ UNCHANGED <<epoch, memory, file>> /\ job[j] \in {"created", "queued", "asking"}
        /\ Stored' = Stored
    BY <1>5 DEF Enter, Ask, Answer, AskFails, sessions, Stored
  <2>2. CASE Release(j)
    BY <1>a, <2>1, <2>2, OnceReleased DEF Uncut
  <2>3. CASE ~Release(j)
    <3>1. /\ UNCHANGED <<text, since>>
          /\ \/ job[j] = "created" /\ j # Consolidator /\ job' = [job EXCEPT ![j] = "queued"]
             \/ job[j] = "queued" /\ job' = [job EXCEPT ![j] = "asking"]
             \/ /\ job[j] = "asking" /\ ~Superseded(j)
                /\ \E s \in {"writing", "skipped"} : job' = [job EXCEPT ![j] = s]
      BY <1>5, <2>3 DEF Enter, Ask, Answer, AskFails
    <3>2. Superseded(j)' = Superseded(j) /\ (j # Consolidator => ~Superseded(j))
      BY <2>1, <3>1 DEF Superseded
    <3>3. n \in Pending(j)' => n \in Pending(j)
      <4>1. text'[j] = text[j] /\ job'[j] \in {"queued", "asking", "writing", "skipped"}
            /\ (job'[j] = "queued" => job[j] = "created" /\ j # Consolidator)
            /\ (job'[j] = "asking" => job[j] = "queued")
            /\ (job'[j] = "writing" => job[j] = "asking" /\ ~Superseded(j))
        BY <1>0, <3>1 DEF TypeJobs
      <4>2. WillWrite(j)' => WillWrite(j)
        BY <3>2, <4>1 DEF WillWrite
      <4> QED
        BY <4>1, <4>2 DEF Pending
    <3>4. ASSUME NEW k \in Jobs \ {j} PROVE Pending(k)' = Pending(k)
      <4>1. job'[k] = job[k] /\ text'[k] = text[k]
        BY <1>0, <3>1 DEF TypeJobs
      <4> QED
        BY <2>1, <3>1, <4>1, PendingSame
    <3>5. Uncut(n) => Uncut(n)'
      BY <1>0, <1>b, <2>1, <3>1 DEF Uncut, TypeJobs
    <3> QED
      BY <1>a, <2>1, <3>3, <3>4, <3>5, OnceKept
  <2> QED
    BY <2>2, <2>3
<1>6. ASSUME NEW j \in Jobs, WriteHistory(j)
      PROVE  Once(n)'
  BY <1>6, <1>a, OnceWritten
<1>7. ASSUME NEW j \in Jobs, Finish(j)
      PROVE  Once(n)'
  BY <1>7, <1>a, OnceFinished
<1>8. ASSUME NEW j \in Jobs, WriteFails(j)
      PROVE  Once(n)'
  <2>1. /\ Release(j) /\ UNCHANGED <<epoch, memory, file>>
        /\ job[j] = "written" => again' = again \union Range(text[j])
    BY <1>8 DEF WriteFails, sessions
  <2>2. ~(j = Consolidator /\ Uncut(n))
    BY <2>1 DEF Uncut
  <2> QED
    BY <1>a, <2>1, <2>2, OnceReleased
<1>9. CASE Crash
  <2>1. /\ \A k \in Jobs : job'[k] = "idle"
        /\ UNCHANGED <<file, memory>> /\ Stored' = Stored
        /\ job[Consolidator] = "written" => again' = again \union Range(text[Consolidator])
    BY <1>9 DEF Crash, Stored
  <2>2. \A k \in Jobs : n \notin Pending(k)'
    BY <2>1 DEF Pending, WillWrite
  <2>3. ~Uncut(n)
    BY <2>1 DEF Uncut
  <2> QED
    BY <1>a, <2>1, <2>2, <2>3, OnceKept
<1> QED
  BY <1>1, <1>2, <1>3, <1>4, <1>5, <1>6, <1>7, <1>8, <1>9 DEF Next, Work, JobsAlone

\* At first nothing is written and nobody is going to write.
LEMMA InitOnce == Init => NumbersInv /\ BehindInv /\ OnceInv
<1> SUFFICES ASSUME Init PROVE NumbersInv /\ BehindInv /\ OnceInv
  OBVIOUS
<1>1. /\ Consolidator \in Jobs /\ Archivists \subseteq Jobs
      /\ \A j \in Jobs : job[j] = "idle" /\ text[j] = <<>>
      /\ original = <<>> /\ since = 0 /\ epoch = 0 /\ \A n \in Ids : memory[n] = 0
      /\ Stored = <<>>
  BY DEF Init, Jobs, Stored
<1>2. NumbersInv
  BY <1>1, EmptyFacts DEF NumbersInv
<1>3. BehindInv
  BY <1>1 DEF BehindInv, Summarising
<1>4. OnceInv
  <2>1. \A j \in Jobs : Pending(j) = {}
    BY <1>1 DEF Pending, WillWrite
  <2>2. Range(Stored) = {}
    BY <1>1, EmptyFacts
  <2> QED
    BY <1>1, <2>1, <2>2 DEF OnceInv, Once
<1> QED
  BY <1>2, <1>3, <1>4

\* No message is summarised twice, by two jobs or by two consolidations, unless
\* the one that wrote it was overtaken before it could cut it off.
THEOREM MemoryHasItOnce == Spec => []SummarisedOnce
<1> DEFINE IInv == Typed /\ CacheInv /\ OrderInv /\ NumbersInv /\ BehindInv /\ OnceInv
<1>1. Init => IInv
  BY InitTyped, InitOrder, InitOnce
<1>2. IInv /\ [Next]_vars => IInv'
  BY NextTyped, SessionMoves, OrderStep, NumbersStep, BehindStep, OnceStep
<1>3. IInv => SummarisedOnce
  <2> SUFFICES ASSUME OnceInv, NEW n \in Ids, memory[n] > 1 PROVE n \in again \/ detached
    BY DEF SummarisedOnce
  <2> QED
    BY DEF OnceInv, Once
<1> QED
  BY <1>1, <1>2, <1>3, PTL DEF Spec

-----------------------------------------------------------------------------
(* Nobody waits for the memory store's lock in vain.  The code has one     *)
(* asyncio.Lock for the store; a job that ends or fails leaves it         *)
(* and clears _consolidating.                                              *)

\* Whoever is in the queue of the lock waits there, once; only the first works.
LockQueue ==
    /\ \A i, k \in 1..Len(queue) : queue[i] = queue[k] => i = k
    /\ \A i \in 1..Len(queue) : job[queue[i]] = "queued" \/ (i = 1 /\ Working(queue[i]))

\* The session is in _consolidating exactly while its consolidation is not over.
FlagInv == consolidating <=> job[Consolidator] # "idle"

\* The event loop can run a step of j: no lock keeps it.
Moves(j) ==
    \/ job[j] \in {"created", "asking", "writing", "written", "skipped"}
    \/ job[j] = "queued" /\ queue # <<>> /\ Head(queue) = j

\* At most one job has the lock, whoever waits for it waits for a job that can
\* go on, and the flag that keeps a session from its next consolidation is set
\* no longer than one is under way (memory.py:668, loop.py:423, :2520).
JobsMove ==
    /\ \A j, k \in Jobs : Working(j) /\ Working(k) => j = k
    /\ \A j \in Jobs : job[j] = "queued" => Head(queue) \in Jobs /\ Moves(Head(queue))
    /\ consolidating <=> job[Consolidator] # "idle"

\* Nobody waits at first.
LEMMA LockInit == Init => LockQueue /\ FlagInv
<1> SUFFICES ASSUME Init PROVE LockQueue /\ FlagInv
  OBVIOUS
<1>1. Len(queue) = 0 /\ consolidating = FALSE /\ Consolidator \in Jobs
  BY EmptyFacts DEF Init, Jobs
<1> QED
  BY <1>1 DEF Init, LockQueue, FlagInv

\* A job that does not wait for the lock joins the queue behind the others.
LEMMA LockJoined ==
    ASSUME TypeJobs, LockQueue, NEW j \in Jobs, job[j] = "created",
           job' = [job EXCEPT ![j] = "queued"], queue' = Append(queue, j)
    PROVE  LockQueue'
<1>1. /\ Len(queue') = Len(queue) + 1 /\ Len(queue) \in Nat
      /\ \A i \in 1..Len(queue) : queue'[i] = queue[i] /\ queue[i] \in Jobs
      /\ queue'[Len(queue) + 1] = j
  BY AppendProperties, LenProperties, ElementOfSeq DEF TypeJobs
<1>2. \A i \in 1..Len(queue) : queue[i] # j /\ job'[queue[i]] = job[queue[i]]
  BY <1>1 DEF LockQueue, Working, TypeJobs
<1>3. \A i \in 1..Len(queue') : i \in 1..Len(queue) \/ i = Len(queue) + 1
  BY <1>1
<1>4. job'[j] = "queued"
  BY DEF TypeJobs
<1>5. \A i, k \in 1..Len(queue') : queue'[i] = queue'[k] => i = k
  BY <1>1, <1>2, <1>3 DEF LockQueue
<1>6. ASSUME NEW i \in 1..Len(queue')
      PROVE  job'[queue'[i]] = "queued" \/ (i = 1 /\ job'[queue'[i]] \in {"asking", "writing", "written", "skipped"})
  <2>1. CASE i \in 1..Len(queue)
    BY <1>1, <1>2, <2>1 DEF LockQueue, Working
  <2>2. CASE i = Len(queue) + 1
    BY <1>1, <1>4, <2>2
  <2> QED
    BY <1>3, <2>1, <2>2
<1> QED
  BY <1>5, <1>6 DEF LockQueue, Working

\* The job that has the lock leaves it to the next, who waited.
LEMMA LockReleased ==
    ASSUME TypeJobs, LockQueue, NEW j \in Jobs, queue # <<>>, Head(queue) = j, Release(j)
    PROVE  LockQueue'
<1>1. job' = [job EXCEPT ![j] = "idle"] /\ queue' = Tail(queue)
  BY DEF Release
<1>2. /\ Len(queue) \in Nat /\ Len(queue) > 0 /\ Len(queue') = Len(queue) - 1
      /\ \A i \in 1..Len(queue') : queue'[i] = queue[i + 1]
      /\ queue[1] = j /\ \A i \in 1..Len(queue) : queue[i] \in Jobs
  BY <1>1, HeadTailProperties, LenProperties, EmptySeq, ElementOfSeq DEF TypeJobs
<1>3. \A i \in 1..Len(queue') : i + 1 \in 1..Len(queue) /\ i + 1 # 1 /\ 1 \in 1..Len(queue)
  BY <1>2
<1>4. \A i \in 1..Len(queue') : queue[i + 1] # j
  BY <1>2, <1>3 DEF LockQueue
<1>5. \A i \in 1..Len(queue') : job'[queue'[i]] = "queued"
  BY <1>1, <1>2, <1>3, <1>4 DEF LockQueue, TypeJobs
<1>6. \A i, k \in 1..Len(queue') : queue'[i] = queue'[k] => i = k
  <2> SUFFICES ASSUME NEW i \in 1..Len(queue'), NEW k \in 1..Len(queue'), queue'[i] = queue'[k]
               PROVE  i = k
    OBVIOUS
  <2>1. i + 1 = k + 1
    BY <1>2, <1>3 DEF LockQueue
  <2> QED
    BY <2>1
<1> QED
  BY <1>5, <1>6 DEF LockQueue

\* The job that has the lock goes on.
LEMMA LockWorks ==
    ASSUME TypeJobs, LockQueue, NEW j \in Jobs, queue # <<>>, Head(queue) = j,
           NEW l \in {"asking", "writing", "written", "skipped"},
           job' = [job EXCEPT ![j] = l], queue' = queue
    PROVE  LockQueue'
<1>1. /\ Len(queue) \in Nat /\ 1 \in 1..Len(queue) /\ queue[1] = j
      /\ \A i \in 1..Len(queue) : queue[i] \in Jobs
  BY HeadTailProperties, LenProperties, EmptySeq, ElementOfSeq DEF TypeJobs
<1>2. \A i \in 1..Len(queue) : i # 1 => queue[i] # j /\ job'[queue[i]] = job[queue[i]]
  BY <1>1 DEF LockQueue, TypeJobs
<1>3. Working(j)'
  BY DEF Working, TypeJobs
<1> QED
  BY <1>1, <1>2, <1>3 DEF LockQueue

\* A job that is created waits for nothing yet.
LEMMA LockCreated ==
    ASSUME TypeJobs, LockQueue, NEW j \in Jobs, job[j] = "idle",
           job' = [job EXCEPT ![j] = "created"], queue' = queue
    PROVE  LockQueue'
<1>1. \A i \in 1..Len(queue) : queue[i] \in Jobs
  BY ElementOfSeq, LenProperties DEF TypeJobs
<1>2. \A i \in 1..Len(queue) : queue[i] # j /\ job'[queue[i]] = job[queue[i]]
  BY <1>1 DEF LockQueue, Working, TypeJobs
<1> QED
  BY <1>2 DEF LockQueue, Working

\* Every step keeps the queue and the flag.
LEMMA LockStep == Typed /\ LockQueue /\ FlagInv /\ [Next]_vars => LockQueue' /\ FlagInv'
<1> SUFFICES ASSUME Typed, LockQueue, FlagInv, [Next]_vars PROVE LockQueue' /\ FlagInv'
  OBVIOUS
<1>1. TypeJobs /\ QueueInv
  BY TypeParts DEF Typed
<1>2. Consolidator \in Jobs /\ \A j \in Archivists : j \in Jobs /\ j # Consolidator
  BY HistoryAssumption DEF Jobs
<1>3. CASE JobsAlone
  <2>1. UNCHANGED <<job, queue, consolidating>>
    BY <1>3, JobsAloneFacts DEF jobs
  <2> QED
    BY <2>1 DEF LockQueue, FlagInv, Working
<1>4. CASE Proceed
  <2>1. CASE UNCHANGED <<job, consolidating>>
    <3>1. queue' = queue
      BY <1>4 DEF Proceed
    <3> QED
      BY <2>1, <3>1 DEF LockQueue, FlagInv, Working
  <2>2. CASE ~UNCHANGED <<job, consolidating>>
    <3>1. /\ ~consolidating /\ consolidating' = TRUE
          /\ job' = [job EXCEPT ![Consolidator] = "created"] /\ queue' = queue
      BY <1>4, <2>2 DEF Proceed
    <3>2. job[Consolidator] = "idle"
      BY <3>1, Zenon DEF FlagInv
    <3>3. FlagInv'
      BY <1>1, <1>2, <3>1 DEF FlagInv, TypeJobs
    <3> QED
      BY <1>1, <1>2, <3>1, <3>2, <3>3, LockCreated
  <2> QED
    BY <2>1, <2>2
<1>5. CASE New
  <2>1. UNCHANGED <<queue, consolidating>>
    BY <1>5 DEF New
  <2>2. CASE UNCHANGED job
    BY <2>1, <2>2 DEF LockQueue, FlagInv, Working
  <2>3. ASSUME NEW j \in Archivists, job[j] = "idle", job' = [job EXCEPT ![j] = "created"]
        PROVE  LockQueue' /\ FlagInv'
    <3>1. job'[Consolidator] = job[Consolidator]
      BY <1>1, <1>2, <2>3 DEF TypeJobs
    <3>2. FlagInv'
      BY <2>1, <3>1, Zenon DEF FlagInv
    <3> QED
      BY <1>1, <1>2, <2>1, <2>3, <3>2, LockCreated
  <2> QED
    BY <1>5, <2>2, <2>3 DEF New
<1>6. CASE Snapshot
  <2>1. job[Consolidator] = "created"
    BY <1>6 DEF Snapshot
  <2>2. consolidating
    BY <2>1, Zenon DEF FlagInv
  <2>3. CASE Content(Live) = <<>>
    <3>1. /\ job' = [job EXCEPT ![Consolidator] = "idle"] /\ consolidating' = FALSE
          /\ queue' = queue
      BY <1>6, <2>3 DEF Snapshot
    <3>2. \A i \in 1..Len(queue) : queue[i] \in Jobs
      BY <1>1, ElementOfSeq, LenProperties DEF TypeJobs
    <3>3. \A i \in 1..Len(queue) : job'[queue[i]] = job[queue[i]]
      BY <1>1, <2>1, <3>1, <3>2 DEF LockQueue, Working, TypeJobs
    <3>4. LockQueue'
      BY <3>1, <3>3 DEF LockQueue, Working
    <3>5. FlagInv'
      BY <1>1, <1>2, <3>1 DEF FlagInv, TypeJobs
    <3> QED
      BY <3>4, <3>5
  <2>4. CASE Content(Live) # <<>>
    <3>1. /\ job' = [job EXCEPT ![Consolidator] = "queued"]
          /\ queue' = Append(queue, Consolidator)
          /\ consolidating' = consolidating
      BY <1>6, <2>4 DEF Snapshot
    <3>2. job'[Consolidator] # "idle"
      BY <1>1, <1>2, <3>1 DEF TypeJobs
    <3>3. FlagInv'
      BY <2>2, <3>1, <3>2, Zenon DEF FlagInv
    <3> QED
      BY <1>1, <1>2, <2>1, <3>1, <3>3, LockJoined
  <2> QED
    BY <2>3, <2>4
<1>7. ASSUME NEW j \in Jobs, Enter(j) PROVE LockQueue' /\ FlagInv'
  <2>1. /\ j # Consolidator /\ job[j] = "created" /\ consolidating' = consolidating
        /\ job' = [job EXCEPT ![j] = "queued"] /\ queue' = Append(queue, j)
    BY <1>7 DEF Enter
  <2>2. job'[Consolidator] = job[Consolidator]
    BY <1>1, <1>2, <2>1 DEF TypeJobs
  <2>3. FlagInv'
    BY <2>1, <2>2, Zenon DEF FlagInv
  <2> QED
    BY <1>1, <2>1, <2>3, LockJoined
<1>8. ASSUME NEW j \in Jobs, Ask(j) \/ Answer(j) \/ AskFails(j) \/ WriteHistory(j)
                             \/ Finish(j) \/ WriteFails(j)
      PROVE  LockQueue' /\ FlagInv'
  <2>1. Working(j) \/ (job[j] = "queued" /\ Head(queue) = j)
    BY <1>8 DEF Ask, Answer, AskFails, WriteHistory, Finish, WriteFails, Working
  <2>2. queue # <<>> /\ Head(queue) = j
    BY <1>1, <2>1, EmptyFacts DEF QueueInv
  <2>3. CASE Release(j)
    <3>1. /\ job' = [job EXCEPT ![j] = "idle"]
          /\ consolidating' = (consolidating /\ j # Consolidator)
      BY <2>3 DEF Release
    <3>2. CASE j = Consolidator
      <4>1. job'[Consolidator] = "idle" /\ ~consolidating'
        BY <1>1, <1>2, <3>1, <3>2 DEF TypeJobs
      <4> QED
        BY <1>1, <2>2, <2>3, <4>1, LockReleased, Zenon DEF FlagInv
    <3>3. CASE j # Consolidator
      <4>1. job'[Consolidator] = job[Consolidator] /\ (consolidating' <=> consolidating)
        BY <1>1, <1>2, <3>1, <3>3 DEF TypeJobs
      <4> QED
        BY <1>1, <2>2, <2>3, <4>1, LockReleased, Zenon DEF FlagInv
    <3> QED
      BY <3>2, <3>3
  <2>4. ASSUME NEW l \in {"asking", "writing", "written", "skipped"}, job' = [job EXCEPT ![j] = l],
               UNCHANGED <<queue, consolidating>>
        PROVE  LockQueue' /\ FlagInv'
    <3>1. job'[Consolidator] = "idle" <=> job[Consolidator] = "idle"
      BY <1>1, <1>2, <2>1, <2>4 DEF TypeJobs, Working
    <3>2. FlagInv'
      BY <2>4, <3>1, Zenon DEF FlagInv
    <3> QED
      BY <1>1, <2>2, <2>4, <3>2, LockWorks
  <2> QED
    BY <1>8, <2>3, <2>4 DEF Ask, Answer, AskFails, WriteHistory, Finish, WriteFails
<1>9. CASE Crash
  <2>1. Len(queue') = 0 /\ consolidating' = FALSE /\ job'[Consolidator] = "idle"
    BY <1>2, <1>9, EmptyFacts DEF Crash
  <2> QED
    BY <2>1 DEF LockQueue, FlagInv
<1> QED
  BY <1>3, <1>4, <1>5, <1>6, <1>7, <1>8, <1>9 DEF Next, Work, JobsAlone

\* No job waits for the memory store's lock behind one that is gone, two never
\* have it, and a session is kept from its next consolidation only by one that
\* is under way.
THEOREM JobsNeverStuck == Spec => []JobsMove
<1>1. ASSUME Typed, LockQueue, FlagInv PROVE JobsMove
  <2>1. TypeJobs /\ QueueInv
    BY <1>1, TypeParts DEF Typed
  <2>2. \A j, k \in Jobs : Working(j) /\ Working(k) => j = k
    BY <2>1 DEF QueueInv
  <2>3. ASSUME NEW j \in Jobs, job[j] = "queued"
        PROVE  Head(queue) \in Jobs /\ Moves(Head(queue))
    <3>1. queue # <<>> /\ queue \in Seq(Jobs)
      BY <2>1, <2>3, EmptyFacts DEF QueueInv, TypeJobs
    <3>2. Head(queue) \in Jobs /\ Head(queue) = queue[1] /\ 1 \in 1..Len(queue)
      BY <3>1, HeadTailProperties, LenProperties, EmptySeq
    <3>3. job[queue[1]] = "queued" \/ Working(queue[1])
      BY <1>1, <3>2 DEF LockQueue
    <3> QED
      BY <3>1, <3>2, <3>3 DEF Moves, Working
  <2> QED
    BY <1>1, <2>2, <2>3, Zenon DEF JobsMove, FlagInv
<1>2. Init => Typed /\ LockQueue /\ FlagInv
  BY InitTyped, LockInit
<1>3. Typed /\ [Next]_vars => Typed'
  BY NextTyped
<1> QED
  BY <1>1, <1>2, <1>3, LockStep, PTL DEF Spec
=============================================================================
