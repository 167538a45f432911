------------------------ MODULE CronScheduler_proofs ------------------------
(***************************************************************************)
(* The safety properties of CronScheduler, for any schedules, any          *)
(* expressions, any clock and any bounds.                                  *)
(***************************************************************************)
EXTENDS CronScheduler, WellFoundedInduction, TLAPS

-----------------------------------------------------------------------------
(* The inductive invariants.                                               *)

\* The walk holds a schedule only while its enqueue is awaited, and no run is
\* enqueued before its instant.
WalkInv ==
  /\ tick # "waiting" => current = None
  /\ asOf <= now
  /\ \A c \in Ids : lastDue[c] <= now

\* The life of a save: it has no file before it opens the temporary one, and
\* the process that stops or is down runs just the savers it may run.
SaverInv ==
  /\ \A s \in Savers :
       /\ saver[s].at = "idle" <=> saver[s] = Idle
       /\ saver[s].at = "deflate" => saver[s].file = None
  /\ phase = "up" => saver["stop"] = Idle
  /\ phase = "down" => \A s \in Savers : saver[s] = Idle

\* Unless two saves were under way at once: one save at a time writes, it
\* writes the file that has the temporary name, and nobody writes the file that
\* start() would load.
FileInv ==
  /\ temp # None => temp # final
  /\ ~overlap =>
       /\ final # None => content[final] # Torn
       /\ \A s, t \in Savers : s # t => saver[s] = Idle \/ saver[t] = Idle
       /\ \A s \in Savers :
            /\ saver[s].at \in {"write", "rename"} => temp # None /\ saver[s].file = temp
            /\ saver[s].at = "write" => content[temp] = Torn
            /\ saver[s].at = "rename" => content[temp] = saver[s].image

\* A save that no change has missed holds the schedules, and when no operation
\* is counted the file does, whether a save is under way or not.
CleanInv ==
  phase = "up" /\ ~missed /\ ~overlap =>
    /\ ~dirty => Loaded = schedules
    /\ \A s \in Savers : saver[s] # Idle => saver[s].image = schedules

-----------------------------------------------------------------------------
(* Instants and files.                                                     *)

\* A name for the order of the naturals, which is well-founded.
Less == OpToRel(<, Nat)

LEMMA LessThan == \A x, y \in Nat : x < y => <<x, y>> \in Less
BY DEF Less, OpToRel

\* Min is the least element of any set of naturals that has one.
LEMMA Least ==
  ASSUME NEW S \in SUBSET Nat, S # {}
  PROVE  Min(S) \in S /\ \A y \in S : Min(S) =< y
<1>1. IsWellFoundedOn(Less, Nat)
  BY NatLessThanWellFounded DEF Less
<1>2. PICK x \in S : \A y \in S : ~(<<y, x>> \in Less)
  BY <1>1, WFMin
<1>3. \A y \in S : ~(y < x)
  BY <1>2, LessThan, Zenon
<1>4. \E z \in S : \A y \in S : z =< y
  BY <1>3
<1> QED BY <1>4 DEF Min

\* The next instant of a definition lies after the present one.
LEMMA DueAfterNow ==
  ASSUME NEW def \in Defs \cup {None}, NEW t \in Nat
  PROVE  /\ DueAfter(def, t) \in Instants \cup {None}
         /\ DueAfter(def, t) # None => DueAfter(def, t) > t
<1>1. CASE def = None
  BY <1>1 DEF DueAfter
<1>2. CASE def # None
  <2> DEFINE S == {i \in def.due : i > t}
  <2>1. def.due \subseteq 1 .. Horizon /\ Horizon \in Nat
    BY <1>2, CronAssumption
  <2>2. DueAfter(def, t) = IF S = {} THEN None ELSE Min(S)
    BY <1>2, Zenon DEF DueAfter, Earliest
  <2>3. CASE S # {}
    <3>1. \A i \in S : i \in Nat /\ i \in Instants /\ i > t
      BY <2>1 DEF Instants
    <3>2. S \in SUBSET Nat
      BY <3>1
    <3>3. Min(S) \in S
      BY <2>3, <3>2, Least
    <3> HIDE DEF S
    <3> QED BY <2>2, <2>3, <3>1, <3>3
  <2> QED BY <2>2, <2>3
<1> QED BY <1>1, <1>2

\* The timer is set for an instant within MaxSleep.
LEMMA NextTickType ==
  ASSUME TypeOK, NEW next \in [Ids -> Instants \cup {None}]
  PROVE  NextTick(next) \in 0 .. Horizon + MaxSleep
<1> DEFINE S == {now + MaxSleep} \cup {next[c] : c \in {c \in Ids : next[c] # None /\ next[c] > now}}
<1>1. now \in Nat /\ now =< Horizon /\ Horizon \in Nat /\ MaxSleep \in Nat
  BY CronAssumption DEF TypeOK, Instants
<1>2. S \in SUBSET Nat /\ S # {}
  BY <1>1 DEF Instants
<1>3. Min(S) \in S /\ \A y \in S : Min(S) =< y
  BY <1>2, Least
<1>4. Min(S) \in Nat /\ Min(S) =< now + MaxSleep
  BY <1>2, <1>3
<1> QED BY <1>1, <1>4 DEF NextTick

\* What is loaded is an image.
LEMMA LoadedType ==
  ASSUME TypeOK
  PROVE  Loaded \in Image
BY DEF TypeOK, Loaded, NoImage, Image

\* A save that has no file yet always finds a new one.
LEMMA NewFileIsNew ==
  ASSUME TypeOK, SaverInv, NEW s \in Savers, saver[s].at = "deflate", temp = None
  PROVE  /\ NewFile \in Files /\ NewFile # final
         /\ \A t \in Savers : NewFile # saver[t].file
<1> DEFINE other == saver[IF s = "loop" THEN "stop" ELSE "loop"].file
<1>1. None \notin Files
  BY CronAssumption DEF Files
<1>2. {saver[t].file : t \in Savers} = {None, other}
  BY DEF SaverInv, Savers
<1>3. PICK f \in Files : f # final /\ f # other
  BY DEF Files
<1>4. f \notin {temp, final} \cup {saver[t].file : t \in Savers}
  BY <1>1, <1>2, <1>3
<1>5. NewFile \in Files /\ NewFile \notin {temp, final} \cup {saver[t].file : t \in Savers}
  BY <1>3, <1>4, Zenon DEF NewFile
<1> QED BY <1>5

\* The records of the savers.
SaverRecord == [at : {"idle", "deflate", "write", "rename"}, image : Image, file : Files \cup {None}]

\* A save opens one temporary file, new or the one there is, and that is never
\* the file start() would load.
LEMMA OpenedFile ==
  ASSUME TypeOK, SaverInv, NEW s \in Savers, OpenTemp(s)
  PROVE  /\ temp' \in Files /\ final' = final
         /\ temp = None => temp' # final
         /\ temp # None => temp' = temp
         /\ saver' \in [Savers -> SaverRecord]
         /\ saver'[s].at = "write" /\ saver'[s].image = saver[s].image /\ saver'[s].file = temp'
         /\ \A t \in Savers \ {s} : saver'[t] = saver[t]
         /\ content' = [content EXCEPT ![temp'] = Torn]
<1>1. /\ temp' \in Files /\ final' = final /\ content' = [content EXCEPT ![temp'] = Torn]
      /\ (temp = None => temp' # final) /\ (temp # None => temp' = temp)
  BY NewFileIsNew DEF OpenTemp, TypeOK
<1>2. saver[s] \in SaverRecord /\ saver \in [Savers -> SaverRecord]
  BY DEF TypeOK, SaverRecord
<1>3. LET opened == [saver[s] EXCEPT !.at = "write", !.file = temp']
      IN  /\ opened \in SaverRecord
          /\ opened.at = "write" /\ opened.image = saver[s].image /\ opened.file = temp'
  BY <1>1, <1>2, Zenon DEF SaverRecord
<1>4. saver' = [saver EXCEPT ![s] = [saver[s] EXCEPT !.at = "write", !.file = temp']]
  BY <1>2, Zenon DEF OpenTemp
<1> QED BY <1>1, <1>2, <1>3, <1>4

\* A save that is called, one that writes, and one that is over.
LEMMA BegunSave ==
  ASSUME TypeOK, NEW s \in Savers, BeginSave(s)
  PROVE  /\ saver' \in [Savers -> SaverRecord]
         /\ saver'[s].at = "deflate" /\ saver'[s].image = schedules /\ saver'[s].file = None
         /\ saver'[s] # Idle
         /\ \A t \in Savers \ {s} : saver'[t] = saver[t]
<1>1. saver \in [Savers -> SaverRecord]
  BY DEF TypeOK, SaverRecord
<1>2. [at |-> "deflate", image |-> schedules, file |-> None] \in SaverRecord
  BY DEF TypeOK, SaverRecord
<1>3. saver' = [saver EXCEPT ![s] = [at |-> "deflate", image |-> schedules, file |-> None]]
  BY DEF BeginSave
<1> QED BY <1>1, <1>2, <1>3 DEF Idle

LEMMA WrittenFile ==
  ASSUME TypeOK, NEW s \in Savers, WriteTemp(s)
  PROVE  /\ saver' \in [Savers -> SaverRecord] /\ content' \in [Files -> Image \cup {Torn}]
         /\ saver[s].at = "write" /\ saver'[s].at = "rename"
         /\ saver'[s].image = saver[s].image /\ saver'[s].file = saver[s].file
         /\ \A t \in Savers \ {s} : saver'[t] = saver[t]
         /\ \A f \in Files \ {saver[s].file} : content'[f] = content[f]
         /\ saver[s].file \in Files /\ content[saver[s].file] = Torn
              => content'[saver[s].file] = saver[s].image
         /\ UNCHANGED <<temp, final>>
<1>1. saver[s] \in SaverRecord /\ saver \in [Savers -> SaverRecord]
  BY DEF TypeOK, SaverRecord
<1>2. LET written == [saver[s] EXCEPT !.at = "rename"]
      IN  /\ written \in SaverRecord
          /\ written.at = "rename" /\ written.image = saver[s].image /\ written.file = saver[s].file
  BY <1>1 DEF SaverRecord
<1>3. saver' = [saver EXCEPT ![s] = [saver[s] EXCEPT !.at = "rename"]]
  BY <1>1, Zenon DEF WriteTemp
<1>4. PICK i \in {saver[s].image} \cup (IF content[saver[s].file] = Torn THEN {} ELSE {Torn}) :
        content' = [content EXCEPT ![saver[s].file] = i]
  BY DEF WriteTemp
<1>5. i \in Image \cup {Torn} /\ (content[saver[s].file] = Torn => i = saver[s].image)
  BY <1>1 DEF SaverRecord
<1>6. content \in [Files -> Image \cup {Torn}]
  BY DEF TypeOK
<1>7. /\ content' \in [Files -> Image \cup {Torn}]
      /\ \A f \in Files \ {saver[s].file} : content'[f] = content[f]
      /\ saver[s].file \in Files /\ content[saver[s].file] = Torn
           => content'[saver[s].file] = saver[s].image
  BY <1>4, <1>5, <1>6
<1> QED BY <1>1, <1>2, <1>3, <1>7 DEF WriteTemp

LEMMA SaveOver ==
  ASSUME TypeOK, NEW s \in Savers, Saved(s)
  PROVE  /\ saver' \in [Savers -> SaverRecord]
         /\ saver'[s] = Idle
         /\ \A t \in Savers \ {s} : saver'[t] = saver[t]
BY DEF TypeOK, SaverRecord, Saved, Idle, NoImage, Image

-----------------------------------------------------------------------------
(* Type correctness.                                                       *)

\* The walk and the changes keep the types.
LEMMA TypeOfWalk ==
  ASSUME TypeOK,
         \/ ClockTicks \/ Start \/ Step
         \/ \E c \in Ids : Delete(c) \/ \E def \in Defs : Upsert(c, def)
  PROVE  TypeOK'
<1> USE DEF walk, disk
<1>0. now \in Nat /\ schedules \in [Ids -> Defs \cup {None}] /\ Horizon \in Nat
  BY CronAssumption DEF TypeOK, Instants, Image
<1>1. CASE ClockTicks
  BY <1>0, <1>1 DEF ClockTicks, TypeOK, Instants
<1>2. CASE Start
  <2>1. Loaded \in [Ids -> Defs \cup {None}]
    BY LoadedType DEF Image
  <2>2. nextRun' \in [Ids -> Instants \cup {None}]
    BY <1>0, <1>2, <2>1, DueAfterNow DEF Start
  <2>3. 0 \in Instants /\ 0 \in 0 .. Horizon + MaxSleep
    BY CronAssumption DEF Instants
  <2> QED BY <1>2, <2>1, <2>2, <2>3 DEF Start, TypeOK, Image
<1>3. ASSUME NEW c \in Ids, NEW def \in Defs \cup {None}, Changed(c, def)
      PROVE  /\ schedules' \in Image /\ nextRun' \in [Ids -> Instants \cup {None}]
             /\ current' \in Ids \cup {None} /\ dirty' \in BOOLEAN /\ missed' \in BOOLEAN
  <2>1. DueAfter(def, now) \in Instants \cup {None}
    BY <1>0, DueAfterNow
  <2> QED BY <1>0, <1>3, <2>1 DEF Changed, TypeOK, Image
<1>4. ASSUME NEW c \in Ids, NEW def \in Defs, Upsert(c, def) PROVE TypeOK'
  BY <1>3, <1>4 DEF Upsert, TypeOK
<1>5. ASSUME NEW c \in Ids, Delete(c) PROVE TypeOK'
  BY <1>3, <1>5 DEF Delete, TypeOK
<1>6. CASE TimerFires
  <2>1. 0 \in 0 .. Horizon + MaxSleep
    BY CronAssumption
  <2> QED BY <1>6, <2>1 DEF TimerFires, TypeOK
<1>7. ASSUME NEW c \in Ids, CallEnqueue(c) PROVE TypeOK'
  <2>1. nextRun[c] \in Instants
    BY <1>7 DEF CallEnqueue, IsDue, TypeOK
  <2> QED BY <1>7, <2>1 DEF CallEnqueue, TypeOK
<1>8. ASSUME Rescheduled PROVE nextRun' \in [Ids -> Instants \cup {None}]
  <2>1. CASE current = None
    BY <1>8, <2>1 DEF Rescheduled, TypeOK
  <2>2. CASE current # None
    <3>1. current \in Ids /\ schedules[current] \in Defs \cup {None}
      BY <1>0, <2>2 DEF TypeOK
    <3>2. DueAfter(schedules[current], now) \in Instants \cup {None}
      BY <1>0, <3>1, DueAfterNow
    <3> QED BY <1>8, <2>2, <3>2 DEF Rescheduled, TypeOK
  <2> QED BY <2>1, <2>2
<1>9. CASE EnqueueReturns
  BY <1>8, <1>9 DEF EnqueueReturns, TypeOK
<1>10. CASE EnqueueThrows
  BY <1>8, <1>10 DEF EnqueueThrows, TypeOK
<1>11. CASE TickEnds
  <2>1. NextTick(nextRun) \in 0 .. Horizon + MaxSleep
    BY NextTickType DEF TypeOK
  <2>2. 0 \in Instants
    BY CronAssumption DEF Instants
  <2> QED BY <1>11, <2>1, <2>2 DEF TickEnds, TypeOK
<1> QED BY <1>1, <1>2, <1>4, <1>5, <1>6, <1>7, <1>9, <1>10, <1>11 DEF Step

\* So do the saves and the end of the process.
LEMMA TypeOfSaves ==
  ASSUME TypeOK, SaverInv, Saving \/ Stop \/ Exit \/ Crash
  PROVE  TypeOK'
<1> USE DEF walk, disk
<1>1. ASSUME NEW s \in Savers, BeginSave(s)
      PROVE  saver' \in [Savers -> SaverRecord] /\ missed' \in BOOLEAN /\ overlap' \in BOOLEAN
  BY <1>1, BegunSave DEF BeginSave, TypeOK
<1>2. CASE LoopSaves
  <2>1. BeginSave("loop") /\ "loop" \in Savers
    BY <1>2 DEF LoopSaves, Savers
  <2> QED BY <1>1, <1>2, <2>1 DEF LoopSaves, TypeOK, SaverRecord
<1>3. CASE Stop
  <2>1. BeginSave("stop") /\ "stop" \in Savers
    BY <1>3 DEF Stop, Savers
  <2> QED BY <1>1, <1>3, <2>1 DEF Stop, TypeOK, SaverRecord
<1>4. ASSUME NEW s \in Savers, Writing(s) PROVE TypeOK'
  <2>1. CASE OpenTemp(s)
    BY <1>4, <2>1, OpenedFile DEF Writing, TypeOK, SaverRecord
  <2>2. CASE WriteTemp(s)
    BY <1>4, <2>2, WrittenFile DEF Writing, TypeOK, SaverRecord
  <2> QED BY <1>4, <2>1, <2>2 DEF Writing
<1>5. ASSUME NEW s \in Savers, Rename(s) PROVE TypeOK'
  <2>1. saver' \in [Savers -> SaverRecord] /\ phase' \in {"up", "stopping", "stopped", "down"}
    BY <1>5, SaveOver DEF Rename, Saved, TypeOK
  <2>2. final' \in Files \cup {None} /\ dirty' \in BOOLEAN
    BY <1>5 DEF Rename, TypeOK
  <2> QED BY <1>5, <2>1, <2>2 DEF Rename, TypeOK, SaverRecord
<1>6. ASSUME NEW s \in Savers, SaveFails(s) PROVE TypeOK'
  <2>1. saver' \in [Savers -> SaverRecord] /\ phase' \in {"up", "stopping", "stopped", "down"}
    BY <1>6, SaveOver DEF SaveFails, Saved, TypeOK
  <2> QED BY <1>6, <2>1 DEF SaveFails, TypeOK, SaverRecord
<1>7. ASSUME Ended PROVE TypeOK'
  <2>1. 0 \in Instants /\ 0 \in 0 .. Horizon + MaxSleep /\ NoImage \in Image
    BY CronAssumption DEF Instants, NoImage, Image
  <2>2. Idle \in SaverRecord
    BY <2>1 DEF Idle, SaverRecord
  <2> QED BY <1>7, <2>1, <2>2 DEF Ended, TypeOK, SaverRecord
<1> QED BY <1>2, <1>3, <1>4, <1>5, <1>6, <1>7 DEF Saving, Exit, Crash

\* No step breaks the life of a save.
LEMMA SaverStep ==
  ASSUME TypeOK, SaverInv, Next
  PROVE  SaverInv'
<1> USE DEF walk, disk
<1>1. Savers = {"loop", "stop"} /\ Idle.at = "idle"
  BY DEF Savers, Idle
<1>2. CASE Start
  BY <1>1, <1>2 DEF Start, SaverInv
<1>3. CASE LoopSaves
  <2>1. BeginSave("loop")
    BY <1>3 DEF LoopSaves
  <2> QED BY <1>1, <1>3, <2>1, BegunSave DEF LoopSaves, SaverInv
<1>4. CASE Stop
  <2>1. BeginSave("stop")
    BY <1>4 DEF Stop
  <2> QED BY <1>1, <1>4, <2>1, BegunSave DEF Stop, SaverInv
<1>5. ASSUME NEW s \in Savers, Writing(s) PROVE SaverInv'
  <2>1. CASE OpenTemp(s)
    <3>1. saver[s] # Idle /\ saver'[s].at = "write"
      BY <1>1, <2>1, OpenedFile DEF OpenTemp
    <3> QED BY <1>1, <1>5, <2>1, <3>1, OpenedFile DEF Writing, SaverInv
  <2>2. CASE WriteTemp(s)
    <3>1. saver[s] # Idle /\ saver'[s].at = "rename"
      BY <1>1, <2>2, WrittenFile
    <3> QED BY <1>1, <1>5, <2>2, <3>1, WrittenFile DEF Writing, SaverInv
  <2> QED BY <1>5, <2>1, <2>2 DEF Writing
<1>6. ASSUME NEW s \in Savers, Rename(s) \/ SaveFails(s) PROVE SaverInv'
  <2>1. Saved(s) /\ phase # "down" /\ saver[s] # Idle
    BY <1>1, <1>6 DEF Rename, SaveFails
  <2> QED BY <1>1, <2>1, SaveOver DEF SaverInv, Saved
<1>7. CASE Exit \/ Crash
  BY <1>1, <1>7 DEF Exit, Crash, Ended, SaverInv
<1>8. CASE \/ ClockTicks \/ Step
           \/ \E c \in Ids : Delete(c) \/ \E def \in Defs : Upsert(c, def)
  <2>1. UNCHANGED <<saver, phase>>
    BY <1>8 DEF ClockTicks, Step, EnqueueReturns, EnqueueThrows, TickEnds, TimerFires,
                CallEnqueue, Delete, Upsert
  <2> QED BY <2>1 DEF SaverInv
<1> QED BY <1>2, <1>3, <1>4, <1>5, <1>6, <1>7, <1>8 DEF Next, Saving

\* The types and the life of the saves, together.
THEOREM SaversInvariant == Spec => [](TypeOK /\ SaverInv)
<1>1. Init => TypeOK /\ SaverInv
  <2> SUFFICES ASSUME Init PROVE TypeOK /\ SaverInv
    OBVIOUS
  <2>1. 0 \in Instants /\ 0 \in 0 .. Horizon + MaxSleep /\ NoImage \in Image
    BY CronAssumption DEF Instants, NoImage, Image
  <2>2. TypeOK
    BY <2>1 DEF Init, TypeOK, Idle
  <2>3. SaverInv
    BY DEF Init, SaverInv, Idle, Savers
  <2> QED BY <2>2, <2>3
<1>2. (TypeOK /\ SaverInv) /\ [Next]_vars => (TypeOK /\ SaverInv)'
  <2> SUFFICES ASSUME TypeOK, SaverInv, [Next]_vars PROVE TypeOK' /\ SaverInv'
    OBVIOUS
  <2>1. CASE UNCHANGED vars
    BY <2>1 DEF vars, walk, disk, TypeOK, SaverInv
  <2>2. CASE Next
    BY <2>2, TypeOfWalk, TypeOfSaves, SaverStep DEF Next
  <2> QED BY <2>1, <2>2
<1> QED BY <1>1, <1>2, PTL DEF Spec

\* Every variable of the scheduler keeps its type.
THEOREM TypeCorrect == Spec => []TypeOK
BY SaversInvariant, PTL

-----------------------------------------------------------------------------
(* OncePerInstant                                                          *)

\* No change, tick or restart makes a schedule due again at an instant it was
\* enqueued for.
LEMMA WalkStep ==
  ASSUME TypeOK, WalkInv, OncePerInstant, Next
  PROVE  WalkInv' /\ OncePerInstant'
<1> USE DEF walk, disk
<1>0. /\ now \in Nat /\ asOf \in Nat /\ schedules \in [Ids -> Defs \cup {None}]
      /\ nextRun \in [Ids -> Instants \cup {None}] /\ lastDue \in [Ids -> Instants]
      /\ \A c \in Ids : lastDue[c] \in Nat
      /\ None \notin Ids
  BY CronAssumption DEF TypeOK, Instants, Image
<1>1. CASE ClockTicks
  BY <1>0, <1>1 DEF ClockTicks, WalkInv, OncePerInstant
<1>2. CASE Start
  <2>1. \A c \in Ids : Loaded[c] \in Defs \cup {None}
    BY LoadedType DEF Image
  <2>2. \A c \in Ids : nextRun'[c] # None => nextRun'[c] \in Nat /\ nextRun'[c] > now
    BY <1>0, <1>2, <2>1, DueAfterNow, CronAssumption DEF Start, Instants
  <2>3. UNCHANGED <<now, lastDue>> /\ asOf' = now /\ current' = None
    BY <1>2 DEF Start
  <2> QED BY <1>0, <2>2, <2>3 DEF WalkInv, OncePerInstant
<1>3. ASSUME NEW c \in Ids, NEW def \in Defs \cup {None}, Changed(c, def),
             UNCHANGED <<now, tick, asOf, lastDue>>
      PROVE  WalkInv' /\ OncePerInstant'
  <2>1. nextRun' = [nextRun EXCEPT ![c] = DueAfter(def, now)] /\ (current' # current => current' = None)
    BY <1>3 DEF Changed
  <2>2. DueAfter(def, now) # None => DueAfter(def, now) \in Nat /\ DueAfter(def, now) > now
    BY <1>0, DueAfterNow DEF Instants
  <2>3. current' # current => current = c
    BY <1>3 DEF Changed
  <2>4. nextRun'[c] # None => nextRun'[c] > lastDue'[c]
    BY <1>0, <1>3, <2>1, <2>2 DEF WalkInv
  <2>5. ASSUME NEW b \in Ids \ {c} PROVE nextRun'[b] # None /\ current' # b => nextRun'[b] > lastDue'[b]
    BY <1>0, <1>3, <2>1, <2>3 DEF OncePerInstant
  <2> QED BY <1>3, <2>1, <2>4, <2>5 DEF WalkInv, OncePerInstant
<1>4. ASSUME NEW c \in Ids, NEW def \in Defs, Upsert(c, def) PROVE WalkInv' /\ OncePerInstant'
  BY <1>3, <1>4 DEF Upsert
<1>5. ASSUME NEW c \in Ids, Delete(c) PROVE WalkInv' /\ OncePerInstant'
  BY <1>3, <1>5 DEF Delete
<1>6. CASE TimerFires \/ TickEnds
  BY <1>0, <1>6 DEF TimerFires, TickEnds, WalkInv, OncePerInstant
<1>7. ASSUME NEW c \in Ids, CallEnqueue(c) PROVE WalkInv' /\ OncePerInstant'
  <2>1. /\ current = None /\ current' = c /\ tick' = "waiting" /\ UNCHANGED <<now, asOf, nextRun>>
        /\ lastDue' = [lastDue EXCEPT ![c] = nextRun[c]]
        /\ nextRun[c] # None /\ nextRun[c] <= asOf
    BY <1>7 DEF CallEnqueue, IsDue, WalkInv
  <2>2. nextRun[c] \in Nat
    BY <1>0, <2>1 DEF Instants
  <2>3. WalkInv'
    BY <1>0, <2>1, <2>2 DEF WalkInv
  <2>4. OncePerInstant'
    BY <1>0, <2>1 DEF OncePerInstant
  <2> QED BY <2>3, <2>4
<1>8. ASSUME tick = "waiting", tick' = "walking", current' = None, Rescheduled,
             UNCHANGED <<now, asOf, lastDue>>
      PROVE  WalkInv' /\ OncePerInstant'
  <2>1. WalkInv'
    BY <1>8 DEF WalkInv
  <2>2. CASE current = None
    <3>1. nextRun' = nextRun
      BY <1>8, <2>2 DEF Rescheduled
    <3> QED BY <1>8, <2>1, <2>2, <3>1 DEF OncePerInstant
  <2>3. CASE current # None
    <3>1. current \in Ids /\ schedules[current] \in Defs \cup {None}
      BY <1>0, <2>3 DEF TypeOK
    <3>2. DueAfter(schedules[current], now) # None =>
            DueAfter(schedules[current], now) \in Nat /\ DueAfter(schedules[current], now) > now
      BY <1>0, <3>1, DueAfterNow DEF Instants
    <3>3. nextRun' = [nextRun EXCEPT ![current] = DueAfter(schedules[current], now)]
      BY <1>8, <2>3 DEF Rescheduled
    <3>4. nextRun'[current] # None => nextRun'[current] > lastDue'[current]
      BY <1>0, <1>8, <3>1, <3>2, <3>3 DEF WalkInv
    <3>5. \A b \in Ids \ {current} : nextRun'[b] # None => nextRun'[b] > lastDue'[b]
      BY <1>0, <1>8, <3>3 DEF OncePerInstant
    <3> QED BY <2>1, <3>4, <3>5 DEF OncePerInstant
  <2> QED BY <2>1, <2>2, <2>3
<1>9. CASE EnqueueReturns \/ EnqueueThrows
  BY <1>8, <1>9 DEF EnqueueReturns, EnqueueThrows
<1>10. CASE Saving
  <2>1. UNCHANGED <<now, tick, asOf, current, nextRun, lastDue>>
    BY <1>10 DEF Saving, LoopSaves, Writing, Rename, SaveFails
  <2> QED BY <2>1 DEF WalkInv, OncePerInstant
<1>11. CASE Stop
  BY <1>11 DEF Stop, WalkInv, OncePerInstant
<1>12. CASE Exit \/ Crash
  BY <1>0, <1>12 DEF Exit, Crash, Ended, WalkInv, OncePerInstant
<1> QED BY <1>1, <1>2, <1>4, <1>5, <1>6, <1>7, <1>9, <1>10, <1>11, <1>12 DEF Next, Step

\* A schedule is never due again at an instant it was enqueued for, whatever is
\* replaced, deleted, saved, loaded or restarted meanwhile.
THEOREM RunsOncePerInstant == Spec => []OncePerInstant
<1>1. Init => WalkInv /\ OncePerInstant
  BY DEF Init, WalkInv, OncePerInstant
<1>2. TypeOK /\ (WalkInv /\ OncePerInstant) /\ [Next]_vars => (WalkInv /\ OncePerInstant)'
  <2> SUFFICES ASSUME TypeOK, WalkInv, OncePerInstant, [Next]_vars
               PROVE  WalkInv' /\ OncePerInstant'
    OBVIOUS
  <2>1. CASE UNCHANGED vars
    BY <2>1 DEF vars, walk, disk, WalkInv, OncePerInstant
  <2> QED BY <2>1, WalkStep
<1> QED BY <1>1, <1>2, TypeCorrect, PTL DEF Spec

-----------------------------------------------------------------------------
(* FileIsWhole and CleanMeansSaved                                         *)

\* Apart from the saves, the steps leave the files alone.
LEMMA FilesLeftAlone ==
  ASSUME \/ ClockTicks \/ Start \/ Step
         \/ \E c \in Ids : Delete(c) \/ \E def \in Defs : Upsert(c, def)
  PROVE  UNCHANGED <<saver, temp, final, content, overlap>>
BY DEF ClockTicks, Start, Step, EnqueueReturns, EnqueueThrows, TickEnds, TimerFires,
       CallEnqueue, Delete, Upsert, disk

\* A save begins, when no other is under way or never mind the files.
LEMMA FileBegins ==
  ASSUME TypeOK, SaverInv, FileInv, NEW s \in Savers, BeginSave(s), UNCHANGED <<temp, final, content>>
  PROVE  FileInv'
<1>1. /\ saver'[s].at = "deflate" /\ \A t \in Savers \ {s} : saver'[t] = saver[t]
  BY BegunSave
<1>2. ~overlap' => ~overlap /\ \A t \in Savers \ {s} : saver[t] = Idle
  BY DEF BeginSave, TypeOK
<1>3. Idle.at = "idle"
  BY DEF Idle
<1> QED BY <1>1, <1>2, <1>3 DEF FileInv

\* No step of a save tears the file that start() would load.
LEMMA FileWrites ==
  ASSUME TypeOK, SaverInv, FileInv, NEW s \in Savers, Writing(s)
  PROVE  FileInv'
<1>0. /\ None \notin Files /\ overlap' = overlap /\ Idle.at = "idle"
      /\ content \in [Files -> Image \cup {Torn}]
  BY CronAssumption DEF Writing, Files, Idle, TypeOK
<1>1. CASE OpenTemp(s)
  <2>1. saver[s] # Idle
    BY <1>0, <1>1 DEF OpenTemp
  <2>2. temp' # None /\ temp' # final /\ final' = final /\ temp' \in Files
    BY <1>0, <1>1, OpenedFile DEF FileInv
  <2>3. content'[temp'] = Torn /\ \A f \in Files \ {temp'} : content'[f] = content[f]
    BY <1>0, <1>1, <2>2, OpenedFile
  <2>4. /\ saver'[s].at = "write" /\ saver'[s].file = temp'
        /\ \A t \in Savers \ {s} : saver'[t] = saver[t]
    BY <1>1, OpenedFile
  <2>5. final # None => final \in Files
    BY DEF TypeOK
  <2>6. SUFFICES ASSUME ~overlap
                 PROVE  /\ final' # None => content'[final'] # Torn
                        /\ \A t, u \in Savers : t # u => saver'[t] = Idle \/ saver'[u] = Idle
                        /\ \A t \in Savers :
                             /\ saver'[t].at \in {"write", "rename"} => temp' # None /\ saver'[t].file = temp'
                             /\ saver'[t].at = "write" => content'[temp'] = Torn
                             /\ saver'[t].at = "rename" => content'[temp'] = saver'[t].image
    BY <1>0, <2>2 DEF FileInv
  <2>7. \A t \in Savers \ {s} : saver'[t] = Idle
    BY <2>1, <2>4, <2>6 DEF FileInv
  <2> QED BY <1>0, <2>2, <2>3, <2>4, <2>5, <2>6, <2>7 DEF FileInv
<1>2. CASE WriteTemp(s)
  <2>1. saver[s] # Idle /\ UNCHANGED <<temp, final>>
    BY <1>0, <1>2, WrittenFile
  <2>2. SUFFICES ASSUME ~overlap
                 PROVE  /\ final' # None => content'[final'] # Torn
                        /\ \A t, u \in Savers : t # u => saver'[t] = Idle \/ saver'[u] = Idle
                        /\ \A t \in Savers :
                             /\ saver'[t].at \in {"write", "rename"} => temp' # None /\ saver'[t].file = temp'
                             /\ saver'[t].at = "write" => content'[temp'] = Torn
                             /\ saver'[t].at = "rename" => content'[temp'] = saver'[t].image
    BY <1>0, <2>1 DEF FileInv
  <2>3. /\ saver'[s].at = "rename" /\ saver'[s].file = temp /\ saver'[s].image = saver[s].image
        /\ saver[s].file = temp /\ temp # None /\ content[temp] = Torn
        /\ \A t \in Savers \ {s} : saver'[t] = Idle
    BY <1>2, <2>1, <2>2, WrittenFile DEF FileInv
  <2>4. temp \in Files /\ temp # final
    BY <2>3 DEF TypeOK, FileInv
  <2>5. content'[temp] = saver'[s].image /\ \A f \in Files \ {temp} : content'[f] = content[f]
    BY <1>2, <2>3, <2>4, WrittenFile
  <2>6. final # None => content'[final] # Torn
    BY <2>2, <2>4, <2>5 DEF TypeOK, FileInv
  <2> QED BY <1>0, <2>1, <2>3, <2>5, <2>6
<1> QED BY <1>1, <1>2 DEF Writing

\* What a rename puts under the final name is whole.
LEMMA FileRenames ==
  ASSUME TypeOK, SaverInv, FileInv, NEW s \in Savers, Rename(s)
  PROVE  /\ FileInv'
         /\ ~overlap => temp # None /\ final' = temp /\ dirty' = FALSE
                        /\ content[temp] = saver[s].image /\ saver[s].image # Torn
<1>0. /\ overlap' = overlap /\ content' = content /\ temp' = None /\ Idle.at = "idle"
      /\ saver[s].at = "rename"
  BY DEF Rename, Idle
<1>1. saver'[s] = Idle /\ \A t \in Savers \ {s} : saver'[t] = saver[t]
  BY SaveOver DEF Rename
<1>2. saver[s].image # Torn
  BY CronAssumption DEF TypeOK, Image
<1>3. ASSUME ~overlap
      PROVE  /\ temp # None /\ final' = temp /\ dirty' = FALSE /\ content[temp] = saver[s].image
             /\ \A t \in Savers : saver'[t] = Idle
  <2>1. temp # None /\ content[temp] = saver[s].image
    BY <1>0, <1>3 DEF FileInv
  <2>2. \A t \in Savers \ {s} : saver[t] = Idle
    BY <1>0, <1>3 DEF FileInv
  <2> QED BY <1>1, <2>1, <2>2 DEF Rename
<1> QED BY <1>0, <1>1, <1>2, <1>3 DEF FileInv

\* No step breaks FileInv.
LEMMA FileStep ==
  ASSUME TypeOK, SaverInv, FileInv, Next
  PROVE  FileInv'
<1> USE DEF walk, disk
<1>0. Idle.at = "idle" /\ "loop" \in Savers /\ "stop" \in Savers
  BY DEF Idle, Savers
<1>1. CASE \/ ClockTicks \/ Start \/ Step
           \/ \E c \in Ids : Delete(c) \/ \E def \in Defs : Upsert(c, def)
  BY <1>1, FilesLeftAlone DEF FileInv
<1>2. CASE LoopSaves
  BY <1>0, <1>2, FileBegins DEF LoopSaves
<1>3. CASE Stop
  BY <1>0, <1>3, FileBegins DEF Stop
<1>4. ASSUME NEW s \in Savers, SaveFails(s) PROVE FileInv'
  <2>1. Saved(s) /\ UNCHANGED <<temp, final, content, overlap>>
    BY <1>4 DEF SaveFails
  <2> QED BY <1>0, <2>1, SaveOver DEF FileInv
<1>5. CASE Exit \/ Crash
  BY <1>0, <1>5 DEF Exit, Crash, Ended, FileInv
<1> QED BY <1>1, <1>2, <1>3, <1>4, <1>5, FileWrites, FileRenames DEF Next, Saving

\* The inductive invariant of the files.
THEOREM FilesInvariant == Spec => []FileInv
<1>1. Init => FileInv
  BY DEF Init, FileInv, Idle
<1>2. (TypeOK /\ SaverInv) /\ FileInv /\ [Next]_vars => FileInv'
  <2> SUFFICES ASSUME TypeOK, SaverInv, FileInv, [Next]_vars PROVE FileInv'
    OBVIOUS
  <2>1. CASE UNCHANGED vars
    BY <2>1 DEF vars, disk, FileInv
  <2> QED BY <2>1, FileStep
<1> QED BY <1>1, <1>2, SaversInvariant, PTL DEF Spec

\* The file is a whole snapshot wherever a save was cut, unless two saves were
\* under way at once.
THEOREM FileAlwaysWhole == Spec => []FileIsWhole
<1>1. TypeOK /\ FileInv => FileIsWhole
  BY DEF TypeOK, FileInv, FileIsWhole
<1> QED BY <1>1, TypeCorrect, FilesInvariant, PTL

\* Loaded is the final file, unless that is missing or torn.
LEMMA LoadedFile ==
  ASSUME TypeOK, FileInv, ~overlap
  PROVE  Loaded = IF final = None THEN NoImage ELSE content[final]
BY DEF FileInv, Loaded

\* No step wipes out the count of an operation that the file has not seen,
\* unless it came while a save was under way or two saves overlapped.
LEMMA CleanStep ==
  ASSUME TypeOK, SaverInv, SaverInv', FileInv, FileInv', CleanInv, Next
  PROVE  CleanInv'
<1> USE DEF walk, disk
<1>0. Savers = {"loop", "stop"} /\ dirty \in BOOLEAN /\ overlap \in BOOLEAN /\ missed \in BOOLEAN
  BY DEF TypeOK, Savers
<1>1. ASSUME UNCHANGED <<phase, schedules, saver, final, content, overlap, missed>>,
             dirty' = dirty \/ dirty' = TRUE
      PROVE  CleanInv'
  BY <1>0, <1>1 DEF CleanInv, Loaded
<1>2. CASE ClockTicks \/ Step
  BY <1>1, <1>2 DEF ClockTicks, Step, EnqueueReturns, EnqueueThrows, TickEnds, TimerFires, CallEnqueue
<1>3. CASE Start
  <2>1. schedules' = Loaded /\ Loaded' = Loaded /\ \A s \in Savers : saver'[s] = Idle
    BY <1>3 DEF Start, SaverInv, Loaded
  <2> QED BY <2>1 DEF CleanInv
<1>4. ASSUME NEW c \in Ids, NEW def, Changed(c, def), UNCHANGED <<phase, saver, overlap>>
      PROVE  CleanInv'
  <2>1. dirty' = TRUE /\ (~missed' => \A s \in Savers : saver[s] = Idle)
    BY <1>4 DEF Changed
  <2> QED BY <1>0, <1>4, <2>1 DEF CleanInv
<1>5. CASE \E c \in Ids : Delete(c) \/ \E def \in Defs : Upsert(c, def)
  BY <1>4, <1>5 DEF Delete, Upsert
<1>6. CASE LoopSaves
  <2>1. /\ BeginSave("loop") /\ dirty /\ phase = "up"
        /\ UNCHANGED <<phase, schedules, dirty, temp, final, content>>
    BY <1>6 DEF LoopSaves
  <2>2. saver'["stop"] = Idle /\ saver'["loop"].image = schedules
    BY <1>0, <2>1, BegunSave DEF SaverInv
  <2> QED BY <1>0, <2>1, <2>2 DEF CleanInv
<1>7. ASSUME NEW s \in Savers, Writing(s) PROVE CleanInv'
  <2>0. /\ UNCHANGED <<phase, schedules, dirty, missed, overlap>>
        /\ saver'[s].image = saver[s].image /\ saver[s] # Idle
        /\ final' = final /\ \A t \in Savers \ {s} : saver'[t] = saver[t]
    BY <1>7, OpenedFile, WrittenFile DEF Writing, OpenTemp, Idle
  <2>1. SUFFICES ASSUME phase = "up", ~missed, ~overlap PROVE CleanInv'
    BY <2>0 DEF CleanInv
  <2>2. Loaded' = Loaded
    <3>1. Loaded = (IF final = None THEN NoImage ELSE content[final])
      BY <2>1, LoadedFile
    <3>2. final # None => content'[final] = content[final]
      <4>1. CASE OpenTemp(s)
        BY <4>1, OpenedFile DEF FileInv, TypeOK
      <4>2. CASE WriteTemp(s)
        <5>1. saver[s].file = temp /\ temp # None /\ temp # final
          BY <2>1, <4>2, WrittenFile DEF FileInv
        <5> QED BY <4>2, <5>1, WrittenFile DEF TypeOK
      <4> QED BY <1>7, <4>1, <4>2 DEF Writing
    <3>3. final # None => content[final] # Torn
      BY <2>1 DEF FileInv
    <3> QED BY <2>0, <3>1, <3>2, <3>3 DEF Loaded
  <2>3. \A t \in Savers : saver'[t] # Idle => saver'[t].image = schedules
    BY <2>0, <2>1 DEF CleanInv
  <2> QED BY <2>0, <2>1, <2>2, <2>3 DEF CleanInv
<1>8. ASSUME NEW s \in Savers, Rename(s) PROVE CleanInv'
  <2>0. /\ UNCHANGED <<schedules, missed, overlap, content>> /\ (phase' = "up" => phase = "up")
        /\ saver'[s] = Idle /\ \A t \in Savers \ {s} : saver'[t] = saver[t]
        /\ saver[s] # Idle
    <3>1. saver[s].at = "rename" /\ Saved(s) /\ UNCHANGED <<schedules, missed, overlap, content>>
      BY <1>8 DEF Rename
    <3>2. saver[s] # Idle
      BY <3>1 DEF Idle
    <3>3. phase' = "up" => phase = "up"
      BY <3>1 DEF Saved
    <3> QED BY <3>1, <3>2, <3>3, SaveOver
  <2>1. SUFFICES ASSUME phase = "up", ~missed, ~overlap PROVE CleanInv'
    BY <2>0 DEF CleanInv
  <2>2. /\ temp # None /\ final' = temp /\ content[temp] = saver[s].image /\ saver[s].image # Torn
        /\ saver[s].image = schedules
    BY <1>8, <2>0, <2>1, FileRenames DEF CleanInv
  <2>3. Loaded' = schedules
    BY <2>0, <2>2 DEF Loaded
  <2>4. \A t \in Savers : saver'[t] # Idle => saver'[t].image = schedules
    BY <2>0, <2>1 DEF CleanInv
  <2> QED BY <2>0, <2>3, <2>4 DEF CleanInv
<1>9. ASSUME NEW s \in Savers, SaveFails(s) PROVE CleanInv'
  <2>0. /\ UNCHANGED <<schedules, dirty, missed, overlap, temp, final, content>>
        /\ (phase' = "up" => phase = "up")
        /\ saver'[s] = Idle /\ \A t \in Savers \ {s} : saver'[t] = saver[t]
    BY <1>9, SaveOver DEF SaveFails, Saved
  <2> QED BY <2>0 DEF CleanInv, Loaded
<1>10. CASE Stop \/ Exit \/ Crash
  <2>1. phase' # "up"
    BY <1>10 DEF Stop, Exit, Crash, Ended
  <2> QED BY <2>1 DEF CleanInv
<1> QED BY <1>2, <1>3, <1>5, <1>6, <1>7, <1>8, <1>9, <1>10 DEF Next, Saving

\* When no operation is counted the file holds the schedules in memory, unless a
\* change was made while a save was under way or two saves overlapped.
THEOREM CleanAlwaysSaved == Spec => []CleanMeansSaved
<1>1. Init => CleanInv
  BY DEF Init, CleanInv
<1>2. (TypeOK /\ SaverInv) /\ (TypeOK /\ SaverInv)' /\ FileInv /\ FileInv' /\ CleanInv /\ [Next]_vars
        => CleanInv'
  <2> SUFFICES ASSUME TypeOK, SaverInv, SaverInv', FileInv, FileInv', CleanInv, [Next]_vars
               PROVE  CleanInv'
    OBVIOUS
  <2>1. CASE UNCHANGED vars
    BY <2>1 DEF vars, disk, CleanInv, Loaded
  <2> QED BY <2>1, CleanStep
<1>3. CleanInv => CleanMeansSaved
  BY DEF CleanInv, CleanMeansSaved
<1> QED BY <1>1, <1>2, <1>3, SaversInvariant, FilesInvariant, PTL DEF Spec
=============================================================================
