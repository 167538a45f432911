---------------------------- MODULE CronScheduler ----------------------------
(***************************************************************************)
(* The cron scheduler of the queue service.  Schedules are replaced and    *)
(* deleted while a tick walks over them and waits for the queue engine; a  *)
(* timer, never set anew by a change, decides when the next tick is; and   *)
(* the schedules are written to one file through one temporary file, by a  *)
(* snapshot loop and by stop(), which do not know of each other.           *)
(*                                                                         *)
(* A cron expression is the set of instants at which it is due; a schedule *)
(* that is disabled is due never.  What else is defined of a schedule (its *)
(* task and payload) only tells definitions apart.  lastRunMs decides      *)
(* nothing and is left out, and so is the saved nextRunMs, which start()   *)
(* overwrites.                                                             *)
(***************************************************************************)
EXTENDS Naturals, FiniteSets, FiniteSetsExt

CONSTANTS
  Ids,          \* schedule ids
  Defs,         \* definitions: [due |-> instants, payload |-> ...]
  None,         \* no schedule, no instant, no file
  Torn,         \* the content of a file that is not a whole snapshot
  Horizon,      \* bound: the last instant
  MaxSleep,     \* the longest pause between two ticks
  MaxChanges,   \* bound: upserts and deletes
  MaxTroubles   \* bound: stops, crashes, and calls that throw

ASSUME CronAssumption ==
  /\ \A d \in Defs : d.due \subseteq 1 .. Horizon
  /\ Horizon \in Nat /\ MaxSleep \in Nat \ {0}
  /\ None \notin Nat \cup Ids \cup Defs
  /\ Torn \notin [Ids -> Defs \cup {None}]

VARIABLES
  now,          \* the clock
  phase,        \* the process: "up", "stopping", "stopped" or "down"
  schedules,    \* each id: its definition, or None
  nextRun,      \* each id: when its schedule is due next, or None
  tick,         \* the tick loop: "armed", "walking", "waiting" or "off"
  wake,         \* when the armed tick is to run
  asOf,         \* the instant the tick under way began
  visited,      \* the ids it has passed
  current,      \* the id it is enqueuing for, or None once that was replaced
  dirty,        \* operationsSinceSnapshot > 0
  saver,        \* each saver: [at, image, file]
  temp, final,  \* the files under the two names, or None
  content,      \* what each file holds
  lastDue,      \* history: the last instant each id was enqueued for
  missed,       \* history: a change was made while a save was under way or after
                \* stop() was called, and no save has begun since
  overlap,      \* history: two saves were under way at the same time
  changes, troubles  \* bounded counters
walk == <<tick, wake, asOf, visited, current>>
disk == <<saver, temp, final, content>>
vars == <<now, phase, schedules, nextRun, walk, dirty, disk, lastDue, missed, overlap, changes, troubles>>

Instants == 0 .. Horizon
Savers == {"loop", "stop"}
Files == 1 .. 4
Image == [Ids -> Defs \cup {None}]
NoImage == [c \in Ids |-> None]
Idle == [at |-> "idle", image |-> NoImage, file |-> None]

\* (Mutant: an expression that is due no more is due past the end.)
EarliestOrLate(S) == Min(S \cup {Horizon + 1})

Earliest(S) == IF S = {} THEN None ELSE Min(S)

\* (Mutant: the present instant counts as the next one.)
DueFrom(def, t) == IF def = None THEN None ELSE Earliest({i \in def.due : i >= t})

\* updateNextRun: the next instant strictly after now.
DueAfter(def, t) == IF def = None THEN None ELSE Earliest({i \in def.due : i > t})

\* What loadSnapshot makes of the file: anything but a whole snapshot is empty.
Loaded == IF final = None \/ content[final] = Torn THEN NoImage ELSE content[final]

Trouble == troubles < MaxTroubles /\ troubles' = troubles + 1

\* The timer of a tick that ends: a schedule that came due meanwhile does not
\* count, and at most MaxSleep passes.
NextTick(next) ==
  Min({now + MaxSleep} \cup {next[c] : c \in {c \in Ids : next[c] # None /\ next[c] > now}})

Init ==
  /\ now = 0 /\ phase = "down"
  /\ schedules = NoImage /\ nextRun = [c \in Ids |-> None]
  /\ tick = "off" /\ wake = 0 /\ asOf = 0 /\ visited = {} /\ current = None
  /\ dirty = FALSE
  /\ saver = [s \in Savers |-> Idle]
  /\ temp = None /\ final = None
  /\ content = [f \in Files |-> Torn]
  /\ lastDue = [c \in Ids |-> 0]
  /\ missed = FALSE /\ overlap = FALSE
  /\ changes = 0 /\ troubles = 0

ClockTicks ==
  /\ now < Horizon /\ now' = now + 1
  /\ UNCHANGED <<phase, schedules, nextRun, walk, dirty, disk, lastDue, missed, overlap, changes, troubles>>

-----------------------------------------------------------------------------
(* Starting, changing and walking the schedules.                           *)

\* start(): load, compute every next run from now, and run the first tick.
Start ==
  /\ phase = "down"
  /\ phase' = "up"
  /\ schedules' = Loaded
  /\ nextRun' = [c \in Ids |-> DueAfter(Loaded[c], now)]
  /\ tick' = "walking" /\ asOf' = now /\ visited' = {}
  /\ current' = None /\ wake' = 0
  /\ dirty' = FALSE /\ missed' = FALSE
  /\ UNCHANGED <<now, disk, lastDue, overlap, changes, troubles>>

\* (Mutant: the operation is not counted.)
ChangedUncounted(c, def) ==
  /\ schedules' = [schedules EXCEPT ![c] = def]
  /\ nextRun' = [nextRun EXCEPT ![c] = DueAfter(def, now)]
  /\ current' = IF current = c THEN None ELSE current
  /\ UNCHANGED <<dirty, missed>>
  /\ changes < MaxChanges /\ changes' = changes + 1

\* A change takes the schedule's object away from a tick that is waiting.
Changed(c, def) ==
  /\ schedules' = [schedules EXCEPT ![c] = def]
  /\ nextRun' = [nextRun EXCEPT ![c] = DueAfter(def, now)]
  /\ current' = IF current = c THEN None ELSE current
  /\ dirty' = TRUE
  /\ missed' = (missed \/ phase # "up" \/ \E s \in Savers : saver[s] # Idle)
  /\ changes < MaxChanges /\ changes' = changes + 1

\* An upsert of the definition that is there already changes nothing.  Requests
\* are served until the process exits, stop() or not.
Upsert(c, def) ==
  /\ phase # "down" /\ schedules[c] # def
  /\ Changed(c, def)
  /\ UNCHANGED <<now, phase, tick, wake, asOf, visited, disk, lastDue, overlap, troubles>>

Delete(c) ==
  /\ phase # "down" /\ schedules[c] # None
  /\ Changed(c, None)
  /\ visited' = visited \ {c}
  /\ UNCHANGED <<now, phase, tick, wake, asOf, disk, lastDue, overlap, troubles>>

TimerFires ==
  /\ phase = "up" /\ tick = "armed"
  /\ now >= wake \/ now = Horizon
  /\ tick' = "walking" /\ asOf' = now /\ wake' = 0
  /\ UNCHANGED <<now, phase, schedules, nextRun, visited, current, dirty, disk>>
  /\ UNCHANGED <<lastDue, missed, overlap, changes, troubles>>

IsDue(c) == nextRun[c] # None /\ nextRun[c] <= asOf

\* processDueSchedules reaches a schedule that is due and calls enqueue.
CallEnqueue(c) ==
  /\ tick = "walking" /\ c \notin visited /\ IsDue(c)
  /\ tick' = "waiting" /\ current' = c
  /\ visited' = visited \cup {c}
  /\ lastDue' = [lastDue EXCEPT ![c] = nextRun[c]]
  /\ UNCHANGED <<now, phase, schedules, nextRun, wake, asOf, dirty, disk, missed, overlap, changes, troubles>>

\* The next run is computed on the object the walk holds, in the map or not.
Rescheduled ==
  nextRun' = IF current = None THEN nextRun
             ELSE [nextRun EXCEPT ![current] = DueAfter(schedules[current], now)]

\* The job is in the queue.
EnqueueReturns ==
  /\ tick = "waiting" /\ tick' = "walking"
  /\ Rescheduled
  /\ current' = None
  /\ dirty' = TRUE
  /\ UNCHANGED <<now, phase, schedules, wake, asOf, visited, disk, lastDue, missed, overlap>>
  /\ UNCHANGED <<changes, troubles>>

\* (Mutant: the error ends the tick loop.)
EnqueueThrowsUncaught ==
  /\ tick = "waiting" /\ tick' = "off"
  /\ Trouble
  /\ current' = None
  /\ UNCHANGED <<now, phase, schedules, nextRun, wake, asOf, visited, dirty, disk, lastDue, missed>>
  /\ UNCHANGED <<overlap, changes>>

\* The enqueue throws: this run is skipped.
EnqueueThrows ==
  /\ tick = "waiting" /\ tick' = "walking"
  /\ Trouble
  /\ Rescheduled
  /\ current' = None
  /\ UNCHANGED <<now, phase, schedules, wake, asOf, visited, dirty, disk, lastDue, missed>>
  /\ UNCHANGED <<overlap, changes>>

\* Every schedule was passed: the timer is armed, even after a stop().
TickEnds ==
  /\ tick = "walking" /\ \A c \in Ids : c \in visited \/ ~IsDue(c)
  /\ tick' = "armed" /\ wake' = NextTick(nextRun) /\ visited' = {} /\ asOf' = 0
  /\ UNCHANGED <<now, phase, schedules, nextRun, current, dirty, disk>>
  /\ UNCHANGED <<lastDue, missed, overlap, changes, troubles>>

-----------------------------------------------------------------------------
(* Saving.                                                                 *)

\* saveSnapshot is called: the image is taken at once.
BeginSave(s) ==
  /\ saver' = [saver EXCEPT ![s] = [at |-> "deflate", image |-> schedules, file |-> None]]
  /\ missed' = FALSE
  /\ overlap' = (overlap \/ \E t \in Savers \ {s} : saver[t] # Idle)

LoopSaves ==
  /\ phase = "up" /\ saver["loop"] = Idle /\ dirty
  /\ BeginSave("loop")
  /\ UNCHANGED <<now, phase, schedules, nextRun, walk, dirty, temp, final, content, lastDue>>
  /\ UNCHANGED <<changes, troubles>>

\* A file nobody has under a name or open.
NewFile == CHOOSE f \in Files : f \notin {temp, final} \cup {saver[s].file : s \in Savers}

\* (Mutant: the snapshot is written in place.)
OpenInPlace(s) ==
  /\ saver[s].at = "deflate"
  /\ final' = IF final = None THEN NewFile ELSE final
  /\ saver' = [saver EXCEPT ![s].at = "write", ![s].file = final']
  /\ content' = [content EXCEPT ![final'] = Torn]
  /\ UNCHANGED temp

\* fs.writeFile opens the temporary file and truncates it.
OpenTemp(s) ==
  /\ saver[s].at = "deflate"
  /\ temp' = IF temp = None THEN NewFile ELSE temp
  /\ saver' = [saver EXCEPT ![s].at = "write", ![s].file = temp']
  /\ content' = [content EXCEPT ![temp'] = Torn]
  /\ UNCHANGED final

\* It writes from offset zero; on top of what another save has written since,
\* a longer tail may remain.
WriteTemp(s) ==
  LET f == saver[s].file IN
  /\ saver[s].at = "write"
  /\ content' \in {[content EXCEPT ![f] = i] :
       i \in {saver[s].image} \cup (IF content[f] = Torn THEN {} ELSE {Torn})}
  /\ saver' = [saver EXCEPT ![s].at = "rename"]
  /\ UNCHANGED <<temp, final>>

Writing(s) ==
  /\ phase # "down"
  /\ OpenTemp(s) \/ WriteTemp(s)
  /\ UNCHANGED <<now, phase, schedules, nextRun, walk, dirty, lastDue, missed, overlap, changes, troubles>>

\* The save is over, and with stop()'s save stop() returns.
Saved(s) ==
  /\ saver' = [saver EXCEPT ![s] = Idle]
  /\ phase' = IF s = "stop" THEN "stopped" ELSE phase

\* The renamed file replaces the old one, and the count of operations starts
\* over.  If the other save has renamed the file already there is none: that
\* error is only logged.
Rename(s) ==
  /\ phase # "down" /\ saver[s].at = "rename"
  /\ IF temp = None THEN UNCHANGED <<final, dirty>> ELSE final' = temp /\ dirty' = FALSE
  /\ temp' = None
  /\ Saved(s)
  /\ UNCHANGED <<now, schedules, nextRun, walk, content, lastDue, missed, overlap, changes, troubles>>

\* So is any other error of a save.
SaveFails(s) ==
  /\ phase # "down" /\ saver[s] # Idle /\ Trouble
  /\ Saved(s)
  /\ UNCHANGED <<now, schedules, nextRun, walk, dirty, temp, final, content, lastDue>>
  /\ UNCHANGED <<missed, overlap, changes>>

-----------------------------------------------------------------------------
(* The end of the process.                                                 *)

\* stop(): the timers are cleared, a tick under way goes on.
Stop ==
  /\ phase = "up" /\ Trouble
  /\ phase' = "stopping"
  /\ tick' = IF tick = "armed" THEN "off" ELSE tick
  /\ BeginSave("stop")
  /\ UNCHANGED <<now, schedules, nextRun, wake, asOf, visited, current>>
  /\ UNCHANGED <<dirty, temp, final, content, lastDue, changes>>

Ended ==
  /\ phase' = "down" /\ tick' = "off"
  /\ schedules' = NoImage /\ nextRun' = [c \in Ids |-> None]
  /\ current' = None /\ visited' = {} /\ asOf' = 0 /\ wake' = 0
  /\ dirty' = FALSE
  /\ saver' = [s \in Savers |-> Idle]
  /\ missed' = FALSE
  /\ UNCHANGED <<now, temp, final, content, lastDue, overlap, changes>>

Exit == phase = "stopped" /\ Ended /\ UNCHANGED troubles
Crash == phase \in {"up", "stopping"} /\ Ended /\ Trouble

-----------------------------------------------------------------------------
Step == EnqueueReturns \/ EnqueueThrows \/ TickEnds \/ TimerFires \/ \E c \in Ids : CallEnqueue(c)

Saving == LoopSaves \/ \E s \in Savers : Writing(s) \/ Rename(s) \/ SaveFails(s)

Next ==
  \/ ClockTicks
  \/ Start \/ Stop \/ Exit \/ Crash
  \/ \E c \in Ids : Delete(c) \/ \E def \in Defs : Upsert(c, def)
  \/ Step
  \/ Saving

Spec == Init /\ [][Next]_vars

\* Timers fire, awaited calls return, and a service that is down is started.
FairSpec ==
  Spec /\ WF_vars(ClockTicks) /\ WF_vars(Start) /\ WF_vars(Step) /\ WF_vars(Saving)

-----------------------------------------------------------------------------
(* Properties.                                                             *)

\* Every variable has its type.
TypeOK ==
  /\ now \in Instants
  /\ phase \in {"up", "stopping", "stopped", "down"}
  /\ schedules \in Image
  /\ nextRun \in [Ids -> Instants \cup {None}]
  /\ tick \in {"armed", "walking", "waiting", "off"}
  /\ wake \in 0 .. Horizon + MaxSleep /\ asOf \in Instants
  /\ visited \subseteq Ids /\ current \in Ids \cup {None}
  /\ dirty \in BOOLEAN /\ missed \in BOOLEAN /\ overlap \in BOOLEAN
  /\ saver \in [Savers -> [at : {"idle", "deflate", "write", "rename"},
                           image : Image, file : Files \cup {None}]]
  /\ temp \in Files \cup {None} /\ final \in Files \cup {None}
  /\ content \in [Files -> Image \cup {Torn}]
  /\ lastDue \in [Ids -> Instants]

\* A schedule is never due again at an instant it was enqueued for, or before
\* it, whatever is replaced, deleted, saved, loaded or restarted meanwhile:
\* each of its runs is enqueued at most once.
OncePerInstant ==
  \A c \in Ids : nextRun[c] # None /\ current # c => nextRun[c] > lastDue[c]

\* The file is a whole snapshot, wherever a save was cut, unless two saves were
\* under way at once (saveSnapshot 343-356 of the loop and of stop()).
FileIsWhole == final # None /\ content[final] = Torn => overlap

\* Between saves, when no operation is counted, the file holds exactly the
\* schedules in memory, unless a change was made while the last save was under
\* way: its count is then wiped out with the others (saveSnapshot 358).
CleanMeansSaved ==
  phase = "up" /\ ~dirty /\ (\A s \in Savers : saver[s] = Idle)
    => Loaded = schedules \/ missed \/ overlap

\* What has come due is enqueued or skipped by an error, unless the schedule is
\* changed or the process ends: no order of changes and ticks stalls the loop.
Overdue(c) == phase = "up" /\ nextRun[c] # None /\ nextRun[c] <= now
DueRunsEventually == \A c \in Ids : Overdue(c) ~> ~Overdue(c)

\* stop() saves: once it has returned, the file holds the schedules (the test
\* "should persist and restore schedules"), if none was changed since its call.
StopSaves == phase = "stopped" => Loaded = schedules \/ missed
=============================================================================
