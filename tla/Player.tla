-------------------------------- MODULE Player --------------------------------
(***************************************************************************)
(* The player page: one game's battery save from the core to the disk, and *)
(* its play clock.  The page is one JavaScript thread; its handlers and    *)
(* timers leave jobs behind, chains of awaits, and between any two of them *)
(* another handler, a frame or the timer may run.                          *)
(*                                                                         *)
(* Abstractions.  A save is the dirtyGeneration it was copied at; 0 is the *)
(* save on disk when the page is opened.  A commit takes effect on disk    *)
(* in one step, when it returns (LocalSave has its calls).  A tick is the  *)
(* unit of time.  Sound, video, input and the contents of state saves are  *)
(* left out; an await of the audio context is a step without an effect.    *)
(***************************************************************************)
EXTENDS Integers, Sequences, FiniteSets

CONSTANTS
  Procs,   \* bound: jobs that are under way at once
  MaxGen,  \* bound: generations of the save memory
  Delay,   \* ticks until a scheduled save, 5 seconds
  Faults   \* "commit": a commit fails, "core": runFrame throws, "clock": the clock is set back

ASSUME PlayerAssumption ==
  MaxGen \in Nat /\ Delay \in Nat \ {0} /\ Faults \subseteq {"commit", "core", "clock"}

VARIABLES
  load,      \* where the effect that opens the page is: "open", "battery", "choose", "done",
             \* "failed", or "error" after a frame
  core,      \* coreRef: "none" or "live"
  battery,   \* the core has the save of the disk
  gen, last, \* the core's dirtyGeneration, and lastGeneration
  disk,      \* the generation of the save on disk
  running,   \* runningRef
  closed,    \* destroyedRef
  left,      \* the page has been unloaded: cancelled
  visible,   \* the app is in the foreground
  timer,     \* saveTimer: ticks to go, or 0
  job,       \* each job: what began it, the stages to go, the generation its commit copied
  auto,      \* autoStateInFlight
  clock,     \* the PlaySessionTracker: "none", "active" or "still"
  counted,   \* history: time in which no frame could run was counted as played
  blank,     \* history: a core without the save of the disk was committed
  void       \* history: of "final", "save" and "clock", what the code no longer promises

page == <<load, core, battery, visible, left>>
save == <<gen, last, disk, blank>>
play == <<running, closed, auto, clock, counted>>
vars == <<page, save, play, timer, job, void>>

NoJob == [kind |-> "none", stages |-> <<>>, gen |-> 0]
Stages == {"pause", "start", "flush", "commit", "auto", "state", "check", "close"}
Kinds == {"none", "timer", "hide", "exit", "error", "auto", "menu", "resume"}

Init ==
  /\ load = "open" /\ core = "none" /\ battery = FALSE
  /\ gen = 0 /\ last = 0 /\ disk = 0 /\ blank = FALSE
  /\ running = FALSE /\ closed = FALSE /\ left = FALSE /\ visible = TRUE
  /\ timer = 0 /\ job = [p \in Procs |-> NoJob] /\ auto = FALSE
  /\ clock = "none" /\ counted = FALSE /\ void = {}

Idle(p) == job[p].stages = <<>>
Quiet == \A p \in Procs : Idle(p)
Leaving == closed \/ \E p \in Procs : job[p].kind = "exit"
Enter(p, kind, stages) ==
  Idle(p) /\ job' = [job EXCEPT ![p] = [kind |-> kind, stages |-> stages, gen |-> 0]]
At(p, stage) == ~Idle(p) /\ Head(job[p].stages) = stage
Left(p, stages) == IF stages = <<>> THEN NoJob ELSE [job[p] EXCEPT !.stages = stages]
Pop(p) == job' = [job EXCEPT ![p] = Left(p, Tail(job[p].stages))]
Become(p, stage) == job' = [job EXCEPT ![p].stages = <<stage>> \o Tail(@)]
Void(x) == void' = void \cup x

------------------------------------------------------------------------------
(* Opening the page. *)

\* MgbaWxCore.instantiate, loadRom: too late, the core is destroyed again.
OpenCore ==
  /\ load = "open"
  /\ IF left THEN load' = "failed" /\ core' = core ELSE load' = "battery" /\ core' = "live"
  /\ UNCHANGED <<battery, visible, left, save, play, timer, job, void>>
\* The battery save; a core that was destroyed meanwhile refuses it.
LoadBattery ==
  /\ load = "battery"
  /\ IF core = "live"
     THEN load' = "choose" /\ battery' = TRUE /\ last' = gen
     ELSE load' = "failed" /\ UNCHANGED <<battery, last>>
  /\ UNCHANGED <<core, visible, left, gen, disk, blank, play, timer, job, void>>
\* The choice of how to start, then startLoop.
Ready ==
  /\ load = "choose"
  /\ load' = IF core = "live" THEN "done" ELSE "failed"
  /\ UNCHANGED <<core, battery, visible, left, save, play, timer, job, void>>
LoadFails ==
  /\ load \in {"open", "battery", "choose"} /\ load' = "failed"
  /\ UNCHANGED <<core, battery, visible, left, save, play, timer, job, void>>

------------------------------------------------------------------------------
(* The loop: a tick runs frames while the game runs, and is time in any case. *)

Ticking == load \in {"done", "error"} /\ ~closed /\ visible
Runs == Ticking /\ running /\ core = "live"
StopClock == clock' = IF clock = "active" THEN "still" ELSE clock
Waited == counted' = (counted \/ (clock = "active" /\ Quiet))
Countdown == timer # 1 /\ timer' = IF timer = 0 THEN 0 ELSE timer - 1

\* scheduleSave, with every frame: the timer starts again while anything is unsaved.
Frame ==
  /\ Runs
  /\ gen' \in {gen, gen + 1} /\ gen' <= MaxGen
  /\ IF gen' # last THEN timer' = Delay ELSE Countdown
  /\ UNCHANGED <<page, last, disk, blank, play, job, void>>
\* runFrame throws: the game stops, its save and its play time are kept.
CoreError(p) ==
  /\ Runs /\ "core" \in Faults
  /\ running' = FALSE /\ StopClock /\ load' = "error"
  /\ Enter(p, "error", <<"flush">>)
  /\ UNCHANGED <<core, battery, visible, left, save, closed, auto, counted, timer, void>>
\* A clock set back by more than five minutes stops the game, and not the play clock.
ClockRollback ==
  /\ Runs /\ "clock" \in Faults
  /\ running' = FALSE /\ Void({"clock"})
  /\ UNCHANGED <<page, save, closed, auto, clock, counted, timer, job>>
AutoStateDue(p) ==
  /\ Runs /\ Enter(p, "auto", <<"auto">>)
  /\ UNCHANGED <<page, save, play, timer, void>>
IdleTick ==
  /\ Ticking /\ ~Runs /\ Countdown /\ Waited
  /\ UNCHANGED <<page, save, running, closed, auto, clock, job, void>>
TimerFires(p) ==
  /\ timer = 1 /\ timer' = 0
  /\ Enter(p, "timer", <<"flush">>)
  /\ UNCHANGED <<page, save, play, void>>

------------------------------------------------------------------------------
(* The user and the phone. *)

Present == visible /\ ~left
\* begin, and togglePause while paused.
Resume(p) ==
  /\ Present /\ load = "done" /\ ~running
  /\ Enter(p, "resume", <<"start">>)
  /\ UNCHANGED <<page, save, play, timer, void>>
\* togglePause while running, pauseForMenu before a state is saved or loaded, reset.
Menu(p) ==
  /\ Present /\ running' = FALSE
  /\ Enter(p, "menu", <<"pause", "check">>)
  /\ UNCHANGED <<page, save, closed, auto, clock, counted, timer, void>>
\* persistForBackground, as the app is hidden or a call takes the audio.
Background(p) ==
  /\ Present /\ visible' \in BOOLEAN /\ running' = FALSE
  /\ Enter(p, "hide", <<"pause", "flush", "auto", "check">>)
  /\ UNCHANGED <<load, core, battery, left, save, closed, auto, clock, counted, timer, void>>
Show ==
  /\ ~visible /\ visible' = TRUE /\ Waited
  /\ UNCHANGED <<load, core, battery, left, save, running, closed, auto, clock, timer, job, void>>
\* shutdown, by the exit button and by leaving the page.
Shutdown(p) ==
  /\ ~left /\ ~closed
  /\ left' \in (IF visible THEN BOOLEAN ELSE {TRUE})
  /\ running' = FALSE /\ timer' = 0
  /\ Enter(p, "exit", <<"flush", "auto", "check", "pause", "close">>)
  /\ UNCHANGED <<load, core, battery, visible, save, closed, auto, clock, counted, void>>
Unload ==
  /\ closed /\ ~left /\ left' = TRUE
  /\ UNCHANGED <<load, core, battery, visible, save, play, timer, job, void>>

------------------------------------------------------------------------------
(* The stages of the jobs. *)

\* An error ends a job, that of the background with the play clock running; shutdown goes on.
Fail(p, lost) ==
  /\ IF job[p].kind = "exit" THEN Pop(p) ELSE job' = [job EXCEPT ![p] = NoJob]
  /\ Void(lost \cup IF job[p].kind = "hide" THEN {"clock"} ELSE {})

AudioPaused(p) ==
  At(p, "pause") /\ Pop(p) /\ UNCHANGED <<page, save, play, timer, void>>
\* The end of begin: the game runs, whatever happened while the audio started.
AudioStarted(p) ==
  /\ At(p, "start") /\ Pop(p)
  /\ running' = TRUE /\ clock' = "active"
  /\ Void(IF Leaving THEN {"final", "save", "clock"}
          ELSE IF visible /\ \A q \in Procs : job[q].kind \notin {"hide", "menu"} THEN {}
          ELSE {"clock"})
  /\ UNCHANGED <<page, save, closed, auto, counted, timer>>

FlushM(p) == \* the generation is not compared
  /\ At(p, "flush")
  /\ IF core = "live"
     THEN /\ job' = [job EXCEPT ![p].stages = <<"commit">> \o Tail(@), ![p].gen = gen]
          /\ blank' = (blank \/ ~battery)
     ELSE Pop(p) /\ blank' = blank
  /\ UNCHANGED <<page, gen, last, disk, play, timer, void>>
\* flushBattery copies the save memory at once, and waits for the commit.
Flush(p) ==
  /\ At(p, "flush")
  /\ IF core = "live" /\ gen # last
     THEN /\ job' = [job EXCEPT ![p].stages = <<"commit">> \o Tail(@), ![p].gen = gen]
          /\ blank' = (blank \/ ~battery)
     ELSE Pop(p) /\ blank' = blank
  /\ UNCHANGED <<page, gen, last, disk, play, timer, void>>
CommittedM(p) == \* lastGeneration is what the core has by now
  /\ At(p, "commit") /\ Pop(p)
  /\ disk' = job[p].gen /\ last' = gen
  /\ Void(IF job[p].gen >= disk THEN {} ELSE IF Leaving THEN {"final", "save"} ELSE {"save"})
  /\ UNCHANGED <<page, gen, blank, play, timer>>
Committed(p) ==
  /\ At(p, "commit") /\ Pop(p)
  /\ disk' = job[p].gen /\ last' = job[p].gen
  /\ Void(IF job[p].gen >= disk THEN {} ELSE IF Leaving THEN {"final", "save"} ELSE {"save"})
  /\ UNCHANGED <<page, gen, blank, play, timer>>
CommitFails(p) ==
  /\ At(p, "commit") /\ "commit" \in Faults
  /\ Fail(p, IF job[p].kind = "exit" THEN {"final", "save"} ELSE {"save"})
  /\ UNCHANGED <<page, save, play, timer>>

AutoStateM(p) == \* the flag is not looked at
  /\ At(p, "auto")
  /\ IF core = "live" THEN Become(p, "state") /\ auto' = TRUE ELSE Pop(p) /\ auto' = auto
  /\ UNCHANGED <<page, save, running, closed, clock, counted, timer, void>>
\* commitAutoState
AutoState(p) ==
  /\ At(p, "auto")
  /\ IF core = "live" /\ ~auto THEN Become(p, "state") /\ auto' = TRUE ELSE Pop(p) /\ auto' = auto
  /\ UNCHANGED <<page, save, running, closed, clock, counted, timer, void>>
StateCommitted(p) ==
  /\ At(p, "state") /\ auto' = FALSE
  /\ \/ Pop(p) /\ UNCHANGED void
     \/ "commit" \in Faults /\ Fail(p, {})
  /\ UNCHANGED <<page, save, running, closed, clock, counted, timer>>

CheckpointM(p) == \* the session is written, the clock runs on
  At(p, "check") /\ Pop(p) /\ UNCHANGED <<page, save, play, timer, void>>
\* checkpointPlay stops the play clock.
Checkpoint(p) ==
  /\ At(p, "check") /\ Pop(p) /\ StopClock
  /\ UNCHANGED <<page, save, running, closed, auto, counted, timer, void>>
\* The end of shutdown.
Close(p) ==
  /\ At(p, "close") /\ Pop(p)
  /\ core' = "none" /\ closed' = TRUE
  /\ UNCHANGED <<load, battery, visible, left, save, running, auto, clock, counted, timer, void>>

------------------------------------------------------------------------------
JobStep(p) ==
  \/ AudioPaused(p) \/ AudioStarted(p) \/ Flush(p) \/ Committed(p) \/ CommitFails(p)
  \/ AutoState(p) \/ StateCommitted(p) \/ Checkpoint(p) \/ Close(p)
Loading == OpenCore \/ LoadBattery \/ Ready \/ LoadFails
Next ==
  \/ Loading \/ Frame \/ ClockRollback \/ IdleTick \/ Show \/ Unload
  \/ \E p \in Procs :
       \/ CoreError(p) \/ AutoStateDue(p) \/ TimerFires(p)
       \/ Resume(p) \/ Menu(p) \/ Background(p) \/ Shutdown(p) \/ JobStep(p)

\* Awaits end, and ticks come while the page is shown.  A timer that is due fires: strongly
\* fair, as it waits for one of Procs here, and for nothing in the code.
Fairness ==
  /\ \A p \in Procs : WF_vars(JobStep(p))
  /\ WF_vars(Frame \/ IdleTick)
  /\ SF_vars(\E p \in Procs : TimerFires(p))
Spec == Init /\ [][Next]_vars /\ Fairness

------------------------------------------------------------------------------
(* Properties. *)

\* The shape of the state; autoStateInFlight tells of the one automatic state under way.
TypeOK ==
  /\ load \in {"open", "battery", "choose", "done", "failed", "error"} /\ core \in {"none", "live"}
  /\ gen \in 0 .. MaxGen /\ last \in 0 .. gen /\ disk \in 0 .. gen /\ timer \in 0 .. Delay
  /\ \A p \in Procs : /\ job[p].kind \in Kinds /\ job[p].gen \in 0 .. gen
                      /\ \A i \in DOMAIN job[p].stages : job[p].stages[i] \in Stages
  /\ Cardinality({p \in Procs : At(p, "state")}) = (IF auto THEN 1 ELSE 0)
  /\ clock \in {"none", "active", "still"}

\* docs/04:224, "leaving safely bypasses the delay": when the page has closed, the last
\* change of the save memory is on disk, whatever failed before, unless the last commit
\* failed, an older one ended after it, or the game was resumed while the page closed.
FinalSaved == closed /\ "final" \notin void => disk = gen

\* A core that does not have the save of the disk yet never replaces it, though the app is
\* hidden or the page left while it loads.
BlankNeverSaved == ~blank

\* docs/01:231, time in the background or paused is not counted as played, unless the clock
\* was set back, a commit failed as the app was hidden, or the game began meanwhile.
PausedTimeNotCounted == "clock" \notin void => ~counted

\* Once the game stands still, its last change reaches the disk: by the timer, by the
\* background or by leaving, if no commit fails or overtakes another.
SavedOnceStill == <>[](~running /\ "save" \notin void) => <>[](disk = gen)
=============================================================================
