----------------------------- MODULE PlayerProofs -----------------------------
(***************************************************************************)
(* The player page keeps its promises about the save and the play clock,   *)
(* whatever jobs are under way at once and in whatever order their stages  *)
(* come.  The proofs follow no order but two facts about the stages of a   *)
(* job: "close" is the last one, and "state" is never waiting.             *)
(***************************************************************************)
EXTENDS Player, FiniteSetTheorems, TLAPS

------------------------------------------------------------------------------
(* The inductive invariant. *)

Job == [kind : Kinds, stages : Seq(Stages), gen : Nat]
Pending(p, x) == \E i \in DOMAIN job[p].stages : job[p].stages[i] = x

\* The types that the proofs need; TypeOK says less of the jobs.
Types ==
  /\ load \in {"open", "battery", "choose", "done", "failed", "error"} /\ core \in {"none", "live"}
  /\ gen \in 0 .. MaxGen /\ last \in 0 .. gen /\ disk \in 0 .. gen /\ timer \in 0 .. Delay
  /\ job \in [Procs -> Job] /\ \A p \in Procs : job[p].gen <= gen
  /\ clock \in {"none", "active", "still"}

\* Where the stages of a job stand, and what they tell of it.
Placed(p) ==
  \A i \in DOMAIN job[p].stages :
    /\ job[p].stages[i] = "close" => i = Len(job[p].stages)
    /\ job[p].stages[i] = "state" => i = 1
Jobs ==
  \A p \in Procs :
    /\ Placed(p)
    /\ Pending(p, "close") <=> job[p].kind = "exit"
    /\ Pending(p, "check") => job[p].kind \in {"hide", "exit", "menu"}
    /\ Pending(p, "start") => load \in {"done", "error"}
    /\ job[p].kind = "menu" => ~Pending(p, "commit") /\ ~Pending(p, "flush")
                               /\ ~Pending(p, "state") /\ ~Pending(p, "auto")

\* autoStateInFlight tells of the one automatic state under way.
OneState ==
  /\ auto <=> \E p \in Procs : At(p, "state")
  /\ \A p, q \in Procs : At(p, "state") /\ At(q, "state") => p = q

\* Until the core has the save of the disk nothing has changed and nothing is copied; once it
\* has, only the end of shutdown takes the core away.
Opening ==
  /\ load \in {"open", "battery"} => ~battery
  /\ load \in {"choose", "done", "error"} => battery
  /\ ~battery => gen = 0 /\ \A p \in Procs : job[p].gen = 0
  /\ core = "none" /\ battery => closed

\* A page that is being left stands still, unless something the code does not promise about.
Stands == Leaving /\ ~({"final", "clock"} \subseteq void) => ~running

\* The last change is on disk, or its copy is being committed, or still to be made.
Final ==
  "final" \notin void =>
    /\ closed => disk = gen
    /\ \A p \in Procs : job[p].kind = "exit" =>
         Pending(p, "flush") \/ (Pending(p, "commit") /\ job[p].gen = gen) \/ disk = gen

\* While the clock runs, the game runs, or a job is on its way to stop the clock.
Stops ==
  "clock" \notin void /\ clock = "active" =>
    \/ running /\ visible /\ core = "live" /\ ~closed /\ load \in {"done", "error"}
    \/ \E p \in Procs : Pending(p, "check")

PInv == /\ Types /\ Jobs /\ OneState /\ Opening /\ last = disk /\ Stands /\ Final /\ Stops
        /\ BlankNeverSaved /\ PausedTimeNotCounted

------------------------------------------------------------------------------
(* Sequences of stages. *)

LEMMA TailOf ==
  ASSUME NEW S, NEW s \in Seq(S), s # <<>>
  PROVE  /\ Len(s) \in Nat \ {0} /\ Head(s) = s[1] /\ s[1] \in S
         /\ Tail(s) \in Seq(S) /\ Len(Tail(s)) = Len(s) - 1
         /\ \A i \in 1 .. Len(s) - 1 : Tail(s)[i] = s[i + 1]
OBVIOUS

LEMMA InFront ==
  ASSUME NEW S, NEW s \in Seq(S), s # <<>>, NEW x \in S
  PROVE  /\ <<x>> \o Tail(s) \in Seq(S) /\ Len(<<x>> \o Tail(s)) = Len(s)
         /\ (<<x>> \o Tail(s))[1] = x
         /\ \A i \in 2 .. Len(s) : (<<x>> \o Tail(s))[i] = s[i]
<1>1. /\ Len(s) \in Nat \ {0} /\ Tail(s) \in Seq(S) /\ Len(Tail(s)) = Len(s) - 1
      /\ \A i \in 1 .. Len(s) - 1 : Tail(s)[i] = s[i + 1]
  BY TailOf
<1>2. <<x>> \in Seq(S) /\ Len(<<x>>) = 1 /\ <<x>>[1] = x
  OBVIOUS
<1> DEFINE t == Tail(s)
<1> HIDE DEF t
<1>3. /\ <<x>> \o t \in Seq(S) /\ Len(<<x>> \o t) = 1 + Len(t)
      /\ \A i \in 1 .. Len(<<x>> \o t) : (<<x>> \o t)[i] = IF i <= 1 THEN <<x>>[i] ELSE t[i - 1]
  BY <1>1, <1>2 DEF t
<1> QED BY <1>1, <1>2, <1>3 DEF t

------------------------------------------------------------------------------
(* How the jobs change. *)

\* p has done with its first stage, and others are still to come.
GoesOn(p) ==
  /\ \A x : Pending(p, x)' => Pending(p, x)
  /\ \A x : Pending(p, x) /\ ~At(p, x) => Pending(p, x)'
  /\ \/ job'[p].kind = job[p].kind /\ job'[p].gen = job[p].gen /\ ~Idle(p)'
     \/ job'[p] = NoJob /\ \A x : Pending(p, x) => At(p, x)
  /\ ~At(p, "state")'

LEMMA PopEffect ==
  ASSUME job \in [Procs -> Job], NEW p \in Procs, ~Idle(p), Placed(p), Pop(p)
  PROVE  job' \in [Procs -> Job] /\ (\A q \in Procs \ {p} : job'[q] = job[q]) /\ GoesOn(p) /\ Placed(p)'
<1> PICK s \in Seq(Stages) : s = job[p].stages
  BY DEF Job
<1>1. s # <<>> /\ job[p].gen \in Nat
  BY DEF Idle, Job
<1>2. /\ Len(s) \in Nat \ {0} /\ Head(s) = s[1] /\ DOMAIN s = 1 .. Len(s)
      /\ Tail(s) \in Seq(Stages) /\ Len(Tail(s)) = Len(s) - 1 /\ DOMAIN Tail(s) = 1 .. Len(s) - 1
      /\ \A i \in 1 .. Len(s) - 1 : Tail(s)[i] = s[i + 1]
  BY <1>1, TailOf
<1> PICK t \in Seq(Stages) : t = Tail(s)
  BY <1>2
<1>3. job' = [job EXCEPT ![p] = IF t = <<>> THEN NoJob ELSE [job[p] EXCEPT !.stages = t]]
  BY DEF Pop, Left
<1>4. NoJob \in Job /\ NoJob.stages = <<>> /\ DOMAIN NoJob.stages = {}
  BY DEF NoJob, Job, Kinds
<1>5. /\ [job[p] EXCEPT !.stages = t] \in Job /\ [job[p] EXCEPT !.stages = t].stages = t
      /\ [job[p] EXCEPT !.stages = t].kind = job[p].kind /\ [job[p] EXCEPT !.stages = t].gen = job[p].gen
  BY DEF Job
<1>6. /\ job' \in [Procs -> Job] /\ \A q \in Procs \ {p} : job'[q] = job[q]
      /\ job'[p].stages = t
      /\ t = <<>> => job'[p] = NoJob
      /\ t # <<>> => job'[p].kind = job[p].kind /\ job'[p].gen = job[p].gen
  BY <1>3, <1>4, <1>5
<1>7. \A x : Pending(p, x) <=> \E i \in 1 .. Len(s) : s[i] = x
  BY <1>2 DEF Pending
<1>8. \A x : Pending(p, x)' <=> \E i \in 1 .. Len(s) - 1 : t[i] = x
  <2>1. DOMAIN t = 1 .. Len(s) - 1
    BY <1>2
  <2> QED BY <1>6, <2>1 DEF Pending
<1>9. \A x : At(p, x) <=> s[1] = x
  BY <1>1, <1>2 DEF At, Idle
<1>10. \A i \in 1 .. Len(s) - 1 : i + 1 \in 1 .. Len(s) /\ t[i] = s[i + 1]
  BY <1>2
<1>11. \A i \in 1 .. Len(s) : i # 1 => i - 1 \in 1 .. Len(s) - 1 /\ t[i - 1] = s[i]
  <2> SUFFICES ASSUME NEW i \in 1 .. Len(s), i # 1
               PROVE  i - 1 \in 1 .. Len(s) - 1 /\ t[i - 1] = s[i]
    OBVIOUS
  <2>1. i - 1 \in 1 .. Len(s) - 1 /\ (i - 1) + 1 = i
    BY <1>2
  <2> QED BY <2>1, <1>10
<1>12. ASSUME NEW x, Pending(p, x), ~At(p, x) PROVE Pending(p, x)'
  <2>1. PICK i \in 1 .. Len(s) : s[i] = x
    BY <1>7, <1>12
  <2>2. i # 1
    BY <1>9, <1>12, <2>1
  <2>3. \E k \in 1 .. Len(s) - 1 : t[k] = x
    BY <1>11, <2>1, <2>2
  <2> QED BY <1>8, <2>3
<1>13. t = <<>> => Len(s) = 1
  <2>1. t = <<>> => Len(t) = 0
    OBVIOUS
  <2>2. Len(t) = Len(s) - 1
    BY <1>2
  <2> QED BY <1>2, <2>1, <2>2
<1>14. \A i \in 1 .. Len(s) : (s[i] = "close" => i = Len(s)) /\ (s[i] = "state" => i = 1)
  BY <1>2 DEF Placed
<1>15. Placed(p)' /\ ~At(p, "state")'
  <2>1. \A i \in 1 .. Len(s) - 1 : t[i] # "state" /\ (t[i] = "close" => i = Len(t))
    BY <1>2, <1>10, <1>14
  <2> QED BY <1>2, <1>6, <2>1 DEF Placed, At, Idle
<1>16. ASSUME NEW x, Pending(p, x)' PROVE Pending(p, x)
  <2>1. PICK i \in 1 .. Len(s) - 1 : t[i] = x
    BY <1>8, <1>16
  <2>2. i + 1 \in 1 .. Len(s) /\ s[i + 1] = x
    BY <1>10, <2>1
  <2> QED BY <1>7, <2>2
<1>17. t = <<>> => \A x : Pending(p, x) => At(p, x)
  BY <1>7, <1>9, <1>13
<1> QED BY <1>6, <1>12, <1>15, <1>16, <1>17 DEF GoesOn, Idle

\* p leaves its first stage for x, which it is at then.
TurnsTo(p, x, g) == job' = [job EXCEPT ![p].stages = <<x>> \o Tail(@), ![p].gen = g]
Turns(p, x) ==
  /\ \A y : Pending(p, y)' => Pending(p, y) \/ y = x
  /\ \A y : Pending(p, y) /\ ~At(p, y) => Pending(p, y)'
  /\ \A y : At(p, y)' <=> y = x
  /\ job'[p].kind = job[p].kind /\ ~Idle(p)'

LEMMA TurnEffect ==
  ASSUME job \in [Procs -> Job], NEW p \in Procs, ~Idle(p), Placed(p), NEW g \in Nat,
         NEW x \in Stages \ {"close"}, ~At(p, "close"), TurnsTo(p, x, g)
  PROVE  /\ job' \in [Procs -> Job] /\ \A q \in Procs \ {p} : job'[q] = job[q]
         /\ Turns(p, x) /\ Placed(p)' /\ job'[p].gen = g
<1> PICK s \in Seq(Stages) : s = job[p].stages
  BY DEF Job
<1>1. s # <<>>
  BY DEF Idle
<1>2. Len(s) \in Nat \ {0} /\ Head(s) = s[1] /\ DOMAIN s = 1 .. Len(s)
  BY <1>1, TailOf
<1>3. /\ <<x>> \o Tail(s) \in Seq(Stages) /\ Len(<<x>> \o Tail(s)) = Len(s)
      /\ (<<x>> \o Tail(s))[1] = x
      /\ \A i \in 2 .. Len(s) : (<<x>> \o Tail(s))[i] = s[i]
  BY <1>1, InFront
<1> PICK t \in Seq(Stages) : t = <<x>> \o Tail(s)
  BY <1>3
<1> PICK j : j = [kind |-> job[p].kind, stages |-> t, gen |-> g]
  OBVIOUS
<1>4. j \in Job /\ j.stages = t /\ j.kind = job[p].kind /\ j.gen = g
  BY DEF Job
<1>5. job' \in [Procs -> Job] /\ job'[p] = j /\ \A q \in Procs \ {p} : job'[q] = job[q]
  BY <1>4 DEF Job, TurnsTo
<1>6. DOMAIN t = 1 .. Len(s) /\ Len(t) = Len(s) /\ t[1] = x /\ \A i \in 2 .. Len(s) : t[i] = s[i]
  BY <1>3
<1>7. \A y : Pending(p, y) <=> \E i \in 1 .. Len(s) : s[i] = y
  BY <1>2 DEF Pending
<1>8. \A y : Pending(p, y)' <=> \E i \in 1 .. Len(s) : t[i] = y
  <2>1. job'[p].stages = t /\ DOMAIN t = 1 .. Len(s)
    BY <1>4, <1>5, <1>6
  <2> QED BY <2>1 DEF Pending
<1>9. t # <<>> /\ Head(t) = t[1]
  BY <1>2, <1>6
<1>10. \A y : (At(p, y) <=> s[1] = y) /\ (At(p, y)' <=> y = x)
  BY <1>1, <1>2, <1>4, <1>5, <1>6, <1>9 DEF At, Idle
<1>11. \A i \in 1 .. Len(s) : i = 1 \/ i \in 2 .. Len(s)
  BY <1>2
<1>12. \A i \in 1 .. Len(s) : (s[i] = "close" => i = Len(s)) /\ (s[i] = "state" => i = 1)
  BY <1>2 DEF Placed
<1>13. Placed(p)'
  <2>1. \A i \in 1 .. Len(s) : (t[i] = "close" => i = Len(s)) /\ (t[i] = "state" => i = 1)
    BY <1>6, <1>11, <1>12
  <2> QED BY <1>4, <1>5, <1>6, <2>1 DEF Placed
<1>14. ASSUME NEW y, Pending(p, y)' PROVE Pending(p, y) \/ y = x
  <2>1. PICK i \in 1 .. Len(s) : t[i] = y
    BY <1>8, <1>14
  <2>2. CASE i = 1
    BY <1>6, <2>1, <2>2
  <2>3. CASE i \in 2 .. Len(s)
    BY <1>6, <1>7, <2>1, <2>3
  <2> QED BY <1>11, <2>2, <2>3
<1>15. ASSUME NEW y, Pending(p, y), ~At(p, y) PROVE Pending(p, y)'
  <2>1. PICK i \in 1 .. Len(s) : s[i] = y
    BY <1>7, <1>15
  <2>2. i # 1
    BY <1>10, <1>15, <2>1
  <2>3. i \in 2 .. Len(s)
    BY <1>11, <2>2
  <2> QED BY <1>6, <1>8, <2>1, <2>3
<1>16. ~Idle(p)'
  BY <1>4, <1>5, <1>9 DEF Idle
<1> QED BY <1>4, <1>5, <1>10, <1>13, <1>14, <1>15, <1>16 DEF Turns

\* Every step leaves the jobs alone, begins one, or brings one on.
Begins(p, kind, stages) ==
  /\ Enter(p, kind, stages)
  /\ \/ kind \in {"timer", "error"} /\ stages = <<"flush">>
     \/ kind = "auto" /\ stages = <<"auto">>
     \/ kind = "resume" /\ stages = <<"start">> /\ load = "done"
     \/ kind = "menu" /\ stages = <<"pause", "check">>
     \/ kind = "hide" /\ stages = <<"pause", "flush", "auto", "check">>
     \/ kind = "exit" /\ stages = <<"flush", "auto", "check", "pause", "close">>
Drops(p) == /\ At(p, "commit") \/ At(p, "state")
            /\ job[p].kind # "exit" /\ job' = [job EXCEPT ![p] = NoJob]

LEMMA StageSteps ==
  ASSUME Types, NEW p \in Procs, JobStep(p)
  PROVE  \/ ~Idle(p) /\ Pop(p)
         \/ At(p, "auto") /\ TurnsTo(p, "state", job[p].gen)
         \/ At(p, "flush") /\ TurnsTo(p, "commit", gen)
         \/ Drops(p)
<1>1. At(p, "auto") /\ Become(p, "state") => TurnsTo(p, "state", job[p].gen)
  BY DEF Become, TurnsTo, Types, Job
<1>2. CASE Flush(p)
  BY <1>2 DEF Flush, TurnsTo, At
<1>3. CASE AutoState(p)
  BY <1>1, <1>3 DEF AutoState, At
<1>4. CASE StateCommitted(p) \/ CommitFails(p)
  BY <1>4 DEF StateCommitted, CommitFails, Fail, Drops, At
<1>5. CASE AudioPaused(p) \/ AudioStarted(p) \/ Committed(p) \/ Checkpoint(p) \/ Close(p)
  BY <1>5 DEF AudioPaused, AudioStarted, Committed, Checkpoint, Close, At
<1> QED BY <1>2, <1>3, <1>4, <1>5 DEF JobStep

LEMMA JobSteps ==
  ASSUME Types, [Next]_vars
  PROVE  \/ UNCHANGED job
         \/ \E p \in Procs :
              \/ \E kind, stages : Begins(p, kind, stages)
              \/ ~Idle(p) /\ Pop(p)
              \/ At(p, "auto") /\ TurnsTo(p, "state", job[p].gen)
              \/ At(p, "flush") /\ TurnsTo(p, "commit", gen)
              \/ Drops(p)
<1>1. CASE Loading \/ Frame \/ ClockRollback \/ IdleTick \/ Show \/ Unload \/ UNCHANGED vars
  BY <1>1 DEF Loading, OpenCore, LoadBattery, Ready, LoadFails, Frame, ClockRollback, IdleTick, Show,
              Unload, vars
<1>2. ASSUME NEW p \in Procs,
             \/ CoreError(p) \/ AutoStateDue(p) \/ TimerFires(p)
             \/ Resume(p) \/ Menu(p) \/ Background(p) \/ Shutdown(p)
      PROVE  \E kind, stages : Begins(p, kind, stages)
  BY <1>2 DEF CoreError, AutoStateDue, TimerFires, Resume, Menu, Background, Shutdown, Begins
<1> QED BY <1>1, <1>2, StageSteps DEF Next

LEMMA BeginEffect ==
  ASSUME job \in [Procs -> Job], NEW p \in Procs, NEW kind, NEW stages, Begins(p, kind, stages)
  PROVE  /\ job' \in [Procs -> Job] /\ \A q \in Procs \ {p} : job'[q] = job[q]
         /\ job'[p].kind = kind /\ job'[p].gen = 0 /\ Placed(p)' /\ ~At(p, "state")'
         /\ \A x : Pending(p, x)' <=> \E i \in DOMAIN stages : stages[i] = x
<1>0. \A a, b, c, d, e \in Stages :
        /\ <<a>> \in Seq(Stages) /\ <<a, b>> \in Seq(Stages) /\ <<a, b, c, d>> \in Seq(Stages)
        /\ <<a, b, c, d, e>> \in Seq(Stages)
  OBVIOUS
<1>1. stages \in Seq(Stages) /\ kind \in Kinds
  <2>1. {"pause", "start", "flush", "auto", "check", "close"} \subseteq Stages
    BY DEF Stages
  <2>2. kind \in Kinds
    BY DEF Begins, Kinds
  <2>3. CASE stages = <<"flush", "auto", "check", "pause", "close">>
    BY <1>0, <2>1, <2>2, <2>3
  <2>4. CASE stages = <<"pause", "flush", "auto", "check">>
    BY <1>0, <2>1, <2>2, <2>4
  <2>5. CASE stages = <<"pause", "check">>
    BY <1>0, <2>1, <2>2, <2>5
  <2>6. ASSUME NEW x \in {"flush", "auto", "start"}, stages = <<x>> PROVE stages \in Seq(Stages)
    BY <1>0, <2>1, <2>6
  <2> QED BY <2>2, <2>3, <2>4, <2>5, <2>6 DEF Begins
<1> PICK j : j = [kind |-> kind, stages |-> stages, gen |-> 0]
  OBVIOUS
<1>2. j \in Job /\ j.kind = kind /\ j.stages = stages /\ j.gen = 0 /\ job' = [job EXCEPT ![p] = j]
  BY <1>1 DEF Job, Begins, Enter
<1>3. job' \in [Procs -> Job] /\ job'[p] = j /\ \A q \in Procs \ {p} : job'[q] = job[q]
  BY <1>2
<1>4. \A i \in DOMAIN stages : stages[i] # "state" /\ (stages[i] = "close" => i = Len(stages))
  <2>1. CASE stages = <<"flush", "auto", "check", "pause", "close">>
    <3>1. Len(stages) = 5 /\ DOMAIN stages = 1 .. 5
      BY <2>1
    <3>2. \A i \in 1 .. 5 : i = 1 \/ i = 2 \/ i = 3 \/ i = 4 \/ i = 5
      OBVIOUS
    <3>3. stages[1] = "flush" /\ stages[2] = "auto" /\ stages[3] = "check" /\ stages[4] = "pause"
      BY <2>1
    <3> QED BY <2>1, <3>1, <3>2, <3>3
  <2>2. CASE stages = <<"pause", "flush", "auto", "check">>
    BY <2>2
  <2>3. CASE stages = <<"pause", "check">>
    BY <2>3
  <2> QED BY <2>1, <2>2, <2>3 DEF Begins
<1>5. Placed(p)'
  BY <1>2, <1>3, <1>4 DEF Placed
<1>6. ~At(p, "state")'
  <2>1. Head(stages) # "state"
    BY DEF Begins
  <2> QED BY <1>2, <1>3, <2>1 DEF At
<1> QED BY <1>2, <1>3, <1>5, <1>6 DEF Pending

LEMMA LoadSteps ==
  ASSUME [Next]_vars, load \in {"done", "error"} PROVE load' \in {"done", "error"}
BY DEF Next, vars, page, Loading, OpenCore, LoadBattery, Ready, LoadFails, Frame, ClockRollback, IdleTick,
       Show, Unload, CoreError, AutoStateDue, TimerFires, Resume, Menu, Background, Shutdown, JobStep,
       AudioPaused, AudioStarted, Flush, Committed, CommitFails, AutoState, StateCommitted, Checkpoint,
       Close

\* The generation grows with the frames alone, which the game's running lets through.
LEMMA GenSteps ==
  ASSUME Types, [Next]_vars
  PROVE  gen' = gen \/ (gen' = gen + 1 /\ gen' <= MaxGen /\ Frame)
BY DEF Next, vars, save, Loading, OpenCore, LoadBattery, Ready, LoadFails, Frame, ClockRollback, IdleTick,
       Show, Unload, CoreError, AutoStateDue, TimerFires, Resume, Menu, Background, Shutdown, JobStep,
       AudioPaused, AudioStarted, Flush, Committed, CommitFails, AutoState, StateCommitted, Checkpoint,
       Close, Types

LEMMA JobsNext ==
  ASSUME Types, Jobs, [Next]_vars
  PROVE  job' \in [Procs -> Job] /\ (\A p \in Procs : job'[p].gen <= gen') /\ Jobs'
<1> DEFINE Fits(p) ==
      /\ job'[p].gen <= gen' /\ Placed(p)'
      /\ Pending(p, "close")' <=> job'[p].kind = "exit"
      /\ Pending(p, "check")' => job'[p].kind \in {"hide", "exit", "menu"}
      /\ Pending(p, "start")' => load' \in {"done", "error"}
      /\ job'[p].kind = "menu" => ~Pending(p, "commit")' /\ ~Pending(p, "flush")'
                                  /\ ~Pending(p, "state")' /\ ~Pending(p, "auto")'
<1>0. /\ job \in [Procs -> Job] /\ gen \in Nat /\ gen' \in Nat /\ gen <= gen'
      /\ \A p \in Procs : job[p].gen \in Nat
  BY GenSteps DEF Types, Job
<1>1. ASSUME NEW q \in Procs, job'[q] = job[q] PROVE Fits(q)
  <2>1. \A x : Pending(q, x)' <=> Pending(q, x)
    BY <1>1 DEF Pending
  <2>2. Placed(q)' <=> Placed(q)
    BY <1>1 DEF Placed
  <2>3. job[q].gen <= gen
    BY DEF Types
  <2> QED BY <1>0, <1>1, <2>1, <2>2, <2>3, LoadSteps DEF Jobs
<1>2. ASSUME NEW p \in Procs, job' \in [Procs -> Job], \A q \in Procs \ {p} : job'[q] = job[q], Fits(p)
      PROVE  /\ job' \in [Procs -> Job] /\ \A q \in Procs : job'[q].gen <= gen'
             /\ Jobs'
  <2>1. \A q \in Procs : Fits(q)
    BY <1>1, <1>2
  <2> QED BY <1>2, <2>1 DEF Jobs
<1>3. ASSUME NEW p \in Procs, NEW kind, NEW stages, Begins(p, kind, stages) PROVE Fits(p)
  <2>1. /\ job'[p].kind = kind /\ job'[p].gen = 0 /\ Placed(p)'
        /\ \A x : Pending(p, x)' <=> \E i \in DOMAIN stages : stages[i] = x
    BY <1>0, <1>3, BeginEffect
  <2>2. load' \in {"done", "error"} \/ kind # "resume"
    BY <1>3, LoadSteps DEF Begins
  <2>3. CASE kind = "exit" /\ stages = <<"flush", "auto", "check", "pause", "close">>
    <3>1. 5 \in DOMAIN stages /\ stages[5] = "close" /\ \A i \in DOMAIN stages : stages[i] # "start"
      BY <2>3
    <3> QED BY <1>0, <2>1, <2>3, <3>1
  <2>4. CASE kind = "hide" /\ stages = <<"pause", "flush", "auto", "check">>
    <3>1. \A i \in DOMAIN stages : stages[i] # "start" /\ stages[i] # "close"
      BY <2>4
    <3> QED BY <1>0, <2>1, <2>4, <3>1
  <2>5. CASE kind = "menu" /\ stages = <<"pause", "check">>
    <3>1. \A i \in DOMAIN stages : stages[i] \in {"pause", "check"}
      BY <2>5
    <3> QED BY <1>0, <2>1, <2>5, <3>1
  <2>6. CASE kind \in {"timer", "error", "auto", "resume"} /\ \E x : stages = <<x>> /\ x \notin {"close", "check"}
                                                /\ (x = "start" => kind = "resume")
    BY <1>0, <2>1, <2>2, <2>6
  <2> QED BY <1>3, <2>3, <2>4, <2>5, <2>6 DEF Begins
<1>4. ASSUME NEW p \in Procs, ~Idle(p), Pop(p) PROVE Fits(p) /\ job' \in [Procs -> Job] /\ \A q \in Procs \ {p} : job'[q] = job[q]
  <2>1. job' \in [Procs -> Job] /\ (\A q \in Procs \ {p} : job'[q] = job[q]) /\ GoesOn(p) /\ Placed(p)'
    BY <1>0, <1>4, PopEffect DEF Jobs
  <2>2. CASE job'[p] = NoJob
    <3>1. \A x : ~Pending(p, x)'
      BY <2>2 DEF Pending, NoJob
    <3> QED BY <1>0, <2>1, <2>2, <3>1 DEF NoJob
  <2>3. CASE job'[p].kind = job[p].kind /\ job'[p].gen = job[p].gen /\ ~Idle(p)'
    <3>1. job[p].gen <= gen'
      BY <1>0 DEF Types
    <3>2. \A x : Pending(p, x)' => Pending(p, x)
      BY <2>1 DEF GoesOn
    <3>3. Pending(p, "close") => Pending(p, "close")'
      <4>1. ~At(p, "close")
        <5> SUFFICES ASSUME At(p, "close") PROVE FALSE
          OBVIOUS
        <5> PICK s \in Seq(Stages) : s = job[p].stages
          BY <1>0 DEF Job
        <5>1. s # <<>> /\ Head(s) = "close"
          BY DEF At, Idle
        <5>2. Len(s) \in Nat \ {0} /\ s[1] = "close" /\ DOMAIN s = 1 .. Len(s) /\ Len(Tail(s)) = Len(s) - 1
              /\ Tail(s) \in Seq(Stages)
          BY <5>1, TailOf
        <5>3. 1 = Len(s)
          <6>1. \A i \in DOMAIN s : s[i] = "close" => i = Len(s)
            BY DEF Jobs, Placed
          <6>2. 1 \in DOMAIN s /\ s[1] = "close"
            BY <5>2
          <6> QED BY <6>1, <6>2
        <5>4. Tail(s) = <<>>
          <6>1. \A t \in Seq(Stages) : Len(t) = 0 => t = <<>>
            OBVIOUS
          <6>2. Len(Tail(s)) = 0
            BY <5>2, <5>3
          <6> QED BY <5>2, <6>1, <6>2
        <5>5. job'[p] = NoJob
          BY <1>0, <1>4, <5>4 DEF Pop, Left
        <5> QED BY <2>3, <5>5 DEF Idle, NoJob
      <4> QED BY <2>1, <4>1 DEF GoesOn
    <3> QED BY <2>1, <2>3, <3>1, <3>2, <3>3, LoadSteps DEF Jobs
  <2> QED BY <2>1, <2>2, <2>3 DEF GoesOn
<1>5. ASSUME NEW p \in Procs, NEW x \in {"state", "commit"}, NEW g \in {gen, job[p].gen}, TurnsTo(p, x, g),
             IF x = "state" THEN At(p, "auto") ELSE At(p, "flush")
      PROVE  Fits(p) /\ job' \in [Procs -> Job] /\ \A q \in Procs \ {p} : job'[q] = job[q]
  <2>1. x \in Stages \ {"close"} /\ ~At(p, "close") /\ ~Idle(p) /\ g \in Nat /\ g <= gen'
    BY <1>0, <1>5 DEF Stages, At, Types
  <2>2. /\ job' \in [Procs -> Job] /\ \A q \in Procs \ {p} : job'[q] = job[q]
        /\ Turns(p, x) /\ Placed(p)' /\ job'[p].gen = g
    <3>1. Placed(p)
      BY DEF Jobs
    <3> QED BY <1>0, <1>5, <2>1, <3>1, TurnEffect
  <2>3. job[p].kind # "menu"
    <3>1. \A y : At(p, y) => Pending(p, y)
      <4> PICK s \in Seq(Stages) : s = job[p].stages
        BY <1>0 DEF Job
      <4>1. s # <<>> /\ Len(s) \in Nat \ {0} /\ Head(s) = s[1] /\ DOMAIN s = 1 .. Len(s)
        BY <2>1, TailOf DEF Idle
      <4> QED BY <4>1 DEF At, Pending
    <3> QED BY <1>5, <3>1 DEF Jobs
  <2>4. \A y : Pending(p, y)' => Pending(p, y) \/ y = x
    BY <2>2 DEF Turns
  <2>5. Pending(p, "close") => Pending(p, "close")'
    BY <2>1, <2>2 DEF Turns
  <2>6. job'[p].kind = job[p].kind
    BY <2>2 DEF Turns
  <2> QED BY <1>5, <2>1, <2>2, <2>3, <2>4, <2>5, <2>6, LoadSteps DEF Jobs
<1>6. ASSUME NEW p \in Procs, Drops(p)
      PROVE  Fits(p) /\ job' \in [Procs -> Job] /\ \A q \in Procs \ {p} : job'[q] = job[q]
  <2>1. NoJob \in Job /\ NoJob.gen = 0 /\ NoJob.kind = "none" /\ NoJob.stages = <<>>
    BY DEF NoJob, Job, Kinds
  <2>2. job' \in [Procs -> Job] /\ job'[p] = NoJob /\ \A q \in Procs \ {p} : job'[q] = job[q]
    BY <1>0, <1>6, <2>1 DEF Drops
  <2>3. Placed(p)' /\ \A x : ~Pending(p, x)'
    BY <2>1, <2>2 DEF Pending, Placed
  <2> QED BY <1>0, <2>1, <2>2, <2>3
<1>7. CASE UNCHANGED job
  BY <1>0, <1>1, <1>7 DEF Jobs
<1> QED
  <2> HIDE DEF Fits
  <2>1. ASSUME NEW p \in Procs, NEW kind, NEW stages, Begins(p, kind, stages)
        PROVE  job' \in [Procs -> Job] /\ \A q \in Procs \ {p} : job'[q] = job[q]
    BY <1>0, <2>1, BeginEffect
  <2> QED BY <1>2, <1>3, <1>4, <1>5, <1>6, <1>7, <2>1, JobSteps

------------------------------------------------------------------------------
(* Types, and the automatic state. *)

LEMMA InitPlayer == Init => PInv
<1> SUFFICES ASSUME Init PROVE PInv
  OBVIOUS
<1>1. NoJob \in Job /\ NoJob.stages = <<>> /\ NoJob.kind = "none" /\ NoJob.gen = 0
  BY DEF NoJob, Job, Kinds
<1>2. \A p \in Procs : job[p] = NoJob /\ Idle(p) /\ \A x : ~Pending(p, x)
  BY <1>1 DEF Init, Idle, Pending
<1>3. Types
  BY <1>1, PlayerAssumption DEF Init, Types
<1>4. Jobs
  BY <1>1, <1>2 DEF Jobs, Placed
<1>5. OneState /\ Opening /\ last = disk /\ BlankNeverSaved /\ PausedTimeNotCounted
  BY <1>1, <1>2 DEF Init, OneState, At, Opening, BlankNeverSaved, PausedTimeNotCounted
<1>6. Stands /\ Final /\ Stops
  BY <1>1, <1>2 DEF Init, Stands, Final, Stops
<1> QED BY <1>3, <1>4, <1>5, <1>6 DEF PInv

LEMMA TypesNext ==
  ASSUME PInv, [Next]_vars PROVE Types'
<1> DEFINE Rest ==
      /\ load \in {"open", "battery", "choose", "done", "failed", "error"} /\ core \in {"none", "live"}
      /\ timer \in 0 .. Delay /\ clock \in {"none", "active", "still"}
<1>1. job' \in [Procs -> Job] /\ \A p \in Procs : job'[p].gen <= gen'
  BY JobsNext DEF PInv
<1>2. /\ gen \in Nat /\ gen' \in Nat /\ gen <= gen' /\ gen' <= MaxGen /\ MaxGen \in Nat
      /\ last \in 0 .. gen /\ disk \in 0 .. gen /\ Delay \in Nat \ {0} /\ Rest
  BY GenSteps, PlayerAssumption DEF PInv, Types
<1>3. \/ last' = last /\ disk' = disk
      \/ last' = gen /\ disk' = disk
      \/ \E p \in Procs : last' = job[p].gen /\ disk' = job[p].gen
  BY DEF Next, vars, save, Loading, OpenCore, LoadBattery, Ready, LoadFails, Frame, ClockRollback, IdleTick,
         Show, Unload, CoreError, AutoStateDue, TimerFires, Resume, Menu, Background, Shutdown, JobStep,
         AudioPaused, AudioStarted, Flush, Committed, CommitFails, AutoState, StateCommitted, Checkpoint,
         Close
<1>4. last' \in 0 .. gen' /\ disk' \in 0 .. gen' /\ gen' \in 0 .. MaxGen
  <2>1. \A g \in 0 .. gen : g \in 0 .. gen'
    BY <1>2
  <2>2. \A p \in Procs : job[p].gen \in 0 .. gen
    BY <1>2 DEF PInv, Types, Job
  <2>3. gen \in 0 .. gen /\ gen' \in 0 .. MaxGen
    BY <1>2
  <2> QED BY <1>2, <1>3, <2>1, <2>2, <2>3
<1>5. ASSUME OpenCore PROVE Rest'
  BY <1>2, <1>5 DEF OpenCore, page, save, play
<1>6. ASSUME LoadBattery PROVE Rest'
  BY <1>2, <1>6 DEF LoadBattery, page, save, play
<1>7. ASSUME Ready PROVE Rest'
  BY <1>2, <1>7 DEF Ready, page, save, play
<1>8. ASSUME LoadFails PROVE Rest'
  BY <1>2, <1>8 DEF LoadFails, page, save, play
<1>9. ASSUME Frame PROVE Rest'
  BY <1>2, <1>9 DEF Frame, page, save, play, Countdown
<1>10. ASSUME ClockRollback PROVE Rest'
  BY <1>2, <1>10 DEF ClockRollback, page, save, play
<1>11. ASSUME IdleTick PROVE Rest'
  BY <1>2, <1>11 DEF IdleTick, page, save, play, Countdown, Waited
<1>12. ASSUME Show PROVE Rest'
  BY <1>2, <1>12 DEF Show, page, save, play, Waited
<1>13. ASSUME Unload PROVE Rest'
  BY <1>2, <1>13 DEF Unload, page, save, play
<1>14. ASSUME NEW p \in Procs, CoreError(p) PROVE Rest'
  BY <1>2, <1>14 DEF CoreError, page, save, play, StopClock
<1>15. ASSUME NEW p \in Procs, AutoStateDue(p) PROVE Rest'
  BY <1>2, <1>15 DEF AutoStateDue, page, save, play
<1>16. ASSUME NEW p \in Procs, TimerFires(p) PROVE Rest'
  BY <1>2, <1>16 DEF TimerFires, page, save, play
<1>17. ASSUME NEW p \in Procs, Resume(p) PROVE Rest'
  BY <1>2, <1>17 DEF Resume, page, save, play
<1>18. ASSUME NEW p \in Procs, Menu(p) PROVE Rest'
  BY <1>2, <1>18 DEF Menu, page, save, play
<1>19. ASSUME NEW p \in Procs, Background(p) PROVE Rest'
  BY <1>2, <1>19 DEF Background, page, save, play
<1>20. ASSUME NEW p \in Procs, Shutdown(p) PROVE Rest'
  BY <1>2, <1>20 DEF Shutdown, page, save, play
<1>21. ASSUME NEW p \in Procs, AudioPaused(p) PROVE Rest'
  BY <1>2, <1>21 DEF AudioPaused, page, save, play
<1>22. ASSUME NEW p \in Procs, AudioStarted(p) PROVE Rest'
  BY <1>2, <1>22 DEF AudioStarted, page, save, play
<1>23. ASSUME NEW p \in Procs, Flush(p) PROVE Rest'
  BY <1>2, <1>23 DEF Flush, page, save, play
<1>24. ASSUME NEW p \in Procs, Committed(p) PROVE Rest'
  BY <1>2, <1>24 DEF Committed, page, save, play
<1>25. ASSUME NEW p \in Procs, CommitFails(p) PROVE Rest'
  BY <1>2, <1>25 DEF CommitFails, page, save, play
<1>26. ASSUME NEW p \in Procs, AutoState(p) PROVE Rest'
  BY <1>2, <1>26 DEF AutoState, page, save, play
<1>27. ASSUME NEW p \in Procs, StateCommitted(p) PROVE Rest'
  BY <1>2, <1>27 DEF StateCommitted, page, save, play
<1>28. ASSUME NEW p \in Procs, Checkpoint(p) PROVE Rest'
  BY <1>2, <1>28 DEF Checkpoint, page, save, play, StopClock
<1>29. ASSUME NEW p \in Procs, Close(p) PROVE Rest'
  BY <1>2, <1>29 DEF Close, page, save, play
<1>30. ASSUME UNCHANGED vars PROVE Rest'
  BY <1>2, <1>30 DEF vars, page, save, play
<1>31. Rest'
  <2> HIDE DEF Rest
  <2> QED BY <1>5, <1>6, <1>7, <1>8, <1>9, <1>10, <1>11, <1>12, <1>13, <1>14, <1>15, <1>16, <1>17, <1>18, <1>19, <1>20, <1>21, <1>22, <1>23, <1>24, <1>25, <1>26, <1>27, <1>28, <1>29, <1>30
       DEF Next, Loading, JobStep
<1> QED BY <1>1, <1>4, <1>31 DEF Types

------------------------------------------------------------------------------
(* Which actions touch what. *)

LEMMA PageSteps ==
  ASSUME [Next]_vars
  PROVE  /\ \/ UNCHANGED <<load, core, battery, closed>>
            \/ OpenCore \/ LoadBattery \/ Ready \/ LoadFails
            \/ \E p \in Procs : CoreError(p) \/ Close(p)
         /\ UNCHANGED <<last, disk>> \/ LoadBattery \/ \E p \in Procs : Committed(p)
         /\ UNCHANGED blank \/ \E p \in Procs : Flush(p)
         /\ UNCHANGED counted \/ IdleTick \/ Show
BY DEF Next, vars, page, save, play, Loading, OpenCore, LoadBattery, Ready, LoadFails, Frame, ClockRollback,
       IdleTick, Show, Unload, CoreError, AutoStateDue, TimerFires, Resume, Menu, Background, Shutdown,
       JobStep, AudioPaused, AudioStarted, Flush, Committed, CommitFails, AutoState, StateCommitted,
       Checkpoint, Close

LEMMA VoidSteps == ASSUME [Next]_vars PROVE void \subseteq void'
BY DEF Next, vars, Loading, OpenCore, LoadBattery, Ready, LoadFails, Frame, ClockRollback, IdleTick, Show,
       Unload, CoreError, AutoStateDue, TimerFires, Resume, Menu, Background, Shutdown, JobStep, AudioPaused,
       AudioStarted, Flush, Committed, CommitFails, AutoState, StateCommitted, Checkpoint, Close, Void, Fail

LEMMA RunningSteps ==
  ASSUME [Next]_vars, running' PROVE running \/ \E p \in Procs : AudioStarted(p)
BY DEF Next, vars, play, Loading, OpenCore, LoadBattery, Ready, LoadFails, Frame, ClockRollback, IdleTick,
       Show, Unload, CoreError, AutoStateDue, TimerFires, Resume, Menu, Background, Shutdown, JobStep,
       AudioPaused, AudioStarted, Flush, Committed, CommitFails, AutoState, StateCommitted, Checkpoint, Close

LEMMA AtPending ==
  ASSUME Types, NEW p \in Procs, NEW x, At(p, x) PROVE ~Idle(p) /\ Pending(p, x)
<1> PICK s \in Seq(Stages) : s = job[p].stages
  BY DEF Types, Job
<1>1. s # <<>> /\ Len(s) \in Nat \ {0} /\ Head(s) = s[1] /\ DOMAIN s = 1 .. Len(s)
  BY TailOf DEF At, Idle
<1> QED BY <1>1 DEF At, Pending, Idle

\* "close" comes alone.
LEMMA CloseAlone ==
  ASSUME Types, Jobs, NEW p \in Procs, At(p, "close"), NEW x, Pending(p, x) PROVE x = "close"
<1> PICK s \in Seq(Stages) : s = job[p].stages
  BY DEF Types, Job
<1>1. s # <<>> /\ Len(s) \in Nat \ {0} /\ Head(s) = s[1] /\ DOMAIN s = 1 .. Len(s) /\ s[1] = "close"
  BY TailOf DEF At, Idle
<1>2. \A i \in DOMAIN s : s[i] = "close" => i = Len(s)
  BY DEF Jobs, Placed
<1>3. 1 = Len(s)
  <2>1. 1 \in DOMAIN s /\ s[1] = "close"
    BY <1>1
  <2> QED BY <1>2, <2>1
<1>4. PICK i \in 1 .. Len(s) : s[i] = x
  BY <1>1 DEF Pending
<1> QED BY <1>1, <1>3, <1>4

LEMMA OthersStay ==
  ASSUME NEW q, job'[q] = job[q]
  PROVE  /\ \A x : (Pending(q, x)' <=> Pending(q, x)) /\ (At(q, x)' <=> At(q, x))
         /\ job'[q].kind = job[q].kind /\ job'[q].gen = job[q].gen
BY DEF Pending, At, Idle

LEMMA PopStep ==
  ASSUME Types, Jobs, NEW p \in Procs, NEW x, At(p, x), Pop(p)
  PROVE  (\A q \in Procs \ {p} : job'[q] = job[q]) /\ GoesOn(p)
<1>1. Placed(p) /\ ~Idle(p) /\ job \in [Procs -> Job]
  BY DEF Jobs, Types, At
<1> QED BY <1>1, PopEffect

LEMMA TurnStep ==
  ASSUME Types, Jobs, NEW p \in Procs, NEW y \in {"flush", "auto"}, At(p, y),
         NEW x \in {"commit", "state"}, NEW g \in {gen, job[p].gen}, TurnsTo(p, x, g)
  PROVE  (\A q \in Procs \ {p} : job'[q] = job[q]) /\ Turns(p, x) /\ job'[p].gen = g
<1>1. Placed(p) /\ ~Idle(p) /\ job \in [Procs -> Job] /\ ~At(p, "close")
  BY DEF Jobs, Types, At
<1>2. x \in Stages \ {"close"} /\ g \in Nat
  BY DEF Types, Job, Stages
<1> QED BY <1>1, <1>2, TurnEffect

LEMMA DropStep ==
  ASSUME Types, NEW p \in Procs, job' = [job EXCEPT ![p] = NoJob]
  PROVE  /\ \A q \in Procs \ {p} : job'[q] = job[q]
         /\ job'[p].kind = "none" /\ job'[p].gen = 0 /\ \A x : ~Pending(p, x)' /\ ~At(p, x)'
<1>1. job' \in [Procs -> Job \cup {NoJob}] /\ job'[p] = NoJob /\ \A q \in Procs \ {p} : job'[q] = job[q]
  BY DEF Types
<1> QED BY <1>1 DEF NoJob, Pending, At, Idle

LEMMA BeginStep ==
  ASSUME Types, NEW p \in Procs, NEW kind, NEW stages, Begins(p, kind, stages)
  PROVE  /\ \A q \in Procs \ {p} : job'[q] = job[q]
         /\ job'[p].kind = kind /\ job'[p].gen = 0 /\ ~At(p, "state")'
         /\ \A x : Pending(p, x)' <=> \E i \in DOMAIN stages : stages[i] = x
         /\ \A x : ~Pending(p, x) /\ ~At(p, x)
<1>1. \A x : ~Pending(p, x) /\ ~At(p, x)
  BY DEF Begins, Enter, Pending, At, Idle
<1> QED BY <1>1, BeginEffect DEF Types

------------------------------------------------------------------------------
(* The parts of the invariant. *)

LEMMA OneStateNext == ASSUME Types, Jobs, OneState, [Next]_vars PROVE OneState'
<1>1. ASSUME NEW p \in Procs, ~At(p, "state"), ~At(p, "state")', auto' = auto,
             \A q \in Procs \ {p} : job'[q] = job[q]
      PROVE  OneState'
  <2>1. \A q \in Procs : At(q, "state")' <=> At(q, "state")
    BY <1>1, OthersStay
  <2> QED BY <1>1, <2>1 DEF OneState
<1>2. ASSUME UNCHANGED <<job, auto>> PROVE OneState'
  BY <1>2 DEF OneState, At, Idle
<1>3. CASE Loading \/ Frame \/ ClockRollback \/ IdleTick \/ Show \/ Unload \/ UNCHANGED vars
  BY <1>2, <1>3 DEF Loading, OpenCore, LoadBattery, Ready, LoadFails, Frame, ClockRollback, IdleTick, Show,
                    Unload, vars, play
<1>4. ASSUME NEW p \in Procs,
             \/ CoreError(p) \/ AutoStateDue(p) \/ TimerFires(p)
             \/ Resume(p) \/ Menu(p) \/ Background(p) \/ Shutdown(p)
      PROVE  OneState'
  <2>1. PICK kind, stages : Begins(p, kind, stages)
    BY <1>4 DEF CoreError, AutoStateDue, TimerFires, Resume, Menu, Background, Shutdown, Begins
  <2>2. auto' = auto
    BY <1>4 DEF CoreError, AutoStateDue, TimerFires, Resume, Menu, Background, Shutdown, play
  <2> QED BY <1>1, <2>1, <2>2, BeginStep
<1>5. ASSUME NEW p \in Procs, NEW x \in Stages \ {"state"}, At(p, x), Pop(p), auto' = auto PROVE OneState'
  <2>1. ~At(p, "state")
    BY <1>5 DEF At
  <2> QED BY <1>1, <1>5, <2>1, PopStep DEF GoesOn
<1>6. ASSUME NEW p \in Procs,
             AudioPaused(p) \/ AudioStarted(p) \/ Committed(p) \/ Checkpoint(p) \/ Close(p)
      PROVE  OneState'
  BY <1>5, <1>6 DEF AudioPaused, AudioStarted, Committed, Checkpoint, Close, Stages, play
<1>7. ASSUME NEW p \in Procs, Flush(p) PROVE OneState'
  <2>1. CASE TurnsTo(p, "commit", gen)
    <3>1. At(p, "flush") /\ auto' = auto /\ ~At(p, "state")
      BY <1>7 DEF Flush, play, At
    <3>2. (\A q \in Procs \ {p} : job'[q] = job[q]) /\ Turns(p, "commit")
      BY <2>1, <3>1, TurnStep
    <3> QED BY <1>1, <3>1, <3>2 DEF Turns
  <2> QED BY <1>5, <1>7, <2>1 DEF Flush, TurnsTo, Stages, play
<1>8. ASSUME NEW p \in Procs, CommitFails(p) PROVE OneState'
  <2>1. At(p, "commit") /\ auto' = auto /\ ~At(p, "state")
    BY <1>8 DEF CommitFails, play, At
  <2>2. CASE job' = [job EXCEPT ![p] = NoJob]
    BY <1>1, <2>1, <2>2, DropStep
  <2> QED BY <1>5, <1>8, <2>1, <2>2 DEF CommitFails, Fail, Stages
<1>9. ASSUME NEW p \in Procs, AutoState(p) PROVE OneState'
  <2>1. CASE Become(p, "state") /\ ~auto /\ auto' = TRUE
    <3>1. At(p, "auto") /\ TurnsTo(p, "state", job[p].gen)
      BY <1>9, <2>1 DEF AutoState, Become, TurnsTo, Types, Job
    <3>2. (\A q \in Procs \ {p} : job'[q] = job[q]) /\ Turns(p, "state")
      BY <3>1, TurnStep
    <3>3. \A q \in Procs : At(q, "state")' <=> q = p
      BY <2>1, <3>2, OthersStay DEF OneState, Turns
    <3> QED BY <2>1, <3>3 DEF OneState
  <2> QED BY <1>5, <1>9, <2>1 DEF AutoState, Stages
<1>10. ASSUME NEW p \in Procs, StateCommitted(p) PROVE OneState'
  <2>1. At(p, "state") /\ auto' = FALSE
    BY <1>10 DEF StateCommitted
  <2>2. (\A q \in Procs \ {p} : job'[q] = job[q]) /\ ~At(p, "state")'
    BY <1>10, <2>1, PopStep, DropStep DEF StateCommitted, Fail, GoesOn
  <2>3. \A q \in Procs : ~At(q, "state")'
    BY <2>1, <2>2, OthersStay DEF OneState
  <2> QED BY <2>1, <2>3 DEF OneState
<1> QED BY <1>3, <1>4, <1>6, <1>7, <1>8, <1>9, <1>10 DEF Next, JobStep

\* What a step makes of one job.
LEMMA JobFate ==
  ASSUME Types, Jobs, [Next]_vars, NEW q \in Procs
  PROVE  /\ job'[q].gen \in {0, job[q].gen, gen}
         /\ job'[q].kind = "exit" => job[q].kind = "exit" \/ Shutdown(q)
<1>1. CASE UNCHANGED job
  BY <1>1
<1>2. ASSUME NEW p \in Procs, JobStep(p)
      PROVE  job'[q].gen \in {0, job[q].gen, gen} /\ job'[q].kind \in {"none", job[q].kind}
  <2>1. CASE ~Idle(p) /\ Pop(p)
    <3>1. Placed(p) /\ job \in [Procs -> Job]
      BY DEF Jobs, Types
    <3>2. (\A r \in Procs \ {p} : job'[r] = job[r]) /\ GoesOn(p)
      BY <2>1, <3>1, PopEffect
    <3> QED BY <3>2 DEF GoesOn, NoJob
  <2>2. ASSUME NEW x \in {"commit", "state"}, NEW y \in {"flush", "auto"}, NEW g \in {gen, job[p].gen},
               At(p, y), TurnsTo(p, x, g)
        PROVE  job'[q].gen \in {0, job[q].gen, gen} /\ job'[q].kind \in {"none", job[q].kind}
    <3>1. (\A r \in Procs \ {p} : job'[r] = job[r]) /\ Turns(p, x) /\ job'[p].gen = g
      BY <2>2, TurnStep
    <3> QED BY <3>1 DEF Turns
  <2>3. CASE Drops(p)
    BY <2>3, DropStep DEF Drops
  <2> QED BY <1>2, <2>1, <2>2, <2>3, StageSteps
<1>3. ASSUME NEW p \in Procs, NEW kind, NEW stages, Begins(p, kind, stages)
      PROVE  job'[q].gen \in {0, job[q].gen} /\ (q = p => job'[q].kind = kind) /\ (q # p => job'[q] = job[q])
  BY <1>3, BeginStep
<1>4. ASSUME NEW p \in Procs, CoreError(p) \/ AutoStateDue(p) \/ TimerFires(p)
                               \/ Resume(p) \/ Menu(p) \/ Background(p)
      PROVE  \E kind, stages : Begins(p, kind, stages) /\ kind # "exit"
  BY <1>4 DEF CoreError, AutoStateDue, TimerFires, Resume, Menu, Background, Begins
<1>5. ASSUME NEW p \in Procs, Shutdown(p) PROVE \E kind, stages : Begins(p, kind, stages)
  BY <1>5 DEF Shutdown, Begins
<1>6. CASE Loading \/ Frame \/ ClockRollback \/ IdleTick \/ Show \/ Unload \/ UNCHANGED vars
  BY <1>1, <1>6 DEF Loading, OpenCore, LoadBattery, Ready, LoadFails, Frame, ClockRollback, IdleTick, Show,
                    Unload, vars
<1>7. ASSUME NEW p \in Procs, CoreError(p) \/ AutoStateDue(p) \/ TimerFires(p)
                               \/ Resume(p) \/ Menu(p) \/ Background(p)
      PROVE  /\ job'[q].gen \in {0, job[q].gen, gen}
             /\ job'[q].kind = "exit" => job[q].kind = "exit" \/ Shutdown(q)
  BY <1>3, <1>4, <1>7
<1>8. ASSUME NEW p \in Procs, Shutdown(p)
      PROVE  /\ job'[q].gen \in {0, job[q].gen, gen}
             /\ job'[q].kind = "exit" => job[q].kind = "exit" \/ Shutdown(q)
  BY <1>3, <1>5, <1>8
<1> QED BY <1>2, <1>6, <1>7, <1>8 DEF Next

LEMMA OpeningNext ==
  ASSUME Types, Jobs, Opening, last = disk, [Next]_vars PROVE Opening' /\ last' = disk'
<1>1. battery => battery'
  BY PageSteps DEF OpenCore, LoadBattery, Ready, LoadFails, CoreError, Close
<1>2. ~battery => gen' = 0 /\ \A p \in Procs : job'[p].gen = 0
  <2>1. ~battery => ~Frame
    BY DEF Frame, Runs, Ticking, Opening
  <2>2. ~battery => gen' = 0 /\ gen = 0
    BY <2>1, GenSteps DEF Opening
  <2> QED BY <2>2, JobFate DEF Opening
<1>3. /\ load' \in {"open", "battery"} => ~battery'
      /\ load' \in {"choose", "done", "error"} => battery'
      /\ core' = "none" /\ battery' => closed'
  <2> DEFINE Known == /\ load \in {"open", "battery"} => ~battery
                      /\ load \in {"choose", "done", "error"} => battery
                      /\ core = "none" /\ battery => closed
  <2>1. CASE UNCHANGED <<load, core, battery, closed>>
    BY <2>1 DEF Opening
  <2>2. ASSUME OpenCore PROVE Known'
    BY <2>2 DEF OpenCore, Opening, play
  <2>3. ASSUME LoadBattery PROVE Known'
    BY <2>3 DEF LoadBattery, Opening, play, Types
  <2>4. ASSUME Ready PROVE Known'
    BY <2>4 DEF Ready, Opening, play
  <2>5. ASSUME LoadFails PROVE Known'
    BY <2>5 DEF LoadFails, Opening, play
  <2>6. ASSUME NEW p \in Procs, CoreError(p) PROVE Known'
    BY <2>6 DEF CoreError, Opening, Runs, Ticking
  <2>7. ASSUME NEW p \in Procs, Close(p) PROVE Known'
    BY <2>7 DEF Close, Opening
  <2> QED BY <2>1, <2>2, <2>3, <2>4, <2>5, <2>6, <2>7, PageSteps
<1>4. last' = disk'
  <2>1. CASE LoadBattery
    <3>1. ~battery /\ gen = 0
      BY <2>1 DEF LoadBattery, Opening
    <3>2. disk = 0
      BY <3>1 DEF Types
    <3> QED BY <2>1, <3>1, <3>2 DEF LoadBattery
  <2>2. ASSUME NEW p \in Procs, Committed(p) PROVE last' = disk'
    BY <2>2 DEF Committed
  <2> QED BY <2>1, <2>2, PageSteps
<1> QED BY <1>1, <1>2, <1>3, <1>4 DEF Opening

\* Shutdown alone begins to leave the page.
LEMMA LeavingSteps ==
  ASSUME Types, Jobs, [Next]_vars, Leaving' PROVE Leaving \/ \E p \in Procs : Shutdown(p)
<1>1. ASSUME NEW p \in Procs, Close(p) PROVE Leaving
  BY <1>1, AtPending DEF Close, Jobs, Leaving
<1>2. CASE closed'
  BY <1>1, <1>2, PageSteps DEF OpenCore, LoadBattery, Ready, LoadFails, CoreError, play, Leaving
<1>3. ASSUME NEW q \in Procs, job'[q].kind = "exit" PROVE Leaving \/ \E p \in Procs : Shutdown(p)
  BY <1>3, JobFate DEF Leaving
<1> QED BY <1>2, <1>3 DEF Leaving

LEMMA StandsNext == ASSUME Types, Jobs, Stands, [Next]_vars PROVE Stands'
<1> SUFFICES ASSUME Leaving', ~({"final", "clock"} \subseteq void'), running' PROVE FALSE
  BY DEF Stands
<1>1. ~({"final", "clock"} \subseteq void)
  BY VoidSteps
<1>2. \A p \in Procs : ~Shutdown(p)
  BY DEF Shutdown
<1>3. Leaving /\ ~running
  BY <1>1, <1>2, LeavingSteps DEF Stands
<1>4. PICK p \in Procs : AudioStarted(p)
  BY <1>3, RunningSteps
<1>5. void' = void \cup {"final", "save", "clock"}
  BY <1>3, <1>4 DEF AudioStarted, Void
<1> QED BY <1>5

\* While the page is being left neither the save memory nor, once it is right, the disk changes.
LEMMA SavedStays ==
  ASSUME PInv, [Next]_vars, "final" \notin void', Leaving
  PROVE  gen' = gen /\ (disk = gen => disk' = gen)
<1>1. "final" \notin void
  BY VoidSteps
<1>2. ~running
  BY <1>1 DEF PInv, Stands
<1>3. gen' = gen
  BY <1>2, GenSteps DEF PInv, Frame, Runs
<1>4. ASSUME NEW p \in Procs, Committed(p), disk = gen PROVE disk' = gen
  <2>1. disk' = job[p].gen /\ (job[p].gen >= disk \/ "final" \in void')
    BY <1>4 DEF Committed, Void
  <2>2. job[p].gen <= gen /\ job[p].gen \in Nat /\ gen \in Nat
    BY DEF PInv, Types, Job
  <2> QED BY <1>4, <2>1, <2>2
<1>5. LoadBattery => disk' = disk
  BY DEF LoadBattery
<1> QED BY <1>3, <1>4, <1>5, PageSteps

Kept(p) == Pending(p, "flush") \/ (Pending(p, "commit") /\ job[p].gen = gen) \/ disk = gen

LEMMA FinalNext == ASSUME PInv, [Next]_vars PROVE Final'
<1> SUFFICES ASSUME "final" \notin void'
             PROVE  /\ closed' => disk' = gen'
                    /\ \A q \in Procs : job'[q].kind = "exit" => Kept(q)'
  BY DEF Final, Kept
<1>1. /\ Types /\ Jobs
      /\ closed => disk = gen
      /\ \A q \in Procs : job[q].kind = "exit" => Kept(q)
  BY VoidSteps DEF PInv, Final, Kept
<1>2. closed' => disk' = gen'
  <2>1. CASE closed
    BY <1>1, <2>1, SavedStays DEF Leaving
  <2>2. ASSUME NEW p \in Procs, Close(p) PROVE disk' = gen'
    <3>1. At(p, "close") /\ job[p].kind = "exit"
      BY <1>1, <2>2, AtPending DEF Close, Jobs
    <3>2. ~Pending(p, "flush") /\ ~Pending(p, "commit")
      BY <1>1, <3>1, CloseAlone
    <3>3. disk = gen
      BY <1>1, <3>1, <3>2 DEF Kept
    <3> QED BY <2>2, <3>3 DEF Close, save
  <2>3. closed' => closed \/ \E p \in Procs : Close(p)
    BY PageSteps DEF OpenCore, LoadBattery, Ready, LoadFails, CoreError, play
  <2> QED BY <2>1, <2>2, <2>3
<1>3. ASSUME NEW q \in Procs, Shutdown(q) PROVE Kept(q)'
  <2>1. Begins(q, "exit", <<"flush", "auto", "check", "pause", "close">>)
    BY <1>3 DEF Shutdown, Begins
  <2>2. 1 \in DOMAIN <<"flush", "auto", "check", "pause", "close">>
    OBVIOUS
  <2>3. Pending(q, "flush")'
    BY <1>1, <2>1, <2>2, BeginStep
  <2> QED BY <2>3 DEF Kept
<1>4. ASSUME NEW q \in Procs, job'[q].kind = "exit", job[q].kind = "exit" PROVE Kept(q)'
  <2>1. gen' = gen /\ (disk = gen => disk' = gen)
    BY <1>4, SavedStays DEF Leaving
  <2>2. CASE disk = gen
    BY <2>1, <2>2 DEF Kept
  <2>3. CASE job'[q] = job[q]
    BY <1>1, <1>4, <2>1, <2>3, OthersStay DEF Kept
  <2>4. ASSUME NEW x, At(q, x), Pop(q), x \notin {"flush", "commit"} PROVE Kept(q)'
    <3>1. GoesOn(q) /\ ~At(q, "flush") /\ ~At(q, "commit")
      BY <1>1, <2>4, PopStep DEF At
    <3>2. job'[q].gen = job[q].gen
      BY <1>4, <3>1 DEF GoesOn, NoJob
    <3>3. /\ Pending(q, "flush") => Pending(q, "flush")'
          /\ Pending(q, "commit") => Pending(q, "commit")'
      BY <3>1 DEF GoesOn
    <3> QED BY <1>1, <1>4, <2>1, <3>2, <3>3 DEF Kept
  <2>5. CASE Flush(q)
    <3>1. CASE TurnsTo(q, "commit", gen)
      <4>1. Turns(q, "commit") /\ job'[q].gen = gen
        BY <1>1, <2>5, <3>1, TurnStep DEF Flush
      <4>2. Types'
        BY TypesNext
      <4>3. Pending(q, "commit")'
        <5>1. At(q, "commit")'
          BY <4>1 DEF Turns
        <5>2. \A r \in Procs : \A x : At(r, x)' => Pending(r, x)'
          <6> SUFFICES ASSUME NEW r \in Procs, NEW x, At(r, x)' PROVE Pending(r, x)'
            OBVIOUS
          <6> PICK s \in Seq(Stages) : s = job'[r].stages
            BY <4>2 DEF Types, Job
          <6>1. s # <<>> /\ Len(s) \in Nat \ {0} /\ Head(s) = s[1] /\ DOMAIN s = 1 .. Len(s)
            BY TailOf DEF At, Idle
          <6> QED BY <6>1 DEF At, Pending
        <5> QED BY <5>1, <5>2
      <4> QED BY <2>1, <4>1, <4>3 DEF Kept
    <3>2. CASE ~(core = "live" /\ gen # last)
      <4>1. core = "none" => disk = gen
        <5>1. core = "none" /\ battery => closed
          BY DEF PInv, Opening
        <5>2. ~battery => gen = 0
          BY DEF PInv, Opening
        <5>3. gen = 0 => disk = gen
          BY <1>1 DEF Types
        <5> QED BY <1>1, <5>1, <5>2, <5>3
      <4>2. disk = gen
        BY <1>1, <3>2, <4>1 DEF PInv, Types
      <4> QED BY <2>2, <4>2
    <3> QED BY <2>5, <3>1, <3>2 DEF Flush, TurnsTo
  <2>6. CASE Committed(q)
    <3>1. GoesOn(q) /\ ~At(q, "flush") /\ disk' = job[q].gen
      BY <1>1, <2>6, PopStep DEF Committed, At
    <3>2. Pending(q, "flush") => Pending(q, "flush")'
      BY <3>1 DEF GoesOn
    <3> QED BY <1>1, <1>4, <2>1, <3>1, <3>2 DEF Kept
  <2>7. ~CommitFails(q)
    BY <1>4 DEF CommitFails, Fail, Void
  <2>8. CASE AutoState(q)
    <3>1. CASE Become(q, "state")
      <4>1. At(q, "auto") /\ TurnsTo(q, "state", job[q].gen)
        BY <1>1, <2>8, <3>1 DEF AutoState, Become, TurnsTo, Types, Job
      <4>2. Turns(q, "state") /\ job'[q].gen = job[q].gen /\ ~At(q, "flush") /\ ~At(q, "commit")
        BY <1>1, <4>1, TurnStep DEF At
      <4>3. /\ Pending(q, "flush") => Pending(q, "flush")'
            /\ Pending(q, "commit") => Pending(q, "commit")'
        BY <4>2 DEF Turns
      <4> QED BY <1>1, <1>4, <2>1, <4>2, <4>3 DEF Kept
    <3> QED BY <2>4, <2>8, <3>1 DEF AutoState
  <2>9. CASE StateCommitted(q)
    BY <1>4, <2>4, <2>9 DEF StateCommitted, Fail
  <2>10. CASE AudioPaused(q) \/ AudioStarted(q) \/ Checkpoint(q) \/ Close(q)
    BY <2>4, <2>10 DEF AudioPaused, AudioStarted, Checkpoint, Close
  <2>11. ASSUME NEW kind, NEW stages, Begins(q, kind, stages) PROVE Kept(q)'
    BY <1>1, <1>4, <2>2, <2>11, BeginStep DEF Kept
  <2>12. CASE Loading \/ Frame \/ ClockRollback \/ IdleTick \/ Show \/ Unload \/ UNCHANGED vars
    BY <2>3, <2>12 DEF Loading, OpenCore, LoadBattery, Ready, LoadFails, Frame, ClockRollback, IdleTick, Show,
                       Unload, vars
  <2>13. ASSUME NEW p \in Procs,
                \/ CoreError(p) \/ AutoStateDue(p) \/ TimerFires(p)
                \/ Resume(p) \/ Menu(p) \/ Background(p) \/ Shutdown(p)
         PROVE  Kept(q)'
    <3>1. PICK kind, stages : Begins(p, kind, stages)
      BY <2>13 DEF CoreError, AutoStateDue, TimerFires, Resume, Menu, Background, Shutdown, Begins
    <3>2. CASE p = q
      BY <2>11, <3>1, <3>2
    <3> QED BY <1>1, <2>3, <3>1, <3>2, BeginStep
  <2>14. ASSUME NEW p \in Procs, JobStep(p), p # q PROVE job'[q] = job[q]
    <3>1. Placed(p) /\ job \in [Procs -> Job]
      BY <1>1 DEF Jobs, Types
    <3>2. ASSUME NEW x \in {"commit", "state"}, NEW y \in {"flush", "auto"}, NEW g \in {gen, job[p].gen},
                 At(p, y), TurnsTo(p, x, g)
          PROVE  job'[q] = job[q]
      BY <1>1, <2>14, <3>2, TurnStep
    <3>3. CASE Drops(p)
      BY <1>1, <2>14, <3>3, DropStep DEF Drops
    <3>4. CASE ~Idle(p) /\ Pop(p)
      BY <2>14, <3>1, <3>4, PopEffect
    <3> QED BY <1>1, <2>14, <3>2, <3>3, <3>4, StageSteps
  <2>15. JobStep(q) => Kept(q)'
    BY <2>5, <2>6, <2>7, <2>8, <2>9, <2>10 DEF JobStep
  <2> HIDE DEF Kept
  <2> QED BY <2>3, <2>12, <2>13, <2>14, <2>15 DEF Next
<1>5. \A q \in Procs : job'[q].kind = "exit" => job[q].kind = "exit" \/ Shutdown(q)
  BY <1>1, JobFate
<1> QED BY <1>2, <1>3, <1>4, <1>5

\* The game runs in sight, so that its frames count; a job is on its way to stop the clock.
Plays == running /\ visible /\ core = "live" /\ ~closed /\ load \in {"done", "error"}
Stopping == \E p \in Procs : Pending(p, "check")

LEMMA StoppingStays ==
  ASSUME Types, Jobs, [Next]_vars, Stopping, "clock" \notin void', clock' = "active"
  PROVE  Stopping'
<1> PICK c \in Procs : Pending(c, "check")
  BY DEF Stopping
<1> SUFFICES Pending(c, "check")'
  BY DEF Stopping
<1>1. CASE job'[c] = job[c]
  BY <1>1, OthersStay
<1>2. CASE Loading \/ Frame \/ ClockRollback \/ IdleTick \/ Show \/ Unload \/ UNCHANGED vars
  BY <1>1, <1>2 DEF Loading, OpenCore, LoadBattery, Ready, LoadFails, Frame, ClockRollback, IdleTick, Show,
                    Unload, vars
<1>3. ASSUME NEW p \in Procs,
             \/ CoreError(p) \/ AutoStateDue(p) \/ TimerFires(p)
             \/ Resume(p) \/ Menu(p) \/ Background(p) \/ Shutdown(p)
      PROVE  Pending(c, "check")'
  <2>1. PICK kind, stages : Begins(p, kind, stages)
    BY <1>3 DEF CoreError, AutoStateDue, TimerFires, Resume, Menu, Background, Shutdown, Begins
  <2> QED BY <1>1, <2>1, BeginStep
<1>4. ASSUME NEW p \in Procs, NEW x, At(p, x), Pop(p), x # "check" PROVE Pending(c, "check")'
  <2>1. ~At(p, "check")
    BY <1>4 DEF At
  <2> QED BY <1>1, <1>4, <2>1, PopStep DEF GoesOn
<1>5. ASSUME NEW p \in Procs, NEW x \in {"commit", "state"}, NEW y \in {"flush", "auto"},
             NEW g \in {gen, job[p].gen}, At(p, y), TurnsTo(p, x, g)
      PROVE  Pending(c, "check")'
  <2>1. (\A q \in Procs \ {p} : job'[q] = job[q]) /\ Turns(p, x) /\ ~At(p, "check")
    BY <1>5, TurnStep DEF At
  <2> QED BY <1>1, <2>1 DEF Turns
<1>6. ASSUME NEW p \in Procs, NEW x \in {"commit", "state"}, NEW lost, At(p, x), Fail(p, lost)
      PROVE  Pending(c, "check")'
  <2>1. CASE Pop(p)
    BY <1>4, <1>6, <2>1
  <2>2. CASE job' = [job EXCEPT ![p] = NoJob] /\ job[p].kind # "exit"
    <3>1. job[p].kind # "hide"
      BY <1>6 DEF Fail, Void
    <3>2. job[p].kind # "menu"
      BY <1>6, AtPending DEF Jobs
    <3>3. ~Pending(p, "check")
      BY <2>2, <3>1, <3>2 DEF Jobs
    <3> QED BY <1>1, <2>2, <3>3, DropStep
  <2> QED BY <1>6, <2>1, <2>2 DEF Fail
<1>7. ASSUME NEW p \in Procs, JobStep(p) PROVE Pending(c, "check")'
  <2>1. CASE AudioPaused(p) \/ AudioStarted(p) \/ Committed(p) \/ Close(p)
    BY <1>4, <2>1 DEF AudioPaused, AudioStarted, Committed, Close
  <2>2. CASE Flush(p)
    BY <1>4, <1>5, <2>2 DEF Flush, TurnsTo
  <2>3. CASE CommitFails(p)
    BY <1>6, <2>3 DEF CommitFails
  <2>4. CASE AutoState(p)
    <3>1. At(p, "auto") /\ Become(p, "state") => TurnsTo(p, "state", job[p].gen)
      BY DEF Become, TurnsTo, Types, Job
    <3> QED BY <1>4, <1>5, <2>4, <3>1 DEF AutoState
  <2>5. CASE StateCommitted(p)
    BY <1>4, <1>6, <2>5 DEF StateCommitted
  <2>6. ~Checkpoint(p)
    BY DEF Checkpoint, StopClock, Types
  <2> QED BY <1>7, <2>1, <2>2, <2>3, <2>4, <2>5, <2>6 DEF JobStep
<1> QED BY <1>2, <1>3, <1>7 DEF Next

\* What takes the game out of sight or stops it puts the clock's end on the way, or is void.
LEMMA PlaysStays ==
  ASSUME Types, Jobs, Stands, [Next]_vars, Plays, "clock" \notin void', clock' = "active"
  PROVE  Plays' \/ Stopping'
<1>1. CASE Loading
  BY <1>1 DEF Loading, OpenCore, LoadBattery, Ready, LoadFails, Plays
<1>2. CASE Frame \/ IdleTick \/ Show \/ Unload \/ UNCHANGED vars
  BY <1>2 DEF Frame, IdleTick, Show, Unload, vars, page, play, Plays
<1>3. ~ClockRollback
  BY DEF ClockRollback, Void
<1>4. ASSUME NEW p \in Procs, CoreError(p) PROVE FALSE
  BY <1>4 DEF CoreError, StopClock, Types
<1>5. ASSUME NEW p \in Procs, NEW kind, NEW stages, Begins(p, kind, stages),
             \E i \in DOMAIN stages : stages[i] = "check"
      PROVE  Stopping'
  BY <1>5, BeginStep DEF Stopping
<1>6. ASSUME NEW p \in Procs, Menu(p) \/ Background(p) \/ Shutdown(p) PROVE Stopping'
  <2>1. CASE Begins(p, "menu", <<"pause", "check">>)
    <3>1. 2 \in DOMAIN <<"pause", "check">> /\ <<"pause", "check">>[2] = "check"
      OBVIOUS
    <3> QED BY <1>5, <2>1, <3>1
  <2>2. CASE Begins(p, "hide", <<"pause", "flush", "auto", "check">>)
    <3> DEFINE s == <<"pause", "flush", "auto", "check">>
    <3>1. 4 \in DOMAIN s /\ s[4] = "check"
      OBVIOUS
    <3> QED BY <1>5, <2>2, <3>1
  <2>3. CASE Begins(p, "exit", <<"flush", "auto", "check", "pause", "close">>)
    <3> DEFINE s == <<"flush", "auto", "check", "pause", "close">>
    <3>1. 3 \in DOMAIN s /\ s[3] = "check"
      OBVIOUS
    <3> QED BY <1>5, <2>3, <3>1
  <2> QED BY <1>6, <2>1, <2>2, <2>3 DEF Menu, Background, Shutdown, Begins
<1>7. ASSUME NEW p \in Procs, AutoStateDue(p) \/ TimerFires(p) \/ Resume(p) PROVE Plays'
  <2>1. UNCHANGED <<running, visible, core, closed, load>>
    BY <1>7 DEF AutoStateDue, TimerFires, Resume, page, play
  <2> QED BY <2>1 DEF Plays
<1>8. ASSUME NEW p \in Procs, Close(p) PROVE FALSE
  <2>1. Leaving
    BY <1>8, AtPending DEF Close, Jobs, Leaving
  <2>2. "clock" \notin void
    BY VoidSteps
  <2> QED BY <2>1, <2>2 DEF Stands, Plays
<1>9. ASSUME NEW p \in Procs, JobStep(p) PROVE Plays'
  <2>1. CASE AudioPaused(p) \/ Flush(p) \/ Committed(p) \/ CommitFails(p)
    <3>1. UNCHANGED <<running, visible, core, closed, load>>
      BY <2>1 DEF AudioPaused, Flush, Committed, CommitFails, page, play
    <3> QED BY <3>1 DEF Plays
  <2>2. CASE AutoState(p) \/ StateCommitted(p) \/ Checkpoint(p)
    <3>1. UNCHANGED <<running, visible, core, closed, load>>
      BY <2>2 DEF AutoState, StateCommitted, Checkpoint, page
    <3> QED BY <3>1 DEF Plays
  <2>3. CASE AudioStarted(p)
    BY <2>3 DEF AudioStarted, page, Plays
  <2> QED BY <1>8, <1>9, <2>1, <2>2, <2>3 DEF JobStep
<1> QED BY <1>1, <1>2, <1>3, <1>4, <1>6, <1>7, <1>9 DEF Next

LEMMA ClockSteps ==
  ASSUME Types, [Next]_vars, clock' = "active"
  PROVE  clock = "active" \/ \E p \in Procs : AudioStarted(p)
BY DEF Next, vars, play, Loading, OpenCore, LoadBattery, Ready, LoadFails, Frame, ClockRollback, IdleTick,
       Show, Unload, CoreError, AutoStateDue, TimerFires, Resume, Menu, Background, Shutdown, JobStep,
       AudioPaused, AudioStarted, Flush, Committed, CommitFails, AutoState, StateCommitted, Checkpoint, Close,
       StopClock, Types

LEMMA StopsNext == ASSUME PInv, [Next]_vars PROVE Stops'
<1> SUFFICES ASSUME "clock" \notin void', clock' = "active" PROVE Plays' \/ Stopping'
  BY DEF Stops, Plays, Stopping
<1>1. Types /\ Jobs /\ Stands /\ Opening /\ "clock" \notin void
  BY VoidSteps DEF PInv
<1>2. ASSUME NEW p \in Procs, AudioStarted(p) PROVE Plays'
  <2>1. ~Leaving /\ visible
    BY <1>2 DEF AudioStarted, Void
  <2>2. load \in {"done", "error"}
    BY <1>1, <1>2, AtPending DEF AudioStarted, Jobs
  <2>3. core = "live" /\ ~closed
    BY <1>1, <2>1, <2>2 DEF Opening, Leaving, Types
  <2> QED BY <1>2, <2>1, <2>2, <2>3 DEF AudioStarted, page, Plays
<1>3. CASE clock = "active"
  <2>1. Plays \/ Stopping
    BY <1>1, <1>3 DEF PInv, Stops, Plays, Stopping
  <2> QED BY <1>1, <2>1, PlaysStays, StoppingStays
<1> QED BY <1>1, <1>2, <1>3, ClockSteps

LEMMA BlankNext == ASSUME PInv, [Next]_vars PROVE BlankNeverSaved'
<1>1. ASSUME NEW p \in Procs, Flush(p) PROVE ~blank'
  <2>1. ~battery => gen = last
    BY DEF PInv, Opening, Types
  <2> QED BY <1>1, <2>1 DEF Flush, PInv, BlankNeverSaved
<1> QED BY <1>1, PageSteps DEF PInv, BlankNeverSaved

LEMMA CountedNext == ASSUME PInv, [Next]_vars PROVE PausedTimeNotCounted'
<1> SUFFICES ASSUME "clock" \notin void' PROVE ~counted'
  BY DEF PausedTimeNotCounted
<1>1. "clock" \notin void /\ ~counted
  BY VoidSteps DEF PInv, PausedTimeNotCounted
<1>2. Quiet => ~Stopping
  BY DEF Quiet, Idle, Stopping, Pending
<1>3. clock = "active" /\ Quiet => Plays
  BY <1>1, <1>2 DEF PInv, Stops, Plays, Stopping
<1>4. IdleTick => ~counted'
  BY <1>1, <1>3 DEF IdleTick, Waited, Plays, Runs, Ticking
<1>5. Show => ~counted'
  BY <1>1, <1>3 DEF Show, Waited, Plays
<1> QED BY <1>1, <1>4, <1>5, PageSteps

------------------------------------------------------------------------------
(* The theorems. *)

LEMMA NextPlayer == PInv /\ [Next]_vars => PInv'
<1> SUFFICES ASSUME PInv, [Next]_vars PROVE PInv'
  OBVIOUS
<1>1. Types' /\ Jobs' /\ OneState'
  BY TypesNext, JobsNext, OneStateNext DEF PInv
<1>2. Opening' /\ (last = disk)' /\ Stands'
  BY OpeningNext, StandsNext DEF PInv
<1> QED BY <1>1, <1>2, FinalNext, StopsNext, BlankNext, CountedNext DEF PInv

\* Every state of the page is one of PInv: at most one automatic state is under way and
\* autoStateInFlight tells of it, a page that is left stands still, the last change of a page
\* on its way out is on disk or will be copied, and a clock that runs is one that should.
THEOREM PlayerInvariant == Spec => []PInv
<1>1. Init => PInv
  BY InitPlayer
<1>2. PInv /\ [Next]_vars => PInv'
  BY NextPlayer
<1> QED BY <1>1, <1>2, PTL DEF Spec

\* The shape of the page's state, and autoStateInFlight is the number of automatic states under
\* way: commitAutoState never runs twice at once.
THEOREM PlayerTypes == Spec => []TypeOK
<1>1. PInv => TypeOK
  <2> SUFFICES ASSUME PInv PROVE TypeOK
    OBVIOUS
  <2>1. \A p \in Procs : /\ job[p].kind \in Kinds /\ job[p].gen \in 0 .. gen
                         /\ \A i \in DOMAIN job[p].stages : job[p].stages[i] \in Stages
    <3> SUFFICES ASSUME NEW p \in Procs
                 PROVE  /\ job[p].kind \in Kinds /\ job[p].gen \in 0 .. gen
                        /\ \A i \in DOMAIN job[p].stages : job[p].stages[i] \in Stages
      OBVIOUS
    <3>1. job[p] \in Job /\ job[p].gen <= gen /\ gen \in Nat
      BY DEF PInv, Types
    <3> QED BY <3>1 DEF Job
  <2>2. Cardinality({p \in Procs : At(p, "state")}) = (IF auto THEN 1 ELSE 0)
    <3>1. CASE auto
      <4>1. PICK a \in Procs : At(a, "state")
        BY <3>1 DEF PInv, OneState
      <4>2. {p \in Procs : At(p, "state")} = {a}
        BY <4>1 DEF PInv, OneState
      <4> QED BY <3>1, <4>2, FS_Singleton
    <3>2. CASE ~auto
      <4>1. {p \in Procs : At(p, "state")} = {}
        BY <3>2 DEF PInv, OneState
      <4> QED BY <3>2, <4>1, FS_EmptySet
    <3> QED BY <3>1, <3>2
  <2> QED BY <2>1, <2>2 DEF PInv, Types, TypeOK
<1> QED BY <1>1, PlayerInvariant, PTL

\* Leaving the page saves the last change of the save memory, whatever else is under way.
THEOREM LeavingSaves == Spec => []FinalSaved
<1>1. PInv => FinalSaved
  BY DEF PInv, Final, FinalSaved
<1> QED BY <1>1, PlayerInvariant, PTL

\* A core that has not been given the save of the disk never overwrites it.
THEOREM BlankStays == Spec => []BlankNeverSaved
<1>1. PInv => BlankNeverSaved
  BY DEF PInv
<1> QED BY <1>1, PlayerInvariant, PTL

\* Time in which no frame can run is not counted as played.
THEOREM PlayTime == Spec => []PausedTimeNotCounted
<1>1. PInv => PausedTimeNotCounted
  BY DEF PInv
<1> QED BY <1>1, PlayerInvariant, PTL
===============================================================================
