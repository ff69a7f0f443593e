------------------------------ MODULE SyncProofs ------------------------------
(***************************************************************************)
(* What the synchronisation promises about saves, for every number of      *)
(* saves, operations and faults: no save is lost, none is overwritten in   *)
(* the cloud unseen, none is forgotten, and no deletion is undone.         *)
(***************************************************************************)
EXTENDS Sync, SequenceTheorems, TLAPS

------------------------------------------------------------------------------
(* The shape of the state. *)

Task == [key : Keys \cup {None}, id : Nat, rev : Nat, sum : Nat, due : {"now", "later", "never"}, head : Int]
Save == [rev : Nat, cloud : Nat, sum : Nat]
Stages == {"enqueue", "run", "write", "now", "fetch", "copy", "update", "complete", "put", "heads", "revive",
           "due", "clear", "erase", "next", "back", "upload", "conflict", "delay", "fail"}
Job == [op : Ops \cup {"none", "run"}, keys : SUBSET Keys, stages : Seq(Stages), todo : SUBSET Task,
        task : Task, save : Save, list : [Keys -> Task], stale : {"no", "yes"}]

Made == 1 .. Len(from)
Revs(k) == 1 .. Len(vers[k])
IsTask(t) ==
  /\ t \in Task /\ t.key \in Keys /\ t.id \in 1 .. issued /\ t.rev # 0 /\ t.sum \in Made
  /\ t.head \in {None, Unseen} \cup 0 .. Len(vers[t.key])
IsList(list) == \A k \in Keys : list[k] = NoTask \/ (IsTask(list[k]) /\ list[k].key = k)

Stores ==
  /\ local \in [Keys -> Save] /\ queue \in [{"account", "anonymous"} -> [Keys -> Task]]
  /\ copies \in SUBSET Nat /\ scope \in {"account", "anonymous"} /\ newest \in [Keys -> Nat]
  /\ \A k \in Keys : /\ local[k].rev = 0 => local[k] = NoSave
                     /\ local[k].rev # 0 => local[k].sum \in Made
                     /\ local[k].cloud \in 0 .. Len(vers[k])
  /\ \A s \in {"account", "anonymous"} : IsList(queue[s])
Server ==
  /\ vers \in [Keys -> Seq(Nat)] /\ head \in [Keys -> Nat]
  /\ \A k \in Keys : head[k] \in 0 .. Len(vers[k]) /\ \A r \in Revs(k) : vers[k][r] \in Made
  /\ done \subseteq [id : 1 .. issued, base : Nat, rev : Nat] /\ issued \in Nat
  /\ from \in Seq(SUBSET Nat) /\ \A c \in Made : c \in from[c]

\* The stages each operation goes through.
Plans(op) ==
  CASE op = "none" -> {<<>>}
    [] op = "save" -> {<<"enqueue", "run">>, <<"write", "enqueue", "run">>, <<"run">>}
    [] op = "wake" -> {<<"run">>}
    [] op = "retry" -> {<<"now", "run">>, <<"write", "now", "run">>, <<"run">>}
    [] op = "keep" ->
         {<<"fetch", "copy", "update", "complete", "enqueue", "run">>,
          <<"copy", "update", "complete", "enqueue", "run">>, <<"update", "complete", "enqueue", "run">>,
          <<"complete", "enqueue", "run">>, <<"write", "complete", "enqueue", "run">>,
          <<"enqueue", "run">>, <<"write", "enqueue", "run">>, <<"run">>}
    [] op = "use" ->
         {<<"copy", "fetch", "put", "complete">>, <<"fetch", "put", "complete">>, <<"put", "complete">>,
          <<"complete">>, <<"write", "complete">>}
    [] op = "restore" -> {<<"fetch", "put">>, <<"put">>}
    [] op = "version" ->
         {<<"heads", "copy", "revive", "fetch", "put">>, <<"copy", "revive", "fetch", "put">>,
          <<"revive", "fetch", "put">>, <<"fetch", "put">>, <<"put">>}
    [] op = "delete" ->
         {<<"due">>, <<"clear", "erase">>, <<"write", "clear", "erase">>, <<"erase">>, <<"next">>,
          <<"back", "next">>, <<"write", "back", "next">>}
    [] op = "run" ->
         {<<"due">>, <<"next">>, <<"upload", "next">>, <<"update", "complete", "next">>,
          <<"complete", "next">>, <<"write", "complete", "next">>, <<"conflict", "next">>,
          <<"write", "conflict", "next">>, <<"delay", "next">>, <<"write", "delay", "next">>,
          <<"fail", "next">>, <<"write", "fail", "next">>}
    [] OTHER -> {}

Resolvers == {"keep", "use", "restore", "version"}
InLine == {"run", "delete"}
\* What a job has read, by its operation and the stages it has to go.
IsSave(x) == x.rev # 0 /\ x.sum \in Made
Revision(k, x) == x.cloud \in Revs(k) /\ vers[k][x.cloud] = x.sum
\* Stages with no task at hand; those of a choice that know the save of the cloud, and those
\* after its cloudRevision is set; those that put what was downloaded; and those of a restored
\* version that know its new revision, and the one it replaces.
Taskless == {<<"due">>, <<"next">>, <<"clear", "erase">>, <<"write", "clear", "erase">>, <<"erase">>}
Downloaded == {<<"copy", "update", "complete", "enqueue", "run">>, <<"update", "complete", "enqueue", "run">>}
Updated == {<<"complete", "enqueue", "run">>, <<"write", "complete", "enqueue", "run">>,
            <<"enqueue", "run">>, <<"write", "enqueue", "run">>}
Puts == {<<"put", "complete">>, <<"put">>}
Revived == {<<"fetch", "put">>, <<"put">>}
Headed == {<<"copy", "revive", "fetch", "put">>, <<"revive", "fetch", "put">>}
Good(j) ==
  /\ j.op = "none" => j = NoJob
  /\ j.op \in Resolvers \cup {"save", "retry"} => \E k \in Keys : j.keys = {k}
  /\ IsList(j.list) /\ \A t \in j.todo : IsTask(t)
  /\ j.op \notin InLine \/ j.stages = <<"due">> => j.todo = {}
  /\ IF j.op \in {"restore", "version"} THEN j.task.id = 0 ELSE j.task = NoTask \/ IsTask(j.task)
  /\ j.op = "retry" => IsTask(j.task)
  /\ j.op \in {"keep", "use"} => IsTask(j.task) /\ \A k \in j.keys : j.task.key = k /\ j.task.head \in 0 .. Len(vers[k])
  /\ j.op \in {"save", "wake"} \/ j.stages = <<"due">> => j.task = NoTask
  /\ j.op \in InLine /\ j.stages \notin Taskless => IsTask(j.task)
  /\ j.op = "restore" => j.task.head = 0
  /\ j.op = "version" => \A k \in j.keys :
       /\ j.task.rev \in Revs(k)
       /\ j.stages \in Revived => j.task.head \in Revs(k)
       /\ j.stages \in Headed => j.save.cloud \in Revs(k)
  /\ j.op = "save" => IsSave(j.save)
  /\ j.op = "keep" => \A k \in j.keys :
       /\ j.stages \in Downloaded => Revision(k, j.save)
       /\ j.stages \in Updated => IsSave(j.save)
  /\ j.op \in {"use", "restore", "version"} /\ j.stages \in Puts => \A k \in j.keys : Revision(k, j.save)
  /\ j.op = "run" /\ j.stages = <<"upload", "next">> =>
       j.save.rev = j.task.rev /\ j.save.sum = j.task.sum /\ j.save.cloud \in 0 .. Len(vers[j.task.key])
  /\ j.op = "run" /\ j.stages = <<"update", "complete", "next">> =>
       j.save.sum = j.task.sum /\ Revision(j.task.key, j.save)

Reads(p) == job[p].stages \in Plans(job[p].op) /\ Good(job[p])
Fits(p) == \A j \in Job : j = job[p] => j.stages \in Plans(j.op) /\ Good(j)
Jobs == job \in [Procs -> Job] /\ \A p \in Procs : Fits(p)

Line ==
  /\ line \in Seq(Procs) /\ \A i, j \in DOMAIN line : line[i] = line[j] => i = j
  /\ \A p \in Procs : p \in ToSet(line) <=> job[p].op \in InLine
  /\ \A p \in Procs : job[p].op \in InLine /\ job[p].stages # <<"due">> => Running(p)

\* A task keeps its id, key, revision and content wherever it is held, and the server has
\* accepted nothing else under its id.
Held(t) ==
  \/ \E s \in {"account", "anonymous"} : \E k \in Keys : t = queue[s][k]
  \/ \E p \in Procs : t = job[p].task \/ t \in job[p].todo \/ \E k \in Keys : t = job[p].list[k]
Ids ==
  /\ \A t, u \in Task : Held(t) /\ Held(u) /\ t.id = u.id /\ t.id # 0 => t.key = u.key /\ t.rev = u.rev /\ t.sum = u.sum
  /\ \A d \in done : \A t \in Task : Held(t) /\ t.id = d.id => d.rev \in Revs(t.key) /\ vers[t.key][d.rev] = t.sum

------------------------------------------------------------------------------
(* What the promises need. *)

\* Who uploads a save, or has it accepted; who is to put another save in its place.
Sending == {<<"upload", "next">>, <<"update", "complete", "next">>}
Sends(p) == job[p].op = "run" /\ job[p].stages \in Sending
Overwriting == {<<"fetch", "put", "complete">>, <<"put", "complete">>, <<"revive", "fetch", "put">>, <<"fetch", "put">>, <<"put">>}
Overwrites(p) == job[p].op \in {"use", "version"} /\ job[p].stages \in Overwriting

\* The save the player made last is kept somewhere else than in its own place.
Backed(k) == newest[k] \in {0} \cup copies \cup ToSet(vers[k])
Safe == "crossed" \notin slips => \A p \in Procs : Overwrites(p) => \A k \in job[p].keys : Backed(k)

\* The save that is uploaded is the one on the phone, or an older one it descends from.
Descends == slips \cap {"crossed", "removed"} = {} =>
  \A p \in Procs : Sends(p) =>
    local[job[p].task.key].rev # 0 /\ job[p].task.sum \in from[local[job[p].task.key].sum]

\* Who has read the queue and not been overtaken writes nothing older than what is there.
Newer == "scope" \notin slips =>
  /\ scope = "account"
  /\ \A p \in Procs : At(p, "write") /\ job[p].stale = "no" => \A k \in Keys :
       LET old == queue["account"][k]
           new == job[p].list[k] IN old.id # 0 /\ new.id # 0 => new.rev >= old.rev

\* A cancelled task is not in the queue, nor on its way to it or to the server; what a deletion
\* is about to cancel is with that deletion alone.
Gone(ids) ==
  /\ \A s \in {"account", "anonymous"} : \A k \in Keys : queue[s][k].id \notin ids
  /\ \A p \in Procs : At(p, "write") /\ job[p].stale = "no" => \A k \in Keys : job[p].list[k].id \notin ids
Todo(p) == {t.id : t \in job[p].todo}
Mine(p) ==
  /\ Todo(p) \cap cancelled = {}
  /\ job[p].stages \in {<<"back", "next">>, <<"write", "back", "next">>, <<"upload", "next">>} => job[p].task.id \notin cancelled
  /\ job[p].stages = <<"clear", "erase">> /\ job[p].stale = "no" => job[p].todo = Tasks(job[p].keys)
  /\ job[p].stages = <<"write", "clear", "erase">> /\ job[p].stale = "no" => \A k \in Keys : job[p].list[k].id \notin Todo(p)
  /\ job[p].stages = <<"erase">> => Gone(Todo(p))
Cancels == slips \cap {"raced", "scope"} = {} =>
  /\ scope = "account" /\ \A k \in Keys : queue["anonymous"][k] = NoTask
  /\ cancelled \subseteq 1 .. issued /\ Gone(cancelled)
  /\ \A p \in Procs : Running(p) => Mine(p)

\* What no later step makes good for a save that is forgotten has not happened.
Clean == slips \cap {"raced", "cut", "removed", "scope"} = {}

\* No task, and no save that is to be enqueued, is newer than the save on the phone, or another
\* one of the same revision.
Within(k, x) == x.rev <= local[k].rev /\ (x.rev = local[k].rev => x.sum = local[k].sum)
Filing(p) == job[p].op \in {"save", "keep"} /\ job[p].stages \in Updated
Ranked(p, k) == Within(k, job[p].save) /\ (job[p].op = "keep" => job[p].task.rev <= job[p].save.rev)
Ranks == Clean =>
  /\ \A t \in Task : Held(t) /\ t.id # 0 => Within(t.key, t)
  /\ \A p \in Procs : Filing(p) => \A k \in job[p].keys : Ranked(p, k)

\* Who is to complete a task has it in the cloud, or there is a newer save.
Completing == {<<"complete", "next">>, <<"write", "complete", "next">>, <<"complete">>, <<"write", "complete">>}
Completes(p) == job[p].op \in {"run", "use"} /\ job[p].stages \in Completing
Superseded(t) == t.rev < local[t.key].rev
Settled == Clean => \A p \in Procs : Completes(p) =>
  Superseded(job[p].task) \/ (job[p].op = "run" /\ job[p].task.sum \in ToSet(vers[job[p].task.key]))

\* Who has read the queue and not been overtaken leaves out no task but what it completes or
\* clears, and writes a task for what it enqueues.
Finishing == {<<"write", "complete", "enqueue", "run">>, <<"write", "complete">>, <<"write", "complete", "next">>}
Drops(p) ==
  /\ \A k \in Keys : queue["account"][k].id # 0 /\ job[p].list[k].id = 0 =>
       \/ job[p].stages \in Finishing /\ job[p].task.id = queue["account"][k].id
       \/ job[p].stages = <<"write", "clear", "erase">> /\ k \in job[p].keys
  /\ job[p].stages = <<"write", "enqueue", "run">> => \A k \in job[p].keys :
       job[p].list[k].id # 0 /\ job[p].list[k].rev >= job[p].save.rev
DropsLittle == Clean => \A p \in Procs : At(p, "write") /\ job[p].stale = "no" => Drops(p)

\* A save is in the cloud, has a task, or is about to have one.
Enqueuing == {<<"enqueue", "run">>, <<"write", "enqueue", "run">>}
Enqueues(p, k) == /\ job[p].stages \in Enqueuing /\ k \in job[p].keys
                  /\ job[p].save.rev = local[k].rev /\ job[p].save.sum = local[k].sum
Cared(k) == Stored(k) \/ Queued(k) \/ \E p \in Procs : Enqueues(p, k)
Carried == owed \subseteq Keys /\ (Clean => \A k \in owed : local[k].rev # 0 => Cared(k))

SyInv == /\ Stores /\ Server /\ Jobs /\ Line /\ Ids
         /\ Safe /\ Descends /\ NoBlindOverwrite /\ SaveKept /\ Newer /\ Cancels
         /\ Ranks /\ Settled /\ DropsLittle /\ Carried

------------------------------------------------------------------------------
(* Operations and their stages. *)

LEMMA Reading ==
  ASSUME Jobs, NEW p \in Procs
  PROVE  job[p] \in Job /\ Reads(p)
BY DEF Jobs, Fits, Reads

\* Where an operation is when it is at a stage.
LEMMA AtStage ==
  ASSUME NEW p \in Procs, NEW x, At(p, x), Reads(p)
  PROVE  /\ x = "back" => (job[p].op = "delete" /\ job[p].stages = <<"back", "next">>)
         /\ x = "clear" => (job[p].op = "delete" /\ job[p].stages = <<"clear", "erase">>)
         /\ x = "complete" =>
              \/ (job[p].op = "keep" /\ job[p].stages = <<"complete", "enqueue", "run">>)
              \/ (job[p].op = "use" /\ job[p].stages = <<"complete">>)
              \/ (job[p].op = "run" /\ job[p].stages = <<"complete", "next">>)
         /\ x = "conflict" => (job[p].op = "run" /\ job[p].stages = <<"conflict", "next">>)
         /\ x = "copy" =>
              \/ (job[p].op = "keep" /\ job[p].stages = <<"copy", "update", "complete", "enqueue", "run">>)
              \/ (job[p].op = "use" /\ job[p].stages = <<"copy", "fetch", "put", "complete">>)
              \/ (job[p].op = "version" /\ job[p].stages = <<"copy", "revive", "fetch", "put">>)
         /\ x = "delay" => (job[p].op = "run" /\ job[p].stages = <<"delay", "next">>)
         /\ x = "due" =>
              \/ (job[p].op = "delete" /\ job[p].stages = <<"due">>)
              \/ (job[p].op = "run" /\ job[p].stages = <<"due">>)
         /\ x = "enqueue" =>
              \/ (job[p].op = "save" /\ job[p].stages = <<"enqueue", "run">>)
              \/ (job[p].op = "keep" /\ job[p].stages = <<"enqueue", "run">>)
         /\ x = "erase" => (job[p].op = "delete" /\ job[p].stages = <<"erase">>)
         /\ x = "fail" => (job[p].op = "run" /\ job[p].stages = <<"fail", "next">>)
         /\ x = "fetch" =>
              \/ (job[p].op = "keep" /\ job[p].stages = <<"fetch", "copy", "update", "complete", "enqueue", "run">>)
              \/ (job[p].op = "use" /\ job[p].stages = <<"fetch", "put", "complete">>)
              \/ (job[p].op = "restore" /\ job[p].stages = <<"fetch", "put">>)
              \/ (job[p].op = "version" /\ job[p].stages = <<"fetch", "put">>)
         /\ x = "heads" => (job[p].op = "version" /\ job[p].stages = <<"heads", "copy", "revive", "fetch", "put">>)
         /\ x = "next" =>
              \/ (job[p].op = "delete" /\ job[p].stages = <<"next">>)
              \/ (job[p].op = "run" /\ job[p].stages = <<"next">>)
         /\ x = "now" => (job[p].op = "retry" /\ job[p].stages = <<"now", "run">>)
         /\ x = "put" =>
              \/ (job[p].op = "use" /\ job[p].stages = <<"put", "complete">>)
              \/ (job[p].op = "restore" /\ job[p].stages = <<"put">>)
              \/ (job[p].op = "version" /\ job[p].stages = <<"put">>)
         /\ x = "revive" => (job[p].op = "version" /\ job[p].stages = <<"revive", "fetch", "put">>)
         /\ x = "run" =>
              \/ (job[p].op = "save" /\ job[p].stages = <<"run">>)
              \/ (job[p].op = "wake" /\ job[p].stages = <<"run">>)
              \/ (job[p].op = "retry" /\ job[p].stages = <<"run">>)
              \/ (job[p].op = "keep" /\ job[p].stages = <<"run">>)
         /\ x = "update" =>
              \/ (job[p].op = "keep" /\ job[p].stages = <<"update", "complete", "enqueue", "run">>)
              \/ (job[p].op = "run" /\ job[p].stages = <<"update", "complete", "next">>)
         /\ x = "upload" => (job[p].op = "run" /\ job[p].stages = <<"upload", "next">>)
         /\ x = "write" =>
              \/ (job[p].op = "save" /\ job[p].stages = <<"write", "enqueue", "run">>)
              \/ (job[p].op = "retry" /\ job[p].stages = <<"write", "now", "run">>)
              \/ (job[p].op = "keep" /\ job[p].stages \in {<<"write", "complete", "enqueue", "run">>, <<"write", "enqueue", "run">>})
              \/ (job[p].op = "use" /\ job[p].stages = <<"write", "complete">>)
              \/ (job[p].op = "delete" /\ job[p].stages \in {<<"write", "clear", "erase">>, <<"write", "back", "next">>})
              \/ (job[p].op = "run" /\ job[p].stages \in {<<"write", "complete", "next">>, <<"write", "conflict", "next">>, <<"write", "delay", "next">>, <<"write", "fail", "next">>})
BY DEF At, Idle, Reads, Plans

\* p's job is j now, and no other has changed.
Gets(p, j) == job' \in [Procs -> Job] /\ job'[p] = j /\ \A q \in Procs \ {p} : job'[q] = job[q]
\* p goes on with its stages, tasks, save and list as given.
Has(q, stages, todo, task, save, list) ==
  /\ job'[q].op = job[q].op /\ job'[q].keys = job[q].keys /\ job'[q].stages = stages
  /\ job'[q].todo = todo /\ job'[q].task = task /\ job'[q].save = save /\ job'[q].list = list
Stays(q) == Has(q, job[q].stages, job[q].todo, job[q].task, job[q].save, job[q].list)
Becomes(p, stages, todo, task, save, list) ==
  /\ job' \in [Procs -> Job] /\ \A q \in Procs \ {p} : job'[q] = job[q]
  /\ Has(p, stages, todo, task, save, list) /\ job'[p].stale = job[p].stale
Moves(p, stages) == Becomes(p, stages, job[p].todo, job[p].task, job[p].save, job[p].list)
New(op, keys, stages, task, save) ==
  [op |-> op, keys |-> keys, stages |-> stages, todo |-> {}, task |-> task, save |-> save,
   list |-> NoList, stale |-> "no"]

LEMMA NoneTyped == NoTask \in Task /\ NoSave \in Save /\ NoList \in [Keys -> Task] /\ NoJob \in Job
                   /\ \A k \in Keys : NoList[k] = NoTask
BY DEF NoTask, NoSave, NoList, NoJob, Task, Save, Job, None

LEMMA Tuples ==
  ASSUME NEW a \in Stages
  PROVE  /\ <<a>> \in Seq(Stages)
         /\ \A b \in Stages : /\ <<a, b>> \in Seq(Stages)
                             /\ \A c \in Stages : /\ <<a, b, c>> \in Seq(Stages)
                                                 /\ \A d \in Stages : <<a, b, c, d>> \in Seq(Stages)
OBVIOUS

LEMMA Replaced ==
  ASSUME job \in [Procs -> Job], NEW p \in Procs, NEW j \in Job, job' = [job EXCEPT ![p] = j]
  PROVE  Gets(p, j)
BY DEF Gets

LEMMA Ended ==
  ASSUME job \in [Procs -> Job], NEW p \in Procs, job' = [job EXCEPT ![p] = NoJob]
  PROVE  Gets(p, NoJob)
BY NoneTyped, Replaced

LEMMA JobsEqual ==
  ASSUME NEW x \in Job, NEW y \in Job, x.op = y.op, x.keys = y.keys, x.stages = y.stages, x.todo = y.todo,
         x.task = y.task, x.save = y.save, x.list = y.list, x.stale = y.stale
  PROVE  x = y
BY DEF Job

LEMMA EnterEffect ==
  ASSUME job \in [Procs -> Job], NEW p \in Procs, NEW op \in Ops, NEW keys \in SUBSET Keys,
         NEW stages \in Seq(Stages), NEW task \in Task, NEW save \in Save, Enter(p, op, keys, stages, task, save)
  PROVE  Gets(p, New(op, keys, stages, task, save)) /\ Idle(p)
<1>1. New(op, keys, stages, task, save) \in Job
  BY NoneTyped DEF New, Job
<1>2. [NoJob EXCEPT !.op = op, !.keys = keys, !.stages = stages, !.task = task, !.save = save]
        = New(op, keys, stages, task, save)
  <2> PICK e : e = [NoJob EXCEPT !.op = op, !.keys = keys, !.stages = stages, !.task = task, !.save = save]
    OBVIOUS
  <2>1. e \in Job
    BY NoneTyped DEF Job
  <2>2. /\ e.op = op /\ e.keys = keys /\ e.stages = stages /\ e.task = task /\ e.save = save
        /\ e.todo = NoJob.todo /\ e.list = NoJob.list /\ e.stale = NoJob.stale
    BY NoneTyped DEF Job
  <2> QED BY <1>1, <2>1, <2>2, JobsEqual DEF New, NoJob
<1>3. job' = [job EXCEPT ![p] = New(op, keys, stages, task, save)]
  BY <1>2 DEF Enter
<1> QED BY <1>1, <1>3, Replaced DEF Enter

LEMMA KeyIs ==
  ASSUME NEW p \in Procs, Reads(p), job[p].op \in Resolvers \cup {"save", "retry"}
  PROVE  Key(p) \in Keys /\ job[p].keys = {Key(p)}
<1>1. PICK k \in Keys : job[p].keys = {k}
  BY DEF Reads, Good
<1>2. Key(p) = k
  BY <1>1 DEF Key
<1> QED BY <1>1, <1>2

------------------------------------------------------------------------------
(* The queue. *)

\* Two states of the same task.
Same(t, u) == t.id = u.id /\ t.key = u.key /\ t.rev = u.rev /\ t.sum = u.sum

\* What a stage writes differs from what it read in one task, or in those it removes.
Edit(p, stage, old, new, fresh, k) ==
  \/ new[k] = old[k]
  \/ /\ stage = "enqueue" /\ k = Key(p) /\ new[k] = fresh
     /\ old[k].id = 0 \/ old[k].rev <= new[k].rev
  \/ /\ stage = "back" /\ k = job[p].task.key /\ new[k] = job[p].task
     /\ old[k].id = 0 \/ old[k].rev <= new[k].rev
  \/ stage = "complete" /\ new[k] = NoTask /\ old[k].id = job[p].task.id
  \/ stage = "clear" /\ new[k] = NoTask /\ \E j \in job[p].keys : old[k].id = old[j].id
  \/ /\ stage \in {"conflict", "delay", "fail", "now"} /\ k = job[p].task.key
     /\ new[k] \in Task /\ Same(new[k], old[k]) /\ new[k].id = job[p].task.id
     /\ new[k].head \in {None, old[k].head, job[p].task.head}

LEMMA EditedIs ==
  ASSUME job \in [Procs -> Job], NEW p \in Procs, Reads(p), NEW stage \in QueueStages,
         NEW old \in [Keys -> Task], NEW new, new = Edited(p, stage, old),
         job[p].op \in {"save", "keep"} \/ stage # "enqueue",
         job[p].task.key \in Keys \/ stage \in {"enqueue", "clear", "complete"},
         NEW fresh, fresh = Fresh(p), stage = "enqueue" => fresh \in Task
  PROVE  /\ new \in [Keys -> Task] /\ \A k \in Keys : Edit(p, stage, old, new, fresh, k)
         /\ stage = "enqueue" => new[Key(p)] = fresh \/ (new[Key(p)].id # 0 /\ new[Key(p)].rev >= fresh.rev)
         /\ stage = "complete" => \A k \in Keys : new[k].id # job[p].task.id \/ new[k] = NoTask
         /\ stage = "clear" => \A k \in Keys : \A j \in job[p].keys : new[k].id # old[j].id \/ new[k] = NoTask
<1>1. CASE stage = "enqueue"
  <2>1. Key(p) \in Keys /\ fresh.key = Key(p)
    BY <1>1, KeyIs DEF Fresh, Resolvers
  <2>2. CASE new = old /\ old[Key(p)].id # 0 /\ old[Key(p)].rev > fresh.rev
    <3>1. old[Key(p)].rev >= fresh.rev
      BY <1>1, <2>1, <2>2 DEF Task
    <3> QED BY <1>1, <2>2, <3>1 DEF Edit
  <2>3. CASE new = [old EXCEPT ![Key(p)] = fresh] /\ ~(old[Key(p)].id # 0 /\ old[Key(p)].rev > fresh.rev)
    <3>1. new[Key(p)] = fresh /\ \A k \in Keys : k # Key(p) => new[k] = old[k]
      BY <2>1, <2>3
    <3>2. old[Key(p)].id = 0 \/ old[Key(p)].rev <= fresh.rev
      BY <1>1, <2>1, <2>3 DEF Task
    <3> QED BY <1>1, <2>1, <2>3, <3>1, <3>2 DEF Edit
  <2> QED BY <1>1, <2>1, <2>2, <2>3 DEF Edited, Enqueued
<1>2. CASE stage = "back"
  <2> DEFINE t == job[p].task
  <2>1. t \in Task /\ t.key \in Keys
    BY <1>2 DEF Job
  <2>2. CASE new = old
    BY <1>2, <2>2 DEF Edit
  <2>3. CASE new = [old EXCEPT ![t.key] = t] /\ ~(old[t.key].id # 0 /\ old[t.key].rev > t.rev)
    <3>1. new[t.key] = t /\ \A k \in Keys : k # t.key => new[k] = old[k]
      BY <2>1, <2>3
    <3>2. old[t.key].id = 0 \/ old[t.key].rev <= t.rev
      BY <2>1, <2>3 DEF Task
    <3>3. new \in [Keys -> Task]
      BY <2>1, <2>3
    <3> QED BY <1>2, <3>1, <3>2, <3>3 DEF Edit
  <2> QED BY <1>2, <2>1, <2>2, <2>3 DEF Edited, Enqueued
<1>3. ASSUME NEW ids, new = [k \in Keys |-> IF old[k].id \in ids THEN NoTask ELSE old[k]]
      PROVE  /\ new \in [Keys -> Task] /\ \A k \in Keys : new[k] = old[k] \/ (new[k] = NoTask /\ old[k].id \in ids)
             /\ \A k \in Keys : new[k].id \notin ids \/ new[k] = NoTask
  BY <1>3, NoneTyped
<1>4. CASE stage = "complete"
  <2>1. new = [k \in Keys |-> IF old[k].id \in {job[p].task.id} THEN NoTask ELSE old[k]]
    BY <1>4 DEF Edited, Removed
  <2> QED BY <1>3, <1>4, <2>1 DEF Edit
<1>5. CASE stage = "clear"
  <2> DEFINE ids == {old[j].id : j \in job[p].keys}
  <2>1. new = [k \in Keys |-> IF old[k].id \in ids THEN NoTask ELSE old[k]]
    BY <1>5 DEF Edited, Removed
  <2>2. /\ new \in [Keys -> Task] /\ \A k \in Keys : new[k] = old[k] \/ (new[k] = NoTask /\ old[k].id \in ids)
        /\ \A k \in Keys : new[k].id \notin ids \/ new[k] = NoTask
    <3> HIDE DEF ids
    <3> QED BY <1>3, <2>1
  <2>3. \A j \in job[p].keys : old[j].id \in ids
    OBVIOUS
  <2>4. \A k \in Keys : \A j \in job[p].keys : new[k].id # old[j].id \/ new[k] = NoTask
    BY <2>2, <2>3
  <2>5. \A k \in Keys : Edit(p, stage, old, new, fresh, k)
    BY <1>5, <2>2 DEF Edit
  <2> QED BY <1>5, <2>2, <2>4, <2>5
<1>6. CASE stage \in {"conflict", "delay", "fail", "now"}
  <2> DEFINE t == job[p].task
  <2>1. t \in Task /\ t.key \in Keys /\ old[t.key] \in Task
    BY <1>6 DEF Job
  <2>2. CASE new = old
    BY <1>6, <2>2 DEF Edit
  <2>3. ASSUME NEW u \in Task, Same(u, old[t.key]), old[t.key].id = t.id, u.head \in {None, old[t.key].head, t.head},
               new = [old EXCEPT ![t.key] = u]
        PROVE  new \in [Keys -> Task] /\ \A k \in Keys : Edit(p, stage, old, new, fresh, k)
    <3>1. new \in [Keys -> Task] /\ new[t.key] = u /\ \A k \in Keys : k # t.key => new[k] = old[k]
      BY <2>1, <2>3
    <3>2. Edit(p, stage, old, new, fresh, t.key)
      BY <1>6, <2>3, <3>1 DEF Edit, Same
    <3>3. \A k \in Keys : k # t.key => Edit(p, stage, old, new, fresh, k)
      BY <3>1 DEF Edit
    <3> QED BY <3>1, <3>2, <3>3
  <2>4. ASSUME new # old PROVE old[t.key].id = t.id
    BY <1>6, <2>4 DEF Edited
  <2>5. CASE stage = "conflict" /\ new # old
    <3> PICK u : u = [old[t.key] EXCEPT !.head = t.head]
      OBVIOUS
    <3>1. u \in Task /\ Same(u, old[t.key]) /\ u.head = t.head
      BY <2>1 DEF Task, Same
    <3>2. new = [old EXCEPT ![t.key] = u]
      BY <2>1, <2>5 DEF Edited
    <3> QED BY <2>3, <2>4, <2>5, <3>1, <3>2
  <2>6. CASE stage = "delay" /\ new # old
    <3> PICK u : u = [old[t.key] EXCEPT !.head = None, !.due = "later"]
      OBVIOUS
    <3>1. u \in Task /\ Same(u, old[t.key]) /\ u.head = None
      <4>1. old[t.key] \in Task /\ None \in Int
        BY <2>1 DEF None
      <4>2. u \in Task
        BY <4>1 DEF Task
      <4>3. u.id = old[t.key].id /\ u.key = old[t.key].key /\ u.rev = old[t.key].rev /\ u.sum = old[t.key].sum /\ u.head = None
        BY <4>1 DEF Task
      <4> QED BY <4>2, <4>3 DEF Same
    <3>2. new = [old EXCEPT ![t.key] = u]
      <4>1. new = [old EXCEPT ![t.key].head = None, ![t.key].due = "later"]
        BY <2>6 DEF Edited
      <4> QED BY <2>1, <4>1
    <3> QED BY <2>3, <2>4, <2>6, <3>1, <3>2
  <2>7. CASE stage = "fail" /\ new # old
    <3> PICK u : u = [old[t.key] EXCEPT !.due = "never"]
      OBVIOUS
    <3>1. u \in Task /\ Same(u, old[t.key]) /\ u.head = old[t.key].head
      BY <2>1 DEF Task, Same
    <3>2. new = [old EXCEPT ![t.key] = u]
      BY <2>1, <2>7 DEF Edited
    <3> QED BY <2>3, <2>4, <2>7, <3>1, <3>2
  <2>8. CASE stage = "now" /\ new # old
    <3> PICK u : u = [old[t.key] EXCEPT !.due = "now"]
      OBVIOUS
    <3>1. u \in Task /\ Same(u, old[t.key]) /\ u.head = old[t.key].head
      BY <2>1 DEF Task, Same
    <3>2. new = [old EXCEPT ![t.key] = u]
      BY <2>1, <2>8 DEF Edited
    <3> QED BY <2>3, <2>4, <2>8, <3>1, <3>2
  <2> QED BY <1>6, <2>2, <2>5, <2>6, <2>7, <2>8
<1> QED BY <1>1, <1>2, <1>4, <1>5, <1>6 DEF QueueStages

------------------------------------------------------------------------------
(* What a step makes of the operation that takes it. *)

LEMMA OneField ==
  ASSUME job \in [Procs -> Job], NEW p \in Procs, NEW s \in Seq(Stages), job' = [job EXCEPT ![p].stages = s]
  PROVE  Moves(p, s)
<1>1. [job[p] EXCEPT !.stages = s] \in Job
  BY DEF Job
<1> QED BY <1>1 DEF Moves, Becomes, Has, Job

LEMMA StagesAndList ==
  ASSUME job \in [Procs -> Job], NEW p \in Procs, NEW s \in Seq(Stages), NEW list \in [Keys -> Task],
         job' = [job EXCEPT ![p].stages = s, ![p].list = list]
  PROVE  Becomes(p, s, job[p].todo, job[p].task, job[p].save, list)
<1> PICK f : f = [job EXCEPT ![p].stages = s]
  OBVIOUS
<1>1. f \in [Procs -> Job] /\ f[p].op = job[p].op /\ f[p].keys = job[p].keys /\ f[p].stale = job[p].stale
      /\ f[p].stages = s /\ f[p].todo = job[p].todo /\ f[p].task = job[p].task /\ f[p].save = job[p].save
      /\ \A q \in Procs \ {p} : f[q] = job[q]
  BY DEF Job
<1>2. job' = [f EXCEPT ![p].list = list] /\ f[p] \in Job
  BY <1>1
<1>3. [f[p] EXCEPT !.list = list] \in Job
  BY <1>2 DEF Job
<1> QED BY <1>1, <1>2, <1>3 DEF Becomes, Has, Job

LEMMA StagesAndTodo ==
  ASSUME job \in [Procs -> Job], NEW p \in Procs, NEW s \in Seq(Stages), NEW todo \in SUBSET Task,
         job' = [job EXCEPT ![p].stages = s, ![p].todo = todo]
  PROVE  Becomes(p, s, todo, job[p].task, job[p].save, job[p].list)
<1> PICK f : f = [job EXCEPT ![p].stages = s]
  OBVIOUS
<1>1. f \in [Procs -> Job] /\ f[p].op = job[p].op /\ f[p].keys = job[p].keys /\ f[p].stale = job[p].stale
      /\ f[p].stages = s /\ f[p].list = job[p].list /\ f[p].task = job[p].task /\ f[p].save = job[p].save
      /\ \A q \in Procs \ {p} : f[q] = job[q]
  BY DEF Job
<1>2. job' = [f EXCEPT ![p].todo = todo] /\ f[p] \in Job
  BY <1>1
<1>3. [f[p] EXCEPT !.todo = todo] \in Job
  BY <1>2 DEF Job
<1> QED BY <1>1, <1>2, <1>3 DEF Becomes, Has, Job

LEMMA Reshaped ==
  ASSUME job \in [Procs -> Job], NEW p \in Procs, NEW j \in Job, job' = [job EXCEPT ![p] = j],
         j.op = job[p].op, j.keys = job[p].keys, j.stale = job[p].stale
  PROVE  Becomes(p, j.stages, j.todo, j.task, j.save, j.list)
BY DEF Becomes, Has

LEMMA Prepended ==
  ASSUME NEW S, NEW a \in S, NEW s \in Seq(S), NEW t \in Seq(S),
         Len(t) = Len(s) + 1, t[1] = a, \A i \in 1 .. Len(s) : t[i + 1] = s[i]
  PROVE  <<a>> \o s = t
<1> PICK w : w = <<a>> \o s
  OBVIOUS
<1>1. <<a>> \in Seq(S) /\ Len(<<a>>) = 1 /\ <<a>>[1] = a
  OBVIOUS
<1>2. w \in Seq(S) /\ Len(w) = 1 + Len(s)
  BY <1>1, ConcatProperties
<1>3. w[1] = a /\ \A i \in 1 .. Len(s) : w[i + 1] = s[i]
  BY <1>1, ConcatProperties
<1>4. \A i \in 1 .. Len(w) : w[i] = t[i]
  <2> TAKE i \in 1 .. Len(w)
  <2>1. CASE i = 1
    BY <1>2, <1>3, <2>1
  <2>2. CASE i # 1
    <3>1. i - 1 \in 1 .. Len(s) /\ (i - 1) + 1 = i
      BY <2>2, <1>2
    <3> QED BY <3>1, <1>3
  <2> QED BY <2>1, <2>2
<1> QED BY <1>2, <1>4, SeqEqual

LEMMA Front2 ==
  ASSUME NEW a \in Stages, NEW b \in Stages
  PROVE  <<a>> \o <<b>> = <<a, b>>
<1> PICK s \in Seq(Stages) : s = <<b>>
  BY Tuples
<1> PICK t \in Seq(Stages) : t = <<a, b>>
  BY Tuples
<1>1. Len(s) = 1 /\ Len(t) = Len(s) + 1 /\ t[1] = a /\ t[2] = s[1]
  OBVIOUS
<1>2. ASSUME NEW i \in 1 .. Len(s) PROVE t[i + 1] = s[i]
  <2>1. i = 1
    BY <1>1
  <2> QED BY <1>1, <2>1
<1>3. <<a>> \o s = t
  BY <1>1, <1>2, Prepended
<1> QED BY <1>3

LEMMA Front3 ==
  ASSUME NEW a \in Stages, NEW b \in Stages, NEW c \in Stages
  PROVE  <<a>> \o <<b, c>> = <<a, b, c>>
<1> PICK s \in Seq(Stages) : s = <<b, c>>
  BY Tuples
<1> PICK t \in Seq(Stages) : t = <<a, b, c>>
  BY Tuples
<1>1. Len(s) = 2 /\ Len(t) = Len(s) + 1 /\ t[1] = a /\ t[2] = s[1] /\ t[3] = s[2]
  OBVIOUS
<1>2. ASSUME NEW i \in 1 .. Len(s) PROVE t[i + 1] = s[i]
  <2>1. i = 1 \/ i = 2
    BY <1>1
  <2> QED BY <1>1, <2>1
<1>3. <<a>> \o s = t
  BY <1>1, <1>2, Prepended
<1> QED BY <1>3

LEMMA Front4 ==
  ASSUME NEW a \in Stages, NEW b \in Stages, NEW c \in Stages, NEW d \in Stages
  PROVE  <<a>> \o <<b, c, d>> = <<a, b, c, d>>
<1> PICK s \in Seq(Stages) : s = <<b, c, d>>
  BY Tuples
<1> PICK t \in Seq(Stages) : t = <<a, b, c, d>>
  BY Tuples
<1>1. Len(s) = 3 /\ Len(t) = Len(s) + 1 /\ t[1] = a /\ t[2] = s[1] /\ t[3] = s[2] /\ t[4] = s[3]
  OBVIOUS
<1>2. ASSUME NEW i \in 1 .. Len(s) PROVE t[i + 1] = s[i]
  <2>1. i = 1 \/ i = 2 \/ i = 3
    BY <1>1
  <2> QED BY <1>1, <2>1
<1>3. <<a>> \o s = t
  BY <1>1, <1>2, Prepended
<1> QED BY <1>3

LEMMA TwoFronts ==
  ASSUME NEW a \in Stages, NEW b \in Stages, NEW c \in Stages
  PROVE  <<a, b>> \o <<c>> = <<a, b, c>>
<1>1. <<a>> \o <<b>> = <<a, b>> /\ <<a>> \o <<b, c>> = <<a, b, c>>
  BY Front2, Front3
<1>4. <<b>> \o <<c>> = <<b, c>>
  BY Front2
<1>2. <<a>> \in Seq(Stages) /\ <<b>> \in Seq(Stages) /\ <<c>> \in Seq(Stages)
  BY Tuples
<1>3. (<<a>> \o <<b>>) \o <<c>> = <<a>> \o (<<b>> \o <<c>>)
  BY <1>2, ConcatAssociative
<1> QED BY <1>1, <1>3, <1>4

\* What is left after a write, and after a stage of the queue that writes nothing.
LEMMA Afters ==
  /\ Tail(Tail(<<"write", "enqueue", "run">>)) = <<"run">> /\ Tail(Tail(<<"write", "now", "run">>)) = <<"run">>
  /\ Tail(Tail(<<"write", "complete">>)) = <<>>
  /\ Tail(Tail(<<"write", "complete", "enqueue", "run">>)) = <<"enqueue", "run">>
  /\ Tail(Tail(<<"write", "clear", "erase">>)) = <<"erase">>
  /\ Tail(Tail(<<"write", "back", "next">>)) = <<"next">>
  /\ Tail(Tail(<<"write", "complete", "next">>)) = <<"next">>
  /\ Tail(Tail(<<"write", "conflict", "next">>)) = <<"next">>
  /\ Tail(Tail(<<"write", "delay", "next">>)) = <<"next">> /\ Tail(Tail(<<"write", "fail", "next">>)) = <<"next">>
OBVIOUS
LEMMA AftersTyped ==
  <<"run">> \in Seq(Stages) /\ <<>> \in Seq(Stages) /\ <<"enqueue", "run">> \in Seq(Stages)
  /\ <<"erase">> \in Seq(Stages) /\ <<"next">> \in Seq(Stages)
<1>1. {"run", "enqueue", "erase", "next"} \subseteq Stages
  BY DEF Stages
<1> QED BY <1>1, Tuples
LEMMA Nexts ==
  /\ Tail(<<"enqueue", "run">>) = <<"run">> /\ Tail(<<"back", "next">>) = <<"next">>
  /\ Tail(<<"now", "run">>) = <<"run">> /\ Tail(<<"conflict", "next">>) = <<"next">>
  /\ Tail(<<"delay", "next">>) = <<"next">> /\ Tail(<<"fail", "next">>) = <<"next">>
OBVIOUS
LEMMA Writes ==
  /\ <<"write">> \o <<"enqueue", "run">> = <<"write", "enqueue", "run">>
  /\ <<"write">> \o <<"now", "run">> = <<"write", "now", "run">>
  /\ <<"write">> \o <<"complete">> = <<"write", "complete">>
  /\ <<"write">> \o <<"complete", "enqueue", "run">> = <<"write", "complete", "enqueue", "run">>
  /\ <<"write">> \o <<"clear", "erase">> = <<"write", "clear", "erase">>
  /\ <<"write">> \o <<"back", "next">> = <<"write", "back", "next">>
  /\ <<"write">> \o <<"complete", "next">> = <<"write", "complete", "next">>
  /\ <<"write">> \o <<"conflict", "next">> = <<"write", "conflict", "next">>
  /\ <<"write">> \o <<"delay", "next">> = <<"write", "delay", "next">>
  /\ <<"write">> \o <<"fail", "next">> = <<"write", "fail", "next">>
<1>0. /\ "write" \in Stages /\ "enqueue" \in Stages /\ "run" \in Stages /\ "now" \in Stages /\ "complete" \in Stages
      /\ "clear" \in Stages /\ "erase" \in Stages /\ "back" \in Stages /\ "next" \in Stages
      /\ "conflict" \in Stages /\ "delay" \in Stages /\ "fail" \in Stages
  BY DEF Stages
<1>1. <<"write">> \o <<"enqueue", "run">> = <<"write", "enqueue", "run">>
  BY <1>0, Front3
<1>2. <<"write">> \o <<"now", "run">> = <<"write", "now", "run">>
  BY <1>0, Front3
<1>3. <<"write">> \o <<"complete">> = <<"write", "complete">>
  BY <1>0, Front2
<1>4. <<"write">> \o <<"complete", "enqueue", "run">> = <<"write", "complete", "enqueue", "run">>
  BY <1>0, Front4
<1>5. <<"write">> \o <<"clear", "erase">> = <<"write", "clear", "erase">>
  BY <1>0, Front3
<1>6. <<"write">> \o <<"back", "next">> = <<"write", "back", "next">>
  BY <1>0, Front3
<1>7. <<"write">> \o <<"complete", "next">> = <<"write", "complete", "next">>
  BY <1>0, Front3
<1>8. <<"write">> \o <<"conflict", "next">> = <<"write", "conflict", "next">>
  BY <1>0, Front3
<1>9. <<"write">> \o <<"delay", "next">> = <<"write", "delay", "next">>
  BY <1>0, Front3
<1>10. <<"write">> \o <<"fail", "next">> = <<"write", "fail", "next">>
  BY <1>0, Front3
<1> QED BY <1>1, <1>2, <1>3, <1>4, <1>5, <1>6, <1>7, <1>8, <1>9, <1>10

LEMMA SequelTyped ==
  ASSUME job \in [Procs -> Job], NEW p \in Procs, job[p].stages # <<>>
  PROVE  job[p].stages \in Seq(Stages) /\ Tail(job[p].stages) \in Seq(Stages)
<1>1. job[p].stages \in Seq(Stages)
  BY DEF Job
<1> QED BY <1>1, HeadTailProperties

\* The list has a task for the save that p enqueues, or for a newer one.
Filed(p, list) == list[Key(p)].id # 0 /\ list[Key(p)].rev >= job[p].save.rev

LEMMA ReadEffect ==
  ASSUME Stores, Server, Jobs, NEW p \in Procs, ReadQueue(p)
  PROVE  \E stage \in QueueStages :
           /\ At(p, stage) /\ issued' = IF stage = "enqueue" THEN issued + 1 ELSE issued
           /\ stage = "enqueue" => Fresh(p) \in Task
           /\ \/ /\ stage \notin {"complete", "clear"} /\ Moves(p, Tail(job[p].stages))
                 /\ stage = "enqueue" => Filed(p, queue[scope])
              \/ /\ Becomes(p, <<"write">> \o job[p].stages, job[p].todo, job[p].task, job[p].save, job'[p].list)
                 /\ job'[p].list \in [Keys -> Task]
                 /\ \A k \in Keys : Edit(p, stage, queue[scope], job'[p].list, Fresh(p), k)
                 /\ stage = "enqueue" => Filed(p, job'[p].list)
                 /\ stage = "complete" => \A k \in Keys : job'[p].list[k].id # job[p].task.id \/ job'[p].list[k] = NoTask
                 /\ stage = "clear" => \A k \in Keys : \A j \in job[p].keys :
                      job'[p].list[k].id # queue[scope][j].id \/ job'[p].list[k] = NoTask
<1> PICK stage : stage = Head(job[p].stages)
  OBVIOUS
<1>1. /\ stage \in QueueStages /\ At(p, stage) /\ job \in [Procs -> Job] /\ Reads(p) /\ queue[scope] \in [Keys -> Task]
      /\ job[p].stages # <<>> /\ issued \in Nat /\ issued' = (IF stage = "enqueue" THEN issued + 1 ELSE issued)
  <2>1. stage \in QueueStages /\ At(p, stage) /\ job[p].stages # <<>>
    BY DEF ReadQueue, At, Idle
  <2>2. job \in [Procs -> Job] /\ Reads(p) /\ issued \in Nat
    BY Reading DEF Jobs, Server
  <2>3. queue[scope] \in [Keys -> Task]
    BY DEF Stores
  <2>4. issued' = IF stage = "enqueue" THEN issued + 1 ELSE issued
    BY DEF ReadQueue
  <2> QED BY <2>1, <2>2, <2>3, <2>4
<1>2. job[p].op \in {"save", "keep"} \/ stage # "enqueue"
  BY <1>1, AtStage
<1>3. job[p].task.key \in Keys \/ stage \in {"enqueue", "clear", "complete"}
  <2>1. CASE stage \in {"back", "conflict", "delay", "fail", "now"}
    <3>1. IsTask(job[p].task)
      BY <1>1, <2>1, AtStage DEF Reads, Good, InLine, Taskless
    <3> QED BY <3>1 DEF IsTask
  <2> QED BY <1>1, <2>1 DEF QueueStages
<1>4. stage = "enqueue" => Fresh(p) \in Task
  <2>1. CASE stage = "enqueue"
    <3>0. job[p].op \in Resolvers \cup {"save", "retry"}
      BY <1>2, <2>1 DEF Resolvers
    <3>1. Key(p) \in Keys /\ job[p].save \in Save
      <4>1. Key(p) \in Keys
        BY <1>1, <3>0, KeyIs
      <4> QED BY <1>1, <4>1 DEF Job
    <3>2. job[p].save.rev \in Nat /\ job[p].save.sum \in Nat /\ issued + 1 \in Nat /\ None \in Int
      BY <1>1, <3>1 DEF Save, None
    <3> QED BY <3>1, <3>2 DEF Fresh, Task
  <2> QED BY <2>1
<1>5. job[p].stages \in Seq(Stages) /\ Tail(job[p].stages) \in Seq(Stages)
  BY <1>1, SequelTyped
<1>8. ASSUME stage = "enqueue", NEW new \in [Keys -> Task], NEW fresh, fresh = Fresh(p),
             new[Key(p)] = fresh \/ (new[Key(p)].id # 0 /\ new[Key(p)].rev >= fresh.rev)
      PROVE  Filed(p, new)
  <2>1. fresh.id = issued + 1 /\ fresh.rev = job[p].save.rev /\ issued \in Nat /\ fresh.rev \in Nat
    BY <1>1, <1>4, <1>8 DEF Fresh, Task
  <2> QED BY <1>8, <2>1 DEF Filed
<1>6. CASE Written(p, stage, queue[scope])
  <2> PICK new : new = Edited(p, stage, queue[scope])
    OBVIOUS
  <2>1. /\ new \in [Keys -> Task] /\ \A k \in Keys : Edit(p, stage, queue[scope], new, Fresh(p), k)
        /\ stage = "complete" => \A k \in Keys : new[k].id # job[p].task.id \/ new[k] = NoTask
        /\ stage = "clear" => \A k \in Keys : \A j \in job[p].keys : new[k].id # queue[scope][j].id \/ new[k] = NoTask
        /\ stage = "enqueue" => Filed(p, new)
    BY <1>1, <1>2, <1>3, <1>4, <1>8, EditedIs
  <2>2. <<"write">> \o job[p].stages \in Seq(Stages)
    <3>1. "write" \in Stages
      BY DEF Stages
    <3>2. <<"write">> \in Seq(Stages)
      BY <3>1, Tuples
    <3> QED BY <1>5, <3>2, ConcatProperties
  <2>3. job' = [job EXCEPT ![p].stages = <<"write">> \o job[p].stages, ![p].list = new]
    BY <1>1, <1>6 DEF ReadQueue
  <2>4. Becomes(p, <<"write">> \o job[p].stages, job[p].todo, job[p].task, job[p].save, new)
    <3> PICK w \in Seq(Stages) : w = <<"write">> \o job[p].stages
      BY <2>2
    <3>1. new \in [Keys -> Task] /\ job \in [Procs -> Job] /\ job' = [job EXCEPT ![p].stages = w, ![p].list = new]
      BY <1>1, <2>1, <2>3
    <3>2. Becomes(p, w, job[p].todo, job[p].task, job[p].save, new)
      BY <3>1, StagesAndList
    <3> QED BY <3>2
  <2>5. job'[p].list = new
    BY <2>4 DEF Becomes, Has
  <2> QED BY <1>1, <1>4, <2>1, <2>4, <2>5
<1>7. CASE ~Written(p, stage, queue[scope])
  <2>1. stage \notin {"complete", "clear"}
    BY <1>7 DEF Written
  <2>2. Tail(job[p].stages) # <<>>
    <3>1. stage \in {"enqueue", "back", "conflict", "delay", "fail", "now", "clear"}
      BY <1>1, <2>1 DEF QueueStages
    <3>2. job[p].stages \in {<<"enqueue", "run">>, <<"now", "run">>, <<"clear", "erase">>} \cup
                            {<<x, "next">> : x \in {"back", "conflict", "delay", "fail"}}
      BY <1>1, <3>1, AtStage
    <3>3. \E a, b \in Stages : job[p].stages = <<a, b>>
      BY <3>2 DEF Stages
    <3> QED BY <3>3
  <2>3. job' = [job EXCEPT ![p] = [job[p] EXCEPT !.stages = Tail(job[p].stages)]]
    BY <1>1, <1>7, <2>2 DEF ReadQueue, Pop, Left
  <2>4. Moves(p, Tail(job[p].stages))
    <3>1. job' = [job EXCEPT ![p].stages = Tail(job[p].stages)]
      BY <2>3
    <3> QED BY <1>1, <1>5, <3>1, OneField
  <2>5. ASSUME stage = "enqueue" PROVE Filed(p, queue[scope])
    <3>1. Edited(p, stage, queue[scope]) = queue[scope]
      BY <1>7, <2>5 DEF Written
    <3> QED BY <1>1, <1>2, <1>4, <1>8, <2>5, <3>1, EditedIs
  <2> QED BY <1>1, <1>4, <2>1, <2>4, <2>5
<1> QED BY <1>6, <1>7

LEMMA WriteEffect ==
  ASSUME Jobs, NEW p \in Procs, WriteQueue(p)
  PROVE  /\ At(p, "write") /\ job' \in [Procs -> Job] /\ job'[p].stale = "no"
         /\ \/ Tail(Tail(job[p].stages)) = <<>> /\ job'[p] = NoJob
            \/ /\ Tail(Tail(job[p].stages)) # <<>>
               /\ Has(p, Tail(Tail(job[p].stages)), job[p].todo, job[p].task, job[p].save, NoList)
         /\ \A q \in Procs \ {p} :
              Stays(q) /\ job'[q].stale = IF At(q, "write") \/ At(q, "clear") THEN "yes" ELSE job[q].stale
<1>1. At(p, "write") /\ job[p] \in Job /\ Reads(p)
  BY Reading DEF WriteQueue, Jobs
<1>2. Tail(Tail(job[p].stages)) \in Seq(Stages)
  <2>1. job[p].stages \in {<<"write", "enqueue", "run">>, <<"write", "now", "run">>, <<"write", "complete">>,
                            <<"write", "complete", "enqueue", "run">>, <<"write", "clear", "erase">>,
                            <<"write", "back", "next">>, <<"write", "complete", "next">>,
                            <<"write", "conflict", "next">>, <<"write", "delay", "next">>, <<"write", "fail", "next">>}
    BY <1>1, AtStage
  <2> QED BY <2>1, Afters, AftersTyped
<1> PICK left : left = Left(p, Tail(Tail(job[p].stages)))
  OBVIOUS
<1> PICK e : e = [left EXCEPT !.list = NoList, !.stale = "no"]
  OBVIOUS
<1>3. left \in Job
  BY <1>1, <1>2, NoneTyped DEF Left, Job
<1>4. e \in Job /\ e.op = left.op /\ e.keys = left.keys /\ e.stages = left.stages /\ e.todo = left.todo
      /\ e.task = left.task /\ e.save = left.save /\ e.list = NoList /\ e.stale = "no"
  BY <1>3, NoneTyped DEF Job
<1>5. job'[p] = e
  BY DEF WriteQueue
<1>6. ASSUME NEW q \in Procs, q # p
      PROVE  /\ job'[q] \in Job /\ Stays(q)
             /\ job'[q].stale = IF At(q, "write") \/ At(q, "clear") THEN "yes" ELSE job[q].stale
  <2> PICK f : f = [job[q] EXCEPT !.stale = IF At(q, "write") \/ At(q, "clear") THEN "yes" ELSE @]
    OBVIOUS
  <2>1. job'[q] = f
    BY <1>6 DEF WriteQueue
  <2>2. job[q] \in Job
    BY DEF Jobs
  <2>3. f \in Job /\ f.op = job[q].op /\ f.keys = job[q].keys /\ f.stages = job[q].stages /\ f.todo = job[q].todo
        /\ f.task = job[q].task /\ f.save = job[q].save /\ f.list = job[q].list
        /\ f.stale = IF At(q, "write") \/ At(q, "clear") THEN "yes" ELSE job[q].stale
    BY <2>2 DEF Job
  <2> QED BY <2>1, <2>3 DEF Stays, Has
<1>7. job' \in [Procs -> Job]
  <2>1. job' = [q \in Procs |-> job'[q]]
    BY DEF WriteQueue
  <2> QED BY <1>4, <1>5, <1>6, <2>1
<1>8. CASE Tail(Tail(job[p].stages)) = <<>>
  <2>1. left = NoJob
    BY <1>8 DEF Left
  <2>2. e = NoJob
    BY <1>3, <1>4, <2>1, NoneTyped, JobsEqual DEF NoJob
  <2> QED BY <1>1, <1>4, <1>5, <1>6, <1>7, <1>8, <2>2
<1>9. CASE Tail(Tail(job[p].stages)) # <<>>
  <2>1. left.op = job[p].op /\ left.keys = job[p].keys /\ left.todo = job[p].todo
        /\ left.task = job[p].task /\ left.save = job[p].save /\ left.stages = Tail(Tail(job[p].stages))
    BY <1>1, <1>9 DEF Left, Job
  <2>2. Has(p, Tail(Tail(job[p].stages)), job[p].todo, job[p].task, job[p].save, NoList)
    BY <1>4, <1>5, <2>1 DEF Has
  <2> QED BY <1>1, <1>4, <1>5, <1>6, <1>7, <1>9, <2>2
<1> QED BY <1>8, <1>9

\* The stages of each plan, as sets.
LEMMA PlanSets ==
  /\ ToSet(<<>>) = {}
  /\ ToSet(<<"run">>) = {"run"}
  /\ ToSet(<<"complete">>) = {"complete"}
  /\ ToSet(<<"put">>) = {"put"}
  /\ ToSet(<<"due">>) = {"due"}
  /\ ToSet(<<"erase">>) = {"erase"}
  /\ ToSet(<<"next">>) = {"next"}
  /\ ToSet(<<"enqueue", "run">>) = {"enqueue", "run"}
  /\ ToSet(<<"now", "run">>) = {"now", "run"}
  /\ ToSet(<<"put", "complete">>) = {"put", "complete"}
  /\ ToSet(<<"write", "complete">>) = {"write", "complete"}
  /\ ToSet(<<"fetch", "put">>) = {"fetch", "put"}
  /\ ToSet(<<"clear", "erase">>) = {"clear", "erase"}
  /\ ToSet(<<"back", "next">>) = {"back", "next"}
  /\ ToSet(<<"upload", "next">>) = {"upload", "next"}
  /\ ToSet(<<"complete", "next">>) = {"complete", "next"}
  /\ ToSet(<<"conflict", "next">>) = {"conflict", "next"}
  /\ ToSet(<<"delay", "next">>) = {"delay", "next"}
  /\ ToSet(<<"fail", "next">>) = {"fail", "next"}
  /\ ToSet(<<"write", "enqueue", "run">>) = {"write", "enqueue", "run"}
  /\ ToSet(<<"write", "now", "run">>) = {"write", "now", "run"}
  /\ ToSet(<<"complete", "enqueue", "run">>) = {"complete", "enqueue", "run"}
  /\ ToSet(<<"fetch", "put", "complete">>) = {"fetch", "put", "complete"}
  /\ ToSet(<<"revive", "fetch", "put">>) = {"revive", "fetch", "put"}
  /\ ToSet(<<"write", "clear", "erase">>) = {"write", "clear", "erase"}
  /\ ToSet(<<"write", "back", "next">>) = {"write", "back", "next"}
  /\ ToSet(<<"update", "complete", "next">>) = {"update", "complete", "next"}
  /\ ToSet(<<"write", "complete", "next">>) = {"write", "complete", "next"}
  /\ ToSet(<<"write", "conflict", "next">>) = {"write", "conflict", "next"}
  /\ ToSet(<<"write", "delay", "next">>) = {"write", "delay", "next"}
  /\ ToSet(<<"write", "fail", "next">>) = {"write", "fail", "next"}
  /\ ToSet(<<"update", "complete", "enqueue", "run">>) = {"update", "complete", "enqueue", "run"}
  /\ ToSet(<<"write", "complete", "enqueue", "run">>) = {"write", "complete", "enqueue", "run"}
  /\ ToSet(<<"copy", "fetch", "put", "complete">>) = {"copy", "fetch", "put", "complete"}
  /\ ToSet(<<"copy", "revive", "fetch", "put">>) = {"copy", "revive", "fetch", "put"}
  /\ ToSet(<<"copy", "update", "complete", "enqueue", "run">>) = {"copy", "update", "complete", "enqueue", "run"}
  /\ ToSet(<<"heads", "copy", "revive", "fetch", "put">>) = {"heads", "copy", "revive", "fetch", "put"}
  /\ ToSet(<<"fetch", "copy", "update", "complete", "enqueue", "run">>) = {"fetch", "copy", "update", "complete", "enqueue", "run"}
<1>1. /\ ToSet(<<>>) = {}
      /\ ToSet(<<"run">>) = {"run"}
      /\ ToSet(<<"complete">>) = {"complete"}
  BY DEF ToSet
<1>2. /\ ToSet(<<"put">>) = {"put"}
      /\ ToSet(<<"due">>) = {"due"}
      /\ ToSet(<<"erase">>) = {"erase"}
  BY DEF ToSet
<1>3. /\ ToSet(<<"next">>) = {"next"}
      /\ ToSet(<<"enqueue", "run">>) = {"enqueue", "run"}
      /\ ToSet(<<"now", "run">>) = {"now", "run"}
  BY DEF ToSet
<1>4. /\ ToSet(<<"put", "complete">>) = {"put", "complete"}
      /\ ToSet(<<"write", "complete">>) = {"write", "complete"}
      /\ ToSet(<<"fetch", "put">>) = {"fetch", "put"}
  BY DEF ToSet
<1>5. /\ ToSet(<<"clear", "erase">>) = {"clear", "erase"}
      /\ ToSet(<<"back", "next">>) = {"back", "next"}
      /\ ToSet(<<"upload", "next">>) = {"upload", "next"}
  BY DEF ToSet
<1>6. /\ ToSet(<<"complete", "next">>) = {"complete", "next"}
      /\ ToSet(<<"conflict", "next">>) = {"conflict", "next"}
      /\ ToSet(<<"delay", "next">>) = {"delay", "next"}
  BY DEF ToSet
<1>7. /\ ToSet(<<"fail", "next">>) = {"fail", "next"}
      /\ ToSet(<<"write", "enqueue", "run">>) = {"write", "enqueue", "run"}
      /\ ToSet(<<"write", "now", "run">>) = {"write", "now", "run"}
  BY DEF ToSet
<1>8. /\ ToSet(<<"complete", "enqueue", "run">>) = {"complete", "enqueue", "run"}
      /\ ToSet(<<"fetch", "put", "complete">>) = {"fetch", "put", "complete"}
      /\ ToSet(<<"revive", "fetch", "put">>) = {"revive", "fetch", "put"}
  BY DEF ToSet
<1>9. /\ ToSet(<<"write", "clear", "erase">>) = {"write", "clear", "erase"}
      /\ ToSet(<<"write", "back", "next">>) = {"write", "back", "next"}
      /\ ToSet(<<"update", "complete", "next">>) = {"update", "complete", "next"}
  BY DEF ToSet
<1>10. /\ ToSet(<<"write", "complete", "next">>) = {"write", "complete", "next"}
      /\ ToSet(<<"write", "conflict", "next">>) = {"write", "conflict", "next"}
      /\ ToSet(<<"write", "delay", "next">>) = {"write", "delay", "next"}
  BY DEF ToSet
<1>11. /\ ToSet(<<"write", "fail", "next">>) = {"write", "fail", "next"}
      /\ ToSet(<<"update", "complete", "enqueue", "run">>) = {"update", "complete", "enqueue", "run"}
      /\ ToSet(<<"write", "complete", "enqueue", "run">>) = {"write", "complete", "enqueue", "run"}
  BY DEF ToSet
<1>12. /\ ToSet(<<"copy", "fetch", "put", "complete">>) = {"copy", "fetch", "put", "complete"}
      /\ ToSet(<<"copy", "revive", "fetch", "put">>) = {"copy", "revive", "fetch", "put"}
      /\ ToSet(<<"copy", "update", "complete", "enqueue", "run">>) = {"copy", "update", "complete", "enqueue", "run"}
  BY DEF ToSet
<1>13. /\ ToSet(<<"heads", "copy", "revive", "fetch", "put">>) = {"heads", "copy", "revive", "fetch", "put"}
      /\ ToSet(<<"fetch", "copy", "update", "complete", "enqueue", "run">>) = {"fetch", "copy", "update", "complete", "enqueue", "run"}
  BY DEF ToSet
<1> QED BY <1>1, <1>2, <1>3, <1>4, <1>5, <1>6, <1>7, <1>8, <1>9, <1>10, <1>11, <1>12, <1>13

\* Which operations are at, or before, what.
LEMMA Ahead ==
  ASSUME NEW p \in Procs, Reads(p)
  PROVE  /\ job[p].stages = <<"upload", "next">> => To(p, "upload")
         /\ job[p].stages = <<"update", "complete", "next">> => To(p, "update")
         /\ At(p, "put") => To(p, "put") /\ ~To(p, "copy")
         /\ job[p].op \notin {"use", "restore", "version"} => ~To(p, "put")
<1>1. /\ job[p].stages = <<"upload", "next">> => To(p, "upload")
      /\ job[p].stages = <<"update", "complete", "next">> => To(p, "update")
  BY PlanSets DEF To
<1>2. At(p, "put") => To(p, "put") /\ ~To(p, "copy")
  <2>1. At(p, "put") => job[p].stages = <<"put", "complete">> \/ job[p].stages = <<"put">>
    BY AtStage
  <2>2. job[p].stages = <<"put", "complete">> => To(p, "put") /\ ~To(p, "copy")
    BY PlanSets DEF To
  <2>3. job[p].stages = <<"put">> => To(p, "put") /\ ~To(p, "copy")
    BY PlanSets DEF To
  <2> QED BY <2>1, <2>2, <2>3
<1>3. ASSUME job[p].op = "none" PROVE ~To(p, "put")
  <2>1. job[p].stages \in {<<>>}
    BY <1>3 DEF Reads, Plans
  <2>2. /\ "put" \notin ToSet(<<>>)
    BY PlanSets
  <2> QED BY <2>1, <2>2 DEF To
<1>4. ASSUME job[p].op = "save" PROVE ~To(p, "put")
  <2>1. job[p].stages \in {<<"enqueue", "run">>,
                            <<"write", "enqueue", "run">>,
                            <<"run">>}
    BY <1>4 DEF Reads, Plans
  <2>2. /\ "put" \notin ToSet(<<"enqueue", "run">>)
        /\ "put" \notin ToSet(<<"write", "enqueue", "run">>)
        /\ "put" \notin ToSet(<<"run">>)
    BY PlanSets
  <2> QED BY <2>1, <2>2 DEF To
<1>5. ASSUME job[p].op = "wake" PROVE ~To(p, "put")
  <2>1. job[p].stages \in {<<"run">>}
    BY <1>5 DEF Reads, Plans
  <2>2. /\ "put" \notin ToSet(<<"run">>)
    BY PlanSets
  <2> QED BY <2>1, <2>2 DEF To
<1>6. ASSUME job[p].op = "retry" PROVE ~To(p, "put")
  <2>1. job[p].stages \in {<<"now", "run">>,
                            <<"write", "now", "run">>,
                            <<"run">>}
    BY <1>6 DEF Reads, Plans
  <2>2. /\ "put" \notin ToSet(<<"now", "run">>)
        /\ "put" \notin ToSet(<<"write", "now", "run">>)
        /\ "put" \notin ToSet(<<"run">>)
    BY PlanSets
  <2> QED BY <2>1, <2>2 DEF To
<1>7. ASSUME job[p].op = "keep" PROVE ~To(p, "put")
  <2>1. job[p].stages \in {<<"fetch", "copy", "update", "complete", "enqueue", "run">>,
                            <<"copy", "update", "complete", "enqueue", "run">>,
                            <<"update", "complete", "enqueue", "run">>,
                            <<"complete", "enqueue", "run">>,
                            <<"write", "complete", "enqueue", "run">>,
                            <<"enqueue", "run">>,
                            <<"write", "enqueue", "run">>,
                            <<"run">>}
    BY <1>7 DEF Reads, Plans
  <2>2. /\ "put" \notin ToSet(<<"fetch", "copy", "update", "complete", "enqueue", "run">>)
        /\ "put" \notin ToSet(<<"copy", "update", "complete", "enqueue", "run">>)
        /\ "put" \notin ToSet(<<"update", "complete", "enqueue", "run">>)
        /\ "put" \notin ToSet(<<"complete", "enqueue", "run">>)
    BY PlanSets
  <2>3. /\ "put" \notin ToSet(<<"write", "complete", "enqueue", "run">>)
        /\ "put" \notin ToSet(<<"enqueue", "run">>)
        /\ "put" \notin ToSet(<<"write", "enqueue", "run">>)
        /\ "put" \notin ToSet(<<"run">>)
    BY PlanSets
  <2> QED BY <2>1, <2>2, <2>3 DEF To
<1>8. ASSUME job[p].op = "delete" PROVE ~To(p, "put")
  <2>1. job[p].stages \in {<<"due">>,
                            <<"clear", "erase">>,
                            <<"write", "clear", "erase">>,
                            <<"erase">>,
                            <<"next">>,
                            <<"back", "next">>,
                            <<"write", "back", "next">>}
    BY <1>8 DEF Reads, Plans
  <2>2. /\ "put" \notin ToSet(<<"due">>)
        /\ "put" \notin ToSet(<<"clear", "erase">>)
        /\ "put" \notin ToSet(<<"write", "clear", "erase">>)
        /\ "put" \notin ToSet(<<"erase">>)
    BY PlanSets
  <2>3. /\ "put" \notin ToSet(<<"next">>)
        /\ "put" \notin ToSet(<<"back", "next">>)
        /\ "put" \notin ToSet(<<"write", "back", "next">>)
    BY PlanSets
  <2> QED BY <2>1, <2>2, <2>3 DEF To
<1>9. ASSUME job[p].op = "run" PROVE ~To(p, "put")
  <2>1. job[p].stages \in {<<"due">>,
                            <<"next">>,
                            <<"upload", "next">>,
                            <<"update", "complete", "next">>,
                            <<"complete", "next">>,
                            <<"write", "complete", "next">>,
                            <<"conflict", "next">>,
                            <<"write", "conflict", "next">>,
                            <<"delay", "next">>,
                            <<"write", "delay", "next">>,
                            <<"fail", "next">>,
                            <<"write", "fail", "next">>}
    BY <1>9 DEF Reads, Plans
  <2>2. /\ "put" \notin ToSet(<<"due">>)
        /\ "put" \notin ToSet(<<"next">>)
        /\ "put" \notin ToSet(<<"upload", "next">>)
        /\ "put" \notin ToSet(<<"update", "complete", "next">>)
    BY PlanSets
  <2>3. /\ "put" \notin ToSet(<<"complete", "next">>)
        /\ "put" \notin ToSet(<<"write", "complete", "next">>)
        /\ "put" \notin ToSet(<<"conflict", "next">>)
        /\ "put" \notin ToSet(<<"write", "conflict", "next">>)
    BY PlanSets
  <2>4. /\ "put" \notin ToSet(<<"delay", "next">>)
        /\ "put" \notin ToSet(<<"write", "delay", "next">>)
        /\ "put" \notin ToSet(<<"fail", "next">>)
        /\ "put" \notin ToSet(<<"write", "fail", "next">>)
    BY PlanSets
  <2> QED BY <2>1, <2>2, <2>3, <2>4 DEF To
<1>10. job[p].op \in {"none", "save", "wake", "retry", "keep", "use", "restore", "version", "delete", "run"}
  BY DEF Reads, Plans
<1> QED BY <1>1, <1>2, <1>3, <1>4, <1>5, <1>6, <1>7, <1>8, <1>9, <1>10

\* The operation ends, and lets the next in line run.
Ends(p) == Gets(p, NoJob) /\ line' = (IF Running(p) THEN Tail(line) ELSE line)

LEMMA EndEffect ==
  ASSUME Jobs, NEW p \in Procs, End(p)
  PROVE  Ends(p)
BY Ended DEF End, Ends, Jobs

LEMMA ThrownEffect ==
  ASSUME Jobs, NEW p \in Procs, Thrown(p), At(p, "write") \/ At(p, "update")
  PROVE  \/ /\ job[p].op = "run" /\ line' = line
            /\ Becomes(p, <<"delay", "next">>, job[p].todo, job[p].task, job[p].save, NoList)
         \/ Ends(p)
<1>1. job \in [Procs -> Job] /\ Reads(p)
  BY Reading DEF Jobs
<1>2. CASE To(p, "next") /\ (To(p, "complete") \/ To(p, "update"))
  <2>1. job[p].op = "run"
    <3>1. job[p].op \in {"save", "retry", "keep", "use"} => ~To(p, "next")
      <4>1. ASSUME job[p].op \in {"save", "retry", "keep", "use"}
            PROVE  job[p].stages \in {<<"write", "enqueue", "run">>, <<"write", "now", "run">>, <<"write", "complete">>,
                                      <<"write", "complete", "enqueue", "run">>, <<"update", "complete", "enqueue", "run">>}
        BY <1>1, <4>1, AtStage
      <4>2. /\ "next" \notin ToSet(<<"write", "enqueue", "run">>) /\ "next" \notin ToSet(<<"write", "now", "run">>)
            /\ "next" \notin ToSet(<<"write", "complete", "enqueue", "run">>)
            /\ "next" \notin ToSet(<<"write", "complete">>)
            /\ "next" \notin ToSet(<<"update", "complete", "enqueue", "run">>)
        BY PlanSets
      <4> QED BY <4>1, <4>2 DEF To
    <3>2. job[p].op = "delete" => ~To(p, "complete") /\ ~To(p, "update")
      <4>1. job[p].op = "delete" => job[p].stages \in {<<"write", "clear", "erase">>, <<"write", "back", "next">>}
        BY <1>1, AtStage
      <4>2. ToSet(<<"write", "clear", "erase">>) = {"write", "clear", "erase"}
            /\ ToSet(<<"write", "back", "next">>) = {"write", "back", "next"}
        BY PlanSets
      <4> QED BY <4>1, <4>2 DEF To
    <3>3. job[p].op \in {"save", "retry", "keep", "use", "delete", "run"}
      BY <1>1, AtStage
    <3> QED BY <1>2, <3>1, <3>2, <3>3
  <2>2. <<"delay", "next">> \in Seq(Stages)
    <3>1. "delay" \in Stages /\ "next" \in Stages
      BY DEF Stages
    <3> QED BY <3>1, Tuples
  <2>3. job' = [job EXCEPT ![p].stages = <<"delay", "next">>, ![p].list = NoList] /\ line' = line
    BY <1>2 DEF Thrown
  <2>4. Becomes(p, <<"delay", "next">>, job[p].todo, job[p].task, job[p].save, NoList)
    BY <1>1, <2>2, <2>3, NoneTyped, StagesAndList
  <2> QED BY <2>1, <2>3, <2>4
<1>3. CASE ~(To(p, "next") /\ (To(p, "complete") \/ To(p, "update")))
  BY <1>3, EndEffect DEF Thrown
<1> QED BY <1>2, <1>3

LEMMA ShapesTyped ==
  /\ <<"due">> \in Seq(Stages) /\ <<"next">> \in Seq(Stages) /\ <<"clear", "erase">> \in Seq(Stages)
  /\ <<"delay", "next">> \in Seq(Stages) /\ <<"upload", "next">> \in Seq(Stages)
  /\ <<"complete", "next">> \in Seq(Stages) /\ <<"back", "next">> \in Seq(Stages)
  /\ <<"conflict", "next">> \in Seq(Stages) /\ <<"fail", "next">> \in Seq(Stages)
  /\ <<"update", "complete", "next">> \in Seq(Stages)
<1>1. /\ "due" \in Stages /\ "next" \in Stages /\ "clear" \in Stages /\ "erase" \in Stages /\ "delay" \in Stages
      /\ "upload" \in Stages /\ "complete" \in Stages /\ "back" \in Stages /\ "conflict" \in Stages
      /\ "fail" \in Stages /\ "update" \in Stages
  BY DEF Stages
<1>2. <<"due">> \in Seq(Stages) /\ <<"next">> \in Seq(Stages) /\ <<"clear", "erase">> \in Seq(Stages)
  BY <1>1, Tuples
<1>3. <<"delay", "next">> \in Seq(Stages) /\ <<"upload", "next">> \in Seq(Stages) /\ <<"complete", "next">> \in Seq(Stages)
  BY <1>1, Tuples
<1>4. <<"back", "next">> \in Seq(Stages) /\ <<"conflict", "next">> \in Seq(Stages) /\ <<"fail", "next">> \in Seq(Stages)
  BY <1>1, Tuples
<1>5. <<"update", "complete", "next">> \in Seq(Stages)
  BY <1>1, Tuples
<1> QED BY <1>2, <1>3, <1>4, <1>5

LEMMA JoinEffect ==
  ASSUME Jobs, NEW p \in Procs, Join(p)
  PROVE  Gets(p, New("run", {}, <<"due">>, NoTask, NoSave)) /\ line' = Append(line, p) /\ At(p, "run")
<1> PICK e : e = [NoJob EXCEPT !.op = "run", !.stages = <<"due">>]
  OBVIOUS
<1>1. e \in Job /\ New("run", {}, <<"due">>, NoTask, NoSave) \in Job
  BY NoneTyped, ShapesTyped DEF Job, New
<1>2. e.op = "run" /\ e.stages = <<"due">> /\ e.keys = NoJob.keys /\ e.todo = NoJob.todo /\ e.task = NoJob.task
      /\ e.save = NoJob.save /\ e.list = NoJob.list /\ e.stale = NoJob.stale
  BY NoneTyped DEF Job
<1>3. e = New("run", {}, <<"due">>, NoTask, NoSave)
  BY <1>1, <1>2, JobsEqual DEF New, NoJob
<1>4. job' = [job EXCEPT ![p] = e] /\ job \in [Procs -> Job]
  BY DEF Join, Jobs
<1>5. Gets(p, e)
  BY <1>1, <1>4, Replaced
<1> QED BY <1>3, <1>5 DEF Join

LEMMA TasksAre ==
  ASSUME Stores, NEW keys \in SUBSET Keys
  PROVE  /\ Tasks(keys) \in SUBSET Task
         /\ \A t \in Tasks(keys) : \E k \in keys : t = queue[scope][k] /\ t.id # 0
         /\ \A k \in keys : queue[scope][k].id # 0 => queue[scope][k] \in Tasks(keys)
BY DEF Tasks, Stores

LEMMA RunDueEffect ==
  ASSUME Stores, Jobs, NEW p \in Procs, RunDue(p)
  PROVE  /\ At(p, "due") /\ Running(p) /\ job[p].op # "delete"
         /\ \/ Ends(p)
            \/ /\ line' = line /\ job'[p].todo \subseteq Tasks(Keys)
               /\ Becomes(p, <<"next">>, job'[p].todo, job[p].task, job[p].save, job[p].list)
<1>1. CASE scope = "anonymous"
  BY <1>1, EndEffect DEF RunDue
<1>2. CASE scope # "anonymous"
  <2>1. Tasks(Keys) \in SUBSET Task
    BY TasksAre
  <2>2. PICK passed \in SUBSET {t \in Tasks(Keys) : t.due = "later"} :
          job' = [job EXCEPT ![p].stages = <<"next">>, ![p].todo = passed \cup {t \in Tasks(Keys) : t.due = "now"}]
    BY <1>2 DEF RunDue
  <2> PICK todo : todo = passed \cup {t \in Tasks(Keys) : t.due = "now"}
    OBVIOUS
  <2>3. todo \in SUBSET Task /\ todo \subseteq Tasks(Keys)
    BY <2>1
  <2>4. Becomes(p, <<"next">>, todo, job[p].task, job[p].save, job[p].list)
    BY <2>2, <2>3, StagesAndTodo, ShapesTyped DEF Jobs
  <2>5. job'[p].todo = todo
    BY <2>4 DEF Becomes, Has
  <2> QED BY <1>2, <2>3, <2>4, <2>5 DEF RunDue
<1> QED BY <1>1, <1>2

LEMMA DeleteDueEffect ==
  ASSUME Stores, Jobs, NEW p \in Procs, DeleteDue(p)
  PROVE  /\ At(p, "due") /\ Running(p) /\ job[p].op = "delete" /\ line' = line /\ Tasks(job[p].keys) \in SUBSET Task
         /\ Becomes(p, <<"clear", "erase">>, Tasks(job[p].keys), job[p].task, job[p].save, job[p].list)
<1>1. job[p].keys \in SUBSET Keys
  BY DEF Jobs, Job
<1>2. Tasks(job[p].keys) \in SUBSET Task
  BY <1>1, TasksAre
<1> PICK todo : todo = Tasks(job[p].keys)
  OBVIOUS
<1>3. job' = [job EXCEPT ![p].stages = <<"clear", "erase">>, ![p].todo = todo]
  BY DEF DeleteDue
<1>4. Becomes(p, <<"clear", "erase">>, todo, job[p].task, job[p].save, job[p].list)
  BY <1>2, <1>3, StagesAndTodo, ShapesTyped DEF Jobs
<1> QED BY <1>2, <1>4 DEF DeleteDue

LEMMA RunTaskEffect ==
  ASSUME Stores, Jobs, NEW p \in Procs, RunTask(p), \A t \in job[p].todo : t.key \in Keys
  PROVE  /\ At(p, "next") /\ job[p].op # "delete"
         /\ \E t \in job[p].todo :
              /\ (local[t.key].rev = t.rev /\ local[t.key].sum = t.sum) \/ job'[p].stages = <<"complete", "next">>
              /\ job'[p].stages \in {<<"upload", "next">>, <<"complete", "next">>}
              /\ Becomes(p, job'[p].stages, job[p].todo \ {t}, t, local[t.key], job[p].list)
<1>1. PICK t \in job[p].todo :
        job' = [job EXCEPT ![p].todo = @ \ {t}, ![p].task = t, ![p].save = local[t.key], ![p].stages =
          IF local[t.key].rev = t.rev /\ local[t.key].sum = t.sum THEN <<"upload", "next">> ELSE <<"complete", "next">>]
  BY DEF RunTask
<1> PICK s : s = IF local[t.key].rev = t.rev /\ local[t.key].sum = t.sum THEN <<"upload", "next">>
                 ELSE <<"complete", "next">>
  OBVIOUS
<1> PICK todo : todo = job[p].todo \ {t}
  OBVIOUS
<1> PICK v : v = local[t.key]
  OBVIOUS
<1>2. s \in Seq(Stages) /\ t \in Task /\ v \in Save /\ todo \in SUBSET Task /\ job[p] \in Job
  BY ShapesTyped DEF Jobs, Job, Stores
<1> PICK f : f = [job EXCEPT ![p].todo = todo]
  OBVIOUS
<1> PICK g : g = [f EXCEPT ![p].task = t]
  OBVIOUS
<1> PICK h : h = [g EXCEPT ![p].save = v]
  OBVIOUS
<1>3. f \in [Procs -> Job] /\ f[p] \in Job /\ f[p].op = job[p].op /\ f[p].keys = job[p].keys /\ f[p].stale = job[p].stale
      /\ f[p].list = job[p].list /\ f[p].todo = todo /\ \A q \in Procs \ {p} : f[q] = job[q]
  BY <1>2 DEF Jobs, Job
<1>4. g \in [Procs -> Job] /\ g[p] \in Job /\ g[p].op = job[p].op /\ g[p].keys = job[p].keys /\ g[p].stale = job[p].stale
      /\ g[p].list = job[p].list /\ g[p].todo = todo /\ g[p].task = t /\ \A q \in Procs \ {p} : g[q] = job[q]
  <2>1. g[p] = [f[p] EXCEPT !.task = t] /\ (\A q \in Procs \ {p} : g[q] = f[q])
    BY <1>3
  <2>2. g[p] \in Job
    BY <1>2, <1>3, <2>1 DEF Job
  <2>3. g \in [Procs -> Job]
    BY <1>3, <2>2
  <2>4. /\ g[p].op = f[p].op /\ g[p].keys = f[p].keys /\ g[p].stale = f[p].stale /\ g[p].list = f[p].list
        /\ g[p].todo = f[p].todo /\ g[p].task = t
    BY <1>3, <2>1 DEF Job
  <2> QED BY <1>3, <2>1, <2>2, <2>3, <2>4
<1>5. h \in [Procs -> Job] /\ h[p] \in Job /\ h[p].op = job[p].op /\ h[p].keys = job[p].keys /\ h[p].stale = job[p].stale
      /\ h[p].list = job[p].list /\ h[p].todo = todo /\ h[p].task = t /\ h[p].save = v
      /\ \A q \in Procs \ {p} : h[q] = job[q]
  <2>1. h[p] = [g[p] EXCEPT !.save = v] /\ (\A q \in Procs \ {p} : h[q] = g[q])
    BY <1>4
  <2>2. h[p] \in Job
    BY <1>2, <1>4, <2>1 DEF Job
  <2>3. h \in [Procs -> Job]
    BY <1>4, <2>2
  <2>4. /\ h[p].op = g[p].op /\ h[p].keys = g[p].keys /\ h[p].stale = g[p].stale /\ h[p].list = g[p].list
        /\ h[p].todo = g[p].todo /\ h[p].task = g[p].task /\ h[p].save = v
    BY <1>4, <2>1 DEF Job
  <2> QED BY <1>4, <2>1, <2>2, <2>3, <2>4
<1>6. job' = [h EXCEPT ![p].stages = s]
  BY <1>1
<1>7. [h[p] EXCEPT !.stages = s] \in Job
  BY <1>2, <1>5 DEF Job
<1>8. Becomes(p, s, todo, t, v, job[p].list)
  <2>1. job'[p] = [h[p] EXCEPT !.stages = s] /\ (\A q \in Procs \ {p} : job'[q] = h[q])
    BY <1>5, <1>6
  <2>2. job' \in [Procs -> Job]
    BY <1>5, <1>6, <1>7
  <2>3. /\ job'[p].op = h[p].op /\ job'[p].keys = h[p].keys /\ job'[p].stale = h[p].stale
        /\ job'[p].list = h[p].list /\ job'[p].todo = h[p].todo /\ job'[p].task = h[p].task
        /\ job'[p].save = h[p].save /\ job'[p].stages = s
    BY <1>5, <2>1 DEF Job
  <2> QED BY <1>5, <2>1, <2>2, <2>3 DEF Becomes, Has
<1>9. job'[p].stages = s
  BY <1>8 DEF Becomes, Has
<1> QED BY <1>8, <1>9 DEF RunTask

LEMMA RestoreTaskEffect ==
  ASSUME Jobs, NEW p \in Procs, RestoreTask(p)
  PROVE  /\ At(p, "next") /\ job[p].op = "delete"
         /\ \E t \in job[p].todo : Becomes(p, <<"back", "next">>, job[p].todo \ {t}, t, job[p].save, job[p].list)
<1>1. PICK t \in job[p].todo :
        job' = [job EXCEPT ![p].todo = @ \ {t}, ![p].task = t, ![p].stages = <<"back", "next">>]
  BY DEF RestoreTask
<1> PICK todo : todo = job[p].todo \ {t}
  OBVIOUS
<1>2. <<"back", "next">> \in Seq(Stages) /\ t \in Task /\ todo \in SUBSET Task /\ job[p] \in Job
  BY ShapesTyped DEF Jobs, Job
<1> PICK f : f = [job EXCEPT ![p].todo = todo]
  OBVIOUS
<1> PICK g : g = [f EXCEPT ![p].task = t]
  OBVIOUS
<1>3. f \in [Procs -> Job] /\ f[p] \in Job /\ f[p].op = job[p].op /\ f[p].keys = job[p].keys /\ f[p].stale = job[p].stale
      /\ f[p].list = job[p].list /\ f[p].save = job[p].save /\ f[p].todo = todo /\ \A q \in Procs \ {p} : f[q] = job[q]
  BY <1>2 DEF Jobs, Job
<1>4. g \in [Procs -> Job] /\ g[p] \in Job /\ g[p].op = job[p].op /\ g[p].keys = job[p].keys /\ g[p].stale = job[p].stale
      /\ g[p].list = job[p].list /\ g[p].save = job[p].save /\ g[p].todo = todo /\ g[p].task = t
      /\ \A q \in Procs \ {p} : g[q] = job[q]
  <2>1. g[p] = [f[p] EXCEPT !.task = t] /\ (\A q \in Procs \ {p} : g[q] = f[q])
    BY <1>3
  <2>2. g[p] \in Job
    BY <1>2, <1>3, <2>1 DEF Job
  <2>3. g \in [Procs -> Job]
    BY <1>3, <2>2
  <2>4. /\ g[p].op = f[p].op /\ g[p].keys = f[p].keys /\ g[p].stale = f[p].stale /\ g[p].list = f[p].list
        /\ g[p].save = f[p].save /\ g[p].todo = f[p].todo /\ g[p].task = t
    BY <1>3, <2>1 DEF Job
  <2> QED BY <1>3, <2>1, <2>2, <2>3, <2>4
<1>5. job' = [g EXCEPT ![p].stages = <<"back", "next">>]
  BY <1>1
<1>6. [g[p] EXCEPT !.stages = <<"back", "next">>] \in Job
  BY <1>2, <1>4 DEF Job
<1>7. Becomes(p, <<"back", "next">>, todo, t, job[p].save, job[p].list)
  BY <1>4, <1>5, <1>6 DEF Becomes, Has, Job
<1> QED BY <1>7 DEF RestoreTask

LEMMA ReplyEffect ==
  ASSUME Jobs, NEW p \in Procs, NEW s, s \o <<"next">> \in Seq(Stages), NEW save \in Save, NEW t \in Task,
         Reply(p, s, save, t)
  PROVE  Becomes(p, s \o <<"next">>, job[p].todo, t, save, job[p].list)
<1> PICK w \in Seq(Stages) : w = s \o <<"next">>
  OBVIOUS
<1> PICK f : f = [job EXCEPT ![p].stages = w]
  OBVIOUS
<1> PICK g : g = [f EXCEPT ![p].save = save]
  OBVIOUS
<1>1. job[p] \in Job
  BY DEF Jobs
<1>2. f \in [Procs -> Job] /\ f[p] \in Job /\ f[p].op = job[p].op /\ f[p].keys = job[p].keys /\ f[p].stale = job[p].stale
      /\ f[p].list = job[p].list /\ f[p].todo = job[p].todo /\ f[p].stages = w /\ \A q \in Procs \ {p} : f[q] = job[q]
  BY <1>1 DEF Jobs, Job
<1>3. g \in [Procs -> Job] /\ g[p] \in Job /\ g[p].op = job[p].op /\ g[p].keys = job[p].keys /\ g[p].stale = job[p].stale
      /\ g[p].list = job[p].list /\ g[p].todo = job[p].todo /\ g[p].stages = w /\ g[p].save = save
      /\ \A q \in Procs \ {p} : g[q] = job[q]
  <2>1. g[p] = [f[p] EXCEPT !.save = save] /\ (\A q \in Procs \ {p} : g[q] = f[q])
    BY <1>2
  <2>2. g[p] \in Job
    BY <1>2, <2>1 DEF Job
  <2>3. g \in [Procs -> Job]
    BY <1>2, <2>2
  <2>4. /\ g[p].op = f[p].op /\ g[p].keys = f[p].keys /\ g[p].stale = f[p].stale /\ g[p].list = f[p].list
        /\ g[p].todo = f[p].todo /\ g[p].stages = f[p].stages /\ g[p].save = save
    BY <1>2, <2>1 DEF Job
  <2> QED BY <1>2, <2>1, <2>2, <2>3, <2>4
<1>4. job' = [g EXCEPT ![p].task = t]
  BY DEF Reply
<1>5. [g[p] EXCEPT !.task = t] \in Job
  BY <1>3 DEF Job
<1>6. Becomes(p, w, job[p].todo, t, save, job[p].list)
  BY <1>3, <1>4, <1>5 DEF Becomes, Has, Job
<1> QED BY <1>6

LEMMA FlowNexts ==
  /\ Tail(<<"fetch", "copy", "update", "complete", "enqueue", "run">>) = <<"copy", "update", "complete", "enqueue", "run">>
  /\ Tail(<<"copy", "update", "complete", "enqueue", "run">>) = <<"update", "complete", "enqueue", "run">>
  /\ Tail(<<"update", "complete", "enqueue", "run">>) = <<"complete", "enqueue", "run">>
  /\ Tail(<<"update", "complete", "next">>) = <<"complete", "next">>
  /\ Tail(<<"copy", "fetch", "put", "complete">>) = <<"fetch", "put", "complete">>
  /\ Tail(<<"fetch", "put", "complete">>) = <<"put", "complete">> /\ Tail(<<"put", "complete">>) = <<"complete">>
  /\ Tail(<<"fetch", "put">>) = <<"put">> /\ Tail(<<"put">>) = <<>>
  /\ Tail(<<"heads", "copy", "revive", "fetch", "put">>) = <<"copy", "revive", "fetch", "put">>
  /\ Tail(<<"copy", "revive", "fetch", "put">>) = <<"revive", "fetch", "put">>
  /\ Tail(<<"revive", "fetch", "put">>) = <<"fetch", "put">>
OBVIOUS

LEMMA FlowTyped ==
  ASSUME Jobs, NEW p \in Procs, \E x \in {"update", "fetch", "copy", "heads", "revive"} : At(p, x)
  PROVE  Tail(job[p].stages) \in Seq(Stages) /\ Tail(job[p].stages) # <<>>
<1>1. job \in [Procs -> Job] /\ Reads(p) /\ job[p].stages # <<>>
  BY Reading DEF Jobs, At, Idle
<1>2. Tail(job[p].stages) \in Seq(Stages)
  BY <1>1, SequelTyped
<1>3. job[p].stages \in
        {<<"fetch", "copy", "update", "complete", "enqueue", "run">>, <<"copy", "update", "complete", "enqueue", "run">>,
         <<"update", "complete", "enqueue", "run">>, <<"update", "complete", "next">>,
         <<"copy", "fetch", "put", "complete">>, <<"fetch", "put", "complete">>, <<"fetch", "put">>,
         <<"heads", "copy", "revive", "fetch", "put">>, <<"copy", "revive", "fetch", "put">>, <<"revive", "fetch", "put">>}
  BY <1>1, AtStage
<1>4. Tail(job[p].stages) # <<>>
  <2>1. /\ Tail(<<"fetch", "copy", "update", "complete", "enqueue", "run">>) # <<>>
        /\ Tail(<<"copy", "update", "complete", "enqueue", "run">>) # <<>>
        /\ Tail(<<"update", "complete", "enqueue", "run">>) # <<>> /\ Tail(<<"update", "complete", "next">>) # <<>>
        /\ Tail(<<"copy", "fetch", "put", "complete">>) # <<>> /\ Tail(<<"fetch", "put", "complete">>) # <<>>
        /\ Tail(<<"fetch", "put">>) # <<>> /\ Tail(<<"heads", "copy", "revive", "fetch", "put">>) # <<>>
        /\ Tail(<<"copy", "revive", "fetch", "put">>) # <<>> /\ Tail(<<"revive", "fetch", "put">>) # <<>>
    OBVIOUS
  <2> QED BY <1>3, <2>1
<1> QED BY <1>2, <1>4

LEMMA LeftWithSave ==
  ASSUME Jobs, NEW p \in Procs, NEW s \in Seq(Stages), s # <<>>, NEW v \in Save,
         job' = [job EXCEPT ![p] = [Left(p, s) EXCEPT !.save = v]]
  PROVE  Becomes(p, s, job[p].todo, job[p].task, v, job[p].list)
<1> PICK l : l = Left(p, s)
  OBVIOUS
<1> PICK e : e = [l EXCEPT !.save = v]
  OBVIOUS
<1>1. job[p] \in Job /\ job \in [Procs -> Job] /\ l = [job[p] EXCEPT !.stages = s]
  BY DEF Jobs, Left
<1>2. l \in Job /\ l.op = job[p].op /\ l.keys = job[p].keys /\ l.stages = s /\ l.todo = job[p].todo
      /\ l.task = job[p].task /\ l.list = job[p].list /\ l.stale = job[p].stale
  BY <1>1 DEF Job
<1>3. e \in Job /\ e.op = job[p].op /\ e.keys = job[p].keys /\ e.stages = s /\ e.todo = job[p].todo
      /\ e.task = job[p].task /\ e.save = v /\ e.list = job[p].list /\ e.stale = job[p].stale
  BY <1>2 DEF Job
<1>4. job' = [job EXCEPT ![p] = e]
  OBVIOUS
<1>5. Becomes(p, e.stages, e.todo, e.task, e.save, e.list)
  BY <1>1, <1>3, <1>4, Reshaped
<1> QED BY <1>3, <1>5

LEMMA LeftWithTask ==
  ASSUME Jobs, NEW p \in Procs, NEW s \in Seq(Stages), s # <<>>, NEW t \in Task,
         job' = [job EXCEPT ![p] = [Left(p, s) EXCEPT !.task = t]]
  PROVE  Becomes(p, s, job[p].todo, t, job[p].save, job[p].list)
<1> PICK l : l = Left(p, s)
  OBVIOUS
<1> PICK e : e = [l EXCEPT !.task = t]
  OBVIOUS
<1>1. job[p] \in Job /\ job \in [Procs -> Job] /\ l = [job[p] EXCEPT !.stages = s]
  BY DEF Jobs, Left
<1>2. l \in Job /\ l.op = job[p].op /\ l.keys = job[p].keys /\ l.stages = s /\ l.todo = job[p].todo
      /\ l.save = job[p].save /\ l.list = job[p].list /\ l.stale = job[p].stale
  BY <1>1 DEF Job
<1>3. e \in Job /\ e.op = job[p].op /\ e.keys = job[p].keys /\ e.stages = s /\ e.todo = job[p].todo
      /\ e.task = t /\ e.save = job[p].save /\ e.list = job[p].list /\ e.stale = job[p].stale
  BY <1>2 DEF Job
<1>4. job' = [job EXCEPT ![p] = e]
  OBVIOUS
<1>5. Becomes(p, e.stages, e.todo, e.task, e.save, e.list)
  BY <1>1, <1>3, <1>4, Reshaped
<1> QED BY <1>3, <1>5

LEMMA PopEffect ==
  ASSUME Jobs, NEW p \in Procs, Pop(p), job[p].stages # <<>>
  PROVE  \/ Tail(job[p].stages) = <<>> /\ Gets(p, NoJob)
         \/ Tail(job[p].stages) # <<>> /\ Moves(p, Tail(job[p].stages))
<1>1. job \in [Procs -> Job] /\ Tail(job[p].stages) \in Seq(Stages)
  BY SequelTyped DEF Jobs
<1>2. CASE Tail(job[p].stages) = <<>>
  BY <1>1, <1>2, Ended DEF Pop, Left
<1>3. CASE Tail(job[p].stages) # <<>>
  <2>1. job' = [job EXCEPT ![p] = [job[p] EXCEPT !.stages = Tail(job[p].stages)]]
    BY <1>3 DEF Pop, Left
  <2>2. job' = [job EXCEPT ![p].stages = Tail(job[p].stages)]
    BY <2>1
  <2> QED BY <1>1, <1>3, <2>2, OneField
<1> QED BY <1>2, <1>3

\* The record of a save with another cloudRevision, of a task with another head.
LEMMA Changes ==
  /\ \A v \in Save : \A c \in Nat : \E w \in Save :
       w = [v EXCEPT !.cloud = c] /\ w.rev = v.rev /\ w.sum = v.sum /\ w.cloud = c
  /\ \A t \in Task : \A h \in Int : \E u \in Task :
       u = [t EXCEPT !.head = h] /\ u.key = t.key /\ u.id = t.id /\ u.rev = t.rev /\ u.sum = t.sum /\ u.head = h
<1>1. ASSUME NEW v \in Save, NEW c \in Nat
      PROVE  \E w \in Save : w = [v EXCEPT !.cloud = c] /\ w.rev = v.rev /\ w.sum = v.sum /\ w.cloud = c
  <2> PICK w : w = [v EXCEPT !.cloud = c]
    OBVIOUS
  <2>1. w \in Save /\ w.rev = v.rev /\ w.sum = v.sum /\ w.cloud = c
    BY DEF Save
  <2> QED BY <2>1
<1>2. ASSUME NEW t \in Task, NEW h \in Int
      PROVE  \E u \in Task : u = [t EXCEPT !.head = h] /\ u.key = t.key /\ u.id = t.id /\ u.rev = t.rev /\ u.sum = t.sum
                             /\ u.head = h
  <2> PICK u : u = [t EXCEPT !.head = h]
    OBVIOUS
  <2>1. u \in Task /\ u.key = t.key /\ u.id = t.id /\ u.rev = t.rev /\ u.sum = t.sum /\ u.head = h
    BY DEF Task
  <2> QED BY <2>1
<1> QED BY <1>1, <1>2

------------------------------------------------------------------------------
(* The server keeps its revisions, and contents what they descend from. *)

\* A function on 1 .. n is a sequence.
LEMMA AsSeq ==
  ASSUME NEW S, NEW n \in Nat, NEW f \in [1 .. n -> S]
  PROVE  f \in Seq(S) /\ Len(f) = n
OBVIOUS

Grows ==
  /\ issued' \in Nat /\ issued <= issued' /\ Len(from) <= Len(from') /\ Len(from') \in Nat
  /\ \A c \in Made : c \in 1 .. Len(from') /\ from[c] \subseteq from'[c]
  /\ \A k \in Keys : /\ Len(vers[k]) <= Len(vers'[k]) /\ Len(vers'[k]) \in Nat
                     /\ \A r \in Revs(k) : r \in 1 .. Len(vers'[k]) /\ vers'[k][r] = vers[k][r]

LEMMA Numbers ==
  ASSUME Server
  PROVE  /\ issued \in Nat /\ Len(from) \in Nat /\ DOMAIN from = Made /\ \A c \in Made : from[c] \subseteq Nat
         /\ \A k \in Keys : Len(vers[k]) \in Nat /\ vers[k] \in Seq(Nat) /\ DOMAIN vers[k] = Revs(k)
<1>1. issued \in Nat /\ from \in Seq(SUBSET Nat) /\ \A k \in Keys : vers[k] \in Seq(Nat)
  BY DEF Server
<1>2. Len(from) \in Nat /\ DOMAIN from = 1 .. Len(from) /\ \A c \in 1 .. Len(from) : from[c] \in SUBSET Nat
  BY <1>1
<1>3. \A k \in Keys : Len(vers[k]) \in Nat /\ DOMAIN vers[k] = 1 .. Len(vers[k])
  BY <1>1
<1> QED BY <1>1, <1>2, <1>3 DEF Made, Revs

LEMMA SameGrows ==
  ASSUME Server, issued' = issued, from' = from, vers' = vers
  PROVE  Grows
BY Numbers DEF Grows, Made, Revs

LEMMA CommitEffect ==
  ASSUME Server, NEW k \in Keys, NEW id \in 0 .. issued, NEW base \in Nat, NEW sum \in Made,
         Commit(k, id, base, sum), \A d \in done : d.id = id => d.rev \in Revs(k) /\ vers[k][d.rev] = sum,
         UNCHANGED <<issued, from>>,
         NEW rev, rev = Answer(k, id, base, sum)
  PROVE  /\ Grows /\ Server'
         /\ rev = None \/ (rev \in 1 .. Len(vers'[k]) /\ vers'[k][rev] = sum)
         /\ done' = done \/ (rev # None /\ id # 0 /\ done' = done \cup {[id |-> id, base |-> base, rev |-> rev]})
<1>1. /\ Len(vers[k]) \in Nat /\ vers \in [Keys -> Seq(Nat)] /\ head \in [Keys -> Nat] /\ sum \in Nat /\ Made \subseteq Nat
      /\ \A j \in Keys : head[j] \in 0 .. Len(vers[j])
  BY Numbers DEF Server, Made
<1>2. \/ rev = None
      \/ rev \in Revs(k) /\ vers[k][rev] = sum
      \/ rev = Len(vers[k]) + 1
  <2>1. CASE {d \in done : d.id = id} # {}
    <3> DEFINE d == CHOOSE d \in {e \in done : e.id = id} : TRUE
    <3>1. d \in done /\ d.id = id
      BY <2>1
    <3>2. d.rev \in Revs(k) /\ vers[k][d.rev] = sum
      BY <3>1
    <3>3. rev = IF d.base = base THEN d.rev ELSE None
      BY <2>1 DEF Answer
    <3> QED BY <3>2, <3>3
  <2>2. CASE {d \in done : d.id = id} = {}
    <3>1. CASE head[k] # base /\ head[k] # 0 /\ Current(k) = sum
      BY <1>1, <2>2, <3>1 DEF Answer, Current, Revs
    <3>2. CASE ~(head[k] # base /\ head[k] # 0 /\ Current(k) = sum)
      BY <2>2, <3>2 DEF Answer
    <3> QED BY <3>1, <3>2
  <2> QED BY <2>1, <2>2
<1>3. rev = None => rev # Len(vers[k]) + 1
  BY <1>1 DEF None
<1>4. rev \in Revs(k) => rev # Len(vers[k]) + 1
  BY <1>1 DEF Revs
<1>5. CASE rev = Len(vers[k]) + 1
  <2>1. vers' = [vers EXCEPT ![k] = Append(vers[k], sum)] /\ head' = [head EXCEPT ![k] = rev]
    BY <1>5 DEF Commit
  <2>2. /\ Append(vers[k], sum) \in Seq(Nat) /\ Len(Append(vers[k], sum)) = Len(vers[k]) + 1
        /\ \A i \in 1 .. Len(vers[k]) : Append(vers[k], sum)[i] = vers[k][i]
        /\ Append(vers[k], sum)[Len(vers[k]) + 1] = sum
    <3>1. vers[k] \in Seq(Nat) /\ sum \in Nat
      BY <1>1
    <3> QED BY <3>1, AppendProperties
  <2>3. /\ vers' \in [Keys -> Seq(Nat)] /\ head' \in [Keys -> Nat] /\ vers'[k] = Append(vers[k], sum) /\ head'[k] = rev
        /\ \A j \in Keys : j # k => vers'[j] = vers[j] /\ head'[j] = head[j]
    BY <1>1, <1>5, <2>1, <2>2
  <2>4. Grows
    <3>1. ASSUME NEW j \in Keys
          PROVE  /\ Len(vers[j]) <= Len(vers'[j]) /\ Len(vers'[j]) \in Nat
                 /\ \A r \in Revs(j) : r \in 1 .. Len(vers'[j]) /\ vers'[j][r] = vers[j][r]
      <4>1. CASE j = k
        <5>1. PICK n \in Nat : n = Len(vers[k])
          BY <1>1
        <5>2. Len(vers'[k]) = n + 1 /\ \A i \in 1 .. n : vers'[k][i] = vers[k][i]
          BY <2>2, <2>3, <5>1
        <5> QED BY <4>1, <5>1, <5>2 DEF Revs
      <4>2. CASE j # k
        <5>1. vers'[j] = vers[j] /\ Len(vers[j]) \in Nat
          BY <2>3, <4>2, Numbers
        <5> QED BY <5>1 DEF Revs
      <4> QED BY <4>1, <4>2
    <3>2. issued' \in Nat /\ issued <= issued' /\ Len(from') \in Nat /\ from' = from
      BY Numbers
    <3> QED BY <3>1, <3>2 DEF Grows, Made
  <2>5. \A j \in Keys : head'[j] \in 0 .. Len(vers'[j]) /\ \A r \in 1 .. Len(vers'[j]) : vers'[j][r] \in Made
    <3>1. head'[k] \in 0 .. Len(vers'[k])
      BY <1>1, <1>5, <2>2, <2>3
    <3>2. \A r \in 1 .. Len(vers'[k]) : vers'[k][r] \in Made
      <4>1. \A r \in 1 .. Len(vers[k]) : vers[k][r] \in Made
        BY DEF Server, Revs
      <4>2. \A n \in Nat : \A r \in 1 .. n + 1 : r \in 1 .. n \/ r = n + 1
        OBVIOUS
      <4>3. \A r \in 1 .. Len(vers[k]) + 1 : r \in 1 .. Len(vers[k]) \/ r = Len(vers[k]) + 1
        BY <1>1, <4>2
      <4> QED BY <2>2, <2>3, <4>1, <4>3
    <3>3. \A j \in Keys : j # k => head'[j] \in 0 .. Len(vers'[j]) /\ \A r \in 1 .. Len(vers'[j]) : vers'[j][r] \in Made
      BY <2>3 DEF Server, Revs
    <3> QED BY <3>1, <3>2, <3>3
  <2>6. rev \in 1 .. Len(vers'[k]) /\ vers'[k][rev] = sum /\ rev \in Nat /\ rev # None
    BY <1>1, <1>3, <1>5, <2>2, <2>3
  <2>7. done' = done \/ (rev # None /\ id # 0 /\ done' = done \cup {[id |-> id, base |-> base, rev |-> rev]})
    BY DEF Commit
  <2>8. done' \subseteq [id : 1 .. issued, base : Nat, rev : Nat]
    <3>1. id # 0 => id \in 1 .. issued
      BY Numbers
    <3> QED BY <2>6, <2>7, <3>1 DEF Server
  <2>9. Server'
    BY <2>3, <2>5, <2>8 DEF Server, Made, Revs
  <2> QED BY <2>4, <2>6, <2>7, <2>9
<1>6. CASE rev # Len(vers[k]) + 1
  <2>1. vers' = vers /\ head' = head
    BY <1>6 DEF Commit
  <2>2. done' = done \/ (rev # None /\ id # 0 /\ done' = done \cup {[id |-> id, base |-> base, rev |-> rev]})
    BY DEF Commit
  <2>3. rev # None => rev \in Revs(k) /\ vers[k][rev] = sum /\ rev \in Nat
    BY <1>1, <1>2, <1>6 DEF Revs
  <2>4. done' \subseteq [id : 1 .. issued, base : Nat, rev : Nat]
    <3>1. id # 0 => id \in 1 .. issued
      BY Numbers
    <3> QED BY <2>2, <2>3, <3>1 DEF Server
  <2>5. Server'
    BY <2>1, <2>4 DEF Server, Made, Revs
  <2> QED BY <2>1, <2>2, <2>3, <2>5, SameGrows DEF Revs
<1> QED BY <1>5, <1>6

\* The steps that change what the server keeps, and the history of the contents.
ServerStep ==
  \/ \E k \in Keys : OtherUpload(k) \/ OtherDelete(k)
  \/ \E p \in Procs : \/ \E k \in Keys : \E base \in {0, local[k].cloud} : CommitSave(p, k, base)
                      \/ ReadQueue(p) \/ Upload(p) \/ Erase(p) \/ UpdateCloudRevision(p) \/ Revive(p)

LEMMA ServerSteps ==
  ASSUME [Next]_vars
  PROVE  ServerStep \/ UNCHANGED <<cloud, issued, from>>
<1>1. ASSUME NEW p \in Procs, Begin(p) PROVE ServerStep \/ UNCHANGED <<cloud, issued, from>>
  <2>1. Wake(p) \/ Delete(p, Keys) => UNCHANGED <<cloud, issued, from>>
    BY DEF Wake, Delete, noted
  <2>2. ASSUME NEW k \in Keys
        PROVE  Retry(p, k) \/ KeepLocal(p, k) \/ UseCloud(p, k) \/ RestoreCloudBattery(p, k) \/ Delete(p, {k})
               => UNCHANGED <<cloud, issued, from>>
    BY DEF Retry, KeepLocal, UseCloud, RestoreCloudBattery, Delete, noted
  <2>3. ASSUME NEW k \in Keys, NEW r \in DOMAIN vers[k], RestoreCloudVersion(p, k, r) PROVE UNCHANGED <<cloud, issued, from>>
    BY <2>3 DEF RestoreCloudVersion, noted
  <2> QED BY <1>1, <2>1, <2>2, <2>3 DEF Begin, ServerStep
<1>2. ASSUME NEW p \in Procs, Stage(p) PROVE ServerStep \/ UNCHANGED <<cloud, issued, from>>
  <2>1. WriteQueue(p) \/ WriteFails(p) \/ Join(p) \/ RunDue(p) \/ DeleteDue(p) \/ NoneLeft(p) \/ RunTask(p) \/ RestoreTask(p)
        => UNCHANGED <<cloud, issued, from>>
    BY DEF WriteQueue, WriteFails, Join, RunDue, DeleteDue, NoneLeft, RunTask, RestoreTask, past, noted
  <2>2. StageFails(p) \/ Fetch(p) \/ Copy(p) \/ Put(p) \/ Heads(p) => UNCHANGED <<cloud, issued, from>>
    BY DEF StageFails, Fetch, Copy, Put, Heads, past, noted
  <2> QED BY <1>2, <2>1, <2>2 DEF Stage, ServerStep
<1>3. ASSUME NEW k \in Keys, RemoveLocal(k) PROVE UNCHANGED <<cloud, issued, from>>
  BY <1>3 DEF RemoveLocal
<1>4. Kill \/ SwitchScope => UNCHANGED <<cloud, issued, from>>
  BY DEF Kill, SwitchScope
<1>5. UNCHANGED vars => UNCHANGED <<cloud, issued, from>>
  BY DEF vars, past, noted
<1> QED BY <1>1, <1>2, <1>3, <1>4, <1>5 DEF Next, ServerStep

LEMMA OtherUploadEffect ==
  ASSUME Server, NEW k \in Keys, OtherUpload(k)
  PROVE  Grows /\ Server'
<1> PICK new : new = Len(from) + 1
  OBVIOUS
<1> PICK seen : seen = {new} \cup IF head[k] = 0 THEN {} ELSE from[Current(k)]
  OBVIOUS
<1>1. from' = Append(from, seen) /\ vers' = [vers EXCEPT ![k] = Append(vers[k], new)] /\ UNCHANGED <<done, issued>>
  BY DEF OtherUpload
<1>2. head' = [head EXCEPT ![k] = Len(vers'[k])]
  BY DEF OtherUpload
<1>3. vers[k] \in Seq(Nat) /\ from \in Seq(SUBSET Nat) /\ Len(from) \in Nat /\ new \in Nat /\ Len(vers[k]) \in Nat
  BY Numbers DEF Server
<1>4. seen \in SUBSET Nat /\ new \in seen
  <2>1. head[k] # 0 => Current(k) \in Made
    BY DEF Server, Current, Revs
  <2> QED BY <1>3, <2>1, Numbers
<1>5. /\ Append(vers[k], new) \in Seq(Nat) /\ Len(Append(vers[k], new)) = Len(vers[k]) + 1
      /\ \A i \in 1 .. Len(vers[k]) : Append(vers[k], new)[i] = vers[k][i]
      /\ Append(vers[k], new)[Len(vers[k]) + 1] = new
  BY <1>3, AppendProperties
<1>6. /\ from' \in Seq(SUBSET Nat) /\ Len(from') = new /\ \A i \in 1 .. Len(from) : from'[i] = from[i]
      /\ from'[new] = seen
  BY <1>1, <1>3, <1>4, AppendProperties
<1>7. /\ vers' \in [Keys -> Seq(Nat)] /\ vers'[k] = Append(vers[k], new)
      /\ \A j \in Keys : j # k => vers'[j] = vers[j]
  BY <1>1, <1>5 DEF Server
<1>8. head' \in [Keys -> Nat] /\ head'[k] = Len(vers[k]) + 1 /\ \A j \in Keys : j # k => head'[j] = head[j]
  BY <1>2, <1>3, <1>5, <1>7 DEF Server
<1>9. \A n \in Nat : \A r \in 1 .. n + 1 : r \in 1 .. n \/ r = n + 1
  OBVIOUS
<1>10. \A c \in 1 .. Len(from') : c \in Made \/ c = new
  BY <1>3, <1>6, <1>9 DEF Made
<1>11. Made \subseteq 1 .. Len(from') /\ new \in 1 .. Len(from') /\ Len(from) <= Len(from')
  BY <1>3, <1>6 DEF Made
<1>12. ASSUME NEW j \in Keys
       PROVE  /\ Len(vers[j]) <= Len(vers'[j]) /\ Len(vers'[j]) \in Nat
              /\ \A r \in Revs(j) : r \in 1 .. Len(vers'[j]) /\ vers'[j][r] = vers[j][r]
  <2>1. CASE j = k
    <3>1. PICK n \in Nat : n = Len(vers[k])
      BY <1>3
    <3>2. Len(vers'[k]) = n + 1 /\ \A i \in 1 .. n : vers'[k][i] = vers[k][i]
      BY <1>5, <1>7, <3>1
    <3> QED BY <2>1, <3>1, <3>2 DEF Revs
  <2>2. CASE j # k
    <3>1. vers'[j] = vers[j] /\ Len(vers[j]) \in Nat
      BY <1>7, <2>2, Numbers
    <3> QED BY <3>1 DEF Revs
  <2> QED BY <2>1, <2>2
<1>13. Grows
  <2>1. issued' = issued /\ issued \in Nat
    BY <1>1 DEF Server
  <2>2. \A c \in Made : c \in 1 .. Len(from') /\ from[c] \subseteq from'[c]
    BY <1>6, <1>11 DEF Made
  <2> QED BY <1>3, <1>6, <1>11, <1>12, <2>1, <2>2 DEF Grows
<1>14. ASSUME NEW j \in Keys
       PROVE  head'[j] \in 0 .. Len(vers'[j]) /\ \A r \in 1 .. Len(vers'[j]) : vers'[j][r] \in 1 .. Len(from')
  <2>1. \A r \in Revs(j) : vers[j][r] \in 1 .. Len(from')
    BY <1>11 DEF Server
  <2>2. CASE j = k
    <3>1. Len(vers'[k]) = Len(vers[k]) + 1 /\ vers'[k][Len(vers[k]) + 1] = new
      BY <1>5, <1>7
    <3>2. \A r \in 1 .. Len(vers'[k]) : r \in Revs(k) \/ r = Len(vers[k]) + 1
      BY <1>3, <1>9, <3>1 DEF Revs
    <3>3. head'[k] \in 0 .. Len(vers'[k])
      BY <1>3, <1>8, <3>1
    <3> QED BY <1>11, <1>12, <2>1, <2>2, <3>1, <3>2, <3>3
  <2>3. CASE j # k
    BY <1>7, <1>8, <2>1, <2>3 DEF Server, Revs
  <2> QED BY <2>2, <2>3
<1>15. \A c \in 1 .. Len(from') : c \in from'[c]
  BY <1>4, <1>6, <1>10 DEF Server, Made
<1> QED BY <1>1, <1>6, <1>7, <1>8, <1>13, <1>14, <1>15 DEF Server, Made, Revs

LEMMA FromGrows ==
  ASSUME Server, UNCHANGED <<vers, issued>>, from' \in Seq(SUBSET Nat), Len(from) <= Len(from'),
         \A c \in Made : from[c] \subseteq from'[c]
  PROVE  Grows
<1>1. Len(from') \in Nat
  OBVIOUS
<1>2. \A c \in Made : c \in 1 .. Len(from')
  BY <1>1, Numbers DEF Made
<1> QED BY <1>1, <1>2, Numbers DEF Grows, Revs

\* What a commit of the player leaves behind: a new content, and a new manifest.
Descended(k) ==
  /\ Len(from') = Len(from) + 1 /\ \A c \in Made : from'[c] = from[c]
  /\ from'[Len(from) + 1] = {Len(from) + 1} \cup (IF local[k].rev = 0 THEN {} ELSE from[local[k].sum])
Committed(p, k, base) ==
  \E v \in Save : /\ v.rev = local[k].rev + 1 /\ v.cloud = base /\ v.sum = Len(from) + 1
                  /\ local' = [local EXCEPT ![k] = v] /\ newest' = [newest EXCEPT ![k] = v.sum]
                  /\ Gets(p, New("save", {k}, <<"enqueue", "run">>, NoTask, v))

LEMMA CommitSaveEffect ==
  ASSUME Stores, Server, Jobs, NEW p \in Procs, NEW k \in Keys, NEW base \in {0, local[k].cloud}, CommitSave(p, k, base)
  PROVE  Grows /\ Server' /\ Idle(p) /\ Descended(k) /\ Committed(p, k, base)
<1> PICK new : new = Len(from) + 1
  OBVIOUS
<1> PICK v : v = [rev |-> local[k].rev + 1, cloud |-> base, sum |-> new]
  OBVIOUS
<1> PICK seen : seen = {new} \cup IF local[k].rev = 0 THEN {} ELSE from[local[k].sum]
  OBVIOUS
<1>1. Len(from) \in Nat /\ from \in Seq(SUBSET Nat) /\ local[k] \in Save /\ new \in Nat
  BY Numbers DEF Server, Stores
<1>2. v \in Save /\ v.rev = local[k].rev + 1 /\ v.cloud = base /\ v.sum = new
  BY <1>1 DEF Save
<1>3. seen \in SUBSET Nat /\ new \in seen
  <2>1. local[k].rev # 0 => local[k].sum \in Made
    BY DEF Stores
  <2> QED BY <1>1, <2>1, Numbers
<1>4. /\ Enter(p, "save", {k}, <<"enqueue", "run">>, NoTask, v) /\ local' = [local EXCEPT ![k] = v]
      /\ newest' = [newest EXCEPT ![k] = new] /\ from' = Append(from, seen) /\ UNCHANGED <<cloud, issued>>
  BY DEF CommitSave
<1>5. /\ from' \in Seq(SUBSET Nat) /\ Len(from') = new /\ \A i \in 1 .. Len(from) : from'[i] = from[i]
      /\ from'[new] = seen
  BY <1>1, <1>3, <1>4, AppendProperties
<1>6. <<"enqueue", "run">> \in Seq(Stages) /\ "save" \in Ops /\ {k} \in SUBSET Keys
  BY AftersTyped DEF Ops
<1>7. Gets(p, New("save", {k}, <<"enqueue", "run">>, NoTask, v)) /\ Idle(p)
  BY <1>2, <1>4, <1>6, NoneTyped, EnterEffect DEF Jobs
<1>8. Len(from) <= Len(from') /\ Made \subseteq 1 .. Len(from') /\ new \in 1 .. Len(from')
  BY <1>1, <1>5 DEF Made
<1>9. Grows
  <2>1. UNCHANGED <<vers, issued>>
    BY <1>4 DEF cloud
  <2>2. \A c \in Made : from[c] \subseteq from'[c]
    BY <1>5 DEF Made
  <2> QED BY <1>5, <1>8, <2>1, <2>2, FromGrows
<1>10. \A c \in 1 .. Len(from') : c \in from'[c]
  <2>1. \A n \in Nat : \A r \in 1 .. n + 1 : r \in 1 .. n \/ r = n + 1
    OBVIOUS
  <2>2. \A c \in 1 .. Len(from') : c \in 1 .. Len(from) \/ c = new
    BY <1>1, <1>5, <2>1
  <2> QED BY <1>3, <1>5, <2>2 DEF Server, Made
<1>11. Server'
  <2>1. vers' = vers /\ head' = head /\ done' = done /\ issued' = issued
    BY <1>4 DEF cloud
  <2> QED BY <1>5, <1>8, <1>10, <2>1 DEF Server, Made, Revs
<1> QED BY <1>2, <1>4, <1>5, <1>7, <1>9, <1>11 DEF Made, Descended, Committed

\* A commit without an operation identifier, that of a restored version.
LEMMA PlainCommit ==
  ASSUME Server, NEW k \in Keys, NEW base \in Nat, NEW sum \in Made, Commit(k, 0, base, sum), \A d \in done : d.id # 0,
         UNCHANGED <<issued, from>>, NEW rev, rev = Answer(k, 0, base, sum)
  PROVE  Grows /\ Server' /\ (rev = None \/ (rev \in 1 .. Len(vers'[k]) /\ vers'[k][rev] = sum))
<1>1. 0 \in 0 .. issued
  BY Numbers
<1>2. \A d \in done : d.id = 0 => d.rev \in Revs(k) /\ vers[k][d.rev] = sum
  OBVIOUS
<1> QED BY <1>1, <1>2, CommitEffect

LEMMA UpdateEffect ==
  ASSUME Stores, Server, Jobs, NEW p \in Procs, UpdateCloudRevision(p),
         NEW k, k = IF job[p].op = "keep" THEN Key(p) ELSE job[p].task.key
  PROVE  /\ At(p, "update") /\ k \in Keys /\ Grows /\ Server' /\ Len(from') = Len(from)
         /\ \/ local[k].rev = 0 /\ UNCHANGED <<local, from>> /\ Thrown(p)
            \/ /\ local[k].rev # 0 /\ line' = line
               /\ \E v \in Save : /\ v.rev = local[k].rev /\ v.sum = local[k].sum /\ v.cloud = job[p].save.cloud
                                  /\ local' = [local EXCEPT ![k] = v]
                                  /\ Becomes(p, Tail(job[p].stages), job[p].todo, job[p].task, v, job[p].list)
               /\ job[p].op # "keep" => from' = from
               /\ job[p].op = "keep" => from[job[p].save.sum] \subseteq from'[local[k].sum]
<1>1. At(p, "update") /\ Reads(p) /\ job[p] \in Job
  BY Reading DEF UpdateCloudRevision, Jobs
<1>2. \/ job[p].op = "keep" /\ job[p].stages = <<"update", "complete", "enqueue", "run">>
      \/ job[p].op = "run" /\ job[p].stages = <<"update", "complete", "next">>
  BY <1>1, AtStage
<1>3. k \in Keys
  <2>1. CASE job[p].op = "keep"
    BY <1>1, <2>1, KeyIs DEF Resolvers
  <2>2. CASE job[p].op = "run"
    <3>1. IsTask(job[p].task)
      BY <1>1, <1>2, <2>2 DEF Reads, Good, InLine, Taskless
    <3> QED BY <2>2, <3>1 DEF IsTask
  <2> QED BY <1>2, <2>1, <2>2
<1>4. UNCHANGED cloud /\ issued' = issued
  BY DEF UpdateCloudRevision
<1>5. CASE local[k].rev = 0
  <2>1. UNCHANGED <<local, from>> /\ Thrown(p)
    BY <1>5 DEF UpdateCloudRevision
  <2>2. Grows
    BY <1>4, <2>1, SameGrows DEF cloud
  <2>3. Server'
    BY <1>4, <2>1 DEF cloud, Server, Made, Revs
  <2> QED BY <1>1, <1>3, <1>5, <2>1, <2>2, <2>3
<1>6. CASE local[k].rev # 0
  <2>0. PICK v : v = [local[k] EXCEPT !.cloud = job[p].save.cloud]
    OBVIOUS
  <2>1. local[k] \in Save /\ job[p].save.cloud \in Nat /\ local[k].sum \in Made
    BY <1>1, <1>3, <1>6 DEF Stores, Job, Save
  <2>2. v \in Save /\ v.rev = local[k].rev /\ v.sum = local[k].sum /\ v.cloud = job[p].save.cloud
    BY <2>0, <2>1 DEF Save
  <2>3. /\ local' = [local EXCEPT ![k] = v] /\ line' = line
        /\ job' = [job EXCEPT ![p] = [Left(p, Tail(job[p].stages)) EXCEPT !.save = v]]
        /\ from' = IF job[p].op = "keep" THEN [from EXCEPT ![v.sum] = @ \cup from[job[p].save.sum]] ELSE from
    BY <1>6, <2>0 DEF UpdateCloudRevision
  <2>4. Tail(job[p].stages) \in Seq(Stages) /\ Tail(job[p].stages) # <<>>
    BY <1>1, FlowTyped
  <2>5. Becomes(p, Tail(job[p].stages), job[p].todo, job[p].task, v, job[p].list)
    BY <2>2, <2>3, <2>4, LeftWithSave
  <2>6. /\ from' \in Seq(SUBSET Nat) /\ Len(from') = Len(from) /\ \A c \in Made : from[c] \subseteq from'[c]
        /\ job[p].op = "keep" => from[job[p].save.sum] \subseteq from'[local[k].sum]
    <3>1. CASE job[p].op = "keep"
      <4>1. \A x \in job[p].keys : Revision(x, job[p].save)
        BY <1>1, <1>2, <3>1 DEF Reads, Good, Downloaded
      <4>2. job[p].save.sum \in Made
        <5>1. Key(p) \in Keys /\ job[p].keys = {Key(p)}
          BY <1>1, <3>1, KeyIs DEF Resolvers
        <5> QED BY <4>1, <5>1 DEF Revision, Server
      <4>3. PICK w : w \in SUBSET Nat /\ w = from[local[k].sum] \cup from[job[p].save.sum]
        BY <2>1, <4>2, Numbers
      <4>4. PICK n \in Nat : n = Len(from)
        BY Numbers
      <4>5. PICK i \in 1 .. n : i = local[k].sum
        BY <2>1, <4>4 DEF Made
      <4>6. from \in [1 .. n -> SUBSET Nat]
        BY <4>4 DEF Server
      <4>7. from' = [from EXCEPT ![i] = w]
        BY <2>2, <2>3, <3>1, <4>3, <4>5
      <4>8. from' \in Seq(SUBSET Nat) /\ Len(from') = n /\ \A c \in 1 .. n : from'[c] = IF c = i THEN w ELSE from[c]
        <5>1. w \in SUBSET Nat
          BY <4>3
        <5>2. from' \in [1 .. n -> SUBSET Nat] /\ \A c \in 1 .. n : from'[c] = IF c = i THEN w ELSE from[c]
          BY <4>6, <4>7, <5>1
        <5>3. from' \in Seq(SUBSET Nat) /\ Len(from') = n
          BY <5>2, AsSeq
        <5> QED BY <5>2, <5>3
      <4> QED BY <2>1, <4>3, <4>4, <4>5, <4>8 DEF Made
    <3>2. CASE job[p].op # "keep"
      BY <2>3, <3>2 DEF Server
    <3> QED BY <3>1, <3>2
  <2>7. Grows
    <3>1. Len(from) <= Len(from')
      BY <2>6, Numbers
    <3> QED BY <1>4, <2>6, <3>1, FromGrows DEF cloud
  <2>8. Server'
    <3>1. vers' = vers /\ head' = head /\ done' = done /\ issued' = issued
      BY <1>4 DEF cloud
    <3>2. \A c \in 1 .. Len(from') : c \in from'[c]
      BY <2>6 DEF Server, Made
    <3> QED BY <2>6, <3>1, <3>2 DEF Server, Made, Revs
  <2> QED BY <1>1, <1>3, <1>6, <2>2, <2>3, <2>5, <2>6, <2>7, <2>8
<1> QED BY <1>5, <1>6

LEMMA UploadEffect ==
  ASSUME Stores, Server, Jobs, Ids, NEW p \in Procs, Upload(p), NEW t, t = job[p].task, NEW save, save = job[p].save
  PROVE  /\ At(p, "upload") /\ job[p].op = "run" /\ job[p].stages = <<"upload", "next">> /\ IsTask(t)
         /\ save.rev = t.rev /\ save.sum = t.sum
         /\ Grows /\ Server' /\ UNCHANGED <<phone, line, issued, from>>
         /\ \/ done' = done
            \/ \E d : /\ done' = done \cup {d} /\ d.id = t.id /\ d.rev \in 1 .. Len(vers'[t.key])
                      /\ vers'[t.key][d.rev] = t.sum
         /\ \/ \E v \in Save : /\ v.rev = save.rev /\ v.sum = save.sum /\ v.cloud \in 1 .. Len(vers'[t.key])
                               /\ vers'[t.key][v.cloud] = v.sum
                               /\ Becomes(p, <<"update", "complete", "next">>, job[p].todo, t, v, job[p].list)
            \/ \E u \in Task : /\ Same(u, t) /\ u.head \in {None, Unseen} \cup 0 .. Len(vers[t.key])
                               /\ Becomes(p, <<"conflict", "next">>, job[p].todo, u, NoSave, job[p].list)
            \/ Becomes(p, <<"delay", "next">>, job[p].todo, t, NoSave, job[p].list)
            \/ Becomes(p, <<"fail", "next">>, job[p].todo, t, NoSave, job[p].list)
<1> PICK k : k = t.key
  OBVIOUS
<1> PICK rev : rev = Answer(k, t.id, save.cloud, save.sum)
  OBVIOUS
<1>1. At(p, "upload") /\ Reads(p) /\ job[p] \in Job /\ UNCHANGED <<phone, line, issued, from>>
  BY Reading DEF Upload, Jobs, noted
<1>2. job[p].op = "run" /\ job[p].stages = <<"upload", "next">>
  BY <1>1, AtStage
<1>3. IsTask(t)
  BY <1>1, <1>2 DEF Reads, Good, InLine, Taskless
<1>4. save.rev = t.rev /\ save.sum = t.sum /\ save \in Save /\ t \in Task /\ k \in Keys
  BY <1>1, <1>2, <1>3 DEF Reads, Good, IsTask, Job
<1>5. t.id \in 0 .. issued /\ save.cloud \in Nat /\ save.sum \in Made
  BY <1>3, <1>4, Numbers DEF IsTask, Save
<1>6. \A d \in done : d.id = t.id => d.rev \in Revs(k) /\ vers[k][d.rev] = save.sum
  BY <1>4 DEF Ids, Held
<1>7. /\ Tail(<<"update", "complete", "next">>) = <<"complete", "next">>
      /\ <<"update", "complete">> \o <<"next">> = <<"update", "complete", "next">>
      /\ <<"conflict">> \o <<"next">> = <<"conflict", "next">> /\ <<"delay">> \o <<"next">> = <<"delay", "next">>
      /\ <<"fail">> \o <<"next">> = <<"fail", "next">>
  <2>1. /\ "update" \in Stages /\ "complete" \in Stages /\ "next" \in Stages /\ "conflict" \in Stages
        /\ "delay" \in Stages /\ "fail" \in Stages
    BY DEF Stages
  <2>2. <<"update", "complete">> \o <<"next">> = <<"update", "complete", "next">>
    BY <2>1, TwoFronts
  <2>3. <<"conflict">> \o <<"next">> = <<"conflict", "next">>
    BY <2>1, Front2
  <2>4. <<"delay">> \o <<"next">> = <<"delay", "next">>
    BY <2>1, Front2
  <2>5. <<"fail">> \o <<"next">> = <<"fail", "next">>
    BY <2>1, Front2
  <2> QED BY <2>2, <2>3, <2>4, <2>5, FlowNexts
<1>8. ASSUME Commit(k, t.id, save.cloud, save.sum)
      PROVE  /\ Grows /\ Server'
             /\ rev = None \/ (rev \in 1 .. Len(vers'[k]) /\ vers'[k][rev] = save.sum)
             /\ \/ done' = done
                \/ \E d : /\ done' = done \cup {d} /\ d.id = t.id /\ d.rev \in 1 .. Len(vers'[k]) /\ vers'[k][d.rev] = t.sum
  <2>1. /\ Grows /\ Server'
        /\ rev = None \/ (rev \in 1 .. Len(vers'[k]) /\ vers'[k][rev] = save.sum)
        /\ \/ done' = done
           \/ rev # None /\ t.id # 0 /\ done' = done \cup {[id |-> t.id, base |-> save.cloud, rev |-> rev]}
    BY <1>1, <1>4, <1>5, <1>6, <1>8, CommitEffect
  <2> PICK d : d = [id |-> t.id, base |-> save.cloud, rev |-> rev]
    OBVIOUS
  <2>2. d.id = t.id /\ d.rev = rev
    OBVIOUS
  <2>3. \/ done' = done
        \/ rev # None /\ done' = done \cup {d}
    BY <2>1
  <2> QED BY <1>4, <2>1, <2>2, <2>3
<1>9. UNCHANGED cloud => Grows /\ Server'
  <2>1. ASSUME UNCHANGED cloud PROVE Grows
    BY <1>1, <2>1, SameGrows DEF cloud
  <2>2. ASSUME UNCHANGED cloud PROVE Server'
    BY <1>1, <2>2 DEF cloud, Server, Made, Revs
  <2> QED BY <2>1, <2>2
<1>10. CASE /\ scope = "account" /\ Commit(k, t.id, save.cloud, save.sum)
            /\ IF rev # None THEN Reply(p, <<"update", "complete">>, [save EXCEPT !.cloud = rev], t)
               ELSE IF SameAsCurrent(k, t)
               THEN Reply(p, <<"update", "complete">>, [save EXCEPT !.cloud = head[k]], t)
               ELSE Reply(p, <<"conflict">>, NoSave, [t EXCEPT !.head = Shown(k, t.id)])
  <2>1. ASSUME NEW c \in Nat, c \in 1 .. Len(vers'[k]), vers'[k][c] = save.sum,
               Reply(p, <<"update", "complete">>, [save EXCEPT !.cloud = c], t)
        PROVE  \E v \in Save : /\ v.rev = save.rev /\ v.sum = save.sum /\ v.cloud \in 1 .. Len(vers'[k])
                               /\ vers'[k][v.cloud] = v.sum
                               /\ Becomes(p, <<"update", "complete", "next">>, job[p].todo, t, v, job[p].list)
    <3>1. PICK v \in Save : v = [save EXCEPT !.cloud = c] /\ v.rev = save.rev /\ v.sum = save.sum /\ v.cloud = c
      BY <1>4, Changes
    <3>2. Reply(p, <<"update", "complete">>, v, t)
      BY <2>1, <3>1
    <3>3. <<"update", "complete">> \o <<"next">> \in Seq(Stages)
      BY <1>7, ShapesTyped
    <3>4. Becomes(p, <<"update", "complete", "next">>, job[p].todo, t, v, job[p].list)
      BY <1>4, <1>7, <3>2, <3>3, ReplyEffect
    <3> QED BY <2>1, <3>1, <3>4
  <2>2. CASE rev # None
    <3>1. rev \in 1 .. Len(vers'[k]) /\ vers'[k][rev] = save.sum /\ rev \in Nat
      <4>1. Commit(k, t.id, save.cloud, save.sum)
        BY <1>10
      <4>2. rev \in 1 .. Len(vers'[k]) /\ vers'[k][rev] = save.sum
        BY <1>8, <2>2, <4>1
      <4> QED BY <4>2
    <3>2. Reply(p, <<"update", "complete">>, [save EXCEPT !.cloud = rev], t)
      BY <1>10, <2>2
    <3> QED BY <1>1, <1>2, <1>3, <1>4, <1>8, <1>10, <2>1, <3>1, <3>2
  <2>3. CASE rev = None /\ SameAsCurrent(k, t)
    <3>1. head[k] > 0 /\ vers[k][head[k]] = t.sum
      <4>1. Shown(k, t.id) > 0 => Shown(k, t.id) = head[k]
        BY DEF Shown, Unseen
      <4> QED BY <2>3, <4>1 DEF SameAsCurrent, Current
    <3>2. head[k] \in Revs(k) /\ head[k] \in Nat
      BY <1>4, <3>1, Numbers DEF Server, Revs
    <3>3. head[k] \in 1 .. Len(vers'[k]) /\ vers'[k][head[k]] = save.sum
      BY <1>4, <1>8, <1>10, <3>1, <3>2 DEF Grows
    <3>4. Reply(p, <<"update", "complete">>, [save EXCEPT !.cloud = head[k]], t)
      BY <1>10, <2>3
    <3> QED BY <1>1, <1>2, <1>3, <1>4, <1>8, <1>10, <2>1, <3>2, <3>3, <3>4
  <2>4. CASE rev = None /\ ~SameAsCurrent(k, t)
    <3>1. Shown(k, t.id) \in {None, Unseen} \cup 0 .. Len(vers[k]) /\ Shown(k, t.id) \in Int
      BY <1>4, Numbers DEF Shown, Unseen, Server
    <3>2. PICK u \in Task : u = [t EXCEPT !.head = Shown(k, t.id)] /\ Same(u, t) /\ u.head = Shown(k, t.id)
      BY <1>4, <3>1, Changes DEF Same
    <3>3. Reply(p, <<"conflict">>, NoSave, u)
      BY <1>10, <2>4, <3>2
    <3>4. <<"conflict">> \o <<"next">> \in Seq(Stages)
      BY <1>7, ShapesTyped
    <3>5. Becomes(p, <<"conflict", "next">>, job[p].todo, u, NoSave, job[p].list)
      BY <1>7, <3>3, <3>4, NoneTyped, ReplyEffect
    <3> QED BY <1>1, <1>2, <1>3, <1>4, <1>8, <1>10, <3>1, <3>2, <3>5
  <2> QED BY <2>2, <2>3, <2>4
<1>11. CASE /\ Reply(p, <<"delay">>, NoSave, t)
            /\ Commit(k, t.id, save.cloud, save.sum) \/ UNCHANGED cloud
  <2>1. <<"delay">> \o <<"next">> \in Seq(Stages)
    BY <1>7, ShapesTyped
  <2>2. Becomes(p, <<"delay", "next">>, job[p].todo, t, NoSave, job[p].list)
    BY <1>4, <1>7, <1>11, <2>1, NoneTyped, ReplyEffect
  <2>3. CASE Commit(k, t.id, save.cloud, save.sum)
    BY <1>1, <1>2, <1>3, <1>4, <1>8, <2>2, <2>3
  <2>4. CASE UNCHANGED cloud
    <3>1. done' = done
      BY <2>4 DEF cloud
    <3> QED BY <1>1, <1>2, <1>3, <1>4, <1>9, <2>2, <2>4, <3>1
  <2> QED BY <1>11, <2>3, <2>4
<1>12. CASE Reply(p, <<"fail">>, NoSave, t) /\ UNCHANGED cloud
  <2>1. <<"fail">> \o <<"next">> \in Seq(Stages)
    BY <1>7, ShapesTyped
  <2>2. Becomes(p, <<"fail", "next">>, job[p].todo, t, NoSave, job[p].list)
    BY <1>4, <1>7, <1>12, <2>1, NoneTyped, ReplyEffect
  <2>3. done' = done
    BY <1>12 DEF cloud
  <2> QED BY <1>1, <1>2, <1>3, <1>4, <1>9, <1>12, <2>2, <2>3
<1>13. \/ scope = "account" /\ Commit(k, t.id, save.cloud, save.sum)
          /\ IF rev # None THEN Reply(p, <<"update", "complete">>, [save EXCEPT !.cloud = rev], t)
             ELSE IF SameAsCurrent(k, t)
             THEN Reply(p, <<"update", "complete">>, [save EXCEPT !.cloud = head[k]], t)
             ELSE Reply(p, <<"conflict">>, NoSave, [t EXCEPT !.head = Shown(k, t.id)])
       \/ Reply(p, <<"delay">>, NoSave, t) /\ (Commit(k, t.id, save.cloud, save.sum) \/ UNCHANGED cloud)
       \/ Reply(p, <<"fail">>, NoSave, t) /\ UNCHANGED cloud
  BY DEF Upload
<1> QED BY <1>10, <1>11, <1>12, <1>13

LEMMA ReviveEffect ==
  ASSUME Stores, Server, Jobs, NEW p \in Procs, Revive(p)
  PROVE  /\ At(p, "revive") /\ Key(p) \in Keys /\ job[p].keys = {Key(p)} /\ Grows /\ Server'
         /\ UNCHANGED <<phone, done, issued, from>>
         /\ \/ Ends(p)
            \/ /\ line' = line
               /\ \E u \in Task : /\ u.id = job[p].task.id /\ u.rev = job[p].task.rev /\ u.key = job[p].task.key
                                  /\ u.head \in 1 .. Len(vers'[Key(p)])
                                  /\ Becomes(p, Tail(job[p].stages), job[p].todo, u, job[p].save, job[p].list)
<1> PICK k : k = Key(p)
  OBVIOUS
<1>0. PICK sum, rev : sum = vers[k][job[p].task.rev] /\ rev = Answer(k, 0, job[p].save.cloud, sum)
  OBVIOUS
<1>1. At(p, "revive") /\ Reads(p) /\ job[p] \in Job /\ UNCHANGED <<phone, issued, from>>
  BY Reading DEF Revive, Jobs, noted
<1>2. job[p].op = "version"
  BY <1>1, AtStage
<1>3. k \in Keys /\ job[p].keys = {k}
  BY <1>1, <1>2, KeyIs DEF Resolvers
<1>4. job[p].task.rev \in Revs(k)
  BY <1>1, <1>2, <1>3 DEF Reads, Good
<1>5. sum \in Made /\ job[p].save.cloud \in Nat /\ job[p].task \in Task /\ 0 \in 0 .. issued
  BY <1>0, <1>1, <1>3, <1>4, Numbers DEF Server, Job, Save
<1>6. \A d \in done : d.id # 0
  BY Numbers DEF Server
<1>7. ASSUME Commit(k, 0, job[p].save.cloud, sum)
      PROVE  Grows /\ Server' /\ done' = done /\ (rev = None \/ rev \in 1 .. Len(vers'[k]))
  <2>1. /\ Grows /\ Server'
        /\ rev = None \/ (rev \in 1 .. Len(vers'[k]) /\ vers'[k][rev] = sum)
    <3>1. PICK base \in Nat : base = job[p].save.cloud
      BY <1>5
    <3>2. Commit(k, 0, base, sum) /\ rev = Answer(k, 0, base, sum)
      BY <1>0, <1>7, <3>1
    <3>3. UNCHANGED <<issued, from>> /\ sum \in Made /\ \A d \in done : d.id # 0
      BY <1>1, <1>5, <1>6
    <3> QED BY <1>3, <3>2, <3>3, PlainCommit
  <2>2. done' = done
    BY <1>7 DEF Commit
  <2> QED BY <2>1, <2>2
<1>8. ASSUME UNCHANGED cloud PROVE Grows /\ Server' /\ done' = done
  <2>1. Grows
    BY <1>1, <1>8, SameGrows DEF cloud
  <2>2. Server'
    BY <1>1, <1>8 DEF cloud, Server, Made, Revs
  <2> QED BY <1>8, <2>1, <2>2 DEF cloud
<1>9. Grows /\ Server' /\ done' = done
  BY <1>0, <1>7, <1>8 DEF Revive
<1>10. CASE End(p)
  BY <1>1, <1>3, <1>9, <1>10, EndEffect
<1>11. CASE /\ ~(head[k] = 0 \/ rev = None) /\ Commit(k, 0, job[p].save.cloud, sum) /\ line' = line
            /\ job' = [job EXCEPT ![p] = [Left(p, Tail(job[p].stages)) EXCEPT !.task.head = rev]]
  <2>1. rev \in 1 .. Len(vers'[k]) /\ rev \in Int
    <3>1. Commit(k, 0, job[p].save.cloud, sum) /\ rev # None
      BY <1>11
    <3>2. rev \in 1 .. Len(vers'[k])
      BY <1>7, <3>1
    <3> QED BY <3>2
  <2>2. Tail(job[p].stages) \in Seq(Stages) /\ Tail(job[p].stages) # <<>>
    BY <1>1, FlowTyped
  <2> PICK l : l = Left(p, Tail(job[p].stages))
    OBVIOUS
  <2>3. l = [job[p] EXCEPT !.stages = Tail(job[p].stages)]
    BY <2>2 DEF Left
  <2>4. l \in Job /\ l.task = job[p].task
    BY <1>1, <2>2, <2>3 DEF Job
  <2>5. PICK u \in Task : /\ u = [job[p].task EXCEPT !.head = rev] /\ u.id = job[p].task.id /\ u.key = job[p].task.key
                          /\ u.rev = job[p].task.rev /\ u.head = rev
    BY <1>5, <2>1, Changes
  <2>6. [l EXCEPT !.task.head = rev] = [l EXCEPT !.task = u]
    BY <2>4, <2>5
  <2>7. job' = [job EXCEPT ![p] = [Left(p, Tail(job[p].stages)) EXCEPT !.task = u]]
    BY <1>11, <2>6
  <2>8. Becomes(p, Tail(job[p].stages), job[p].todo, u, job[p].save, job[p].list)
    BY <2>2, <2>7, LeftWithTask
  <2> QED BY <1>1, <1>3, <1>9, <1>11, <2>1, <2>5, <2>8
<1>12. \/ End(p)
       \/ /\ ~(head[k] = 0 \/ rev = None) /\ Commit(k, 0, job[p].save.cloud, sum) /\ line' = line
          /\ job' = [job EXCEPT ![p] = [Left(p, Tail(job[p].stages)) EXCEPT !.task.head = rev]]
  BY <1>0 DEF Revive
<1> QED BY <1>10, <1>11, <1>12

LEMMA ServerNext ==
  ASSUME Stores, Server, Jobs, Ids, [Next]_vars
  PROVE  Grows /\ Server'
<1>1. CASE UNCHANGED <<cloud, issued, from>>
  <2>1. vers' = vers /\ head' = head /\ done' = done /\ issued' = issued /\ from' = from
    BY <1>1 DEF cloud
  <2>2. Grows
    BY <2>1, SameGrows
  <2>3. Server'
    BY <2>1 DEF Server, Made, Revs
  <2> QED BY <2>2, <2>3
<1>2. ASSUME NEW k \in Keys, OtherUpload(k) PROVE Grows /\ Server'
  BY <1>2, OtherUploadEffect
<1>3. ASSUME NEW k \in Keys, OtherDelete(k) PROVE Grows /\ Server'
  <2>1. vers' = vers /\ head' = [head EXCEPT ![k] = 0] /\ done' = done /\ issued' = issued /\ from' = from
    BY <1>3 DEF OtherDelete, noted
  <2>2. head' \in [Keys -> Nat] /\ \A j \in Keys : head'[j] = head[j] \/ head'[j] = 0
    BY <2>1 DEF Server
  <2>3. Server'
    BY <2>1, <2>2, Numbers DEF Server, Made, Revs
  <2>4. Grows
    BY <2>1, SameGrows
  <2> QED BY <2>3, <2>4
<1>4. ASSUME NEW p \in Procs, NEW k \in Keys, NEW base \in {0, local[k].cloud}, CommitSave(p, k, base) PROVE Grows /\ Server'
  BY <1>4, CommitSaveEffect
<1>5. ASSUME NEW p \in Procs, ReadQueue(p) PROVE Grows /\ Server'
  <2>1. vers' = vers /\ head' = head /\ done' = done /\ from' = from
    BY <1>5 DEF ReadQueue, cloud
  <2>2. issued \in Nat /\ (issued' = issued \/ issued' = issued + 1)
    BY <1>5 DEF ReadQueue, Server
  <2>3. issued' \in Nat /\ issued <= issued'
    BY <2>2
  <2>4. Grows
    BY <2>1, <2>3, Numbers DEF Grows, Made, Revs
  <2>5. 1 .. issued \subseteq 1 .. issued'
    BY <2>2, <2>3
  <2>6. done' \subseteq [id : 1 .. issued', base : Nat, rev : Nat]
    BY <2>1, <2>5 DEF Server
  <2>7. Server'
    BY <2>1, <2>3, <2>6 DEF Server, Made, Revs
  <2> QED BY <2>4, <2>7
<1>6. ASSUME NEW p \in Procs, Upload(p) PROVE Grows /\ Server'
  BY <1>6, UploadEffect
<1>7. ASSUME NEW p \in Procs, Erase(p) PROVE Grows /\ Server'
  <2>1. vers' = vers /\ done' = done /\ issued' = issued /\ from' = from
    BY <1>7 DEF Erase
  <2>2. head' = head \/ head' = [k \in Keys |-> IF k \in job[p].keys THEN 0 ELSE head[k]]
    BY <1>7 DEF Erase
  <2>3. head' \in [Keys -> Nat] /\ \A j \in Keys : head'[j] = head[j] \/ head'[j] = 0
    BY <2>2 DEF Server
  <2>4. \A j \in Keys : head'[j] \in 0 .. Len(vers[j])
    <3>1. \A j \in Keys : head[j] \in 0 .. Len(vers[j])
      BY DEF Server
    <3>2. \A j \in Keys : 0 \in 0 .. Len(vers[j])
      BY Numbers
    <3> QED BY <2>3, <3>1, <3>2
  <2>6. Server'
    BY <2>1, <2>3, <2>4 DEF Server, Made, Revs
  <2>5. Grows
    BY <2>1, SameGrows
  <2> QED BY <2>5, <2>6
<1>8. ASSUME NEW p \in Procs, UpdateCloudRevision(p) PROVE Grows /\ Server'
  BY <1>8, UpdateEffect
<1>9. ASSUME NEW p \in Procs, Revive(p) PROVE Grows /\ Server'
  BY <1>9, ReviveEffect
<1> QED BY <1>1, <1>2, <1>3, <1>4, <1>5, <1>6, <1>7, <1>8, <1>9, ServerSteps DEF ServerStep

------------------------------------------------------------------------------
(* What an operation has read stays true. *)

LEMMA TaskStands ==
  ASSUME Server, Grows, NEW t, IsTask(t)
  PROVE  IsTask(t)'
<1>1. t \in Task /\ t.key \in Keys /\ t.id \in 1 .. issued /\ t.rev # 0 /\ t.sum \in Made
      /\ t.head \in {None, Unseen} \cup 0 .. Len(vers[t.key])
  BY DEF IsTask
<1>2. t.id \in 1 .. issued'
  BY <1>1, Numbers DEF Grows
<1>3. t.sum \in 1 .. Len(from')
  BY <1>1 DEF Grows
<1>4. t.head \in {None, Unseen} \cup 0 .. Len(vers'[t.key])
  <2>1. Len(vers[t.key]) \in Nat /\ Len(vers'[t.key]) \in Nat /\ Len(vers[t.key]) <= Len(vers'[t.key])
    BY <1>1, Numbers DEF Grows
  <2>2. 0 .. Len(vers[t.key]) \subseteq 0 .. Len(vers'[t.key])
    BY <2>1
  <2> QED BY <1>1, <2>2
<1> QED BY <1>1, <1>2, <1>3, <1>4 DEF IsTask, Made

LEMMA ListStands ==
  ASSUME Server, Grows, NEW l, IsList(l)
  PROVE  IsList(l)'
BY TaskStands DEF IsList

LEMMA RevisionStands ==
  ASSUME Server, Grows, NEW k \in Keys, NEW x, Revision(k, x)
  PROVE  Revision(k, x)'
BY DEF Revision, Grows, Revs

LEMMA GoodStands ==
  ASSUME Server, Grows, NEW j, Good(j), j.keys \subseteq Keys
  PROVE  Good(j)'
<1>1. IsList(j.list)' /\ \A t \in j.todo : IsTask(t)'
  BY TaskStands, ListStands DEF Good
<1>2. IsTask(j.task) => IsTask(j.task)' /\ j.task.key \in Keys
  BY TaskStands DEF IsTask
<1>3. \A k \in Keys : 0 .. Len(vers[k]) \subseteq 0 .. Len(vers'[k])
  BY Numbers DEF Grows
<1>4. \A k \in Keys : Revs(k) \subseteq Revs(k)'
  BY DEF Grows, Revs
<1>5. IsSave(j.save) => IsSave(j.save)'
  BY DEF IsSave, Grows, Made
<1>6. \A k \in Keys : Revision(k, j.save) => Revision(k, j.save)'
  BY RevisionStands
<1>7. /\ j.op = "none" => j = NoJob
      /\ j.op \in Resolvers \cup {"save", "retry"} => \E k \in Keys : j.keys = {k}
      /\ j.op \notin InLine \/ j.stages = <<"due">> => j.todo = {}
      /\ j.op \in {"save", "wake"} \/ j.stages = <<"due">> => j.task = NoTask
      /\ j.op = "restore" => j.task.head = 0
  BY DEF Good
<1>8. /\ IF j.op \in {"restore", "version"} THEN j.task.id = 0 ELSE j.task = NoTask \/ IsTask(j.task)'
      /\ j.op = "retry" => IsTask(j.task)'
      /\ j.op \in {"keep", "use"} => IsTask(j.task)' /\ \A k \in j.keys : j.task.key = k /\ j.task.head \in 0 .. Len(vers'[k])
      /\ j.op \in InLine /\ j.stages \notin Taskless => IsTask(j.task)'
  BY <1>2, <1>3 DEF Good
<1>9. j.op = "version" => \A k \in j.keys :
       /\ j.task.rev \in Revs(k)'
       /\ j.stages \in Revived => j.task.head \in Revs(k)'
       /\ j.stages \in Headed => j.save.cloud \in Revs(k)'
  BY <1>4 DEF Good
<1>10. /\ j.op = "save" => IsSave(j.save)'
       /\ j.op = "keep" => \A k \in j.keys :
           (j.stages \in Downloaded => Revision(k, j.save)') /\ (j.stages \in Updated => IsSave(j.save)')
       /\ j.op \in {"use", "restore", "version"} /\ j.stages \in Puts => \A k \in j.keys : Revision(k, j.save)'
  BY <1>5, <1>6 DEF Good
<1>11. /\ j.op = "run" /\ j.stages = <<"upload", "next">> =>
            j.save.rev = j.task.rev /\ j.save.sum = j.task.sum /\ j.save.cloud \in 0 .. Len(vers'[j.task.key])
       /\ j.op = "run" /\ j.stages = <<"update", "complete", "next">> =>
            j.save.sum = j.task.sum /\ Revision(j.task.key, j.save)'
  <2>1. ASSUME j.op = "run", j.stages = <<"upload", "next">> \/ j.stages = <<"update", "complete", "next">>
        PROVE  j.task.key \in Keys
    BY <2>1, <1>2 DEF Good, InLine, Taskless
  <2>2. ASSUME j.op = "run", j.stages = <<"upload", "next">>
        PROVE  j.save.rev = j.task.rev /\ j.save.sum = j.task.sum /\ j.save.cloud \in 0 .. Len(vers'[j.task.key])
    BY <1>3, <2>1, <2>2 DEF Good
  <2>3. ASSUME j.op = "run", j.stages = <<"update", "complete", "next">>
        PROVE  j.save.sum = j.task.sum /\ Revision(j.task.key, j.save)'
    <3>1. Revision(j.task.key, j.save) /\ j.save.sum = j.task.sum
      BY <2>3 DEF Good
    <3> QED BY <2>1, <2>3, <3>1, RevisionStands
  <2> QED BY <2>2, <2>3
<1> QED BY <1>1, <1>7, <1>8, <1>9, <1>10, <1>11 DEF Good

LEMMA SameJobFits ==
  ASSUME Server, Grows, NEW q \in Procs, job[q] \in Job, Fits(q), job'[q] = job[q]
  PROVE  Fits(q)'
<1>1. SUFFICES ASSUME NEW j \in Job, j = job'[q] PROVE j.stages \in Plans(j.op) /\ Good(j)'
  BY DEF Fits
<1>2. j = job[q] /\ j.keys \subseteq Keys
  BY <1>1 DEF Job
<1>3. j.stages \in Plans(j.op) /\ Good(j)
  BY <1>1, <1>2 DEF Fits
<1> QED BY <1>2, <1>3, GoodStands

LEMMA NoJobFits ==
  ASSUME NEW q \in Procs, job'[q] = NoJob
  PROVE  Fits(q)'
<1>1. Good(NoJob)' /\ NoJob.stages \in Plans(NoJob.op)
  BY NoneTyped DEF Good, NoJob, NoTask, NoSave, IsList, InLine, Resolvers, Plans
<1> QED BY <1>1 DEF Fits

\* Which stages are of which kind.
LEMMA KeepKinds ==
  /\ <<"fetch", "copy", "update", "complete", "enqueue", "run">> \notin Downloaded /\ <<"fetch", "copy", "update", "complete", "enqueue", "run">> \notin Updated
  /\ <<"copy", "update", "complete", "enqueue", "run">> \in Downloaded /\ <<"copy", "update", "complete", "enqueue", "run">> \notin Updated
  /\ <<"update", "complete", "enqueue", "run">> \in Downloaded /\ <<"update", "complete", "enqueue", "run">> \notin Updated
  /\ <<"complete", "enqueue", "run">> \notin Downloaded /\ <<"complete", "enqueue", "run">> \in Updated
  /\ <<"write", "complete", "enqueue", "run">> \notin Downloaded /\ <<"write", "complete", "enqueue", "run">> \in Updated
  /\ <<"enqueue", "run">> \notin Downloaded /\ <<"enqueue", "run">> \in Updated
  /\ <<"write", "enqueue", "run">> \notin Downloaded /\ <<"write", "enqueue", "run">> \in Updated
  /\ <<"run">> \notin Downloaded /\ <<"run">> \notin Updated
BY DEF Downloaded, Updated
LEMMA UseKinds ==
  /\ <<"copy", "fetch", "put", "complete">> \notin Puts /\ <<"fetch", "put", "complete">> \notin Puts
  /\ <<"put", "complete">> \in Puts /\ <<"complete">> \notin Puts
  /\ <<"write", "complete">> \notin Puts /\ <<"fetch", "put">> \notin Puts
  /\ <<"put">> \in Puts
BY DEF Puts
LEMMA VersionKinds ==
  /\ <<"heads", "copy", "revive", "fetch", "put">> \notin Puts /\ <<"heads", "copy", "revive", "fetch", "put">> \notin Revived /\ <<"heads", "copy", "revive", "fetch", "put">> \notin Headed
  /\ <<"copy", "revive", "fetch", "put">> \notin Puts /\ <<"copy", "revive", "fetch", "put">> \notin Revived /\ <<"copy", "revive", "fetch", "put">> \in Headed
  /\ <<"revive", "fetch", "put">> \notin Puts /\ <<"revive", "fetch", "put">> \notin Revived /\ <<"revive", "fetch", "put">> \in Headed
  /\ <<"fetch", "put">> \notin Puts /\ <<"fetch", "put">> \in Revived /\ <<"fetch", "put">> \notin Headed
  /\ <<"put">> \in Puts /\ <<"put">> \in Revived /\ <<"put">> \notin Headed
BY DEF Puts, Revived, Headed
LEMMA DeleteKinds ==
  /\ <<"due">> \in Taskless /\ <<"clear", "erase">> \in Taskless
  /\ <<"write", "clear", "erase">> \in Taskless /\ <<"erase">> \in Taskless
  /\ <<"next">> \in Taskless /\ <<"back", "next">> \notin Taskless
  /\ <<"write", "back", "next">> \notin Taskless
  /\ <<"clear", "erase">> # <<"due">> /\ <<"write", "clear", "erase">> # <<"due">>
  /\ <<"erase">> # <<"due">> /\ <<"next">> # <<"due">>
  /\ <<"back", "next">> # <<"due">> /\ <<"write", "back", "next">> # <<"due">>
BY DEF Taskless
LEMMA RunKinds ==
  /\ <<"due">> \in Taskless /\ <<"next">> \in Taskless
  /\ <<"upload", "next">> \notin Taskless /\ <<"update", "complete", "next">> \notin Taskless
  /\ <<"complete", "next">> \notin Taskless /\ <<"write", "complete", "next">> \notin Taskless
  /\ <<"conflict", "next">> \notin Taskless /\ <<"write", "conflict", "next">> \notin Taskless
  /\ <<"delay", "next">> \notin Taskless /\ <<"write", "delay", "next">> \notin Taskless
  /\ <<"fail", "next">> \notin Taskless /\ <<"write", "fail", "next">> \notin Taskless
  /\ <<"next">> # <<"due">> /\ <<"upload", "next">> # <<"due">>
  /\ <<"update", "complete", "next">> # <<"due">> /\ <<"complete", "next">> # <<"due">>
  /\ <<"write", "complete", "next">> # <<"due">> /\ <<"conflict", "next">> # <<"due">>
  /\ <<"write", "conflict", "next">> # <<"due">> /\ <<"delay", "next">> # <<"due">>
  /\ <<"write", "delay", "next">> # <<"due">> /\ <<"fail", "next">> # <<"due">>
  /\ <<"write", "fail", "next">> # <<"due">>
  /\ <<"due">> # <<"upload", "next">> /\ <<"next">> # <<"upload", "next">>
  /\ <<"update", "complete", "next">> # <<"upload", "next">> /\ <<"complete", "next">> # <<"upload", "next">>
  /\ <<"write", "complete", "next">> # <<"upload", "next">> /\ <<"conflict", "next">> # <<"upload", "next">>
  /\ <<"write", "conflict", "next">> # <<"upload", "next">> /\ <<"delay", "next">> # <<"upload", "next">>
  /\ <<"write", "delay", "next">> # <<"upload", "next">> /\ <<"fail", "next">> # <<"upload", "next">>
  /\ <<"write", "fail", "next">> # <<"upload", "next">>
  /\ <<"due">> # <<"update", "complete", "next">> /\ <<"next">> # <<"update", "complete", "next">>
  /\ <<"upload", "next">> # <<"update", "complete", "next">> /\ <<"complete", "next">> # <<"update", "complete", "next">>
  /\ <<"write", "complete", "next">> # <<"update", "complete", "next">> /\ <<"conflict", "next">> # <<"update", "complete", "next">>
  /\ <<"write", "conflict", "next">> # <<"update", "complete", "next">> /\ <<"delay", "next">> # <<"update", "complete", "next">>
  /\ <<"write", "delay", "next">> # <<"update", "complete", "next">> /\ <<"fail", "next">> # <<"update", "complete", "next">>
  /\ <<"write", "fail", "next">> # <<"update", "complete", "next">>
BY DEF Taskless

\* A stage of the queue changes the list that is held, and the stages to go.
LEMMA QueueGood ==
  ASSUME Server, Grows, NEW i \in Job, NEW j \in Job, Good(i), j.op = i.op, j.keys = i.keys, j.todo = i.todo, j.task = i.task,
         j.save = i.save, IsList(j.list)', j.op \in {"save", "keep", "retry", "use", "delete", "run"}, j.stages # <<"due">>,
         j.op \in InLine /\ j.stages \notin Taskless => i.stages \notin Taskless,
         j.op = "keep" => j.stages \notin Downloaded /\ (j.stages \in Updated => i.stages \in Updated),
         j.op = "use" => j.stages \notin Puts,
         j.op = "run" => j.stages # <<"upload", "next">> /\ j.stages # <<"update", "complete", "next">>
  PROVE  Good(j)'
<1>1. Good(i)' /\ i.keys \subseteq Keys
  BY GoodStands DEF Job
<1> QED BY <1>1 DEF Good, InLine

------------------------------------------------------------------------------
(* The operation that takes a step is still in a plan, with what the plan has read. *)

LEMMA EditTyped ==
  ASSUME Stores, Server, Jobs, Grows, NEW p \in Procs, NEW stage \in QueueStages, At(p, stage),
         issued' = IF stage = "enqueue" THEN issued + 1 ELSE issued,
         NEW fresh, fresh = Fresh(p), stage = "enqueue" => fresh \in Task,
         NEW l \in [Keys -> Task], \A k \in Keys : Edit(p, stage, queue[scope], l, fresh, k)
  PROVE  IsList(l)'
<1>1. Reads(p) /\ job[p] \in Job
  BY Reading
<1> PICK old : old = queue[scope]
  OBVIOUS
<1>2. IsList(old)' /\ IsList(old) /\ old \in [Keys -> Task]
  <2>1. IsList(old) /\ old \in [Keys -> Task]
    BY DEF Stores
  <2> QED BY <2>1, ListStands
<1> PICK t \in Task : t = job[p].task
  BY <1>1 DEF Job
<1>3. stage \in {"back", "conflict", "delay", "fail", "now"} => IsTask(t) /\ IsTask(t)'
  <2>1. stage \in {"back", "conflict", "delay", "fail", "now"} => IsTask(t)
    BY <1>1, AtStage DEF Reads, Good, InLine, Taskless
  <2> QED BY <2>1, TaskStands
<1>4. SUFFICES ASSUME NEW k \in Keys PROVE l[k] = NoTask \/ (IsTask(l[k])' /\ l[k].key = k)
  BY DEF IsList
<1>5. Edit(p, stage, old, l, fresh, k)
  OBVIOUS
<1>6. CASE l[k] = old[k]
  BY <1>2, <1>6 DEF IsList
<1>7. CASE stage = "enqueue" /\ k = Key(p) /\ l[k] = fresh
  <2>1. job[p].op \in {"save", "keep"} /\ job[p].stages = <<"enqueue", "run">>
    BY <1>1, <1>7, AtStage
  <2>2. job[p].keys = {Key(p)}
    BY <1>1, <2>1, KeyIs DEF Resolvers
  <2>3. IsSave(job[p].save)
    BY <1>1, <2>1, <2>2 DEF Reads, Good, Updated
  <2>4. /\ fresh.key = k /\ fresh.id = issued + 1 /\ fresh.rev = job[p].save.rev /\ fresh.sum = job[p].save.sum
        /\ fresh.head = None
    BY <1>7 DEF Fresh
  <2>5. fresh.sum \in Made' /\ fresh.rev # 0
    BY <2>3, <2>4 DEF IsSave, Grows, Made
  <2>6. fresh.id \in 1 .. issued'
    BY <1>7, <2>4, Numbers
  <2> QED BY <1>7, <2>4, <2>5, <2>6 DEF IsTask
<1>8. CASE stage = "back" /\ k = t.key /\ l[k] = t
  BY <1>3, <1>8
<1>9. CASE /\ stage \in {"conflict", "delay", "fail", "now"} /\ k = t.key
           /\ Same(l[k], old[k]) /\ l[k].id = t.id /\ l[k].head \in {None, old[k].head, t.head}
  <2>1. IsTask(t) /\ IsTask(t)' /\ t.id # 0
    <3>1. IsTask(t) /\ IsTask(t)'
      BY <1>3, <1>9
    <3>2. t.id \in 1 .. issued /\ issued \in Nat
      BY <3>1, Numbers DEF IsTask
    <3> QED BY <3>1, <3>2
  <2>2. old[k] # NoTask
    <3>1. NoTask.id = 0
      BY DEF NoTask
    <3> QED BY <1>9, <2>1, <3>1 DEF Same
  <2>3. IsTask(old[k])' /\ old[k].key = k
    BY <1>2, <2>2 DEF IsList
  <2>4. l[k] \in Task /\ l[k].key = k /\ l[k].id = old[k].id /\ l[k].rev = old[k].rev /\ l[k].sum = old[k].sum
    BY <1>9, <2>3 DEF Same
  <2>5. l[k].head \in {None, Unseen} \cup 0 .. Len(vers'[k])
    <3>1. t.head \in {None, Unseen} \cup 0 .. Len(vers'[k])
      BY <1>9, <2>1 DEF IsTask
    <3>2. old[k].head \in {None, Unseen} \cup 0 .. Len(vers'[k])
      BY <2>3 DEF IsTask
    <3> QED BY <1>9, <3>1, <3>2
  <2> QED BY <2>3, <2>4, <2>5 DEF IsTask
<1>10. CASE l[k] = NoTask
  BY <1>10
<1> QED BY <1>5, <1>6, <1>7, <1>8, <1>9, <1>10 DEF Edit

LEMMA ReadFits ==
  ASSUME Stores, Server, Jobs, Grows, NEW p \in Procs, ReadQueue(p)
  PROVE  Fits(p)'
<1>1. PICK stage \in QueueStages :
         /\ At(p, stage) /\ issued' = IF stage = "enqueue" THEN issued + 1 ELSE issued
         /\ stage = "enqueue" => Fresh(p) \in Task
         /\ \/ stage \notin {"complete", "clear"} /\ Moves(p, Tail(job[p].stages))
            \/ /\ Becomes(p, <<"write">> \o job[p].stages, job[p].todo, job[p].task, job[p].save, job'[p].list)
               /\ job'[p].list \in [Keys -> Task]
               /\ \A k \in Keys : Edit(p, stage, queue[scope], job'[p].list, Fresh(p), k)
  BY ReadEffect
<1>2. SUFFICES ASSUME NEW j \in Job, j = job'[p] PROVE j.stages \in Plans(j.op) /\ Good(j)'
  BY DEF Fits
<1> PICK i \in Job : i = job[p]
  BY Reading
<1>3. Good(i) /\ Reads(p)
  BY Reading DEF Reads
<1>4. j.op = i.op /\ j.keys = i.keys /\ j.todo = i.todo /\ j.task = i.task /\ j.save = i.save
  BY <1>1, <1>2 DEF Moves, Becomes, Has
<1>5. IsList(j.list)'
  <2>1. CASE Moves(p, Tail(job[p].stages))
    <3>1. j.list = i.list
      BY <1>2, <2>1 DEF Moves, Becomes, Has
    <3> PICK l : l = i.list
      OBVIOUS
    <3>2. IsList(l)'
      BY <1>3, ListStands DEF Good
    <3> QED BY <3>1, <3>2
  <2>2. CASE /\ job'[p].list \in [Keys -> Task]
             /\ \A k \in Keys : Edit(p, stage, queue[scope], job'[p].list, Fresh(p), k)
    <3> PICK l : l = j.list
      OBVIOUS
    <3> PICK fresh : fresh = Fresh(p)
      OBVIOUS
    <3>1. l \in [Keys -> Task] /\ \A k \in Keys : Edit(p, stage, queue[scope], l, fresh, k)
      BY <1>2, <2>2
    <3>2. IsList(l)'
      BY <1>1, <3>1, EditTyped
    <3> QED BY <3>2
  <2> QED BY <1>1, <2>1, <2>2
<1>6. (j.stages = Tail(i.stages) /\ stage \notin {"complete", "clear"}) \/ j.stages = <<"write">> \o i.stages
  BY <1>1, <1>2 DEF Moves, Becomes, Has
<1>7. CASE i.op = "save"
  <2>1. i.stages = <<"enqueue", "run">>
    BY <1>1, <1>3, <1>7, AtStage DEF QueueStages
  <2>2. j.stages = <<"run">> \/ j.stages = <<"write", "enqueue", "run">>
    BY <1>6, <2>1, Nexts, Writes
  <2>3. j.stages # <<"due">>
    BY <2>2
  <2>4. Good(j)'
    BY <1>3, <1>4, <1>5, <1>7, <2>3, QueueGood DEF InLine
  <2> QED BY <1>4, <1>7, <2>2, <2>4 DEF Plans
<1>8. CASE i.op = "retry"
  <2>1. i.stages = <<"now", "run">>
    BY <1>1, <1>3, <1>8, AtStage DEF QueueStages
  <2>2. j.stages = <<"run">> \/ j.stages = <<"write", "now", "run">>
    BY <1>6, <2>1, Nexts, Writes
  <2>3. j.stages # <<"due">>
    BY <2>2
  <2>4. Good(j)'
    BY <1>3, <1>4, <1>5, <1>8, <2>3, QueueGood DEF InLine
  <2> QED BY <1>4, <1>8, <2>2, <2>4 DEF Plans
<1>9. CASE i.op = "use"
  <2>1. i.stages = <<"complete">> /\ stage = "complete"
    BY <1>1, <1>3, <1>9, AtStage DEF QueueStages
  <2>2. j.stages = <<"write", "complete">>
    BY <1>6, <2>1, Writes
  <2>3. j.stages # <<"due">> /\ j.stages \notin Puts
    BY <2>2, UseKinds
  <2>4. Good(j)'
    BY <1>3, <1>4, <1>5, <1>9, <2>3, QueueGood DEF InLine
  <2> QED BY <1>4, <1>9, <2>2, <2>4 DEF Plans
<1>10. CASE i.op = "keep"
  <2>1. \/ i.stages = <<"complete", "enqueue", "run">> /\ stage = "complete"
        \/ i.stages = <<"enqueue", "run">>
    <3>1. \/ stage = "complete" /\ i.stages = <<"complete", "enqueue", "run">>
          \/ stage = "enqueue" /\ i.stages = <<"enqueue", "run">>
      BY <1>1, <1>3, <1>10, AtStage DEF QueueStages
    <3> QED BY <3>1
  <2>2. j.stages = <<"run">> \/ j.stages = <<"write", "enqueue", "run">> \/ j.stages = <<"write", "complete", "enqueue", "run">>
    BY <1>6, <2>1, Nexts, Writes
  <2>3. j.stages # <<"due">> /\ j.stages \notin Downloaded /\ i.stages \in Updated
    BY <2>1, <2>2, KeepKinds
  <2>4. Good(j)'
    BY <1>3, <1>4, <1>5, <1>10, <2>3, QueueGood DEF InLine
  <2> QED BY <1>4, <1>10, <2>2, <2>4 DEF Plans
<1>11. CASE i.op = "delete"
  <2>1. \/ i.stages = <<"clear", "erase">> /\ stage = "clear"
        \/ i.stages = <<"back", "next">>
    <3>1. \/ stage = "clear" /\ i.stages = <<"clear", "erase">>
          \/ stage = "back" /\ i.stages = <<"back", "next">>
      BY <1>1, <1>3, <1>11, AtStage DEF QueueStages
    <3> QED BY <3>1
  <2>2. \/ j.stages = <<"write", "clear", "erase">>
        \/ i.stages = <<"back", "next">> /\ (j.stages = <<"next">> \/ j.stages = <<"write", "back", "next">>)
    BY <1>6, <2>1, Nexts, Writes
  <2>3. j.stages # <<"due">> /\ (j.stages \notin Taskless => i.stages \notin Taskless)
    BY <2>2, DeleteKinds
  <2>4. Good(j)'
    BY <1>3, <1>4, <1>5, <1>11, <2>3, QueueGood DEF InLine
  <2> QED BY <1>4, <1>11, <2>2, <2>4 DEF Plans
<1>12. CASE i.op = "run"
  <2>1. \/ (i.stages = <<"complete", "next">> /\ stage = "complete") \/ i.stages = <<"conflict", "next">>
        \/ i.stages = <<"delay", "next">> \/ i.stages = <<"fail", "next">>
    <3>1. \/ (stage = "complete" /\ i.stages = <<"complete", "next">>) \/ i.stages = <<"conflict", "next">>
          \/ i.stages = <<"delay", "next">> \/ i.stages = <<"fail", "next">>
      BY <1>1, <1>3, <1>12, AtStage DEF QueueStages
    <3> QED BY <3>1
  <2>2. \/ j.stages = <<"next">> \/ j.stages = <<"write", "complete", "next">> \/ j.stages = <<"write", "conflict", "next">>
        \/ j.stages = <<"write", "delay", "next">> \/ j.stages = <<"write", "fail", "next">>
    BY <1>6, <2>1, Nexts, Writes
  <2>3. i.stages \notin Taskless
    BY <2>1, RunKinds
  <2>4. j.stages # <<"due">> /\ j.stages # <<"upload", "next">> /\ j.stages # <<"update", "complete", "next">>
    BY <2>2, RunKinds
  <2>5. Good(j)'
    BY <1>3, <1>4, <1>5, <1>12, <2>3, <2>4, QueueGood DEF InLine
  <2> QED BY <1>4, <1>12, <2>2, <2>5 DEF Plans
<1>13. i.op \in {"save", "retry", "use", "keep", "delete", "run"}
  BY <1>1, <1>3, AtStage DEF QueueStages
<1> QED BY <1>7, <1>8, <1>9, <1>10, <1>11, <1>12, <1>13

\* The operation p begins.
Starts == {<<"enqueue", "run">>, <<"run">>, <<"now", "run">>, <<"fetch", "copy", "update", "complete", "enqueue", "run">>,
           <<"copy", "fetch", "put", "complete">>, <<"fetch", "put">>, <<"heads", "copy", "revive", "fetch", "put">>, <<"due">>}
Begun(p, j) ==
  /\ Idle(p) /\ Gets(p, j) /\ j.todo = {} /\ j.list = NoList /\ j.stale = "no" /\ j.stages \in Starts
  /\ j.task.id = 0 \/ \E k \in Keys : j.task = queue[scope][k]
  /\ \/ j.op = "delete" /\ j.stages = <<"due">> /\ line' = Append(line, p)
     \/ j.op \in Ops \ {"delete"} /\ line' = line
  /\ j.stages = <<"fetch", "put">> => j.op = "restore"
  /\ j.op \in Resolvers => \E k \in Keys : j.keys = {k}
  /\ slips \subseteq slips' /\ slips' \subseteq slips \cup {"crossed"}
  /\ UNCHANGED <<copies, queue, scope, cloud, issued, owed, cancelled>>

LEMMA NewIs ==
  ASSUME NEW op, NEW keys, NEW stages, NEW task, NEW save, NEW j, j = New(op, keys, stages, task, save)
  PROVE  /\ j.op = op /\ j.keys = keys /\ j.stages = stages /\ j.todo = {} /\ j.task = task /\ j.save = save
         /\ j.list = NoList /\ j.stale = "no"
BY DEF New

LEMMA StartsTyped == Starts \subseteq Seq(Stages)
<1>1. /\ "enqueue" \in Stages /\ "run" \in Stages /\ "now" \in Stages /\ "fetch" \in Stages /\ "copy" \in Stages
      /\ "update" \in Stages /\ "complete" \in Stages /\ "put" \in Stages /\ "heads" \in Stages
      /\ "revive" \in Stages /\ "due" \in Stages
  BY DEF Stages
<1>2. <<"enqueue", "run">> \in Seq(Stages) /\ <<"run">> \in Seq(Stages) /\ <<"now", "run">> \in Seq(Stages)
      /\ <<"fetch", "put">> \in Seq(Stages) /\ <<"due">> \in Seq(Stages)
  BY <1>1, Tuples
<1>3. <<"copy", "fetch", "put", "complete">> \in Seq(Stages)
  BY <1>1, Tuples
<1>4. \A a, b, c, d, e \in Stages : <<a, b, c, d, e>> \in Seq(Stages)
  OBVIOUS
<1>5. \A a, b, c, d, e, f \in Stages : <<a, b, c, d, e, f>> \in Seq(Stages)
  OBVIOUS
<1>6. <<"heads", "copy", "revive", "fetch", "put">> \in Seq(Stages)
  BY <1>1, <1>4
<1>7. <<"fetch", "copy", "update", "complete", "enqueue", "run">> \in Seq(Stages)
  BY <1>1, <1>5
<1> QED BY <1>2, <1>3, <1>6, <1>7 DEF Starts

LEMMA SaveBegins ==
  ASSUME Stores, Server, Jobs, NEW p \in Procs, NEW k \in Keys, NEW base \in {0, local[k].cloud}, CommitSave(p, k, base)
  PROVE  \E j \in Job : Begun(p, j) /\ Fits(p)' /\ j.op = "save" /\ j.keys = {k}
<1>0. Idle(p) /\ Descended(k) /\ Committed(p, k, base)
  BY CommitSaveEffect
<1>1. PICK v \in Save : /\ v.rev = local[k].rev + 1 /\ v.sum = Len(from) + 1 /\ Idle(p) /\ Len(from') = Len(from) + 1
                        /\ Gets(p, New("save", {k}, <<"enqueue", "run">>, NoTask, v))
  BY <1>0 DEF Descended, Committed
<1> PICK j : j = New("save", {k}, <<"enqueue", "run">>, NoTask, v)
  OBVIOUS
<1>2. j \in Job /\ job'[p] = j
  <2>1. job'[p] = j
    BY <1>1 DEF Gets
  <2> QED BY <1>1, <2>1 DEF Gets
<1>3. /\ j.op = "save" /\ j.keys = {k} /\ j.stages = <<"enqueue", "run">> /\ j.todo = {} /\ j.task = NoTask /\ j.save = v
      /\ j.list = NoList /\ j.stale = "no"
  BY NewIs
<1>4. IsSave(v)'
  <2>1. local[k].rev \in Nat /\ Len(from) \in Nat
    BY Numbers DEF Stores, Save
  <2> QED BY <1>1, <2>1 DEF IsSave, Made
<1>5. IsList(NoList)'
  BY NoneTyped DEF IsList
<1>6. Good(j)' /\ j.stages \in Plans(j.op)
  <2>1. j.stages \in Plans(j.op) /\ <<"enqueue", "run">> # <<"due">>
    BY <1>3 DEF Plans
  <2> QED BY <1>3, <1>4, <1>5, <2>1 DEF Good, InLine, Resolvers
<1>7. Fits(p)'
  BY <1>2, <1>6 DEF Fits
<1>8. slips \subseteq slips' /\ slips' \subseteq slips \cup {"crossed"} /\ UNCHANGED <<copies, queue, scope, cloud, issued, owed, cancelled, line>>
  <2>1. Crossed(\E q \in Procs : Replacing(q, k)) /\ UNCHANGED <<copies, queue, scope, cloud, issued, owed, cancelled, line>>
    BY DEF CommitSave
  <2> QED BY <2>1 DEF Crossed, Slip
<1>9. NoTask.id = 0 /\ "save" \in Ops \ {"delete"} /\ "save" \notin Resolvers /\ <<"enqueue", "run">> \in Starts
  BY DEF NoTask, Ops, Resolvers, Starts
<1>11. <<"enqueue", "run">> # <<"fetch", "put">>
  OBVIOUS
<1>10. Begun(p, j)
  BY <1>1, <1>3, <1>8, <1>9, <1>11 DEF Begun
<1> QED BY <1>2, <1>3, <1>7, <1>10

\* An operation that begins without a save.
First(op) == CASE op = "wake" -> <<"run">> [] op = "retry" -> <<"now", "run">> [] op = "delete" -> <<"due">>
               [] op = "keep" -> <<"fetch", "copy", "update", "complete", "enqueue", "run">>
               [] op = "use" -> <<"copy", "fetch", "put", "complete">> [] op = "restore" -> <<"fetch", "put">>
               [] op = "version" -> <<"heads", "copy", "revive", "fetch", "put">> [] OTHER -> <<>>
LEMMA OthersBegin ==
  ASSUME Stores, Server, Jobs, NEW p \in Procs, NEW op \in {"delete", "wake", "retry", "keep", "use", "restore", "version"},
         NEW keys \in SUBSET Keys, NEW stages, stages = First(op), NEW task \in Task,
         Enter(p, op, keys, stages, task, NoSave),
         UNCHANGED <<copies, queue, scope, cloud, issued, from, owed, cancelled, slips>>,
         op \in Resolvers \cup {"retry"} => \E k \in Keys : keys = {k},
         task.id = 0 \/ \E k \in Keys : task = queue[scope][k],
         IF op \in {"restore", "version"} THEN task.id = 0 ELSE task = NoTask \/ IsTask(task),
         op = "retry" => IsTask(task),
         op \in {"keep", "use"} => IsTask(task) /\ \A k \in keys : task.key = k /\ task.head \in 0 .. Len(vers[k]),
         op \in {"wake", "delete"} => task = NoTask,
         op = "restore" => task.head = 0,
         op = "version" => \A k \in keys : task.rev \in Revs(k),
         \/ op = "delete" /\ line' = Append(line, p)
         \/ op \in Resolvers \cup {"wake", "retry"} /\ line' = line
  PROVE  \E j \in Job : Begun(p, j) /\ Fits(p)' /\ j.op # "save"
<1>1. stages \in Starts /\ stages \in Plans(op) /\ op \in Ops \ {"save"} /\ (op = "delete" => stages = <<"due">>)
      /\ (stages = <<"fetch", "put">> => op = "restore") /\ (stages = <<"due">> => op = "delete")
  BY DEF First, Starts, Plans, Ops
<1>2. op = "keep" => stages \notin Downloaded /\ stages \notin Updated
  BY KeepKinds DEF First
<1>3. op \in {"use", "restore", "version"} => stages \notin Puts
  <2>1. op = "use" => stages \notin Puts
    BY UseKinds DEF First
  <2>2. op \in {"restore", "version"} => stages \notin Puts
    BY UseKinds, VersionKinds DEF First
  <2> QED BY <2>1, <2>2
<1>4. op = "version" => stages \notin Revived /\ stages \notin Headed
  BY VersionKinds DEF First
<1>5. op = "delete" => stages \in Taskless
  BY <1>1, DeleteKinds
<1> PICK j : j = New(op, keys, stages, task, NoSave)
  OBVIOUS
<1>6. Gets(p, j) /\ Idle(p)
  <2>1. stages \in Seq(Stages) /\ job \in [Procs -> Job] /\ op \in Ops
    BY <1>1, StartsTyped DEF Jobs
  <2> QED BY <2>1, NoneTyped, EnterEffect
<1>7. j \in Job /\ job'[p] = j
  <2>1. job'[p] = j
    BY <1>6 DEF Gets
  <2> QED BY <1>6, <2>1 DEF Gets
<1>8. /\ j.op = op /\ j.keys = keys /\ j.stages = stages /\ j.todo = {} /\ j.task = task /\ j.save = NoSave
      /\ j.list = NoList /\ j.stale = "no"
  BY NewIs
<1>9. vers' = vers /\ from' = from /\ issued' = issued
  BY DEF cloud
<1>10. Good(j)
  <2>1. IsList(NoList)
    BY NoneTyped DEF IsList
  <2> QED BY <1>1, <1>2, <1>3, <1>4, <1>5, <1>8, <2>1 DEF Good, InLine, Resolvers
<1>11. Good(j)'
  <2>1. Grows
    BY <1>9, SameGrows
  <2> QED BY <1>8, <1>10, <2>1, GoodStands
<1>12. Fits(p)'
  BY <1>1, <1>7, <1>8, <1>11 DEF Fits
<1>13. j.op \in Resolvers => \E k \in Keys : j.keys = {k}
  BY <1>8 DEF Resolvers
<1>14. \/ j.op = "delete" /\ j.stages = <<"due">> /\ line' = Append(line, p)
       \/ j.op \in Ops \ {"delete"} /\ line' = line
  BY <1>1, <1>8 DEF Resolvers
<1>15. Begun(p, j)
  BY <1>1, <1>6, <1>8, <1>13, <1>14 DEF Begun
<1> QED BY <1>1, <1>7, <1>8, <1>12, <1>15

LEMMA Begins ==
  ASSUME Stores, Server, Jobs, NEW p \in Procs, Begin(p)
  PROVE  \E j \in Job : Begun(p, j) /\ Fits(p)'
<1>0. \A k \in Keys : queue[scope][k] \in Task /\ (queue[scope][k] # NoTask => IsTask(queue[scope][k]) /\ queue[scope][k].key = k)
  BY DEF Stores, IsList
<1>1. CASE Wake(p)
  <2>1. Enter(p, "wake", {}, First("wake"), NoTask, NoSave)
        /\ UNCHANGED <<copies, queue, scope, cloud, issued, from, owed, cancelled, line, slips>>
    BY <1>1 DEF Wake, First, phone, noted
  <2> QED BY <2>1, NoneTyped, OthersBegin DEF NoTask, Resolvers
<1>2. ASSUME NEW keys \in SUBSET Keys, Delete(p, keys) PROVE \E j \in Job : Begun(p, j) /\ Fits(p)'
  <2>1. Enter(p, "delete", keys, First("delete"), NoTask, NoSave)
        /\ UNCHANGED <<copies, queue, scope, cloud, issued, from, owed, cancelled, slips>> /\ line' = Append(line, p)
    BY <1>2 DEF Delete, First, phone, noted
  <2> QED BY <2>1, NoneTyped, OthersBegin DEF NoTask, Resolvers
<1>3. ASSUME NEW k \in Keys, Retry(p, k) PROVE \E j \in Job : Begun(p, j) /\ Fits(p)'
  <2> PICK t : t = queue[scope][k]
    OBVIOUS
  <2>1. Enter(p, "retry", {k}, First("retry"), t, NoSave) /\ t.due # "now"
        /\ UNCHANGED <<copies, queue, scope, cloud, issued, from, owed, cancelled, line, slips>>
    BY <1>3 DEF Retry, First, phone, noted
  <2>2. t \in Task /\ IsTask(t)
    <3>1. NoTask.due = "now"
      BY DEF NoTask
    <3> QED BY <1>0, <2>1, <3>1
  <2> QED BY <2>1, <2>2, OthersBegin DEF Resolvers
<1>4. ASSUME NEW k \in Keys, KeepLocal(p, k) PROVE \E j \in Job : Begun(p, j) /\ Fits(p)'
  <2> PICK t : t = queue[scope][k]
    OBVIOUS
  <2>1. Enter(p, "keep", {k}, First("keep"), t, NoSave) /\ t.head \notin {None, Unseen}
        /\ UNCHANGED <<copies, queue, scope, cloud, issued, from, owed, cancelled, line, slips>>
    BY <1>4 DEF KeepLocal, First, phone, noted
  <2>2. t \in Task /\ IsTask(t) /\ t.key = k
    <3>1. NoTask.head = None
      BY DEF NoTask
    <3> QED BY <1>0, <2>1, <3>1
  <2>3. t.head \in 0 .. Len(vers[k])
    BY <2>1, <2>2 DEF IsTask
  <2> QED BY <2>1, <2>2, <2>3, OthersBegin DEF Resolvers
<1>5. ASSUME NEW k \in Keys, UseCloud(p, k) PROVE \E j \in Job : Begun(p, j) /\ Fits(p)'
  <2> PICK t : t = queue[scope][k]
    OBVIOUS
  <2>1. Enter(p, "use", {k}, First("use"), t, NoSave) /\ t.head \notin {None, Unseen}
        /\ UNCHANGED <<copies, queue, scope, cloud, issued, from, owed, cancelled, line, slips>>
    BY <1>5 DEF UseCloud, First, phone, noted
  <2>2. t \in Task /\ IsTask(t) /\ t.key = k
    <3>1. NoTask.head = None
      BY DEF NoTask
    <3> QED BY <1>0, <2>1, <3>1
  <2>3. t.head \in 0 .. Len(vers[k])
    BY <2>1, <2>2 DEF IsTask
  <2> QED BY <2>1, <2>2, <2>3, OthersBegin DEF Resolvers
<1>6. ASSUME NEW k \in Keys, RestoreCloudBattery(p, k) PROVE \E j \in Job : Begun(p, j) /\ Fits(p)'
  <2> PICK n \in Task : n = NoTask
    BY NoneTyped
  <2>1. PICK t \in Task : t = [n EXCEPT !.head = 0] /\ t.id = n.id /\ t.head = 0
    <3>1. n \in Task /\ 0 \in Int
      OBVIOUS
    <3> QED BY <3>1, Changes
  <2>2. Enter(p, "restore", {k}, First("restore"), t, NoSave)
        /\ UNCHANGED <<copies, queue, scope, cloud, issued, from, owed, cancelled, line, slips>>
    BY <1>6, <2>1 DEF RestoreCloudBattery, First, phone, noted
  <2>3. t.id = 0
    BY <2>1 DEF NoTask
  <2> QED BY <2>1, <2>2, <2>3, OthersBegin DEF Resolvers
<1>7. ASSUME NEW k \in Keys, NEW r \in DOMAIN vers[k], RestoreCloudVersion(p, k, r) PROVE \E j \in Job : Begun(p, j) /\ Fits(p)'
  <2> PICK t : t = [NoTask EXCEPT !.rev = r]
    OBVIOUS
  <2>0. r \in Revs(k) /\ r \in Nat
    BY Numbers DEF Revs
  <2>1. t \in Task /\ t.id = 0 /\ t.rev = r
    BY <2>0, NoneTyped DEF NoTask, Task
  <2>2. Enter(p, "version", {k}, First("version"), t, NoSave)
        /\ UNCHANGED <<copies, queue, scope, cloud, issued, from, owed, cancelled, line, slips>>
    BY <1>7, <2>1 DEF RestoreCloudVersion, First, phone, noted
  <2> QED BY <2>0, <2>1, <2>2, OthersBegin DEF Resolvers
<1>8. ASSUME NEW k \in Keys, NEW base \in {0, local[k].cloud}, CommitSave(p, k, base) PROVE \E j \in Job : Begun(p, j) /\ Fits(p)'
  BY <1>8, SaveBegins
<1> QED BY <1>1, <1>2, <1>3, <1>4, <1>5, <1>6, <1>7, <1>8 DEF Begin

LEMMA WriteFits ==
  ASSUME Stores, Server, Jobs, Grows, NEW p \in Procs, WriteQueue(p)
  PROVE  \A q \in Procs : Fits(q)'
<1>1. /\ At(p, "write") /\ job' \in [Procs -> Job] /\ job'[p].stale = "no"
      /\ \/ Tail(Tail(job[p].stages)) = <<>> /\ job'[p] = NoJob
         \/ /\ Tail(Tail(job[p].stages)) # <<>>
            /\ Has(p, Tail(Tail(job[p].stages)), job[p].todo, job[p].task, job[p].save, NoList)
      /\ \A q \in Procs \ {p} :
           Stays(q) /\ job'[q].stale = IF At(q, "write") \/ At(q, "clear") THEN "yes" ELSE job[q].stale
  BY WriteEffect
<1>2. Fits(p)'
  <2> PICK i \in Job : i = job[p]
    BY Reading
  <2>1. Good(i) /\ Reads(p)
    BY Reading DEF Reads
  <2>2. CASE job'[p] = NoJob
    BY <2>2, NoJobFits
  <2>3. CASE Has(p, Tail(Tail(i.stages)), i.todo, i.task, i.save, NoList) /\ Tail(Tail(i.stages)) # <<>>
    <3>1. SUFFICES ASSUME NEW j \in Job, j = job'[p] PROVE j.stages \in Plans(j.op) /\ Good(j)'
      BY DEF Fits
    <3>2. /\ j.op = i.op /\ j.keys = i.keys /\ j.todo = i.todo /\ j.task = i.task /\ j.save = i.save /\ j.list = NoList
          /\ j.stages = Tail(Tail(i.stages)) /\ j.stages # <<>>
      BY <2>3, <3>1 DEF Has
    <3>3. IsList(j.list)'
      BY <3>2, NoneTyped DEF IsList
    <3>4. \/ i.op = "save" /\ j.stages = <<"run">>
          \/ i.op = "retry" /\ j.stages = <<"run">>
          \/ i.op = "keep" /\ j.stages \in {<<"enqueue", "run">>, <<"run">>} /\ i.stages \in {<<"write", "complete", "enqueue", "run">>, <<"write", "enqueue", "run">>}
          \/ i.op = "delete" /\ j.stages \in {<<"erase">>, <<"next">>}
          \/ i.op = "run" /\ j.stages = <<"next">>
      <4>1. \/ (i.op = "save" /\ i.stages = <<"write", "enqueue", "run">>)
            \/ (i.op = "retry" /\ i.stages = <<"write", "now", "run">>)
            \/ (i.op = "keep" /\ i.stages \in {<<"write", "complete", "enqueue", "run">>, <<"write", "enqueue", "run">>})
            \/ (i.op = "use" /\ i.stages = <<"write", "complete">>)
            \/ (i.op = "delete" /\ i.stages \in {<<"write", "clear", "erase">>, <<"write", "back", "next">>})
            \/ (i.op = "run" /\ i.stages \in {<<"write", "complete", "next">>, <<"write", "conflict", "next">>, <<"write", "delay", "next">>, <<"write", "fail", "next">>})
        BY <1>1, <2>1, AtStage
      <4>2. CASE i.op = "save" /\ i.stages = <<"write", "enqueue", "run">>
        BY <3>2, <4>2, Afters
      <4>3. CASE i.op = "retry" /\ i.stages = <<"write", "now", "run">>
        BY <3>2, <4>3, Afters
      <4>4. CASE i.op = "keep" /\ i.stages \in {<<"write", "complete", "enqueue", "run">>, <<"write", "enqueue", "run">>}
        BY <3>2, <4>4, Afters
      <4>5. CASE i.op = "use" /\ i.stages = <<"write", "complete">>
        BY <3>2, <4>5, Afters
      <4>6. CASE i.op = "delete" /\ i.stages \in {<<"write", "clear", "erase">>, <<"write", "back", "next">>}
        BY <3>2, <4>6, Afters
      <4>7. CASE i.op = "run" /\ i.stages \in {<<"write", "complete", "next">>, <<"write", "conflict", "next">>, <<"write", "delay", "next">>, <<"write", "fail", "next">>}
        BY <3>2, <4>7, Afters
      <4> QED BY <4>1, <4>2, <4>3, <4>4, <4>5, <4>6, <4>7
    <3>5. j.stages # <<"due">> /\ j.stages # <<"upload", "next">> /\ j.stages # <<"update", "complete", "next">>
      BY <3>4
    <3>6. j.stages \in Plans(j.op)
      BY <3>2, <3>4 DEF Plans
    <3>7. j.op \in InLine => j.stages \in Taskless
      BY <3>2, <3>4, DeleteKinds, RunKinds DEF InLine
    <3>8. j.op = "keep" => j.stages \notin Downloaded /\ i.stages \in Updated
      BY <3>2, <3>4, KeepKinds
    <3>9. Good(j)'
      BY <2>1, <3>2, <3>3, <3>4, <3>5, <3>7, <3>8, QueueGood
    <3> QED BY <3>6, <3>9
  <2> QED BY <1>1, <2>2, <2>3
<1>3. ASSUME NEW q \in Procs, q # p PROVE Fits(q)'
  <2>1. SUFFICES ASSUME NEW j \in Job, j = job'[q] PROVE j.stages \in Plans(j.op) /\ Good(j)'
    BY DEF Fits
  <2> PICK i \in Job : i = job[q]
    BY Reading
  <2>2. Good(i) /\ Reads(q) /\ i.stages \in Plans(i.op) /\ i.keys \subseteq Keys
    BY Reading DEF Reads, Job
  <2>3. /\ j.op = i.op /\ j.keys = i.keys /\ j.stages = i.stages /\ j.todo = i.todo /\ j.task = i.task /\ j.save = i.save
        /\ j.list = i.list
    BY <1>1, <1>3, <2>1 DEF Stays, Has
  <2>4. i.op = "none" => j.stale = i.stale
    <3>1. i.op = "none" => i.stages = <<>>
      BY <2>2 DEF Plans
    <3> QED BY <1>1, <1>3, <2>1, <3>1 DEF At, Idle
  <2>5. i.op = "none" => j = i
    BY <2>3, <2>4, JobsEqual
  <2>6. Good(i)'
    BY <2>2, GoodStands
  <2>7. Good(j)'
    BY <2>2, <2>3, <2>5, <2>6 DEF Good
  <2> QED BY <2>2, <2>3, <2>7
<1> QED BY <1>2, <1>3

\* From one stage of what is in line to another.
LEMMA LineGood ==
  ASSUME Server, Grows, NEW i \in Job, NEW j \in Job, Good(i), i.op \in InLine, j.op = i.op,
         \A t \in j.todo : IsTask(t)', j.task = NoTask \/ IsTask(j.task)', j.stages \notin Taskless => IsTask(j.task)',
         j.list = i.list \/ j.list = NoList,
         j.op = "run" /\ j.stages = <<"upload", "next">> =>
           j.save.rev = j.task.rev /\ j.save.sum = j.task.sum /\ j.save.cloud \in 0 .. Len(vers'[j.task.key]),
         j.op = "run" /\ j.stages = <<"update", "complete", "next">> => j.save.sum = j.task.sum /\ Revision(j.task.key, j.save)',
         j.stages # <<"due">>
  PROVE  Good(j)'
<1>1. Good(i)'
  BY GoodStands DEF Job
<1>2. IsList(NoList)'
  BY NoneTyped DEF IsList
<1> QED BY <1>1, <1>2 DEF Good, InLine, Resolvers

LEMMA ThrownFits ==
  ASSUME Server, Jobs, Grows, NEW p \in Procs, Thrown(p), At(p, "write") \/ At(p, "update")
  PROVE  Fits(p)' /\ \E j \in Job : Gets(p, j)
<1>1. \/ /\ job[p].op = "run" /\ line' = line
         /\ Becomes(p, <<"delay", "next">>, job[p].todo, job[p].task, job[p].save, NoList)
      \/ Ends(p)
  BY ThrownEffect
<1> PICK i \in Job : i = job[p]
  BY Reading
<1>2. Good(i) /\ Reads(p)
  BY Reading DEF Reads
<1>3. CASE Ends(p)
  BY <1>3, NoJobFits, NoneTyped DEF Ends, Gets
<1>4. CASE i.op = "run" /\ Becomes(p, <<"delay", "next">>, i.todo, i.task, i.save, NoList)
  <2>1. job'[p] \in Job /\ Gets(p, job'[p])
    BY <1>4 DEF Becomes, Gets
  <2>2. SUFFICES ASSUME NEW j \in Job, j = job'[p] PROVE j.stages \in Plans(j.op) /\ Good(j)'
    BY <2>1 DEF Fits
  <2>3. j.op = "run" /\ j.stages = <<"delay", "next">> /\ j.todo = i.todo /\ j.task = i.task /\ j.save = i.save /\ j.list = NoList
    BY <1>4, <2>2 DEF Becomes, Has
  <2>4. i.stages \notin Taskless
    <3>1. i.stages \in {<<"write", "complete", "next">>, <<"write", "conflict", "next">>, <<"write", "delay", "next">>,
                        <<"write", "fail", "next">>, <<"update", "complete", "next">>}
      BY <1>2, <1>4, AtStage
    <3> QED BY <3>1, RunKinds
  <2>5. IsTask(j.task)'
    <3> PICK t : t = i.task
      OBVIOUS
    <3>1. IsTask(t)
      BY <1>2, <1>4, <2>4 DEF Good, InLine
    <3>2. IsTask(t)'
      BY <3>1, TaskStands
    <3> QED BY <2>3, <3>2
  <2>6. Good(j)'
    <3>1. Good(i)'
      BY <1>2, GoodStands DEF Job
    <3>2. \A t \in j.todo : IsTask(t)'
      BY <2>3, <3>1 DEF Good
    <3> QED BY <1>2, <1>4, <2>3, <2>5, <3>2, RunKinds, LineGood DEF InLine
  <2>7. j.stages \in Plans(j.op)
    BY <2>3 DEF Plans
  <2> QED BY <2>6, <2>7
<1> QED BY <1>1, <1>3, <1>4

LEMMA JoinFits ==
  ASSUME Server, Jobs, Grows, NEW p \in Procs, Join(p)
  PROVE  Fits(p)'
<1> PICK i : i = New("run", {}, <<"due">>, NoTask, NoSave)
  OBVIOUS
<1>1. Gets(p, i)
  BY JoinEffect
<1>2. SUFFICES ASSUME NEW j \in Job, j = job'[p] PROVE j.stages \in Plans(j.op) /\ Good(j)'
  BY DEF Fits
<1>3. j.op = "run" /\ j.stages = <<"due">> /\ j.todo = {} /\ j.task = NoTask /\ j.list = NoList
  BY <1>1, <1>2, NewIs DEF Gets
<1>4. IsList(NoList)'
  BY NoneTyped DEF IsList
<1>5. <<"due">> \in Taskless /\ <<"due">> # <<"upload", "next">> /\ <<"due">> # <<"update", "complete", "next">>
  BY RunKinds
<1>6. Good(j)'
  BY <1>3, <1>4, <1>5 DEF Good, Resolvers, InLine
<1> QED BY <1>3, <1>6 DEF Plans

LEMMA TasksStand ==
  ASSUME Stores, Server, Grows, NEW keys \in SUBSET Keys
  PROVE  \A t \in Tasks(keys) : IsTask(t)'
<1> TAKE t \in Tasks(keys)
<1>1. PICK k \in keys : t = queue[scope][k] /\ t.id # 0
  BY TasksAre
<1>2. IsTask(t)
  <2>1. NoTask.id = 0
    BY DEF NoTask
  <2> QED BY <1>1, <2>1 DEF Stores, IsList
<1> QED BY <1>2, TaskStands

LEMMA RunDueFits ==
  ASSUME Stores, Server, Jobs, Grows, NEW p \in Procs, RunDue(p)
  PROVE  Fits(p)'
<1>1. /\ At(p, "due") /\ Running(p) /\ job[p].op # "delete"
      /\ \/ Ends(p)
         \/ /\ line' = line /\ job'[p].todo \subseteq Tasks(Keys)
            /\ Becomes(p, <<"next">>, job'[p].todo, job[p].task, job[p].save, job[p].list)
  BY RunDueEffect
<1> PICK i \in Job : i = job[p]
  BY Reading
<1>2. Good(i) /\ Reads(p)
  BY Reading DEF Reads
<1>3. i.op = "run" /\ i.stages = <<"due">>
  BY <1>1, <1>2, AtStage
<1>4. CASE Ends(p)
  BY <1>4, NoJobFits DEF Ends, Gets
<1>5. CASE job'[p].todo \subseteq Tasks(Keys) /\ Becomes(p, <<"next">>, job'[p].todo, i.task, i.save, i.list)
  <2>1. SUFFICES ASSUME NEW j \in Job, j = job'[p] PROVE j.stages \in Plans(j.op) /\ Good(j)'
    BY DEF Fits
  <2>2. j.op = "run" /\ j.stages = <<"next">> /\ j.todo \subseteq Tasks(Keys) /\ j.task = i.task /\ j.list = i.list
    BY <1>3, <1>5, <2>1 DEF Becomes, Has
  <2>3. j.task = NoTask
    BY <1>2, <1>3, <2>2 DEF Good
  <2>4. \A t \in j.todo : IsTask(t)'
    BY <2>2, TasksStand
  <2>5. j.stages \in Taskless /\ j.stages # <<"due">> /\ j.stages # <<"upload", "next">> /\ j.stages # <<"update", "complete", "next">>
    BY <2>2, RunKinds
  <2>6. Good(j)'
    BY <1>2, <1>3, <2>2, <2>3, <2>4, <2>5, LineGood DEF InLine
  <2> QED BY <2>2, <2>6 DEF Plans
<1> QED BY <1>1, <1>4, <1>5

LEMMA DeleteDueFits ==
  ASSUME Stores, Server, Jobs, Grows, NEW p \in Procs, DeleteDue(p)
  PROVE  Fits(p)'
<1>1. /\ At(p, "due") /\ job[p].op = "delete"
      /\ Becomes(p, <<"clear", "erase">>, Tasks(job[p].keys), job[p].task, job[p].save, job[p].list)
  BY DeleteDueEffect
<1> PICK i \in Job : i = job[p]
  BY Reading
<1>2. Good(i) /\ Reads(p)
  BY Reading DEF Reads
<1>3. i.stages = <<"due">>
  BY <1>1, <1>2, AtStage
<1>4. SUFFICES ASSUME NEW j \in Job, j = job'[p] PROVE j.stages \in Plans(j.op) /\ Good(j)'
  BY DEF Fits
<1>5. j.op = "delete" /\ j.stages = <<"clear", "erase">> /\ j.todo = Tasks(i.keys) /\ j.task = i.task /\ j.list = i.list
  BY <1>1, <1>4 DEF Becomes, Has
<1>6. j.task = NoTask
  BY <1>2, <1>3, <1>5 DEF Good
<1>7. \A t \in j.todo : IsTask(t)'
  <2>1. i.keys \in SUBSET Keys
    BY DEF Job
  <2> QED BY <1>5, <2>1, TasksStand
<1>8. j.stages \in Taskless /\ j.stages # <<"due">>
  BY <1>5, DeleteKinds
<1>9. Good(j)'
  BY <1>1, <1>2, <1>5, <1>6, <1>7, <1>8, LineGood DEF InLine
<1> QED BY <1>5, <1>9 DEF Plans

LEMMA RunTaskFits ==
  ASSUME Stores, Server, Jobs, Grows, NEW p \in Procs, RunTask(p)
  PROVE  Fits(p)'
<1> PICK i \in Job : i = job[p]
  BY Reading
<1>1. Good(i) /\ Reads(p) /\ Good(i)'
  BY Reading, GoodStands DEF Reads, Job
<1>2. \A t \in i.todo : IsTask(t) /\ IsTask(t)' /\ t.key \in Keys
  BY <1>1 DEF Good, IsTask
<1>3. /\ At(p, "next") /\ i.op # "delete"
      /\ \E t \in i.todo :
           /\ (local[t.key].rev = t.rev /\ local[t.key].sum = t.sum) \/ job'[p].stages = <<"complete", "next">>
           /\ job'[p].stages \in {<<"upload", "next">>, <<"complete", "next">>}
           /\ Becomes(p, job'[p].stages, i.todo \ {t}, t, local[t.key], i.list)
  BY <1>2, RunTaskEffect
<1>4. i.op = "run"
  BY <1>1, <1>3, AtStage
<1>5. PICK t \in i.todo :
        /\ (local[t.key].rev = t.rev /\ local[t.key].sum = t.sum) \/ job'[p].stages = <<"complete", "next">>
        /\ job'[p].stages \in {<<"upload", "next">>, <<"complete", "next">>}
        /\ Becomes(p, job'[p].stages, i.todo \ {t}, t, local[t.key], i.list)
  BY <1>3
<1>6. SUFFICES ASSUME NEW j \in Job, j = job'[p] PROVE j.stages \in Plans(j.op) /\ Good(j)'
  BY DEF Fits
<1>7. j.op = "run" /\ j.stages \in {<<"upload", "next">>, <<"complete", "next">>} /\ j.todo \subseteq i.todo /\ j.task = t /\ j.list = i.list
      /\ j.save = local[t.key]
  BY <1>4, <1>5, <1>6 DEF Becomes, Has
<1>8. j.stages = <<"upload", "next">> => j.save.rev = t.rev /\ j.save.sum = t.sum
  BY <1>5, <1>6, <1>7, RunKinds
<1>9. j.save.cloud \in 0 .. Len(vers'[t.key])
  <2>1. t.key \in Keys
    BY <1>2
  <2>2. local[t.key].cloud \in 0 .. Len(vers[t.key])
    BY <2>1 DEF Stores
  <2>3. Len(vers[t.key]) <= Len(vers'[t.key]) /\ Len(vers[t.key]) \in Nat /\ Len(vers'[t.key]) \in Nat
    BY <2>1, Numbers DEF Grows
  <2> QED BY <1>7, <2>2, <2>3
<1>10. IsTask(j.task)' /\ \A u \in j.todo : IsTask(u)'
  BY <1>2, <1>7
<1>11. j.stages # <<"due">> /\ j.stages # <<"update", "complete", "next">>
  BY <1>7, RunKinds
<1>12. Good(j)'
  BY <1>1, <1>4, <1>7, <1>8, <1>9, <1>10, <1>11, LineGood DEF InLine
<1> QED BY <1>7, <1>12 DEF Plans

LEMMA RestoreTaskFits ==
  ASSUME Server, Jobs, Grows, NEW p \in Procs, RestoreTask(p)
  PROVE  Fits(p)'
<1> PICK i \in Job : i = job[p]
  BY Reading
<1>1. Good(i) /\ Reads(p) /\ Good(i)'
  BY Reading, GoodStands DEF Reads, Job
<1>2. i.op = "delete"
  BY RestoreTaskEffect
<1>3. PICK t \in i.todo : Becomes(p, <<"back", "next">>, i.todo \ {t}, t, i.save, i.list)
  BY RestoreTaskEffect
<1>4. SUFFICES ASSUME NEW j \in Job, j = job'[p] PROVE j.stages \in Plans(j.op) /\ Good(j)'
  BY DEF Fits
<1>5. j.op = "delete" /\ j.stages = <<"back", "next">> /\ j.todo \subseteq i.todo /\ j.task = t /\ j.list = i.list
  BY <1>2, <1>3, <1>4 DEF Becomes, Has
<1>6. IsTask(j.task)' /\ \A u \in j.todo : IsTask(u)'
  BY <1>1, <1>5 DEF Good
<1>7. Good(j)'
  BY <1>1, <1>2, <1>5, <1>6, DeleteKinds, LineGood DEF InLine
<1> QED BY <1>5, <1>7 DEF Plans

LEMMA UploadFits ==
  ASSUME Stores, Server, Jobs, Ids, NEW p \in Procs, Upload(p)
  PROVE  Fits(p)'
<1> PICK i \in Job : i = job[p]
  BY Reading
<1> PICK t : t = i.task
  OBVIOUS
<1> PICK save : save = i.save
  OBVIOUS
<1>1. /\ i.op = "run" /\ i.stages = <<"upload", "next">> /\ IsTask(t) /\ save.rev = t.rev /\ save.sum = t.sum
      /\ Grows /\ Server'
      /\ \/ \E v \in Save : /\ v.rev = save.rev /\ v.sum = save.sum /\ v.cloud \in 1 .. Len(vers'[t.key])
                            /\ vers'[t.key][v.cloud] = v.sum
                            /\ Becomes(p, <<"update", "complete", "next">>, i.todo, t, v, i.list)
         \/ \E u \in Task : /\ Same(u, t) /\ u.head \in {None, Unseen} \cup 0 .. Len(vers[t.key])
                            /\ Becomes(p, <<"conflict", "next">>, i.todo, u, NoSave, i.list)
         \/ Becomes(p, <<"delay", "next">>, i.todo, t, NoSave, i.list)
         \/ Becomes(p, <<"fail", "next">>, i.todo, t, NoSave, i.list)
  BY UploadEffect
<1>2. Good(i) /\ Good(i)' /\ Reads(p)
  BY <1>1, Reading, GoodStands DEF Reads, Job
<1>3. SUFFICES ASSUME NEW j \in Job, j = job'[p] PROVE j.stages \in Plans(j.op) /\ Good(j)'
  BY DEF Fits
<1>4. IsTask(t)' /\ t \in Task
  BY <1>1, TaskStands DEF IsTask
<1>5. \A u \in i.todo : IsTask(u)'
  BY <1>2 DEF Good
<1>6. ASSUME NEW v \in Save, v.sum = save.sum, v.cloud \in 1 .. Len(vers'[t.key]), vers'[t.key][v.cloud] = v.sum,
             Becomes(p, <<"update", "complete", "next">>, i.todo, t, v, i.list)
      PROVE  j.stages \in Plans(j.op) /\ Good(j)'
  <2>1. j.op = "run" /\ j.stages = <<"update", "complete", "next">> /\ j.todo = i.todo /\ j.task = t /\ j.save = v /\ j.list = i.list
    BY <1>1, <1>3, <1>6 DEF Becomes, Has
  <2>2. j.save.sum = t.sum /\ Revision(t.key, j.save)'
    BY <1>1, <1>6, <2>1 DEF Revision, Revs
  <2>3. Good(j)'
    BY <1>1, <1>2, <1>4, <1>5, <2>1, <2>2, RunKinds, LineGood DEF InLine
  <2> QED BY <2>1, <2>3 DEF Plans
<1>7. ASSUME NEW u \in Task, IsTask(u)', NEW s \in {<<"conflict", "next">>, <<"delay", "next">>, <<"fail", "next">>},
             Becomes(p, s, i.todo, u, NoSave, i.list)
      PROVE  j.stages \in Plans(j.op) /\ Good(j)'
  <2>1. j.op = "run" /\ j.stages = s /\ j.todo = i.todo /\ j.task = u /\ j.list = i.list
    BY <1>1, <1>3, <1>7 DEF Becomes, Has
  <2>2. s # <<"due">> /\ s # <<"upload", "next">> /\ s # <<"update", "complete", "next">>
    BY RunKinds
  <2>3. Good(j)'
    BY <1>1, <1>2, <1>5, <1>7, <2>1, <2>2, LineGood DEF InLine
  <2> QED BY <2>1, <2>3 DEF Plans
<1>8. ASSUME NEW u \in Task, Same(u, t), u.head \in {None, Unseen} \cup 0 .. Len(vers[t.key])
      PROVE  IsTask(u)'
  <2>1. IsTask(u)
    BY <1>1, <1>8 DEF IsTask, Same
  <2> QED BY <1>1, <2>1, TaskStands
<1> QED BY <1>1, <1>4, <1>6, <1>7, <1>8

LEMMA EraseEffect ==
  ASSUME Jobs, NEW p \in Procs, Erase(p)
  PROVE  /\ At(p, "erase") /\ job[p].op = "delete" /\ job[p].stages = <<"erase">>
         /\ UNCHANGED <<phone, vers, done, issued, from, newest, slips>>
         /\ \/ Ends(p) /\ cancelled' = cancelled \cup Todo(p)
            \/ cancelled' = cancelled /\ line' = line /\ Moves(p, <<"next">>)
<1>1. At(p, "erase") /\ UNCHANGED <<phone, vers, done, issued, from, newest, slips>>
  BY DEF Erase
<1>2. job[p].op = "delete" /\ job[p].stages = <<"erase">>
  BY <1>1, Reading, AtStage
<1>3. CASE cancelled' = cancelled \cup {t.id : t \in job[p].todo} /\ End(p)
  BY <1>1, <1>2, <1>3, EndEffect DEF Todo
<1>4. CASE Become(p, <<"next">>) /\ UNCHANGED <<line, cancelled>>
  <2>1. job' = [job EXCEPT ![p].stages = <<"next">>]
    BY <1>4 DEF Become
  <2>2. Moves(p, <<"next">>)
    BY <2>1, OneField, ShapesTyped DEF Jobs
  <2> QED BY <1>1, <1>2, <1>4, <2>2
<1> QED BY <1>3, <1>4 DEF Erase

LEMMA EraseFits ==
  ASSUME Server, Jobs, Grows, NEW p \in Procs, Erase(p)
  PROVE  Fits(p)'
<1> PICK i \in Job : i = job[p]
  BY Reading
<1>1. i.op = "delete" /\ i.stages = <<"erase">> /\ (Ends(p) \/ Moves(p, <<"next">>))
  BY EraseEffect
<1>2. Good(i) /\ Reads(p) /\ Good(i)'
  BY Reading, GoodStands DEF Reads, Job
<1>3. CASE Ends(p)
  BY <1>3, NoJobFits DEF Ends, Gets
<1>4. CASE Moves(p, <<"next">>)
  <2>1. SUFFICES ASSUME NEW j \in Job, j = job'[p] PROVE j.stages \in Plans(j.op) /\ Good(j)'
    BY DEF Fits
  <2>2. j.op = "delete" /\ j.stages = <<"next">> /\ j.todo = i.todo /\ j.task = i.task /\ j.list = i.list
    BY <1>1, <1>4, <2>1 DEF Moves, Becomes, Has
  <2>3. \A t \in j.todo : IsTask(t)'
    BY <1>2, <2>2 DEF Good
  <2>4. j.task = NoTask \/ IsTask(j.task)'
    BY <1>1, <1>2, <2>2 DEF Good
  <2>5. Good(j)'
    BY <1>1, <1>2, <2>2, <2>3, <2>4, DeleteKinds, LineGood DEF InLine
  <2> QED BY <2>2, <2>5 DEF Plans
<1> QED BY <1>1, <1>3, <1>4

LEMMA UpdateFits ==
  ASSUME Stores, Server, Jobs, NEW p \in Procs, UpdateCloudRevision(p)
  PROVE  Fits(p)'
<1> PICK i \in Job : i = job[p]
  BY Reading
<1> PICK k : k = IF i.op = "keep" THEN Key(p) ELSE i.task.key
  OBVIOUS
<1>1. /\ At(p, "update") /\ k \in Keys /\ Grows /\ Server'
      /\ \/ Thrown(p)
         \/ local[k].rev # 0 /\ \E v \in Save : /\ v.rev = local[k].rev /\ v.sum = local[k].sum
                               /\ Becomes(p, Tail(i.stages), i.todo, i.task, v, i.list)
  BY UpdateEffect
<1>2. Good(i) /\ Reads(p) /\ Good(i)'
  BY <1>1, Reading, GoodStands DEF Reads, Job
<1>3. CASE Thrown(p)
  BY <1>1, <1>3, ThrownFits
<1>4. ASSUME local[k].rev # 0, NEW v \in Save, v.rev = local[k].rev, v.sum = local[k].sum,
             Becomes(p, Tail(i.stages), i.todo, i.task, v, i.list)
      PROVE  Fits(p)'
  <2>1. SUFFICES ASSUME NEW j \in Job, j = job'[p] PROVE j.stages \in Plans(j.op) /\ Good(j)'
    BY DEF Fits
  <2>2. j.op = i.op /\ j.keys = i.keys /\ j.stages = Tail(i.stages) /\ j.todo = i.todo /\ j.task = i.task /\ j.save = v /\ j.list = i.list
    BY <1>4, <2>1 DEF Becomes, Has
  <2>3. CASE i.op = "keep" /\ i.stages = <<"update", "complete", "enqueue", "run">>
    <3>1. j.stages = <<"complete", "enqueue", "run">>
      BY <2>2, <2>3, FlowNexts
    <3>2. IsSave(v)'
      <4>1. v.sum \in Made /\ v.rev # 0
        BY <1>1, <1>4 DEF Stores
      <4> QED BY <1>1, <4>1 DEF IsSave, Grows, Made
    <3>3. j.stages \notin Downloaded /\ j.stages # <<"due">>
      BY <3>1, KeepKinds
    <3>4. Good(j)'
      BY <1>2, <2>2, <2>3, <3>2, <3>3 DEF Good, InLine
    <3> QED BY <2>2, <2>3, <3>1, <3>4 DEF Plans
  <2>4. CASE i.op = "run" /\ i.stages = <<"update", "complete", "next">>
    <3>1. j.stages = <<"complete", "next">>
      BY <2>2, <2>4, FlowNexts
    <3>2. IsTask(i.task)' /\ \A t \in i.todo : IsTask(t)'
      BY <1>2, <2>4, RunKinds DEF Good, InLine
    <3>3. Good(j)'
      BY <1>1, <1>2, <2>2, <2>4, <3>1, <3>2, RunKinds, LineGood DEF InLine
    <3> QED BY <2>2, <2>4, <3>1, <3>3 DEF Plans
  <2> QED BY <1>1, <1>2, <2>3, <2>4, AtStage
<1> QED BY <1>1, <1>3, <1>4

LEMMA FetchEffect ==
  ASSUME Server, Jobs, NEW p \in Procs, Fetch(p)
  PROVE  /\ At(p, "fetch") /\ Key(p) \in Keys /\ job[p].keys = {Key(p)} /\ UNCHANGED <<phone, cloud, past>>
         /\ \/ Ends(p)
            \/ /\ line' = line
               /\ \E v \in Save : /\ v.cloud \in Revs(Key(p)) /\ v.sum = vers[Key(p)][v.cloud]
                                  /\ Becomes(p, Tail(job[p].stages), job[p].todo, job[p].task, v, job[p].list)
<1> PICK k : k = Key(p)
  OBVIOUS
<1> PICK r : r = IF job[p].task.head = 0 THEN head[k] ELSE job[p].task.head
  OBVIOUS
<1>1. At(p, "fetch") /\ Reads(p) /\ job[p] \in Job /\ UNCHANGED <<phone, cloud, past>>
  BY Reading DEF Fetch
<1>2. \/ job[p].op \in {"keep", "use", "restore"}
      \/ job[p].op = "version" /\ job[p].stages = <<"fetch", "put">>
  BY <1>1, AtStage
<1>3. k \in Keys /\ job[p].keys = {k}
  BY <1>1, <1>2, KeyIs DEF Resolvers
<1>4. CASE head[k] = 0
  BY <1>1, <1>3, <1>4, EndEffect DEF Fetch
<1>5. CASE head[k] # 0
  <2>1. head[k] \in Revs(k)
    BY <1>3, <1>5, Numbers DEF Server, Revs
  <2>2. r \in Revs(k)
    <3>1. CASE job[p].op \in {"keep", "use"}
      <4>1. job[p].task.head \in 0 .. Len(vers[k])
        BY <1>1, <1>3, <3>1 DEF Reads, Good
      <4> QED BY <1>3, <2>1, <4>1, Numbers DEF Revs
    <3>2. CASE job[p].op = "restore"
      BY <1>1, <2>1, <3>2 DEF Reads, Good
    <3>3. CASE job[p].op = "version" /\ job[p].stages = <<"fetch", "put">>
      BY <1>1, <1>3, <2>1, <3>3, VersionKinds DEF Reads, Good
    <3> QED BY <1>2, <3>1, <3>2, <3>3
  <2> PICK v : v = [rev |-> 0, cloud |-> r, sum |-> vers[k][r]]
    OBVIOUS
  <2>3. v.cloud = r /\ v.sum = vers[k][r]
    OBVIOUS
  <2>4. v \in Save
    <3>1. vers[k][r] \in Made /\ r \in Nat
      BY <1>3, <2>2 DEF Server, Revs
    <3>2. vers[k][r] \in Nat
      BY <3>1 DEF Made
    <3> QED BY <3>1, <3>2 DEF Save
  <2>5. line' = line /\ job' = [job EXCEPT ![p] = [Left(p, Tail(job[p].stages)) EXCEPT !.save = v]]
    BY <1>5 DEF Fetch
  <2>6. Tail(job[p].stages) \in Seq(Stages) /\ Tail(job[p].stages) # <<>>
    BY <1>1, FlowTyped
  <2>7. Becomes(p, Tail(job[p].stages), job[p].todo, job[p].task, v, job[p].list)
    BY <2>4, <2>5, <2>6, LeftWithSave
  <2> QED BY <1>1, <1>3, <2>2, <2>3, <2>4, <2>5, <2>7
<1> QED BY <1>4, <1>5

LEMMA HeadsEffect ==
  ASSUME Server, Jobs, NEW p \in Procs, Heads(p)
  PROVE  /\ At(p, "heads") /\ Key(p) \in Keys /\ job[p].keys = {Key(p)} /\ UNCHANGED <<phone, cloud, past>>
         /\ \/ Ends(p)
            \/ /\ line' = line
               /\ \E v \in Save : /\ v.cloud \in Revs(Key(p))
                                  /\ Becomes(p, Tail(job[p].stages), job[p].todo, job[p].task, v, job[p].list)
<1> PICK k : k = Key(p)
  OBVIOUS
<1>1. At(p, "heads") /\ Reads(p) /\ job[p] \in Job /\ UNCHANGED <<phone, cloud, past>>
  BY Reading DEF Heads
<1>2. job[p].op = "version"
  BY <1>1, AtStage
<1>3. k \in Keys /\ job[p].keys = {k}
  BY <1>1, <1>2, KeyIs DEF Resolvers
<1>4. CASE head[k] = 0
  BY <1>1, <1>3, <1>4, EndEffect DEF Heads
<1>5. CASE head[k] # 0
  <2>1. head[k] \in Revs(k) /\ head[k] \in Nat
    BY <1>3, <1>5, Numbers DEF Server, Revs
  <2>2. Tail(job[p].stages) \in Seq(Stages) /\ Tail(job[p].stages) # <<>>
    BY <1>1, FlowTyped
  <2> PICK l : l = Left(p, Tail(job[p].stages))
    OBVIOUS
  <2>3. l = [job[p] EXCEPT !.stages = Tail(job[p].stages)]
    BY <2>2 DEF Left
  <2>4. l \in Job /\ l.save = job[p].save
    BY <1>1, <2>2, <2>3 DEF Job
  <2>5. job[p].save \in Save
    BY <1>1 DEF Job
  <2>6. PICK v \in Save : v = [job[p].save EXCEPT !.cloud = head[k]] /\ v.cloud = head[k]
    BY <2>1, <2>5, Changes
  <2>7. [l EXCEPT !.save.cloud = head[k]] = [l EXCEPT !.save = v]
    BY <2>4, <2>6
  <2>8. line' = line /\ job' = [job EXCEPT ![p] = [Left(p, Tail(job[p].stages)) EXCEPT !.save = v]]
    BY <1>5, <2>7 DEF Heads
  <2>9. Becomes(p, Tail(job[p].stages), job[p].todo, job[p].task, v, job[p].list)
    BY <2>2, <2>8, LeftWithSave
  <2> QED BY <1>1, <1>3, <2>1, <2>6, <2>8, <2>9
<1> QED BY <1>4, <1>5

LEMMA CopyEffect ==
  ASSUME Jobs, NEW p \in Procs, Copy(p)
  PROVE  /\ At(p, "copy") /\ Moves(p, Tail(job[p].stages)) /\ UNCHANGED <<local, queue, scope, line, cloud, past>>
         /\ Key(p) \in Keys /\ job[p].keys = {Key(p)}
<1>1. At(p, "copy") /\ Pop(p) /\ job[p].stages # <<>> /\ Reads(p) /\ UNCHANGED <<local, queue, scope, line, cloud, past>>
  BY Reading DEF Copy, At, Idle
<1>2. Tail(job[p].stages) # <<>>
  BY <1>1, FlowTyped
<1>3. job[p].op \in Resolvers
  BY <1>1, AtStage DEF Resolvers
<1> QED BY <1>1, <1>2, <1>3, PopEffect, KeyIs

LEMMA PutEffect ==
  ASSUME Stores, Server, Jobs, NEW p \in Procs, Put(p)
  PROVE  /\ At(p, "put") /\ Key(p) \in Keys /\ job[p].keys = {Key(p)} /\ line' = line
         /\ job[p].op \in {"use", "restore", "version"}
         /\ \/ job[p].stages = <<"put">> /\ Gets(p, NoJob)
            \/ job[p].op = "use" /\ job[p].stages = <<"put", "complete">> /\ Moves(p, <<"complete">>)
         /\ Revision(Key(p), job[p].save) /\ job[p].save \in Save
         /\ \E v \in Save : /\ v.rev = local[Key(p)].rev + 1 /\ v.cloud = job[p].save.cloud /\ v.sum = job[p].save.sum
                            /\ local' = [local EXCEPT ![Key(p)] = v]
         /\ newest' = IF job[p].op = "restore" THEN [newest EXCEPT ![Key(p)] = job[p].save.sum] ELSE newest
         /\ Crossed(\E q \in Procs \ {p} : Updating(q, Key(p)))
         /\ UNCHANGED <<copies, queue, scope, cloud, issued, from, owed, cancelled>>
<1>1. At(p, "put") /\ Reads(p) /\ job[p] \in Job /\ Pop(p) /\ job[p].stages # <<>>
  BY Reading DEF Put, At, Idle
<1>2. \/ job[p].op = "use" /\ job[p].stages = <<"put", "complete">>
      \/ job[p].op \in {"restore", "version"} /\ job[p].stages = <<"put">>
  BY <1>1, AtStage
<1>3. Key(p) \in Keys /\ job[p].keys = {Key(p)}
  BY <1>1, <1>2, KeyIs DEF Resolvers
<1>4. Revision(Key(p), job[p].save) /\ job[p].save \in Save
  <2>1. job[p].stages \in Puts
    BY <1>2, UseKinds
  <2>2. Revision(Key(p), job[p].save)
    BY <1>1, <1>2, <1>3, <2>1 DEF Reads, Good
  <2> QED BY <1>1, <2>2 DEF Job
<1>5. \/ job[p].stages = <<"put">> /\ Gets(p, NoJob)
      \/ job[p].op = "use" /\ job[p].stages = <<"put", "complete">> /\ Moves(p, <<"complete">>)
  <2>1. Tail(<<"put">>) = <<>> /\ Tail(<<"put", "complete">>) = <<"complete">> /\ <<"complete">> # <<>>
    BY FlowNexts
  <2> QED BY <1>1, <1>2, <2>1, PopEffect
<1> PICK v : v = [rev |-> local[Key(p)].rev + 1, cloud |-> job[p].save.cloud, sum |-> job[p].save.sum]
  OBVIOUS
<1>6. v \in Save /\ v.rev = local[Key(p)].rev + 1 /\ v.cloud = job[p].save.cloud /\ v.sum = job[p].save.sum
  <2>1. local[Key(p)] \in Save
    BY <1>3 DEF Stores
  <2> QED BY <1>4, <2>1 DEF Save
<1>7. local' = [local EXCEPT ![Key(p)] = v]
  <2>1. local' = [local EXCEPT ![Key(p)] = [rev |-> @.rev + 1, cloud |-> job[p].save.cloud, sum |-> job[p].save.sum]]
    BY DEF Put
  <2> QED BY <1>3, <2>1 DEF Stores
<1>8. /\ newest' = IF job[p].op = "restore" THEN [newest EXCEPT ![Key(p)] = job[p].save.sum] ELSE newest
      /\ Crossed(\E q \in Procs \ {p} : Updating(q, Key(p)))
      /\ UNCHANGED <<copies, queue, scope, cloud, issued, from, owed, cancelled, line>>
  BY DEF Put
<1> QED BY <1>1, <1>2, <1>3, <1>4, <1>5, <1>6, <1>7, <1>8

LEMMA FetchFits ==
  ASSUME Server, Jobs, Grows, NEW p \in Procs, Fetch(p)
  PROVE  Fits(p)'
<1> PICK i \in Job : i = job[p]
  BY Reading
<1> PICK k : k = Key(p)
  OBVIOUS
<1>1. /\ At(p, "fetch") /\ k \in Keys /\ i.keys = {k} /\ vers' = vers
      /\ \/ Ends(p)
         \/ \E v \in Save : /\ v.cloud \in Revs(k) /\ v.sum = vers[k][v.cloud]
                            /\ Becomes(p, Tail(i.stages), i.todo, i.task, v, i.list)
  BY FetchEffect DEF cloud
<1>2. Good(i) /\ Reads(p) /\ Good(i)'
  BY Reading, GoodStands DEF Reads, Job
<1>3. CASE Ends(p)
  BY <1>3, NoJobFits DEF Ends, Gets
<1>4. ASSUME NEW v \in Save, v.cloud \in Revs(k), v.sum = vers[k][v.cloud],
             Becomes(p, Tail(i.stages), i.todo, i.task, v, i.list)
      PROVE  Fits(p)'
  <2>1. SUFFICES ASSUME NEW j \in Job, j = job'[p] PROVE j.stages \in Plans(j.op) /\ Good(j)'
    BY DEF Fits
  <2>2. j.op = i.op /\ j.keys = i.keys /\ j.stages = Tail(i.stages) /\ j.todo = i.todo /\ j.task = i.task /\ j.save = v /\ j.list = i.list
    BY <1>4, <2>1 DEF Becomes, Has
  <2>3. \A x \in j.keys : Revision(x, j.save)'
    BY <1>1, <1>4, <2>2 DEF Revision, Revs
  <2>4. CASE i.op = "keep" /\ i.stages = <<"fetch", "copy", "update", "complete", "enqueue", "run">>
    <3>1. j.stages = <<"copy", "update", "complete", "enqueue", "run">>
      BY <2>2, <2>4, FlowNexts
    <3>2. j.stages \notin Updated /\ j.stages # <<"due">>
      BY <3>1, KeepKinds
    <3>3. Good(j)'
      BY <1>2, <2>2, <2>3, <2>4, <3>2 DEF Good, InLine
    <3> QED BY <2>2, <2>4, <3>1, <3>3 DEF Plans
  <2>5. CASE i.op = "use" /\ i.stages = <<"fetch", "put", "complete">>
    <3>1. j.stages = <<"put", "complete">>
      BY <2>2, <2>5, FlowNexts
    <3>2. j.stages # <<"due">>
      BY <3>1
    <3>3. Good(j)'
      BY <1>2, <2>2, <2>3, <2>5, <3>2 DEF Good, InLine
    <3> QED BY <2>2, <2>5, <3>1, <3>3 DEF Plans
  <2>6. CASE i.op \in {"restore", "version"} /\ i.stages = <<"fetch", "put">>
    <3>1. j.stages = <<"put">>
      BY <2>2, <2>6, FlowNexts
    <3>2. j.stages # <<"due">> /\ j.stages \notin Headed /\ i.stages \in Revived
      BY <2>6, <3>1, VersionKinds
    <3>3. Good(j)'
      BY <1>2, <2>2, <2>3, <2>6, <3>2 DEF Good, InLine
    <3> QED BY <2>2, <2>6, <3>1, <3>3 DEF Plans
  <2> QED BY <1>1, <1>2, <2>4, <2>5, <2>6, AtStage
<1> QED BY <1>1, <1>3, <1>4

LEMMA HeadsFits ==
  ASSUME Server, Jobs, Grows, NEW p \in Procs, Heads(p)
  PROVE  Fits(p)'
<1> PICK i \in Job : i = job[p]
  BY Reading
<1> PICK k : k = Key(p)
  OBVIOUS
<1>1. /\ At(p, "heads") /\ k \in Keys /\ i.keys = {k} /\ vers' = vers
      /\ \/ Ends(p)
         \/ \E v \in Save : v.cloud \in Revs(k) /\ Becomes(p, Tail(i.stages), i.todo, i.task, v, i.list)
  BY HeadsEffect DEF cloud
<1>2. Good(i) /\ Reads(p) /\ Good(i)'
  BY Reading, GoodStands DEF Reads, Job
<1>3. CASE Ends(p)
  BY <1>3, NoJobFits DEF Ends, Gets
<1>4. ASSUME NEW v \in Save, v.cloud \in Revs(k), Becomes(p, Tail(i.stages), i.todo, i.task, v, i.list)
      PROVE  Fits(p)'
  <2>1. SUFFICES ASSUME NEW j \in Job, j = job'[p] PROVE j.stages \in Plans(j.op) /\ Good(j)'
    BY DEF Fits
  <2>2. j.op = i.op /\ j.keys = i.keys /\ j.stages = Tail(i.stages) /\ j.todo = i.todo /\ j.task = i.task /\ j.save = v /\ j.list = i.list
    BY <1>4, <2>1 DEF Becomes, Has
  <2>3. i.op = "version" /\ i.stages = <<"heads", "copy", "revive", "fetch", "put">>
    BY <1>1, <1>2, AtStage
  <2>4. j.stages = <<"copy", "revive", "fetch", "put">>
    BY <2>2, <2>3, FlowNexts
  <2>5. j.stages \notin Puts /\ j.stages \notin Revived /\ j.stages # <<"due">>
    BY <2>4, VersionKinds
  <2>6. \A x \in j.keys : j.save.cloud \in Revs(x)'
    BY <1>1, <1>4, <2>2 DEF Revs
  <2>7. Good(j)'
    BY <1>2, <2>2, <2>3, <2>5, <2>6 DEF Good, InLine
  <2> QED BY <2>2, <2>3, <2>4, <2>7 DEF Plans
<1> QED BY <1>1, <1>3, <1>4

LEMMA CopyFits ==
  ASSUME Server, Jobs, Grows, NEW p \in Procs, Copy(p)
  PROVE  Fits(p)'
<1> PICK i \in Job : i = job[p]
  BY Reading
<1>1. At(p, "copy") /\ Moves(p, Tail(i.stages)) /\ vers' = vers
  BY CopyEffect DEF cloud
<1>2. Good(i) /\ Reads(p) /\ Good(i)'
  BY Reading, GoodStands DEF Reads, Job
<1>3. SUFFICES ASSUME NEW j \in Job, j = job'[p] PROVE j.stages \in Plans(j.op) /\ Good(j)'
  BY DEF Fits
<1>4. j.op = i.op /\ j.keys = i.keys /\ j.stages = Tail(i.stages) /\ j.todo = i.todo /\ j.task = i.task /\ j.save = i.save /\ j.list = i.list
  BY <1>1, <1>3 DEF Moves, Becomes, Has
<1>5. CASE i.op = "keep" /\ i.stages = <<"copy", "update", "complete", "enqueue", "run">>
  <2>1. j.stages = <<"update", "complete", "enqueue", "run">>
    BY <1>4, <1>5, FlowNexts
  <2>2. j.stages \notin Updated /\ j.stages # <<"due">> /\ i.stages \in Downloaded
    BY <1>5, <2>1, KeepKinds
  <2>3. Good(j)'
    BY <1>2, <1>4, <1>5, <2>2 DEF Good, InLine
  <2> QED BY <1>4, <1>5, <2>1, <2>3 DEF Plans
<1>6. CASE i.op = "use" /\ i.stages = <<"copy", "fetch", "put", "complete">>
  <2>1. j.stages = <<"fetch", "put", "complete">>
    BY <1>4, <1>6, FlowNexts
  <2>2. j.stages \notin Puts /\ j.stages # <<"due">>
    BY <2>1, UseKinds
  <2>3. Good(j)'
    BY <1>2, <1>4, <1>6, <2>2 DEF Good, InLine
  <2> QED BY <1>4, <1>6, <2>1, <2>3 DEF Plans
<1>7. CASE i.op = "version" /\ i.stages = <<"copy", "revive", "fetch", "put">>
  <2>1. j.stages = <<"revive", "fetch", "put">>
    BY <1>4, <1>7, FlowNexts
  <2>2. j.stages \notin Puts /\ j.stages \notin Revived /\ i.stages \in Headed /\ j.stages # <<"due">>
    BY <1>7, <2>1, VersionKinds
  <2>3. Good(j)'
    BY <1>2, <1>4, <1>7, <2>2 DEF Good, InLine
  <2> QED BY <1>4, <1>7, <2>1, <2>3 DEF Plans
<1> QED BY <1>1, <1>2, <1>5, <1>6, <1>7, AtStage

LEMMA PutFits ==
  ASSUME Stores, Server, Jobs, Grows, NEW p \in Procs, Put(p)
  PROVE  Fits(p)'
<1> PICK i \in Job : i = job[p]
  BY Reading
<1>1. Gets(p, NoJob) \/ (i.op = "use" /\ i.stages = <<"put", "complete">> /\ Moves(p, <<"complete">>))
  BY PutEffect
<1>2. Good(i) /\ Reads(p) /\ Good(i)'
  BY Reading, GoodStands DEF Reads, Job
<1>3. CASE Gets(p, NoJob)
  BY <1>3, NoJobFits DEF Gets
<1>4. CASE i.op = "use" /\ i.stages = <<"put", "complete">> /\ Moves(p, <<"complete">>)
  <2>1. SUFFICES ASSUME NEW j \in Job, j = job'[p] PROVE j.stages \in Plans(j.op) /\ Good(j)'
    BY DEF Fits
  <2>2. j.op = i.op /\ j.keys = i.keys /\ j.stages = <<"complete">> /\ j.todo = i.todo /\ j.task = i.task /\ j.save = i.save /\ j.list = i.list
    BY <1>4, <2>1 DEF Moves, Becomes, Has
  <2>3. j.stages \notin Puts /\ j.stages # <<"due">>
    BY <2>2, UseKinds
  <2>4. Good(j)'
    BY <1>2, <1>4, <2>2, <2>3 DEF Good, InLine
  <2> QED BY <1>4, <2>2, <2>4 DEF Plans
<1> QED BY <1>1, <1>3, <1>4

LEMMA ReviveFits ==
  ASSUME Stores, Server, Jobs, NEW p \in Procs, Revive(p)
  PROVE  Fits(p)'
<1> PICK i \in Job : i = job[p]
  BY Reading
<1> PICK k : k = Key(p)
  OBVIOUS
<1>1. /\ At(p, "revive") /\ k \in Keys /\ i.keys = {k} /\ Grows /\ Server'
      /\ \/ Ends(p)
         \/ \E u \in Task : /\ u.id = i.task.id /\ u.rev = i.task.rev /\ u.key = i.task.key
                            /\ u.head \in 1 .. Len(vers'[k])
                            /\ Becomes(p, Tail(i.stages), i.todo, u, i.save, i.list)
  BY ReviveEffect
<1>2. Good(i) /\ Reads(p) /\ Good(i)'
  BY <1>1, Reading, GoodStands DEF Reads, Job
<1>3. CASE Ends(p)
  BY <1>3, NoJobFits DEF Ends, Gets
<1>4. ASSUME NEW u \in Task, u.id = i.task.id, u.rev = i.task.rev, u.head \in 1 .. Len(vers'[k]),
             Becomes(p, Tail(i.stages), i.todo, u, i.save, i.list)
      PROVE  Fits(p)'
  <2>1. SUFFICES ASSUME NEW j \in Job, j = job'[p] PROVE j.stages \in Plans(j.op) /\ Good(j)'
    BY DEF Fits
  <2>2. j.op = i.op /\ j.keys = i.keys /\ j.stages = Tail(i.stages) /\ j.todo = i.todo /\ j.task = u /\ j.save = i.save /\ j.list = i.list
    BY <1>4, <2>1 DEF Becomes, Has
  <2>3. i.op = "version" /\ i.stages = <<"revive", "fetch", "put">>
    BY <1>1, <1>2, AtStage
  <2>4. j.stages = <<"fetch", "put">>
    BY <2>2, <2>3, FlowNexts
  <2>5. j.stages \notin Puts /\ j.stages \notin Headed /\ j.stages # <<"due">>
    BY <2>4, VersionKinds
  <2>6. \A x \in j.keys : j.task.rev \in Revs(x)' /\ j.task.head \in Revs(x)'
    BY <1>1, <1>2, <1>4, <2>2, <2>3 DEF Good, Revs
  <2>7. j.task.id = 0
    BY <1>2, <1>4, <2>2, <2>3 DEF Good
  <2>8. Good(j)'
    BY <1>2, <2>2, <2>3, <2>5, <2>6, <2>7 DEF Good, InLine
  <2> QED BY <2>2, <2>3, <2>4, <2>8 DEF Plans
<1> QED BY <1>1, <1>3, <1>4

\* No operation but p has changed.
Only(p) == job' \in [Procs -> Job] /\ \A q \in Procs \ {p} : job'[q] = job[q]

LEMMA OnlyFits ==
  ASSUME Server, Jobs, Grows, NEW p \in Procs, Only(p), Fits(p)'
  PROVE  Jobs'
<1>1. ASSUME NEW q \in Procs, q # p PROVE Fits(q)'
  BY <1>1, SameJobFits, Reading DEF Only, Jobs
<1>2. \A q \in Procs : Fits(q)'
  BY <1>1
<1> QED BY <1>2 DEF Jobs, Only

LEMMA StageFits ==
  ASSUME Stores, Server, Jobs, Ids, Grows, NEW p \in Procs, Stage(p), ~WriteQueue(p)
  PROVE  Only(p) /\ Fits(p)'
<1>1. CASE ReadQueue(p)
  <2>1. Only(p)
    BY <1>1, ReadEffect DEF Only, Moves, Becomes
  <2> QED BY <1>1, <2>1, ReadFits
<1>2. CASE WriteFails(p)
  <2>1. Thrown(p) /\ At(p, "write")
    BY <1>2 DEF WriteFails
  <2> QED BY <2>1, ThrownFits DEF Only, Gets
<1>3. CASE Join(p)
  BY <1>3, JoinFits, JoinEffect DEF Only, Gets
<1>4. CASE RunDue(p)
  BY <1>4, RunDueFits, RunDueEffect DEF Only, Ends, Gets, Becomes
<1>5. CASE DeleteDue(p)
  BY <1>5, DeleteDueFits, DeleteDueEffect DEF Only, Becomes
<1>6. ASSUME End(p) PROVE Only(p) /\ Fits(p)'
  BY <1>6, EndEffect, NoJobFits DEF Ends, Gets, Only
<1>7. CASE NoneLeft(p)
  BY <1>6, <1>7 DEF NoneLeft
<1>8. CASE RunTask(p)
  <2>1. Fits(p)'
    BY <1>8, RunTaskFits
  <2>2. \A t \in job[p].todo : t.key \in Keys
    BY Reading DEF Reads, Good, IsTask
  <2>3. Only(p)
    BY <1>8, <2>2, RunTaskEffect DEF Only, Becomes
  <2> QED BY <2>1, <2>3
<1>9. CASE RestoreTask(p)
  BY <1>9, RestoreTaskFits, RestoreTaskEffect DEF Only, Becomes
<1>10. CASE Upload(p)
  BY <1>10, UploadFits, UploadEffect DEF Only, Becomes
<1>11. CASE Erase(p)
  BY <1>11, EraseFits, EraseEffect DEF Only, Ends, Gets, Moves, Becomes
<1>12. CASE UpdateCloudRevision(p)
  <2>1. Fits(p)'
    BY <1>12, UpdateFits
  <2> PICK k : k = IF job[p].op = "keep" THEN Key(p) ELSE job[p].task.key
    OBVIOUS
  <2>2. CASE Thrown(p)
    BY <1>12, <2>1, <2>2, ThrownFits DEF UpdateCloudRevision, Only, Gets
  <2>3. CASE \E v \in Save : Becomes(p, Tail(job[p].stages), job[p].todo, job[p].task, v, job[p].list)
    BY <2>1, <2>3 DEF Only, Becomes
  <2> QED BY <1>12, <2>2, <2>3, UpdateEffect
<1>13. CASE StageFails(p)
  BY <1>6, <1>13 DEF StageFails
<1>14. CASE Fetch(p)
  BY <1>14, FetchFits, FetchEffect DEF Only, Ends, Gets, Becomes
<1>15. CASE Copy(p)
  BY <1>15, CopyFits, CopyEffect DEF Only, Moves, Becomes
<1>16. CASE Put(p)
  BY <1>16, PutFits, PutEffect DEF Only, Gets, Moves, Becomes
<1>17. CASE Heads(p)
  BY <1>17, HeadsFits, HeadsEffect DEF Only, Ends, Gets, Becomes
<1>18. CASE Revive(p)
  BY <1>18, ReviveFits, ReviveEffect DEF Only, Ends, Gets, Becomes
<1> QED BY <1>1, <1>2, <1>3, <1>4, <1>5, <1>7, <1>8, <1>9, <1>10, <1>11, <1>12, <1>13, <1>14, <1>15, <1>16, <1>17, <1>18
        DEF Stage

LEMMA JobsNext ==
  ASSUME Stores, Server, Jobs, Ids, [Next]_vars
  PROVE  Jobs'
<1>0. Grows
  BY ServerNext
<1>1. ASSUME job' = job PROVE Jobs'
  <2>1. \A q \in Procs : Fits(q)'
    BY <1>0, <1>1, SameJobFits, Reading DEF Jobs
  <2> QED BY <1>1, <2>1 DEF Jobs
<1>2. ASSUME NEW p \in Procs, Begin(p) PROVE Jobs'
  <2>1. PICK j \in Job : Begun(p, j) /\ Fits(p)'
    BY <1>2, Begins
  <2>2. Only(p)
    BY <2>1 DEF Begun, Gets, Only
  <2> QED BY <1>0, <2>1, <2>2, OnlyFits
<1>3. ASSUME NEW p \in Procs, Stage(p) PROVE Jobs'
  <2>1. CASE WriteQueue(p)
    <3>1. job' \in [Procs -> Job]
      BY <2>1, WriteEffect
    <3>2. \A q \in Procs : Fits(q)'
      BY <1>0, <2>1, WriteFits
    <3> QED BY <3>1, <3>2 DEF Jobs
  <2>2. CASE ~WriteQueue(p)
    BY <1>0, <1>3, <2>2, StageFits, OnlyFits
  <2> QED BY <2>1, <2>2
<1>4. CASE Kill
  <2>1. job' = [p \in Procs |-> NoJob]
    BY <1>4 DEF Kill
  <2>2. \A q \in Procs : Fits(q)'
    BY <2>1, NoJobFits
  <2> QED BY <2>1, <2>2, NoneTyped DEF Jobs
<1>5. ASSUME NEW k \in Keys, RemoveLocal(k) \/ OtherUpload(k) \/ OtherDelete(k) PROVE Jobs'
  BY <1>1, <1>5 DEF RemoveLocal, OtherUpload, OtherDelete
<1>6. CASE SwitchScope
  BY <1>1, <1>6 DEF SwitchScope
<1>7. CASE UNCHANGED vars
  BY <1>1, <1>7 DEF vars
<1> QED BY <1>2, <1>3, <1>4, <1>5, <1>6, <1>7 DEF Next

------------------------------------------------------------------------------
(* The stores keep their shape. *)

Manifests ==
  /\ local \in [Keys -> Save]
  /\ \A k \in Keys : /\ local[k].rev = 0 => local[k] = NoSave
                     /\ local[k].rev # 0 => local[k].sum \in Made
                     /\ local[k].cloud \in 0 .. Len(vers[k])
Queues ==
  /\ queue \in [{"account", "anonymous"} -> [Keys -> Task]]
  /\ \A s \in {"account", "anonymous"} : IsList(queue[s])
Rest == copies \in SUBSET Nat /\ scope \in {"account", "anonymous"} /\ newest \in [Keys -> Nat]

LEMMA StoresAre == Stores <=> Manifests /\ Queues /\ Rest
BY DEF Stores, Manifests, Queues, Rest
LEMMA StoresAreNext == Manifests' /\ Queues' /\ Rest' => Stores'
BY DEF Stores, Manifests, Queues, Rest

LEMMA ManifestsStand ==
  ASSUME Manifests, Server, Grows, NEW k \in Keys, NEW v \in Save,
         local' = local \/ local' = [local EXCEPT ![k] = v],
         local' = local \/ v = NoSave \/ (v.rev # 0 /\ v.sum \in Made' /\ v.cloud \in 0 .. Len(vers'[k]))
  PROVE  Manifests'
<1>1. \A j \in Keys : 0 .. Len(vers[j]) \subseteq 0 .. Len(vers'[j])
  BY Numbers DEF Grows
<1>2. Made \subseteq Made'
  BY DEF Grows, Made
<1>3. local' \in [Keys -> Save] /\ \A j \in Keys : local'[j] = local[j] \/ (j = k /\ local'[j] = v /\ local' # local)
  BY DEF Manifests
<1>4. NoSave.rev = 0 /\ NoSave.cloud = 0
  BY DEF NoSave
<1>5. \A j \in Keys : 0 \in 0 .. Len(vers'[j])
  BY DEF Grows
<1>6. ASSUME NEW j \in Keys, local'[j] = local[j]
      PROVE  /\ local'[j].rev = 0 => local'[j] = NoSave
             /\ local'[j].rev # 0 => local'[j].sum \in Made'
             /\ local'[j].cloud \in 0 .. Len(vers'[j])
  BY <1>1, <1>2, <1>6 DEF Manifests
<1>7. ASSUME NEW j \in Keys, j = k, local'[j] = v, local' # local
      PROVE  /\ local'[j].rev = 0 => local'[j] = NoSave
             /\ local'[j].rev # 0 => local'[j].sum \in Made'
             /\ local'[j].cloud \in 0 .. Len(vers'[j])
  BY <1>4, <1>5, <1>7
<1> QED BY <1>3, <1>6, <1>7 DEF Manifests

LEMMA QueuesStand ==
  ASSUME Queues, Server, Grows, NEW s \in {"account", "anonymous"}, NEW l \in [Keys -> Task], IsList(l),
         queue' = queue \/ queue' = [queue EXCEPT ![s] = l]
  PROVE  Queues'
<1>1. queue' \in [{"account", "anonymous"} -> [Keys -> Task]]
  BY DEF Queues
<1>2. ASSUME NEW z \in {"account", "anonymous"} PROVE IsList(queue[z])'
  <2> PICK a : a = queue[z]
    OBVIOUS
  <2> PICK b : b = queue'[z]
    OBVIOUS
  <2>1. IsList(a)' /\ IsList(l)'
    <3>1. IsList(a)
      BY DEF Queues
    <3> QED BY <3>1, ListStands
  <2>2. b = a \/ b = l
    BY DEF Queues
  <2>3. IsList(b)'
    BY <2>1, <2>2
  <2> QED BY <2>3 DEF IsList
<1> QED BY <1>1, <1>2 DEF Queues

\* The steps that change the manifests, the queue, the copies, and the session.
SaveStep ==
  \/ \E k \in Keys : RemoveLocal(k)
  \/ \E p \in Procs : \/ \E k \in Keys : \E base \in {0, local[k].cloud} : CommitSave(p, k, base)
                      \/ UpdateCloudRevision(p) \/ Put(p)
StoreStep == SaveStep \/ SwitchScope \/ \E p \in Procs : WriteQueue(p) \/ Copy(p)

LEMMA StoreSteps ==
  ASSUME [Next]_vars
  PROVE  StoreStep \/ UNCHANGED <<phone, newest>>
<1>1. ASSUME NEW p \in Procs, Begin(p) PROVE StoreStep \/ UNCHANGED <<phone, newest>>
  <2>1. Wake(p) \/ Delete(p, Keys) => UNCHANGED <<phone, newest>>
    BY DEF Wake, Delete, noted
  <2>2. ASSUME NEW k \in Keys
        PROVE  Retry(p, k) \/ KeepLocal(p, k) \/ UseCloud(p, k) \/ RestoreCloudBattery(p, k) \/ Delete(p, {k})
               => UNCHANGED <<phone, newest>>
    BY DEF Retry, KeepLocal, UseCloud, RestoreCloudBattery, Delete, noted
  <2>3. ASSUME NEW k \in Keys, NEW r \in DOMAIN vers[k], RestoreCloudVersion(p, k, r) PROVE UNCHANGED <<phone, newest>>
    BY <2>3 DEF RestoreCloudVersion, noted
  <2> QED BY <1>1, <2>1, <2>2, <2>3 DEF Begin, StoreStep, SaveStep
<1>2. ASSUME NEW p \in Procs, Stage(p) PROVE StoreStep \/ UNCHANGED <<phone, newest>>
  <2>1. ReadQueue(p) \/ WriteFails(p) \/ Join(p) \/ RunDue(p) \/ DeleteDue(p) \/ NoneLeft(p) \/ RunTask(p) \/ RestoreTask(p)
        => UNCHANGED <<phone, newest>>
    BY DEF ReadQueue, WriteFails, Join, RunDue, DeleteDue, NoneLeft, RunTask, RestoreTask, past, noted
  <2>2. StageFails(p) \/ Fetch(p) \/ Heads(p) \/ Upload(p) \/ Erase(p) \/ Revive(p) => UNCHANGED <<phone, newest>>
    BY DEF StageFails, Fetch, Heads, Upload, Erase, Revive, past, noted
  <2> QED BY <1>2, <2>1, <2>2 DEF Stage, StoreStep, SaveStep
<1>3. ASSUME NEW k \in Keys, OtherUpload(k) \/ OtherDelete(k) PROVE UNCHANGED <<phone, newest>>
  BY <1>3 DEF OtherUpload, OtherDelete, noted
<1>4. Kill => UNCHANGED <<phone, newest>>
  BY DEF Kill
<1>5. UNCHANGED vars => UNCHANGED <<phone, newest>>
  BY DEF vars, past, noted
<1> QED BY <1>1, <1>2, <1>3, <1>4, <1>5 DEF Next, StoreStep, SaveStep

LEMMA StoresNext ==
  ASSUME Stores, Server, Jobs, Ids, [Next]_vars
  PROVE  Stores'
<1>0. Grows /\ Manifests /\ Queues /\ Rest
  BY ServerNext, StoresAre
<1>1. ASSUME local' = local PROVE Manifests'
  <2>1. CASE Keys = {}
    BY <1>0, <1>1, <2>1 DEF Manifests
  <2>2. ASSUME NEW k \in Keys PROVE Manifests'
    BY <1>0, <1>1, NoneTyped, ManifestsStand
  <2> QED BY <2>1, <2>2
<1>2. ASSUME queue' = queue PROVE Queues'
  <2>1. NoList \in [Keys -> Task] /\ IsList(NoList)
    BY NoneTyped DEF IsList
  <2> QED BY <1>0, <1>2, <2>1, QueuesStand
<1>3. CASE UNCHANGED <<phone, newest>>
  BY <1>0, <1>1, <1>2, <1>3, StoresAreNext DEF phone, Rest
<1>4. ASSUME NEW k \in Keys, RemoveLocal(k) PROVE Stores'
  <2>1. /\ local' = [local EXCEPT ![k] = NoSave] /\ newest' = [newest EXCEPT ![k] = 0]
        /\ UNCHANGED <<copies, queue, scope>>
    BY <1>4 DEF RemoveLocal
  <2>2. Manifests'
    BY <1>0, <2>1, NoneTyped, ManifestsStand
  <2>3. Rest'
    BY <1>0, <2>1 DEF Rest
  <2> QED BY <1>2, <2>1, <2>2, <2>3, StoresAreNext
<1>5. ASSUME NEW p \in Procs, NEW k \in Keys, NEW base \in {0, local[k].cloud}, CommitSave(p, k, base) PROVE Stores'
  <2>1. Committed(p, k, base) /\ Descended(k)
    BY <1>5, CommitSaveEffect
  <2>2. PICK v \in Save : /\ v.rev = local[k].rev + 1 /\ v.cloud = base /\ v.sum = Len(from) + 1
                          /\ local' = [local EXCEPT ![k] = v] /\ newest' = [newest EXCEPT ![k] = v.sum]
    BY <2>1 DEF Committed
  <2>3. v.rev # 0 /\ v.sum \in Made' /\ v.cloud \in 0 .. Len(vers'[k])
    <3>1. local[k].rev \in Nat /\ local[k].cloud \in 0 .. Len(vers[k]) /\ Len(from) \in Nat /\ Len(vers[k]) \in Nat
      BY Numbers DEF Stores, Save
    <3>2. Len(vers[k]) <= Len(vers'[k]) /\ Len(vers'[k]) \in Nat
      BY <1>0 DEF Grows
    <3>3. v.sum \in Made'
      BY <2>1, <2>2, <3>1 DEF Descended, Made
    <3>4. v.rev # 0
      BY <2>2, <3>1
    <3>5. v.cloud = 0 \/ v.cloud = local[k].cloud
      BY <2>2
    <3>6. v.cloud \in 0 .. Len(vers'[k])
      BY <3>1, <3>2, <3>5
    <3> QED BY <3>3, <3>4, <3>6
  <2>4. Manifests'
    BY <1>0, <2>2, <2>3, ManifestsStand
  <2>5. UNCHANGED <<copies, queue, scope>>
    BY <1>5 DEF CommitSave
  <2>6. Rest'
    BY <1>0, <2>2, <2>5 DEF Rest, Save
  <2> QED BY <1>2, <2>4, <2>5, <2>6, StoresAreNext
<1>6. ASSUME NEW p \in Procs, UpdateCloudRevision(p) PROVE Stores'
  <2> PICK k : k = IF job[p].op = "keep" THEN Key(p) ELSE job[p].task.key
    OBVIOUS
  <2>1. /\ At(p, "update") /\ k \in Keys
        /\ \/ local' = local
           \/ local[k].rev # 0
              /\ \E v \in Save : /\ v.rev = local[k].rev /\ v.sum = local[k].sum /\ v.cloud = job[p].save.cloud
                                 /\ local' = [local EXCEPT ![k] = v]
    BY <1>6, UpdateEffect
  <2>2. UNCHANGED <<copies, queue, scope, newest>>
    BY <1>6 DEF UpdateCloudRevision
  <2>3. Rest'
    BY <1>0, <2>2 DEF Rest
  <2>4. ASSUME NEW v \in Save, v.rev = local[k].rev, v.sum = local[k].sum, v.cloud = job[p].save.cloud,
               local' = [local EXCEPT ![k] = v], local[k].rev # 0
        PROVE  Manifests'
    <3>1. v.rev # 0 /\ v.sum \in Made'
      BY <1>0, <2>1, <2>4 DEF Manifests, Grows, Made
    <3>2. Revision(k, job[p].save)
      <4>1. Reads(p) /\ job[p] \in Job
        BY Reading
      <4>2. CASE job[p].op = "keep" /\ job[p].stages = <<"update", "complete", "enqueue", "run">>
        <5>1. job[p].keys = {k}
          BY <4>1, <4>2, KeyIs DEF Resolvers
        <5> QED BY <4>1, <4>2, <5>1, KeepKinds DEF Reads, Good
      <4>3. CASE job[p].op = "run" /\ job[p].stages = <<"update", "complete", "next">>
        BY <4>1, <4>3 DEF Reads, Good
      <4> QED BY <2>1, <4>1, <4>2, <4>3, AtStage
    <3>3. v.cloud \in 0 .. Len(vers'[k])
      <4>1. v.cloud \in Revs(k)
        BY <2>4, <3>2 DEF Revision
      <4>2. Len(vers[k]) \in Nat /\ Len(vers'[k]) \in Nat /\ Len(vers[k]) <= Len(vers'[k])
        BY <1>0, <2>1, Numbers DEF Grows
      <4> QED BY <4>1, <4>2 DEF Revs
    <3> QED BY <1>0, <2>1, <2>4, <3>1, <3>3, ManifestsStand
  <2>5. Manifests'
    BY <1>1, <2>1, <2>4
  <2> QED BY <1>2, <2>2, <2>3, <2>5, StoresAreNext
<1>7. ASSUME NEW p \in Procs, Put(p) PROVE Stores'
  <2> PICK k : k = Key(p)
    OBVIOUS
  <2>1. /\ k \in Keys /\ Revision(k, job[p].save) /\ job[p].save \in Save
        /\ \E v \in Save : /\ v.rev = local[k].rev + 1 /\ v.cloud = job[p].save.cloud /\ v.sum = job[p].save.sum
                           /\ local' = [local EXCEPT ![k] = v]
        /\ newest' = IF job[p].op = "restore" THEN [newest EXCEPT ![k] = job[p].save.sum] ELSE newest
        /\ UNCHANGED <<copies, queue, scope>>
    BY <1>7, PutEffect
  <2>2. PICK v \in Save : /\ v.rev = local[k].rev + 1 /\ v.cloud = job[p].save.cloud /\ v.sum = job[p].save.sum
                          /\ local' = [local EXCEPT ![k] = v]
    BY <2>1
  <2>3. v.rev # 0
    BY <2>1, <2>2 DEF Stores, Save
  <2>4. v.sum \in Made'
    <3>1. v.sum \in Made
      BY <2>1, <2>2 DEF Revision, Server
    <3> QED BY <1>0, <3>1 DEF Grows, Made
  <2>5. v.cloud \in 0 .. Len(vers'[k])
    <3>1. v.cloud \in Revs(k)
      BY <2>1, <2>2 DEF Revision
    <3> QED BY <1>0, <2>1, <3>1, Numbers DEF Revs, Grows
  <2>6. Manifests'
    BY <1>0, <2>1, <2>2, <2>3, <2>4, <2>5, ManifestsStand
  <2>7. Rest'
    BY <1>0, <2>1 DEF Rest, Save
  <2> QED BY <1>2, <2>1, <2>6, <2>7, StoresAreNext
<1>8. ASSUME NEW p \in Procs, WriteQueue(p) PROVE Stores'
  <2>1. queue' = [queue EXCEPT ![scope] = job[p].list] /\ UNCHANGED <<local, copies, scope, newest>>
    BY <1>8 DEF WriteQueue
  <2>2. job[p].list \in [Keys -> Task] /\ IsList(job[p].list)
    BY Reading DEF Reads, Good, Job
  <2>3. Queues'
    <3> PICK l : l = job[p].list
      OBVIOUS
    <3> PICK s : s = scope
      OBVIOUS
    <3>1. s \in {"account", "anonymous"} /\ queue' = [queue EXCEPT ![s] = l] /\ l \in [Keys -> Task] /\ IsList(l)
      BY <1>0, <2>1, <2>2 DEF Rest
    <3> QED BY <1>0, <3>1, QueuesStand
  <2>4. Rest'
    BY <1>0, <2>1 DEF Rest
  <2> QED BY <1>1, <2>1, <2>3, <2>4, StoresAreNext
<1>9. ASSUME NEW p \in Procs, Copy(p) PROVE Stores'
  <2>1. UNCHANGED <<local, queue, scope, newest>> /\ Key(p) \in Keys
    BY <1>9, CopyEffect DEF past, noted
  <2>2. copies' = copies \cup ({IF job[p].op = "keep" THEN job[p].save.sum ELSE local[Key(p)].sum} \ {0})
    BY <1>9 DEF Copy
  <2>3. job[p].save.sum \in Nat /\ local[Key(p)].sum \in Nat
    BY <2>1, Reading DEF Job, Save, Stores
  <2>4. Rest'
    BY <1>0, <2>1, <2>2, <2>3 DEF Rest
  <2> QED BY <1>1, <1>2, <2>1, <2>4, StoresAreNext
<1>10. CASE SwitchScope
  <2>1. UNCHANGED <<local, copies, queue, newest>> /\ scope' = IF scope = "account" THEN "anonymous" ELSE "account"
    BY <1>10 DEF SwitchScope
  <2>2. Rest'
    BY <1>0, <2>1 DEF Rest
  <2> QED BY <1>1, <1>2, <2>1, <2>2, StoresAreNext
<1> QED BY <1>3, <1>4, <1>5, <1>6, <1>7, <1>8, <1>9, <1>10, StoreSteps DEF StoreStep, SaveStep

------------------------------------------------------------------------------
(* The line. *)

LEMMA IdleIs ==
  ASSUME Jobs, NEW p \in Procs, Idle(p)
  PROVE  job[p] = NoJob
<1>1. PICK j \in Job : j = job[p]
  BY Reading
<1>2. j.stages = <<>> /\ j.stages \in Plans(j.op) /\ Good(j)
  BY <1>1, Reading DEF Idle, Reads
<1>3. j.op = "none"
  BY <1>2 DEF Plans, Job
<1> QED BY <1>1, <1>2, <1>3 DEF Good

LEMMA Joined ==
  ASSUME line \in Seq(Procs), \A i, j \in DOMAIN line : line[i] = line[j] => i = j,
         NEW p \in Procs, p \notin ToSet(line), line' = Append(line, p)
  PROVE  /\ line' \in Seq(Procs) /\ \A i, j \in DOMAIN line' : line'[i] = line'[j] => i = j
         /\ ToSet(line') = ToSet(line) \cup {p} /\ \A q \in Procs : Running(q) => Running(q)'
<1>1. /\ line' \in Seq(Procs) /\ Len(line) \in Nat /\ Len(line') = Len(line) + 1 /\ line'[Len(line) + 1] = p
      /\ \A i \in 1 .. Len(line) : line'[i] = line[i]
  OBVIOUS
<1>2. DOMAIN line = 1 .. Len(line) /\ DOMAIN line' = 1 .. Len(line) + 1
  BY <1>1
<1>3. \A i \in DOMAIN line : line[i] # p
  BY DEF ToSet
<1>4. \A i \in DOMAIN line' : i \in DOMAIN line \/ i = Len(line) + 1
  BY <1>1, <1>2
<1>5. ASSUME NEW i \in DOMAIN line', NEW j \in DOMAIN line', line'[i] = line'[j] PROVE i = j
  BY <1>1, <1>2, <1>3, <1>4, <1>5
<1>6. ToSet(line') = ToSet(line) \cup {p}
  <2>1. ASSUME NEW x \in ToSet(line') PROVE x \in ToSet(line) \cup {p}
    BY <1>1, <1>2, <1>4, <2>1 DEF ToSet
  <2>2. ASSUME NEW x \in ToSet(line) PROVE x \in ToSet(line')
    <3>1. PICK i \in DOMAIN line : line[i] = x
      BY <2>2 DEF ToSet
    <3>2. i \in DOMAIN line' /\ line'[i] = x
      BY <1>1, <1>2, <3>1
    <3> QED BY <3>2 DEF ToSet
  <2>3. p \in ToSet(line')
    <3>1. Len(line) + 1 \in DOMAIN line'
      BY <1>1, <1>2
    <3> QED BY <1>1, <3>1 DEF ToSet
  <2> QED BY <2>1, <2>2, <2>3
<1>7. ASSUME NEW q \in Procs, Running(q) PROVE Running(q)'
  <2>1. line # <<>> /\ line[1] = q
    BY <1>7 DEF Running
  <2>2. 1 \in 1 .. Len(line)
    BY <1>1, <2>1
  <2>3. line'[1] = q /\ line' # <<>>
    BY <1>1, <2>1, <2>2
  <2> QED BY <1>1, <2>3 DEF Running
<1> QED BY <1>1, <1>5, <1>6, <1>7

LEMMA TailIs ==
  ASSUME line \in Seq(Procs), \A i, j \in DOMAIN line : line[i] = line[j] => i = j,
         NEW p \in Procs, Running(p), line' = Tail(line)
  PROVE  /\ line' \in Seq(Procs) /\ \A i, j \in DOMAIN line' : line'[i] = line'[j] => i = j
         /\ ToSet(line') = ToSet(line) \ {p}
<1>1. /\ line # <<>> /\ line[1] = p /\ line' \in Seq(Procs) /\ Len(line) \in Nat \ {0} /\ Len(line') = Len(line) - 1
      /\ \A i \in 1 .. Len(line) - 1 : line'[i] = line[i + 1]
  BY DEF Running
<1>2. DOMAIN line = 1 .. Len(line) /\ DOMAIN line' = 1 .. Len(line) - 1
  BY <1>1
<1>3. \A i \in DOMAIN line' : i + 1 \in DOMAIN line /\ line'[i] = line[i + 1] /\ i + 1 # 1 /\ i \in Int
  BY <1>1, <1>2
<1>4. ASSUME NEW i \in DOMAIN line', NEW j \in DOMAIN line', line'[i] = line'[j] PROVE i = j
  <2>1. i + 1 = j + 1
    BY <1>3, <1>4
  <2> QED BY <1>3, <2>1
<1>5. ToSet(line') = ToSet(line) \ {p}
  <2>1. ASSUME NEW x \in ToSet(line') PROVE x \in ToSet(line) \ {p}
    <3>1. PICK i \in DOMAIN line' : line'[i] = x
      BY <2>1 DEF ToSet
    <3>2. i + 1 \in DOMAIN line /\ line[i + 1] = x /\ 1 \in DOMAIN line
      BY <1>1, <1>2, <1>3, <3>1
    <3>3. x # p
      BY <1>1, <1>3, <3>1, <3>2
    <3> QED BY <3>2, <3>3 DEF ToSet
  <2>2. ASSUME NEW x \in ToSet(line), x # p PROVE x \in ToSet(line')
    <3>1. PICK i \in DOMAIN line : line[i] = x
      BY <2>2 DEF ToSet
    <3>2. i # 1 /\ i \in 1 .. Len(line)
      BY <1>1, <1>2, <2>2, <3>1
    <3>3. i - 1 \in 1 .. Len(line) - 1 /\ (i - 1) + 1 = i
      BY <1>1, <3>2
    <3>4. line'[i - 1] = x /\ i - 1 \in DOMAIN line'
      BY <1>1, <1>2, <3>1, <3>3
    <3> QED BY <3>4 DEF ToSet
  <2> QED BY <2>1, <2>2
<1> QED BY <1>1, <1>4, <1>5

\* Where an operation is after a step that leaves the line as it is: it is not in line, or it
\* is where it was, or it has moved on because it may run.
Onward(q) ==
  \/ job[q].op \notin InLine /\ job'[q].op \notin InLine
  \/ /\ job'[q].op = job[q].op
     /\ job'[q].stages = job[q].stages \/ job[q].stages # <<"due">> \/ Running(q)
\* p takes its place at the end of the line; p has left.
Joins(p) ==
  /\ job[p].op \notin InLine /\ job'[p].op \in InLine /\ job'[p].stages = <<"due">>
  /\ line' = Append(line, p) /\ \A q \in Procs \ {p} : job'[q] = job[q]
Leaves(p) == Ends(p) /\ (Running(p) \/ job[p].op \notin InLine)
LineStep ==
  \/ line' = line /\ \A q \in Procs : Onward(q)
  \/ \E p \in Procs : Joins(p) \/ Leaves(p)
  \/ Kill

LEMMA OthersOnward ==
  ASSUME NEW p \in Procs, \A q \in Procs \ {p} : job'[q] = job[q], Onward(p), line' = line
  PROVE  LineStep
BY DEF LineStep, Onward

LEMMA NotDue ==
  ASSUME NEW p \in Procs, NEW x, At(p, x), x # "due"
  PROVE  job[p].stages # <<"due">>
BY DEF At

LEMMA MovesOn ==
  ASSUME NEW p \in Procs, NEW stages, NEW todo, NEW task, NEW save, NEW list, line' = line,
         Becomes(p, stages, todo, task, save, list), job[p].stages # <<"due">> \/ Running(p)
  PROVE  LineStep
BY OthersOnward DEF Becomes, Has, Onward

LEMMA Quits ==
  ASSUME Line, NEW p \in Procs, NEW x, At(p, x), x # "due", Ends(p)
  PROVE  LineStep
BY NotDue DEF LineStep, Leaves, Line, Ends

LEMMA StageLine ==
  ASSUME Stores, Server, Jobs, Line, Ids, NEW p \in Procs, Stage(p)
  PROVE  LineStep
<1>1. CASE ReadQueue(p)
  <2>1. PICK stage \in QueueStages :
          /\ At(p, stage)
          /\ Moves(p, Tail(job[p].stages))
             \/ Becomes(p, <<"write">> \o job[p].stages, job[p].todo, job[p].task, job[p].save, job'[p].list)
    BY <1>1, ReadEffect
  <2>2. job[p].stages # <<"due">>
    BY <2>1, NotDue DEF QueueStages
  <2>3. line' = line
    BY <1>1 DEF ReadQueue
  <2> QED BY <2>1, <2>2, <2>3, MovesOn DEF Moves
<1>2. CASE WriteQueue(p)
  <2>1. /\ At(p, "write")
        /\ \/ Tail(Tail(job[p].stages)) = <<>> /\ job'[p] = NoJob
           \/ Has(p, Tail(Tail(job[p].stages)), job[p].todo, job[p].task, job[p].save, NoList)
        /\ \A q \in Procs \ {p} : Stays(q)
    BY <1>2, WriteEffect
  <2>2. job[p].stages # <<"due">> /\ line' = line
    BY <1>2, <2>1, NotDue DEF WriteQueue
  <2>3. ASSUME Tail(Tail(job[p].stages)) = <<>>, job'[p] = NoJob PROVE Onward(p)
    <3>1. job[p].op \notin InLine
      <4>1. \/ job[p].op \notin InLine
            \/ job[p].stages \in {<<"write", "clear", "erase">>, <<"write", "back", "next">>}
            \/ job[p].stages \in {<<"write", "complete", "next">>, <<"write", "conflict", "next">>, <<"write", "delay", "next">>, <<"write", "fail", "next">>}
        BY <2>1, Reading, AtStage DEF InLine
      <4>2. /\ Tail(Tail(<<"write", "clear", "erase">>)) # <<>> /\ Tail(Tail(<<"write", "back", "next">>)) # <<>>
            /\ Tail(Tail(<<"write", "complete", "next">>)) # <<>> /\ Tail(Tail(<<"write", "conflict", "next">>)) # <<>>
            /\ Tail(Tail(<<"write", "delay", "next">>)) # <<>> /\ Tail(Tail(<<"write", "fail", "next">>)) # <<>>
        BY Afters
      <4> QED BY <2>3, <4>1, <4>2
    <3> QED BY <2>3, <3>1 DEF Onward, NoJob, InLine
  <2>4. Onward(p)
    BY <2>1, <2>2, <2>3 DEF Has, Onward
  <2>5. \A q \in Procs \ {p} : Onward(q)
    BY <2>1 DEF Stays, Has, Onward
  <2> QED BY <2>2, <2>4, <2>5 DEF LineStep
<1>3. ASSUME Thrown(p), At(p, "write") \/ At(p, "update") PROVE LineStep
  <2>1. CASE Ends(p)
    BY <1>3, <2>1, Quits
  <2>2. CASE line' = line /\ Becomes(p, <<"delay", "next">>, job[p].todo, job[p].task, job[p].save, NoList)
    BY <1>3, <2>2, MovesOn, NotDue
  <2> QED BY <1>3, <2>1, <2>2, ThrownEffect
<1>4. CASE WriteFails(p)
  BY <1>3, <1>4 DEF WriteFails
<1>5. CASE Join(p)
  <2>1. Gets(p, New("run", {}, <<"due">>, NoTask, NoSave)) /\ line' = Append(line, p) /\ At(p, "run")
    BY <1>5, JoinEffect
  <2>2. job[p].op \notin InLine
    BY <2>1, Reading, AtStage DEF InLine
  <2>3. job'[p].op = "run" /\ job'[p].stages = <<"due">>
    BY <2>1 DEF Gets, New
  <2> QED BY <2>1, <2>2, <2>3 DEF LineStep, Joins, Gets, InLine
<1>6. CASE RunDue(p)
  <2>1. Running(p)
    BY <1>6 DEF RunDue
  <2>2. CASE Ends(p)
    BY <2>1, <2>2 DEF LineStep, Leaves
  <2>3. CASE line' = line /\ Becomes(p, <<"next">>, job'[p].todo, job[p].task, job[p].save, job[p].list)
    BY <2>1, <2>3, MovesOn
  <2> QED BY <1>6, <2>2, <2>3, RunDueEffect
<1>7. CASE DeleteDue(p)
  BY <1>7, DeleteDueEffect, MovesOn
<1>8. CASE NoneLeft(p)
  BY <1>8, EndEffect, Quits DEF NoneLeft
<1>9. CASE RunTask(p)
  <2>1. \A t \in job[p].todo : t.key \in Keys
    BY Reading DEF Reads, Good, IsTask
  <2>2. PICK t \in job[p].todo : Becomes(p, job'[p].stages, job[p].todo \ {t}, t, local[t.key], job[p].list)
    BY <1>9, <2>1, RunTaskEffect
  <2> QED BY <1>9, <2>2, MovesOn, NotDue DEF RunTask
<1>10. CASE RestoreTask(p)
  <2>1. PICK t \in job[p].todo : Becomes(p, <<"back", "next">>, job[p].todo \ {t}, t, job[p].save, job[p].list)
    BY <1>10, RestoreTaskEffect
  <2> QED BY <1>10, <2>1, MovesOn, NotDue DEF RestoreTask
<1>11. CASE Upload(p)
  <2>1. At(p, "upload") /\ line' = line
    BY <1>11 DEF Upload
  <2>2. \E stages, task, save : Becomes(p, stages, job[p].todo, task, save, job[p].list)
    BY <1>11, UploadEffect
  <2> QED BY <2>1, <2>2, MovesOn, NotDue
<1>12. CASE Erase(p)
  BY <1>12, EraseEffect, Quits, MovesOn, NotDue DEF Moves
<1>13. CASE UpdateCloudRevision(p)
  <2>1. At(p, "update")
    BY <1>13 DEF UpdateCloudRevision
  <2> PICK k : k = IF job[p].op = "keep" THEN Key(p) ELSE job[p].task.key
    OBVIOUS
  <2>2. \/ Thrown(p)
        \/ line' = line /\ \E v \in Save : Becomes(p, Tail(job[p].stages), job[p].todo, job[p].task, v, job[p].list)
    BY <1>13, UpdateEffect
  <2> QED BY <1>3, <2>1, <2>2, MovesOn, NotDue
<1>14. CASE StageFails(p)
  BY <1>14, EndEffect, Quits DEF StageFails
<1>15. CASE Fetch(p)
  <2>1. At(p, "fetch")
    BY <1>15 DEF Fetch
  <2> QED BY <1>15, <2>1, FetchEffect, Quits, MovesOn, NotDue
<1>16. CASE Copy(p)
  BY <1>16, CopyEffect, MovesOn, NotDue DEF Moves
<1>17. CASE Put(p)
  <2>1. At(p, "put") /\ line' = line /\ job[p].op \notin InLine
    BY <1>17, PutEffect DEF InLine
  <2>2. CASE Gets(p, NoJob)
    <3>1. Onward(p)
      BY <2>1, <2>2 DEF Gets, Onward, NoJob, InLine
    <3> QED BY <2>1, <2>2, <3>1, OthersOnward DEF Gets
  <2>3. CASE Moves(p, <<"complete">>)
    BY <2>1, <2>3, MovesOn, NotDue DEF Moves
  <2> QED BY <1>17, <2>2, <2>3, PutEffect
<1>18. CASE Heads(p)
  <2>1. At(p, "heads")
    BY <1>18 DEF Heads
  <2> QED BY <1>18, <2>1, HeadsEffect, Quits, MovesOn, NotDue
<1>19. CASE Revive(p)
  <2>1. At(p, "revive")
    BY <1>19 DEF Revive
  <2> QED BY <1>19, <2>1, ReviveEffect, Quits, MovesOn, NotDue
<1> QED BY <1>1, <1>2, <1>4, <1>5, <1>6, <1>7, <1>8, <1>9, <1>10, <1>11, <1>12, <1>13, <1>14, <1>15, <1>16, <1>17, <1>18, <1>19
        DEF Stage

LEMMA LineSteps ==
  ASSUME Stores, Server, Jobs, Line, Ids, [Next]_vars
  PROVE  LineStep
<1>1. ASSUME NEW p \in Procs, Begin(p) PROVE LineStep
  <2>1. PICK j \in Job : Begun(p, j)
    BY <1>1, Begins
  <2>2. job[p] = NoJob /\ job'[p] = j
    BY <2>1, IdleIs DEF Begun, Gets
  <2>3. job[p].op \notin InLine
    BY <2>2 DEF NoJob, InLine
  <2>4. CASE j.op = "delete" /\ j.stages = <<"due">> /\ line' = Append(line, p)
    BY <2>1, <2>2, <2>3, <2>4 DEF LineStep, Joins, Begun, Gets, InLine
  <2>5. CASE j.op \in Ops \ {"delete"} /\ line' = line
    <3>1. Onward(p)
      BY <2>2, <2>3, <2>5 DEF Onward, Ops, InLine
    <3> QED BY <2>1, <2>5, <3>1, OthersOnward DEF Begun, Gets
  <2> QED BY <2>1, <2>4, <2>5 DEF Begun
<1>2. ASSUME UNCHANGED <<job, line>> PROVE LineStep
  BY <1>2 DEF LineStep, Onward
<1>3. ASSUME NEW k \in Keys, RemoveLocal(k) \/ OtherUpload(k) \/ OtherDelete(k) PROVE LineStep
  BY <1>2, <1>3 DEF RemoveLocal, OtherUpload, OtherDelete
<1>4. CASE SwitchScope
  BY <1>2, <1>4 DEF SwitchScope
<1>5. CASE UNCHANGED vars
  BY <1>2, <1>5 DEF vars
<1>6. CASE Kill
  BY <1>6 DEF LineStep
<1> QED BY <1>1, <1>3, <1>4, <1>5, <1>6, StageLine DEF Next

LEMMA LineNext ==
  ASSUME Stores, Server, Jobs, Line, Ids, [Next]_vars
  PROVE  Line'
<1>1. LineStep
  BY LineSteps
<1>2. CASE line' = line /\ \A q \in Procs : Onward(q)
  <2>1. \A q \in Procs : job'[q].op \in InLine <=> job[q].op \in InLine
    BY <1>2 DEF Onward
  <2>2. \A q \in Procs : Running(q)' <=> Running(q)
    BY <1>2 DEF Running
  <2>3. ASSUME NEW q \in Procs, job'[q].op \in InLine, job'[q].stages # <<"due">> PROVE Running(q)
    BY <1>2, <2>3 DEF Onward, Line
  <2> QED BY <1>2, <2>1, <2>2, <2>3 DEF Line
<1>3. ASSUME NEW p \in Procs, Joins(p) PROVE Line'
  <2>1. p \notin ToSet(line)
    BY <1>3 DEF Joins, Line
  <2>2. /\ line' \in Seq(Procs) /\ \A i, j \in DOMAIN line' : line'[i] = line'[j] => i = j
        /\ ToSet(line') = ToSet(line) \cup {p} /\ \A q \in Procs : Running(q) => Running(q)'
    BY <1>3, <2>1, Joined DEF Joins, Line
  <2>3. \A q \in Procs : q \in ToSet(line') <=> job'[q].op \in InLine
    BY <1>3, <2>2 DEF Joins, Line
  <2>4. \A q \in Procs : job'[q].op \in InLine /\ job'[q].stages # <<"due">> => Running(q)'
    BY <1>3, <2>2 DEF Joins, Line
  <2> QED BY <2>2, <2>3, <2>4 DEF Line
<1>4. ASSUME NEW p \in Procs, Leaves(p) PROVE Line'
  <2>1. /\ job'[p] = NoJob /\ \A q \in Procs \ {p} : job'[q] = job[q]
        /\ line' = IF Running(p) THEN Tail(line) ELSE line
    BY <1>4 DEF Leaves, Ends, Gets
  <2>2. job'[p].op \notin InLine
    BY <2>1 DEF NoJob, InLine
  <2>3. CASE Running(p)
    <3>1. /\ line' \in Seq(Procs) /\ \A i, j \in DOMAIN line' : line'[i] = line'[j] => i = j
          /\ ToSet(line') = ToSet(line) \ {p}
      BY <2>1, <2>3, TailIs DEF Line
    <3>2. \A q \in Procs : q \in ToSet(line') <=> job'[q].op \in InLine
      BY <2>1, <2>2, <3>1 DEF Line
    <3>3. ASSUME NEW q \in Procs, job'[q].op \in InLine, job'[q].stages # <<"due">> PROVE FALSE
      <4>1. q # p /\ Running(q)
        BY <2>1, <2>2, <3>3 DEF Line
      <4> QED BY <2>3, <4>1 DEF Running
    <3> QED BY <3>1, <3>2, <3>3 DEF Line
  <2>4. CASE ~Running(p)
    <3>1. line' = line /\ job[p].op \notin InLine
      BY <1>4, <2>1, <2>4 DEF Leaves
    <3>2. \A q \in Procs : Running(q)' <=> Running(q)
      BY <3>1 DEF Running
    <3> QED BY <2>1, <2>2, <3>1, <3>2 DEF Line
  <2> QED BY <2>3, <2>4
<1>5. CASE Kill
  <2>1. line' = <<>> /\ job' = [p \in Procs |-> NoJob]
    BY <1>5 DEF Kill
  <2>2. ToSet(<<>>) = {}
    BY PlanSets
  <2>3. \A p \in Procs : job'[p].op \notin InLine
    BY <2>1 DEF NoJob, InLine
  <2> QED BY <2>1, <2>2, <2>3 DEF Line
<1> QED BY <1>1, <1>2, <1>3, <1>4, <1>5 DEF LineStep

------------------------------------------------------------------------------
(* The tasks. *)

\* A task that was held before, perhaps in another state.
Known(t) == t.id = 0 \/ \E u \in Task : Held(u) /\ Same(t, u)
KnownJob(j) == Known(j.task) /\ (\A t \in j.todo : Known(t)) /\ \A k \in Keys : Known(j.list[k])
AllKnown == \A t \in Task : Held(t)' => Known(t)
\* f is the task that is enqueued, if any is.
Issued(f) == AllKnown \/ \E p \in Procs : At(p, "enqueue") /\ f = Fresh(p)
Kept == \E f \in Task : /\ f.id = issued + 1 /\ (\A t \in Task : Held(t)' => Known(t) \/ t = f)
                       /\ Issued(f)

LEMMA HeldKnown ==
  ASSUME Stores, Jobs
  PROVE  /\ \A t \in Task : Held(t) => Known(t)
         /\ \A s \in {"account", "anonymous"} : \A k \in Keys : Known(queue[s][k])
         /\ \A p \in Procs : KnownJob(job[p])
<1>1. \A t \in Task : Held(t) => Known(t)
  BY DEF Known, Same
<1>2. ASSUME NEW s \in {"account", "anonymous"}, NEW k \in Keys PROVE Known(queue[s][k])
  <2>1. queue[s][k] \in Task /\ Held(queue[s][k])
    BY DEF Stores, Held
  <2> QED BY <1>1, <2>1
<1>3. ASSUME NEW p \in Procs PROVE KnownJob(job[p])
  <2> PICK j \in Job : j = job[p]
    BY Reading
  <2>1. j.task \in Task /\ j.todo \subseteq Task /\ \A k \in Keys : j.list[k] \in Task
    BY DEF Job
  <2>2. Held(j.task) /\ (\A t \in j.todo : Held(t)) /\ \A k \in Keys : Held(j.list[k])
    BY DEF Held
  <2> QED BY <1>1, <2>1, <2>2 DEF KnownJob
<1> QED BY <1>1, <1>2, <1>3

LEMMA HeldIds ==
  ASSUME Stores, Server, Jobs, NEW t \in Task, Held(t)
  PROVE  t.id \in 0 .. issued
<1>1. issued \in Nat /\ NoTask.id = 0
  BY DEF Server, NoTask
<1>2. \A u : u = NoTask \/ IsTask(u) => u.id \in 0 .. issued
  BY <1>1 DEF IsTask
<1>3. ASSUME NEW s \in {"account", "anonymous"}, NEW k \in Keys, t = queue[s][k] PROVE t.id \in 0 .. issued
  BY <1>2, <1>3 DEF Stores, IsList
<1>4. ASSUME NEW p \in Procs, t = job[p].task \/ t \in job[p].todo \/ \E k \in Keys : t = job[p].list[k]
      PROVE  t.id \in 0 .. issued
  <2>1. Good(job[p])
    BY Reading DEF Reads
  <2> QED BY <1>1, <1>2, <1>4, <2>1 DEF Good, IsList
<1> QED BY <1>3, <1>4 DEF Held

LEMMA HeldKeys ==
  ASSUME Stores, Server, Jobs, NEW t \in Task, Held(t), t.id # 0
  PROVE  t.key \in Keys
<1>1. NoTask.id = 0
  BY DEF NoTask
<1>2. \A u : u.id # 0 /\ (u = NoTask \/ IsTask(u)) => u.key \in Keys
  BY <1>1 DEF IsTask
<1>3. ASSUME NEW s \in {"account", "anonymous"}, NEW k \in Keys, t = queue[s][k] PROVE t.key \in Keys
  BY <1>2, <1>3 DEF Stores, IsList
<1>4. ASSUME NEW p \in Procs, t = job[p].task \/ t \in job[p].todo \/ \E k \in Keys : t = job[p].list[k]
      PROVE  t.key \in Keys
  <2>1. Good(job[p])
    BY Reading DEF Reads
  <2> QED BY <1>2, <1>4, <2>1 DEF Good, IsList, IsTask
<1> QED BY <1>3, <1>4 DEF Held

LEMMA KnownStays ==
  ASSUME Stores, Jobs, queue' = queue, \A q \in Procs : KnownJob(job'[q])
  PROVE  AllKnown
BY HeldKnown DEF AllKnown, Held, KnownJob

LEMMA KnownMoves ==
  ASSUME Stores, Jobs, NEW p \in Procs, Only(p), KnownJob(job'[p]), queue' = queue
  PROVE  AllKnown
<1>1. \A q \in Procs : KnownJob(job'[q])
  BY HeldKnown DEF Only
<1> QED BY <1>1, KnownStays

LEMMA KnownBecomes ==
  ASSUME Stores, Jobs, NEW p \in Procs, queue' = queue, NEW stages, NEW todo, NEW task, NEW save, NEW list,
         Becomes(p, stages, todo, task, save, list), Known(task), \A t \in todo : Known(t),
         list = job[p].list \/ list = NoList
  PROVE  AllKnown
<1>1. Only(p)
  BY DEF Becomes, Only
<1>2. job'[p].task = task /\ job'[p].todo = todo /\ job'[p].list = list
  BY DEF Becomes, Has
<1>3. \A k \in Keys : Known(NoList[k])
  BY DEF NoList, NoTask, Known
<1>4. KnownJob(job'[p])
  BY <1>2, <1>3, HeldKnown DEF KnownJob
<1> QED BY <1>1, <1>4, KnownMoves

LEMMA NoJobKnown == KnownJob(NoJob)
BY DEF KnownJob, Known, NoJob, NoTask, NoList

LEMMA EndsKnown ==
  ASSUME Stores, Jobs, NEW p \in Procs, queue' = queue, Ends(p)
  PROVE  AllKnown
<1>1. Only(p) /\ KnownJob(job'[p])
  BY NoJobKnown DEF Ends, Gets, Only
<1> QED BY <1>1, KnownMoves

LEMMA BeginKnown ==
  ASSUME Stores, Jobs, NEW p \in Procs, NEW j \in Job, Begun(p, j)
  PROVE  AllKnown
<1>1. Only(p) /\ job'[p] = j /\ queue' = queue
  BY DEF Begun, Gets, Only
<1>2. Known(j.task)
  <2>1. CASE j.task.id = 0
    BY <2>1 DEF Known
  <2>2. ASSUME NEW k \in Keys, j.task = queue[scope][k] PROVE Known(j.task)
    BY <2>2, HeldKnown DEF Stores
  <2> QED BY <2>1, <2>2 DEF Begun
<1>3. \A k \in Keys : Known(j.list[k])
  BY DEF Begun, NoList, NoTask, Known
<1>4. KnownJob(j)
  BY <1>2, <1>3 DEF Begun, KnownJob
<1> QED BY <1>1, <1>4, KnownMoves

LEMMA SomeKept ==
  ASSUME Server, AllKnown
  PROVE  Kept
<1>1. PICK f : f = [key |-> None, id |-> issued + 1, rev |-> 0, sum |-> 0, due |-> "now", head |-> None]
  OBVIOUS
<1>2. f \in Task /\ f.id = issued + 1
  BY <1>1 DEF Server, Task, None
<1> QED BY <1>2 DEF AllKnown, Kept, Issued

LEMMA EditKnown ==
  ASSUME Stores, Jobs, NEW p \in Procs, NEW stage \in QueueStages, NEW l \in [Keys -> Task], NEW fresh, NEW k \in Keys,
         Edit(p, stage, queue[scope], l, fresh, k)
  PROVE  Known(l[k]) \/ (stage = "enqueue" /\ l[k] = fresh)
<1>1. Known(queue[scope][k]) /\ Known(job[p].task) /\ Known(NoTask)
  BY HeldKnown DEF KnownJob, Stores, NoTask, Known
<1>2. CASE l[k] \in {queue[scope][k], job[p].task, NoTask}
  BY <1>1, <1>2
<1>3. CASE stage = "enqueue" /\ l[k] = fresh
  BY <1>3
<1>4. CASE Same(l[k], queue[scope][k])
  <2>1. queue[scope][k] \in Task /\ Held(queue[scope][k])
    BY DEF Stores, Held
  <2> QED BY <1>4, <2>1 DEF Known
<1> QED BY <1>2, <1>3, <1>4 DEF Edit

LEMMA ReadKept ==
  ASSUME Stores, Server, Jobs, NEW p \in Procs, ReadQueue(p)
  PROVE  Kept
<1>0. queue' = queue
  BY DEF ReadQueue, phone
<1>1. PICK stage \in QueueStages :
        /\ stage = "enqueue" => Fresh(p) \in Task /\ At(p, "enqueue")
        /\ \/ Moves(p, Tail(job[p].stages))
           \/ /\ Becomes(p, <<"write">> \o job[p].stages, job[p].todo, job[p].task, job[p].save, job'[p].list)
              /\ job'[p].list \in [Keys -> Task]
              /\ \A k \in Keys : Edit(p, stage, queue[scope], job'[p].list, Fresh(p), k)
  BY ReadEffect
<1>2. CASE Moves(p, Tail(job[p].stages))
  <2>1. AllKnown
    BY <1>0, <1>2, KnownBecomes, HeldKnown DEF Moves, KnownJob
  <2> QED BY <2>1, SomeKept
<1>3. ASSUME Becomes(p, <<"write">> \o job[p].stages, job[p].todo, job[p].task, job[p].save, job'[p].list),
             NEW l \in [Keys -> Task], l = job'[p].list, NEW fresh, fresh = Fresh(p),
             \A k \in Keys : Edit(p, stage, queue[scope], l, fresh, k)
      PROVE  Kept
  <2>1. \A k \in Keys : Known(l[k]) \/ (stage = "enqueue" /\ l[k] = fresh)
    BY <1>3, EditKnown
  <2>2. /\ job'[p].task = job[p].task /\ job'[p].todo = job[p].todo /\ \A q \in Procs \ {p} : job'[q] = job[q]
    BY <1>3 DEF Becomes, Has
  <2>3. ASSUME NEW t \in Task, Held(t)' PROVE Known(t) \/ (stage = "enqueue" /\ t = fresh)
    <3>1. CASE \E s \in {"account", "anonymous"} : \E k \in Keys : t = queue'[s][k]
      BY <1>0, <3>1, HeldKnown
    <3>2. ASSUME NEW q \in Procs, q # p, t = job'[q].task \/ t \in job'[q].todo \/ \E k \in Keys : t = job'[q].list[k]
          PROVE  Known(t)
      BY <2>2, <3>2, HeldKnown DEF KnownJob
    <3>3. CASE t = job'[p].task \/ t \in job'[p].todo
      BY <2>2, <3>3, HeldKnown DEF KnownJob
    <3>4. ASSUME NEW k \in Keys, t = job'[p].list[k] PROVE Known(t) \/ (stage = "enqueue" /\ t = fresh)
      BY <1>3, <2>1, <3>4
    <3> QED BY <2>3, <3>1, <3>2, <3>3, <3>4 DEF Held
  <2>4. CASE stage = "enqueue"
    <3>1. fresh \in Task /\ fresh.id = issued + 1 /\ At(p, "enqueue") /\ fresh = Fresh(p)
      BY <1>1, <1>3, <2>4 DEF Fresh
    <3> QED BY <2>3, <3>1 DEF Kept, Issued
  <2>5. CASE stage # "enqueue"
    BY <2>3, <2>5, SomeKept DEF AllKnown
  <2> QED BY <2>4, <2>5
<1> QED BY <1>1, <1>2, <1>3

LEMMA WriteKnown ==
  ASSUME Stores, Server, Jobs, NEW p \in Procs, WriteQueue(p)
  PROVE  AllKnown
<1>1. /\ job'[p] = NoJob \/ Has(p, Tail(Tail(job[p].stages)), job[p].todo, job[p].task, job[p].save, NoList)
      /\ \A q \in Procs \ {p} : Stays(q)
  BY WriteEffect
<1>2. queue' = [queue EXCEPT ![scope] = job[p].list]
  BY DEF WriteQueue
<1>3. ASSUME NEW s \in {"account", "anonymous"}, NEW k \in Keys PROVE Known(queue'[s][k])
  <2> PICK j \in Job : j = job[p]
    BY Reading
  <2>1. queue'[s] = queue[s] \/ queue'[s] = j.list
    BY <1>2 DEF Stores
  <2> QED BY <2>1, HeldKnown DEF KnownJob
<1>4. KnownJob(job'[p])
  <2>1. \A k \in Keys : Known(NoList[k])
    BY DEF NoList, NoTask, Known
  <2> QED BY <1>1, <2>1, NoJobKnown, HeldKnown DEF Has, KnownJob
<1>5. \A q \in Procs \ {p} : KnownJob(job'[q])
  BY <1>1, HeldKnown DEF Stays, Has, KnownJob
<1> QED BY <1>3, <1>4, <1>5 DEF AllKnown, Held, KnownJob

LEMMA StageKept ==
  ASSUME Stores, Server, Jobs, Ids, NEW p \in Procs, Stage(p)
  PROVE  Kept
<1>0. KnownJob(job[p]) /\ Known(NoTask)
  BY HeldKnown DEF Known, NoTask
<1>1. CASE WriteQueue(p)
  BY <1>1, WriteKnown, SomeKept
<1>2. SUFFICES ASSUME ~WriteQueue(p), ~ReadQueue(p) PROVE AllKnown
  BY <1>1, ReadKept, SomeKept
<1>3. queue' = queue
  BY <1>2 DEF Stage, phone, WriteFails, Join, RunDue, DeleteDue, NoneLeft, RunTask, RestoreTask, Upload, Erase,
              UpdateCloudRevision, StageFails, Fetch, Copy, Put, Heads, Revive
<1>4. ASSUME Thrown(p), At(p, "write") \/ At(p, "update") PROVE AllKnown
  <2>1. CASE Ends(p)
    BY <1>3, <2>1, EndsKnown
  <2>2. CASE Becomes(p, <<"delay", "next">>, job[p].todo, job[p].task, job[p].save, NoList)
    BY <1>0, <1>3, <2>2, KnownBecomes DEF KnownJob
  <2> QED BY <1>4, <2>1, <2>2, ThrownEffect
<1>5. CASE WriteFails(p)
  BY <1>4, <1>5 DEF WriteFails
<1>6. CASE Join(p)
  <2>1. Gets(p, New("run", {}, <<"due">>, NoTask, NoSave))
    BY <1>6, JoinEffect
  <2>2. Only(p) /\ KnownJob(job'[p])
    BY <1>0, <2>1 DEF Gets, New, KnownJob, Only, NoList, NoTask, Known
  <2> QED BY <1>3, <2>2, KnownMoves
<1>7. \A k \in Keys : Known(queue[scope][k])
  BY HeldKnown DEF Stores
<1>8. CASE RunDue(p)
  <2>1. CASE Ends(p)
    BY <1>3, <2>1, EndsKnown
  <2>2. CASE job'[p].todo \subseteq Tasks(Keys) /\ Becomes(p, <<"next">>, job'[p].todo, job[p].task, job[p].save, job[p].list)
    <3>1. \A t \in job'[p].todo : Known(t)
      BY <1>7, <2>2, TasksAre
    <3> QED BY <1>0, <1>3, <2>2, <3>1, KnownBecomes DEF KnownJob
  <2> QED BY <1>8, <2>1, <2>2, RunDueEffect
<1>9. CASE DeleteDue(p)
  <2>1. Becomes(p, <<"clear", "erase">>, Tasks(job[p].keys), job[p].task, job[p].save, job[p].list)
    BY <1>9, DeleteDueEffect
  <2>2. job[p].keys \in SUBSET Keys
    BY Reading DEF Job
  <2>3. \A t \in Tasks(job[p].keys) : Known(t)
    BY <1>7, <2>2, TasksAre
  <2> QED BY <1>0, <1>3, <2>1, <2>3, KnownBecomes DEF KnownJob
<1>10. CASE NoneLeft(p)
  BY <1>3, <1>10, EndEffect, EndsKnown DEF NoneLeft
<1>11. CASE RunTask(p)
  <2>1. \A t \in job[p].todo : t.key \in Keys
    BY Reading DEF Reads, Good, IsTask
  <2>2. PICK t \in job[p].todo : Becomes(p, job'[p].stages, job[p].todo \ {t}, t, local[t.key], job[p].list)
    BY <1>11, <2>1, RunTaskEffect
  <2> QED BY <1>0, <1>3, <2>2, KnownBecomes DEF KnownJob
<1>12. CASE RestoreTask(p)
  <2>1. PICK t \in job[p].todo : Becomes(p, <<"back", "next">>, job[p].todo \ {t}, t, job[p].save, job[p].list)
    BY <1>12, RestoreTaskEffect
  <2> QED BY <1>0, <1>3, <2>1, KnownBecomes DEF KnownJob
<1>13. ASSUME NEW u \in Task, NEW t \in Task, t = job[p].task, Same(u, t) PROVE Known(u)
  <2>1. Held(t)
    BY <1>13 DEF Held
  <2> QED BY <1>13, <2>1 DEF Known
<1>14. CASE Upload(p)
  <2>1. PICK t \in Task : t = job[p].task
    BY Reading DEF Job
  <2>2. \E stages, task, save : /\ Becomes(p, stages, job[p].todo, task, save, job[p].list)
                                /\ task = t \/ (task \in Task /\ Same(task, t))
    BY <1>14, <2>1, UploadEffect
  <2> QED BY <1>0, <1>3, <1>13, <2>1, <2>2, KnownBecomes DEF KnownJob
<1>15. CASE Erase(p)
  BY <1>0, <1>3, <1>15, EraseEffect, EndsKnown, KnownBecomes DEF Moves, KnownJob
<1>16. CASE UpdateCloudRevision(p)
  <2>1. At(p, "update")
    BY <1>16 DEF UpdateCloudRevision
  <2> PICK k : k = IF job[p].op = "keep" THEN Key(p) ELSE job[p].task.key
    OBVIOUS
  <2>2. Thrown(p) \/ \E v \in Save : Becomes(p, Tail(job[p].stages), job[p].todo, job[p].task, v, job[p].list)
    BY <1>16, UpdateEffect
  <2> QED BY <1>0, <1>3, <1>4, <2>1, <2>2, KnownBecomes DEF KnownJob
<1>17. CASE StageFails(p)
  BY <1>3, <1>17, EndEffect, EndsKnown DEF StageFails
<1>18. CASE Fetch(p)
  BY <1>0, <1>3, <1>18, FetchEffect, EndsKnown, KnownBecomes DEF KnownJob
<1>19. CASE Copy(p)
  BY <1>0, <1>3, <1>19, CopyEffect, KnownBecomes DEF Moves, KnownJob
<1>20. CASE Put(p)
  <2>1. CASE Gets(p, NoJob)
    BY <1>3, <2>1, NoJobKnown, KnownMoves DEF Gets, Only
  <2>2. CASE Moves(p, <<"complete">>)
    BY <1>0, <1>3, <2>2, KnownBecomes DEF Moves, KnownJob
  <2> QED BY <1>20, <2>1, <2>2, PutEffect
<1>21. CASE Heads(p)
  BY <1>0, <1>3, <1>21, HeadsEffect, EndsKnown, KnownBecomes DEF KnownJob
<1>22. CASE Revive(p)
  <2>1. ASSUME NEW u \in Task, u.id = job[p].task.id, Becomes(p, Tail(job[p].stages), job[p].todo, u, job[p].save, job[p].list)
        PROVE  AllKnown
    <3>1. job[p].op = "version"
      BY <1>22, Reading, AtStage DEF Revive
    <3>2. job[p].task.id = 0
      BY <3>1, Reading DEF Reads, Good
    <3> QED BY <1>0, <1>3, <2>1, <3>2, KnownBecomes DEF Known, KnownJob
  <2> QED BY <1>3, <1>22, <2>1, ReviveEffect, EndsKnown
<1> QED BY <1>2, <1>5, <1>6, <1>8, <1>9, <1>10, <1>11, <1>12, <1>14, <1>15, <1>16, <1>17, <1>18, <1>19, <1>20, <1>21, <1>22
        DEF Stage

LEMMA KeptNext ==
  ASSUME Stores, Server, Jobs, Ids, [Next]_vars
  PROVE  Kept
<1>1. ASSUME UNCHANGED <<job, queue>> PROVE Kept
  BY <1>1, KnownStays, HeldKnown, SomeKept
<1>2. ASSUME NEW p \in Procs, Begin(p) PROVE Kept
  BY <1>2, Begins, BeginKnown, SomeKept
<1>3. CASE Kill
  <2>1. queue' = queue /\ \A p \in Procs : job'[p] = NoJob
    BY <1>3 DEF Kill, phone
  <2> QED BY <2>1, NoJobKnown, KnownStays, SomeKept
<1>4. ASSUME NEW k \in Keys, RemoveLocal(k) \/ OtherUpload(k) \/ OtherDelete(k) PROVE Kept
  BY <1>1, <1>4 DEF RemoveLocal, OtherUpload, OtherDelete, phone
<1>5. CASE SwitchScope
  BY <1>1, <1>5 DEF SwitchScope
<1>6. CASE UNCHANGED vars
  BY <1>1, <1>6 DEF vars, phone
<1> QED BY <1>2, <1>3, <1>4, <1>5, <1>6, StageKept DEF Next

\* The server's answers: none new, or one for a task that is being uploaded.
Answered ==
  \/ done' = done
  \/ \E t \in Task : \E d : /\ Held(t) /\ t.key \in Keys /\ t.id # 0 /\ done' = done \cup {d} /\ d.id = t.id
                            /\ d.rev \in Revs(t.key)' /\ vers'[t.key][d.rev] = t.sum

LEMMA DoneSteps ==
  ASSUME Stores, Server, Jobs, Ids, [Next]_vars
  PROVE  Answered
<1>1. ASSUME NEW p \in Procs, Upload(p) PROVE Answered
  <2>1. PICK t \in Task : t = job[p].task
    BY Reading DEF Job
  <2>2. /\ IsTask(t)
        /\ \/ done' = done
           \/ \E d : /\ done' = done \cup {d} /\ d.id = t.id /\ d.rev \in 1 .. Len(vers'[t.key])
                     /\ vers'[t.key][d.rev] = t.sum
    BY <1>1, <2>1, UploadEffect
  <2>3. Held(t) /\ t.id # 0 /\ t.key \in Keys
    <3>1. t.id \in 1 .. issued /\ t.key \in Keys
      BY <2>2 DEF IsTask
    <3> QED BY <2>1, <3>1 DEF Held, Server
  <2> QED BY <2>2, <2>3 DEF Answered, Revs
<1>2. ASSUME NEW p \in Procs, Revive(p) PROVE Answered
  BY <1>2, ReviveEffect DEF Answered
<1>3. ASSUME NEW p \in Procs, Erase(p) PROVE Answered
  BY <1>3 DEF Erase, Answered
<1>4. ASSUME NEW k \in Keys, OtherUpload(k) \/ OtherDelete(k) PROVE Answered
  BY <1>4 DEF OtherUpload, OtherDelete, Answered
<1>5. CASE UNCHANGED <<cloud, issued, from>>
  BY <1>5 DEF cloud, Answered
<1>6. ASSUME NEW p \in Procs, \/ \E k \in Keys : \E base \in {0, local[k].cloud} : CommitSave(p, k, base)
                             \/ ReadQueue(p) \/ UpdateCloudRevision(p)
      PROVE  Answered
  BY <1>6 DEF CommitSave, ReadQueue, UpdateCloudRevision, cloud, Answered
<1> QED BY <1>1, <1>2, <1>3, <1>4, <1>5, <1>6, ServerSteps DEF ServerStep

LEMMA IdsNext ==
  ASSUME Stores, Server, Jobs, Ids, [Next]_vars
  PROVE  Ids'
<1>0. Grows /\ Answered
  BY ServerNext, DoneSteps
<1>1. PICK f \in Task : f.id = issued + 1 /\ \A t \in Task : Held(t)' => Known(t) \/ t = f
  BY KeptNext DEF Kept
<1>2. \A t \in Task : t.id # 0 /\ Known(t) => \E u \in Task : Held(u) /\ Same(t, u) /\ u.id \in 0 .. issued
  BY HeldIds DEF Known
<1>3. issued \in Nat /\ issued + 1 \notin 0 .. issued
  BY DEF Server
<1>4. ASSUME NEW t \in Task, NEW u \in Task, Held(t)', Held(u)', t.id = u.id, t.id # 0
      PROVE  t.key = u.key /\ t.rev = u.rev /\ t.sum = u.sum
  <2>1. CASE Known(t) /\ Known(u)
    <3>1. PICK x \in Task : Held(x) /\ Same(t, x)
      BY <1>2, <1>4, <2>1
    <3>2. PICK y \in Task : Held(y) /\ Same(u, y)
      BY <1>2, <1>4, <2>1
    <3>3. x.id = y.id /\ x.id # 0
      BY <1>4, <3>1, <3>2 DEF Same
    <3>4. x.key = y.key /\ x.rev = y.rev /\ x.sum = y.sum
      BY <3>1, <3>2, <3>3 DEF Ids
    <3> QED BY <3>1, <3>2, <3>4 DEF Same
  <2>2. CASE t = f /\ u = f
    BY <2>2
  <2>3. ~(Known(t) /\ u = f) /\ ~(t = f /\ Known(u))
    BY <1>1, <1>2, <1>3, <1>4 DEF Same
  <2> QED BY <1>1, <1>4, <2>1, <2>2, <2>3
<1>5. ASSUME NEW k \in Keys, NEW r \in Revs(k) PROVE r \in Revs(k)' /\ vers'[k][r] = vers[k][r]
  BY <1>0, Numbers DEF Grows, Revs
<1>6. ASSUME NEW d \in done', NEW t \in Task, Held(t)', t.id = d.id PROVE d.rev \in Revs(t.key)' /\ vers'[t.key][d.rev] = t.sum
  <2>1. ASSUME d \in done PROVE d.rev \in Revs(t.key)' /\ vers'[t.key][d.rev] = t.sum
    <3>1. d.id \in 1 .. issued
      BY <2>1 DEF Server
    <3>2. PICK u \in Task : Held(u) /\ Same(t, u)
      BY <1>1, <1>2, <1>3, <1>6, <3>1
    <3>3. d.rev \in Revs(u.key) /\ vers[u.key][d.rev] = u.sum
      BY <1>6, <2>1, <3>2 DEF Ids, Same
    <3>4. u.key \in Keys
      <4>1. u.id # 0
        BY <1>3, <1>6, <3>1, <3>2 DEF Same
      <4> QED BY <3>2, <4>1, HeldKeys
    <3> QED BY <1>5, <3>2, <3>3, <3>4 DEF Same
  <2>2. ASSUME NEW u \in Task, Held(u), u.key \in Keys, u.id # 0, d.id = u.id, d.rev \in Revs(u.key)', vers'[u.key][d.rev] = u.sum
        PROVE  d.rev \in Revs(t.key)' /\ vers'[t.key][d.rev] = t.sum
    <3>1. u.id \in 0 .. issued
      BY <2>2, HeldIds
    <3>2. PICK x \in Task : Held(x) /\ Same(t, x)
      BY <1>1, <1>2, <1>3, <1>6, <2>2, <3>1
    <3>3. x.id = u.id
      BY <1>6, <2>2, <3>2 DEF Same
    <3>4. x.key = u.key /\ x.sum = u.sum
      BY <2>2, <3>2, <3>3 DEF Ids
    <3> QED BY <2>2, <3>2, <3>4 DEF Same
  <2> QED BY <1>0, <1>6, <2>1, <2>2 DEF Answered
<1> QED BY <1>4, <1>6 DEF Ids

------------------------------------------------------------------------------
(* The shape of the state is an invariant. *)

Shape == Stores /\ Server /\ Jobs /\ Line /\ Ids

LEMMA ShapeInit ==
  ASSUME Init
  PROVE  Shape
<1>1. /\ \A k \in Keys : local[k] = NoSave /\ head[k] = 0 /\ vers[k] = <<>> /\ newest[k] = 0
      /\ \A p \in Procs : job[p] = NoJob
      /\ queue = [s \in {"account", "anonymous"} |-> NoList]
  BY DEF Init
<1>2. Stores
  <2>1. NoSave.rev = 0 /\ NoSave.cloud = 0
    BY DEF NoSave
  <2>2. \A k \in Keys : local[k].cloud \in 0 .. Len(vers[k])
    BY <1>1, <2>1
  <2>3. /\ local \in [Keys -> Save] /\ copies \in SUBSET Nat /\ scope \in {"account", "anonymous"} /\ newest \in [Keys -> Nat]
        /\ queue \in [{"account", "anonymous"} -> [Keys -> Task]]
    BY NoneTyped DEF Init
  <2>4. \A s \in {"account", "anonymous"} : IsList(queue[s])
    BY <1>1, NoneTyped DEF IsList
  <2> QED BY <1>1, <2>1, <2>2, <2>3, <2>4 DEF Stores
<1>3. Server
  BY DEF Init, Server, Revs, Made
<1>4. Jobs
  <2>1. \A p \in Procs : Fits(p)
    <3>1. NoJob.stages \in Plans(NoJob.op)
      BY DEF NoJob, Plans
    <3>2. Good(NoJob)
      <4>1. NoJob.op = "none" /\ NoJob.todo = {} /\ NoJob.task = NoTask /\ NoJob.list = NoList
        BY DEF NoJob
      <4>2. IsList(NoJob.list)
        BY <4>1, NoneTyped DEF IsList
      <4> QED BY <4>1, <4>2 DEF Good, Resolvers, InLine
    <3> QED BY <1>1, <3>1, <3>2 DEF Fits
  <2> QED BY <2>1, NoneTyped DEF Jobs, Init
<1>5. Line
  <2>1. line = <<>> /\ ToSet(line) = {}
    BY PlanSets DEF Init
  <2>2. \A p \in Procs : job[p].op \notin InLine
    BY <1>1 DEF NoJob, InLine
  <2> QED BY <2>1, <2>2 DEF Line
<1>6. Ids
  <2>1. NoTask.id = 0 /\ NoJob.task = NoTask /\ NoJob.todo = {} /\ NoJob.list = NoList
    BY DEF NoTask, NoJob
  <2>2. \A t \in Task : Held(t) => t.id = 0
    BY <1>1, <2>1, NoneTyped DEF Held
  <2> QED BY <2>2 DEF Ids, Init
<1> QED BY <1>2, <1>3, <1>4, <1>5, <1>6 DEF Shape

LEMMA ShapeNext ==
  ASSUME Shape, [Next]_vars
  PROVE  Shape' /\ Grows
BY ServerNext, JobsNext, StoresNext, LineNext, IdsNext DEF Shape

THEOREM ShapeInvariant == Spec => []Shape
<1>1. Init => Shape
  BY ShapeInit
<1>2. Shape /\ [Next]_vars => Shape'
  BY ShapeNext
<1> QED BY <1>1, <1>2, PTL DEF Spec

LEMMA ShapeTypes ==
  ASSUME Shape
  PROVE  TypeOK
<1>1. \A k \in Keys : local[k].sum \in 0 .. Len(from) /\ local[k].cloud \in 0 .. Len(vers[k]) /\ head[k] \in 0 .. Len(vers[k])
  <2>1. \A k \in Keys : local[k] = NoSave \/ local[k].sum \in Made
    BY DEF Shape, Stores, Save
  <2>2. Len(from) \in Nat /\ NoSave.sum = 0
    BY Numbers DEF Shape, NoSave
  <2> QED BY <2>1, <2>2 DEF Shape, Stores, Server, Made
<1>2. \A s \in DOMAIN queue : \A k \in Keys :
        queue[s][k] = NoTask \/ (queue[s][k].key = k /\ queue[s][k].id \in 1 .. issued /\ queue[s][k].sum \in 1 .. Len(from))
  <2>1. DOMAIN queue = {"account", "anonymous"}
    BY DEF Shape, Stores
  <2> QED BY <2>1 DEF Shape, Stores, IsList, IsTask, Made
<1>3. \A d \in done : d.id \in 1 .. issued
  BY DEF Shape, Server
<1>4. ASSUME NEW i \in DOMAIN line PROVE ~Idle(line[i])
  <2>1. line[i] \in Procs /\ line[i] \in ToSet(line)
    BY DEF Shape, Line, ToSet
  <2>2. job[line[i]].op \in InLine
    BY <2>1 DEF Shape, Line
  <2>3. job[line[i]].op # "none"
    BY <2>2 DEF InLine
  <2> QED BY <2>1, <2>3, IdleIs DEF Shape, NoJob
<1>5. \A i, j \in DOMAIN line : line[i] = line[j] => i = j
  BY DEF Shape, Line
<1> QED BY <1>1, <1>2, <1>3, <1>4, <1>5 DEF TypeOK

\* The shape of the state, for any number of saves, operations and faults.
THEOREM SyncTypes == Spec => []TypeOK
<1>1. Shape => TypeOK
  BY ShapeTypes
<1> QED BY <1>1, ShapeInvariant, PTL

------------------------------------------------------------------------------
(* Where a step leads. *)

LEMMA Overwriter ==
  ASSUME Jobs, NEW p \in Procs
  PROVE  (To(p, "put") /\ ~To(p, "copy") /\ job[p].op # "restore") <=> Overwrites(p)
<1>1. Reads(p)
  BY Reading
<1>2. CASE job[p].op \notin {"use", "version", "restore"}
  <2>1. ~To(p, "put")
    BY <1>1, <1>2, Ahead
  <2> QED BY <1>2, <2>1 DEF Overwrites
<1>3. CASE job[p].op = "restore"
  BY <1>3 DEF Overwrites
<1>4. CASE job[p].op = "use"
  <2>1. CASE job[p].stages = <<"copy", "fetch", "put", "complete">>
    <3>1. To(p, "copy")
      BY <2>1, PlanSets DEF To
    <3> QED BY <2>1, <3>1 DEF Overwrites, Overwriting
  <2>2. CASE job[p].stages = <<"fetch", "put", "complete">>
    <3>1. ToSet(job[p].stages) = {"fetch", "put", "complete"}
      BY <2>2, PlanSets
    <3>2. To(p, "put") /\ ~To(p, "copy")
      BY <3>1 DEF To
    <3> QED BY <1>4, <2>2, <3>2 DEF Overwrites, Overwriting
  <2>3. CASE job[p].stages = <<"put", "complete">>
    <3>1. ToSet(job[p].stages) = {"put", "complete"}
      BY <2>3, PlanSets
    <3>2. To(p, "put") /\ ~To(p, "copy")
      BY <3>1 DEF To
    <3> QED BY <1>4, <2>3, <3>2 DEF Overwrites, Overwriting
  <2>4. CASE job[p].stages = <<"complete">>
    <3>1. ~To(p, "put")
      BY <2>4, PlanSets DEF To
    <3> QED BY <2>4, <3>1 DEF Overwrites, Overwriting
  <2>5. CASE job[p].stages = <<"write", "complete">>
    <3>1. ToSet(job[p].stages) = {"write", "complete"}
      BY <2>5, PlanSets
    <3>2. ~To(p, "put")
      BY <3>1 DEF To
    <3> QED BY <2>5, <3>2 DEF Overwrites, Overwriting
  <2> QED BY <1>1, <1>4, <2>1, <2>2, <2>3, <2>4, <2>5 DEF Reads, Plans
<1>5. CASE job[p].op = "version"
  <2>1. CASE job[p].stages = <<"heads", "copy", "revive", "fetch", "put">>
    <3>1. To(p, "copy")
      BY <2>1, PlanSets DEF To
    <3> QED BY <2>1, <3>1 DEF Overwrites, Overwriting
  <2>2. CASE job[p].stages = <<"copy", "revive", "fetch", "put">>
    <3>1. To(p, "copy")
      BY <2>2, PlanSets DEF To
    <3> QED BY <2>2, <3>1 DEF Overwrites, Overwriting
  <2>3. CASE job[p].stages = <<"revive", "fetch", "put">>
    <3>1. ToSet(job[p].stages) = {"revive", "fetch", "put"}
      BY <2>3, PlanSets
    <3>2. To(p, "put") /\ ~To(p, "copy")
      BY <3>1 DEF To
    <3>3. job[p].stages \in Overwriting
      BY <2>3 DEF Overwriting
    <3> QED BY <1>5, <3>2, <3>3 DEF Overwrites
  <2>4. CASE job[p].stages = <<"fetch", "put">>
    BY <1>5, <2>4, PlanSets DEF To, Overwrites, Overwriting
  <2>5. CASE job[p].stages = <<"put">>
    BY <1>5, <2>5, PlanSets DEF To, Overwrites, Overwriting
  <2> QED BY <1>1, <1>5, <2>1, <2>2, <2>3, <2>4, <2>5 DEF Reads, Plans
<1> QED BY <1>2, <1>3, <1>4, <1>5

\* Stages at which nothing is sent, replaced or written.
Plain == {<<>>, <<"run">>, <<"due">>, <<"next">>, <<"erase">>, <<"complete">>, <<"enqueue", "run">>, <<"now", "run">>,
          <<"clear", "erase">>, <<"back", "next">>, <<"complete", "next">>, <<"conflict", "next">>, <<"delay", "next">>,
          <<"fail", "next">>, <<"complete", "enqueue", "run">>, <<"update", "complete", "enqueue", "run">>,
          <<"copy", "update", "complete", "enqueue", "run">>, <<"copy", "revive", "fetch", "put">>,
          <<"fetch", "copy", "update", "complete", "enqueue", "run">>, <<"copy", "fetch", "put", "complete">>,
          <<"heads", "copy", "revive", "fetch", "put">>}

LEMMA PlainIs ==
  /\ \A s \in Plain : s \notin Sending /\ s \notin Overwriting /\ (s # <<>> => Head(s) # "write")
  /\ \A s \in Sending \cup Overwriting : s # <<>> /\ Head(s) # "write"
  /\ Sending \cap Overwriting = {}
<1>1. ASSUME NEW s \in Plain PROVE s \notin Sending /\ s \notin Overwriting /\ (s # <<>> => Head(s) # "write")
  BY DEF Plain, Sending, Overwriting
<1>2. \A s \in Sending \cup Overwriting : s # <<>> /\ Head(s) # "write"
  BY DEF Sending, Overwriting
<1>3. Sending \cap Overwriting = {}
  BY DEF Sending, Overwriting
<1> QED BY <1>1, <1>2, <1>3

\* How p comes to send, to replace, and to write.
Comes(p) ==
  /\ Sends(p)' => \/ RunTask(p)
                  \/ Sends(p) /\ Upload(p) /\ job'[p].task = job[p].task
  /\ Overwrites(p)' => /\ job'[p].op = job[p].op /\ job'[p].keys = job[p].keys
                       /\ Overwrites(p) \/ Copy(p)
  /\ At(p, "write")' => ReadQueue(p)

LEMMA PlainComes ==
  ASSUME NEW p \in Procs, NEW s \in Plain, job'[p].stages = s
  PROVE  Comes(p)
BY PlainIs DEF Comes, Sends, Overwrites, At, Idle

LEMMA NoJobComes ==
  ASSUME NEW p \in Procs, job'[p] = NoJob
  PROVE  Comes(p)
<1>1. job'[p].stages = <<>> /\ <<>> \in Plain
  BY DEF NoJob, Plain
<1> QED BY <1>1, PlainComes

LEMMA StageComes ==
  ASSUME Stores, Server, Jobs, Ids, NEW p \in Procs, Stage(p)
  PROVE  Comes(p)
<1>0. Reads(p)
  BY Reading
<1>1. CASE ReadQueue(p)
  <2>1. PICK stage \in QueueStages :
          /\ At(p, stage)
          /\ \/ stage \notin {"complete", "clear"} /\ Moves(p, Tail(job[p].stages))
             \/ Becomes(p, <<"write">> \o job[p].stages, job[p].todo, job[p].task, job[p].save, job'[p].list)
    BY <1>1, ReadEffect
  <2>2. ASSUME stage \notin {"complete", "clear"}, Moves(p, Tail(job[p].stages)) PROVE job'[p].stages \in Plain
    <3>1. job'[p].stages = Tail(job[p].stages)
      BY <2>2 DEF Moves, Becomes, Has
    <3>2. job[p].stages \in {<<"enqueue", "run">>, <<"back", "next">>, <<"now", "run">>, <<"conflict", "next">>,
                             <<"delay", "next">>, <<"fail", "next">>}
      BY <1>0, <2>1, <2>2, AtStage DEF QueueStages
    <3>3. job'[p].stages \in {<<"run">>, <<"next">>}
      BY <3>1, <3>2, Nexts
    <3> QED BY <3>3 DEF Plain
  <2>3. ASSUME Becomes(p, <<"write">> \o job[p].stages, job[p].todo, job[p].task, job[p].save, job'[p].list) PROVE Comes(p)
    <3>1. job'[p].stages = <<"write">> \o job[p].stages
      BY <2>3 DEF Becomes, Has
    <3>2. \/ job[p].stages \in {<<"enqueue", "run">>, <<"now", "run">>, <<"complete">>}
          \/ job[p].stages \in {<<"complete", "enqueue", "run">>, <<"clear", "erase">>, <<"back", "next">>}
          \/ job[p].stages \in {<<"complete", "next">>, <<"conflict", "next">>, <<"delay", "next">>, <<"fail", "next">>}
      BY <1>0, <2>1, AtStage DEF QueueStages
    <3>3. \/ job'[p].stages \in {<<"write", "enqueue", "run">>, <<"write", "now", "run">>, <<"write", "complete">>}
          \/ job'[p].stages \in {<<"write", "complete", "enqueue", "run">>, <<"write", "clear", "erase">>, <<"write", "back", "next">>}
          \/ job'[p].stages \in {<<"write", "complete", "next">>, <<"write", "conflict", "next">>, <<"write", "delay", "next">>, <<"write", "fail", "next">>}
      BY <3>1, <3>2, Writes
    <3>4. job'[p].stages # <<>> /\ Head(job'[p].stages) = "write"
      BY <3>3
    <3>5. job'[p].stages \notin Sending \cup Overwriting
      BY <3>4, PlainIs
    <3> QED BY <1>1, <3>5 DEF Comes, Sends, Overwrites
  <2> QED BY <2>1, <2>2, <2>3, PlainComes
<1>2. CASE WriteQueue(p)
  <2>1. /\ At(p, "write")
        /\ job'[p] = NoJob \/ Has(p, Tail(Tail(job[p].stages)), job[p].todo, job[p].task, job[p].save, NoList)
    BY <1>2, WriteEffect
  <2>2. Tail(Tail(job[p].stages)) \in {<<>>, <<"run">>, <<"enqueue", "run">>, <<"erase">>, <<"next">>}
    BY <1>0, <2>1, AtStage, Afters
  <2>3. CASE job'[p] = NoJob
    BY <2>3, NoJobComes
  <2>4. CASE Has(p, Tail(Tail(job[p].stages)), job[p].todo, job[p].task, job[p].save, NoList)
    <3>1. job'[p].stages \in Plain
      BY <2>2, <2>4 DEF Has, Plain
    <3> QED BY <3>1, PlainComes
  <2> QED BY <2>1, <2>3, <2>4
<1>3. ASSUME NEW stages, NEW todo, NEW task, NEW save, NEW list, Becomes(p, stages, todo, task, save, list), stages \in Plain
      PROVE  Comes(p)
  BY <1>3, PlainComes DEF Becomes, Has
<1>4. ASSUME Ends(p) PROVE Comes(p)
  BY <1>4, NoJobComes DEF Ends, Gets
<1>5. <<"next">> \in Plain /\ <<"delay", "next">> \in Plain /\ <<"conflict", "next">> \in Plain /\ <<"fail", "next">> \in Plain
  BY DEF Plain
<1>6. ASSUME Thrown(p), At(p, "write") \/ At(p, "update") PROVE Comes(p)
  BY <1>3, <1>4, <1>5, <1>6, ThrownEffect
<1>7. CASE WriteFails(p)
  BY <1>6, <1>7 DEF WriteFails
<1>8. CASE Join(p)
  <2>1. job'[p].stages = <<"due">>
    BY <1>8, JoinEffect DEF Gets, New
  <2> QED BY <2>1, PlainComes DEF Plain
<1>9. CASE RunDue(p)
  BY <1>3, <1>4, <1>5, <1>9, RunDueEffect
<1>10. CASE DeleteDue(p)
  <2>1. <<"clear", "erase">> \in Plain
    BY DEF Plain
  <2> QED BY <1>3, <1>10, <2>1, DeleteDueEffect
<1>11. CASE NoneLeft(p)
  BY <1>4, <1>11, EndEffect DEF NoneLeft
<1>12. CASE RunTask(p)
  <2>1. \A t \in job[p].todo : t.key \in Keys
    BY Reading DEF Reads, Good, IsTask
  <2>2. job'[p].stages \in {<<"upload", "next">>, <<"complete", "next">>}
    BY <1>12, <2>1, RunTaskEffect
  <2>3. CASE job'[p].stages = <<"complete", "next">>
    BY <2>3, PlainComes DEF Plain
  <2>4. CASE job'[p].stages = <<"upload", "next">>
    <3>1. job'[p].stages \in Sending
      BY <2>4 DEF Sending
    <3> QED BY <1>12, <3>1, PlainIs DEF Comes, Overwrites, At
  <2> QED BY <2>2, <2>3, <2>4
<1>13. CASE RestoreTask(p)
  <2>1. <<"back", "next">> \in Plain
    BY DEF Plain
  <2> QED BY <1>3, <1>13, <2>1, RestoreTaskEffect
<1>14. CASE Upload(p)
  <2>1. CASE \E v \in Save : Becomes(p, <<"update", "complete", "next">>, job[p].todo, job[p].task, v, job[p].list)
    <3>1. /\ job'[p].stages = <<"update", "complete", "next">> /\ job'[p].task = job[p].task
      BY <2>1 DEF Becomes, Has
    <3>2. job'[p].stages \in Sending /\ <<"upload", "next">> \in Sending
      BY <3>1 DEF Sending
    <3>3. job[p].op = "run" /\ job[p].stages = <<"upload", "next">>
      BY <1>14, UploadEffect
    <3> QED BY <1>14, <3>1, <3>2, <3>3, PlainIs DEF Comes, Sends, Overwrites, At
  <2>2. CASE \E u \in Task : Becomes(p, <<"conflict", "next">>, job[p].todo, u, NoSave, job[p].list)
    BY <1>3, <1>5, <2>2
  <2>3. CASE \/ Becomes(p, <<"delay", "next">>, job[p].todo, job[p].task, NoSave, job[p].list)
             \/ Becomes(p, <<"fail", "next">>, job[p].todo, job[p].task, NoSave, job[p].list)
    BY <1>3, <1>5, <2>3
  <2> QED BY <1>14, <2>1, <2>2, <2>3, UploadEffect
<1>15. CASE Erase(p)
  BY <1>3, <1>4, <1>5, <1>15, EraseEffect DEF Moves
<1>16. CASE UpdateCloudRevision(p)
  <2>1. At(p, "update")
    BY <1>16 DEF UpdateCloudRevision
  <2> PICK k : k = IF job[p].op = "keep" THEN Key(p) ELSE job[p].task.key
    OBVIOUS
  <2>2. Thrown(p) \/ \E v \in Save : Becomes(p, Tail(job[p].stages), job[p].todo, job[p].task, v, job[p].list)
    BY <1>16, UpdateEffect
  <2>3. Tail(job[p].stages) \in {<<"complete", "enqueue", "run">>, <<"complete", "next">>}
    BY <1>0, <2>1, AtStage, FlowNexts
  <2>4. Tail(job[p].stages) \in Plain
    BY <2>3 DEF Plain
  <2> QED BY <1>3, <1>6, <2>1, <2>2, <2>4
<1>17. CASE StageFails(p)
  BY <1>4, <1>17, EndEffect DEF StageFails
\* A step of who is about to put another save in place.
<1>18. ASSUME NEW task, NEW save, NEW x, x \in {"fetch", "copy", "revive", "put"}, At(p, x),
              Becomes(p, Tail(job[p].stages), job[p].todo, task, save, job[p].list), x = "copy" => Copy(p)
       PROVE  Comes(p)
  <2>1. job'[p].op = job[p].op /\ job'[p].keys = job[p].keys /\ job'[p].stages = Tail(job[p].stages)
    BY <1>18 DEF Becomes, Has
  <2>2. CASE Tail(job[p].stages) \in Plain
    BY <2>1, <2>2, PlainComes
  <2>3. CASE Tail(job[p].stages) \in Overwriting /\ (Overwrites(p) \/ Copy(p))
    BY <2>1, <2>3, PlainIs DEF Comes, Sends, At
  <2>4. CASE job[p].op = "restore"
    <3>1. job[p].stages \in {<<"fetch", "put">>, <<"put">>}
      BY <1>0, <2>4 DEF Reads, Plans
    <3>2. Tail(job[p].stages) \in {<<"put">>, <<>>}
      BY <3>1, FlowNexts
    <3>3. Tail(job[p].stages) \in Plain \cup Overwriting
      BY <3>2 DEF Plain, Overwriting
    <3> QED BY <2>1, <2>2, <2>4, <3>3, PlainIs DEF Comes, Sends, Overwrites, At
  <2>5. CASE job[p].op = "keep"
    <3>1. Tail(job[p].stages) \in {<<"copy", "update", "complete", "enqueue", "run">>, <<"update", "complete", "enqueue", "run">>}
      BY <1>0, <1>18, <2>5, AtStage, FlowNexts
    <3> QED BY <2>2, <3>1 DEF Plain
  <2>6. CASE job[p].op \in {"use", "version"}
    <3>1. \/ job[p].stages \in {<<"copy", "fetch", "put", "complete">>, <<"fetch", "put", "complete">>, <<"put", "complete">>}
          \/ job[p].stages \in {<<"copy", "revive", "fetch", "put">>, <<"revive", "fetch", "put">>, <<"fetch", "put">>, <<"put">>}
      BY <1>0, <1>18, <2>6, AtStage
    <3>2. CASE job[p].stages \in {<<"copy", "fetch", "put", "complete">>, <<"copy", "revive", "fetch", "put">>}
      <4>1. x = "copy"
        BY <1>18, <3>2 DEF At
      <4>2. Tail(job[p].stages) \in {<<"fetch", "put", "complete">>, <<"revive", "fetch", "put">>}
        BY <3>2, FlowNexts
      <4>3. Tail(job[p].stages) \in Overwriting
        BY <4>2 DEF Overwriting
      <4> QED BY <1>18, <2>3, <4>1, <4>3
    <3>3. CASE job[p].stages \in {<<"fetch", "put", "complete">>, <<"revive", "fetch", "put">>, <<"fetch", "put">>}
      <4>1. Tail(job[p].stages) \in {<<"put", "complete">>, <<"fetch", "put">>, <<"put">>}
        BY <3>3, FlowNexts
      <4>2. Tail(job[p].stages) \in Overwriting /\ job[p].stages \in Overwriting
        BY <3>3, <4>1 DEF Overwriting
      <4> QED BY <2>3, <2>6, <4>2 DEF Overwrites
    <3>4. CASE job[p].stages \in {<<"put", "complete">>, <<"put">>}
      <4>1. Tail(job[p].stages) \in {<<"complete">>, <<>>}
        BY <3>4, FlowNexts
      <4> QED BY <2>2, <4>1 DEF Plain
    <3> QED BY <3>1, <3>2, <3>3, <3>4
  <2>7. job[p].op \in {"restore", "keep", "use", "version"}
    BY <1>0, <1>18, AtStage
  <2> QED BY <2>4, <2>5, <2>6, <2>7
<1>19. CASE Fetch(p)
  BY <1>4, <1>18, <1>19, FetchEffect
<1>20. CASE Copy(p)
  BY <1>18, <1>20, CopyEffect DEF Moves
<1>21. CASE Put(p)
  <2>1. CASE Gets(p, NoJob)
    BY <2>1, NoJobComes DEF Gets
  <2>2. CASE Moves(p, <<"complete">>)
    <3>1. <<"complete">> \in Plain
      BY DEF Plain
    <3> QED BY <1>3, <2>2, <3>1 DEF Moves
  <2> QED BY <1>21, <2>1, <2>2, PutEffect
<1>22. CASE Heads(p)
  <2>1. CASE Ends(p)
    BY <1>4, <2>1
  <2>2. ASSUME NEW v \in Save, Becomes(p, Tail(job[p].stages), job[p].todo, job[p].task, v, job[p].list) PROVE Comes(p)
    <3>1. At(p, "heads")
      BY <1>22 DEF Heads
    <3>2. Tail(job[p].stages) = <<"copy", "revive", "fetch", "put">>
      BY <1>0, <3>1, AtStage, FlowNexts
    <3>3. Tail(job[p].stages) \in Plain
      BY <3>2 DEF Plain
    <3> QED BY <1>3, <2>2, <3>3
  <2> QED BY <1>22, <2>1, <2>2, HeadsEffect
<1>23. CASE Revive(p)
  <2>1. \/ Ends(p)
        \/ \E u \in Task : Becomes(p, Tail(job[p].stages), job[p].todo, u, job[p].save, job[p].list)
    BY <1>23, ReviveEffect
  <2> QED BY <1>4, <1>18, <1>23, <2>1 DEF Revive
<1> QED BY <1>1, <1>2, <1>7, <1>8, <1>9, <1>10, <1>11, <1>12, <1>13, <1>14, <1>15, <1>16, <1>17, <1>19, <1>20, <1>21, <1>22, <1>23
        DEF Stage

\* q has nothing to send, to replace or to write after a step, or has what it had before.
Calm(q) ==
  \/ ~Sends(q)' /\ ~Overwrites(q)' /\ ~At(q, "write")'
  \/ Stays(q) /\ job'[q].stale \in {job[q].stale, "yes"}

LEMMA SameCalm ==
  ASSUME NEW q \in Procs, job'[q] = job[q]
  PROVE  Calm(q)
BY DEF Calm, Stays, Has

LEMMA PlainCalm ==
  ASSUME NEW q \in Procs, job'[q].stages \in Plain
  PROVE  Calm(q)
BY PlainIs DEF Calm, Sends, Overwrites, At, Idle

LEMMA StageCalm ==
  ASSUME Stores, Server, Jobs, Ids, NEW p \in Procs, Stage(p)
  PROVE  Comes(p) /\ \A q \in Procs \ {p} : Calm(q)
<1>1. Grows
  BY ServerNext DEF Next
<1>2. CASE WriteQueue(p)
  <2>1. ASSUME NEW q \in Procs \ {p} PROVE Calm(q)
    <3>1. Stays(q) /\ job'[q].stale \in {job[q].stale, "yes"}
      BY <1>2, WriteEffect
    <3> QED BY <3>1 DEF Calm
  <2> QED BY <2>1, StageComes
<1>3. CASE ~WriteQueue(p)
  <2>1. \A q \in Procs \ {p} : job'[q] = job[q]
    BY <1>1, <1>3, StageFits DEF Only
  <2> QED BY <2>1, StageComes, SameCalm
<1> QED BY <1>2, <1>3

LEMMA BeginCalm ==
  ASSUME Stores, Server, Jobs, NEW p \in Procs, Begin(p)
  PROVE  \A q \in Procs : Calm(q)
<1>1. PICK j \in Job : Begun(p, j)
  BY Begins
<1>2. \A q \in Procs \ {p} : job'[q] = job[q]
  BY <1>1 DEF Begun, Gets
<1>3. job'[p] = j /\ j.stages \in Starts
  BY <1>1 DEF Begun, Gets
<1>4. CASE j.stages \in Plain
  BY <1>2, <1>3, <1>4, PlainCalm, SameCalm
<1>5. CASE j.stages = <<"fetch", "put">>
  <2>1. j.op = "restore" /\ j.stages \in Overwriting
    BY <1>1, <1>5 DEF Begun, Overwriting
  <2>2. Calm(p)
    BY <1>3, <2>1, PlainIs DEF Calm, Sends, Overwrites, At
  <2> QED BY <1>2, <2>2, SameCalm
<1> QED BY <1>3, <1>4, <1>5 DEF Starts, Plain

\* The steps of no operation.
Alien == Kill \/ SwitchScope \/ (UNCHANGED vars) \/ \E k \in Keys : RemoveLocal(k) \/ OtherUpload(k) \/ OtherDelete(k)

LEMMA AlienCalm ==
  ASSUME Alien
  PROVE  \A q \in Procs : Calm(q)
<1>1. CASE Kill
  <2>1. \A q \in Procs : job'[q].stages = <<>>
    BY <1>1 DEF Kill, NoJob
  <2> QED BY <2>1, PlainCalm DEF Plain
<1>2. CASE job' = job
  BY <1>2, SameCalm
<1> QED BY <1>1, <1>2 DEF Alien, SwitchScope, vars, RemoveLocal, OtherUpload, OtherDelete

LEMMA Steps ==
  ASSUME [Next]_vars
  PROVE  Alien \/ \E p \in Procs : Begin(p) \/ Stage(p)
BY DEF Next, Alien

LEMMA SlipsGrow ==
  ASSUME [Next]_vars
  PROVE  slips \subseteq slips'
<1>1. ASSUME NEW p \in Procs, Begin(p) PROVE slips \subseteq slips'
  BY <1>1 DEF Begin, Wake, Delete, CommitSave, Retry, KeepLocal, UseCloud, RestoreCloudBattery, RestoreCloudVersion,
              noted, Crossed, Slip
<1>2. ASSUME NEW p \in Procs, Stage(p) PROVE slips \subseteq slips'
  BY <1>2 DEF Stage, ReadQueue, WriteQueue, WriteFails, Join, RunDue, DeleteDue, NoneLeft, RunTask, RestoreTask, Upload, Erase,
              UpdateCloudRevision, StageFails, Fetch, Copy, Put, Heads, Revive, past, noted, Crossed, Slip
<1>3. CASE Alien
  BY <1>3 DEF Alien, Kill, SwitchScope, RemoveLocal, OtherUpload, OtherDelete, vars, past, noted, Slip
<1> QED BY <1>1, <1>2, <1>3, Steps

------------------------------------------------------------------------------
(* No save is lost. *)

LEMMA BackedStands ==
  ASSUME Server, Server', Grows, NEW k \in Keys, Backed(k), newest'[k] = newest[k], copies \subseteq copies'
  PROVE  Backed(k)'
<1>1. ToSet(vers[k]) \subseteq ToSet(vers'[k])
  <2>1. \A r \in Revs(k) : r \in Revs(k)' /\ vers'[k][r] = vers[k][r]
    BY Numbers DEF Grows, Revs
  <2>2. DOMAIN vers[k] = Revs(k) /\ vers'[k] \in Seq(Nat)
    BY Numbers DEF Server
  <2>3. DOMAIN vers'[k] = Revs(k)'
    BY <2>2 DEF Revs
  <2> QED BY <2>1, <2>2, <2>3 DEF ToSet
<1> QED BY <1>1 DEF Backed

\* The saves of the phone, and what is kept of them, are as they were.
SavesStand ==
  /\ \A k \in Keys : newest'[k] = newest[k] /\ local'[k].sum = local[k].sum
  /\ copies \subseteq copies'

LEMMA SaveKeptIs ==
  SaveKept <=> ("crossed" \notin slips => \A k \in Keys : newest[k] = local[k].sum \/ Backed(k))
BY DEF SaveKept, Backed

LEMMA SavesStandKept ==
  ASSUME Server, Server', Grows, SaveKept, SavesStand, slips \subseteq slips'
  PROVE  SaveKept'
<1> SUFFICES ASSUME "crossed" \notin slips', NEW k \in Keys PROVE newest'[k] = local'[k].sum \/ Backed(k)'
  BY DEF SaveKept, Backed
<1>1. newest[k] = local[k].sum \/ Backed(k)
  BY SaveKeptIs
<1> QED BY <1>1, BackedStands DEF SavesStand

LEMMA CalmSafe ==
  ASSUME Server, Server', Jobs, Grows, Safe, SavesStand, slips \subseteq slips', NEW q \in Procs, Calm(q), Overwrites(q)',
         "crossed" \notin slips', NEW k \in job'[q].keys
  PROVE  Backed(k)'
<1>1. Overwrites(q) /\ k \in job[q].keys
  BY DEF Calm, Stays, Has, Overwrites
<1>2. Backed(k) /\ k \in Keys
  BY <1>1, Reading DEF Safe, Job
<1> QED BY <1>2, BackedStands DEF SavesStand

LEMMA LocalSteps ==
  ASSUME Shape, NEW p \in Procs, Stage(p), ~Put(p)
  PROVE  SavesStand
<1>1. CASE UpdateCloudRevision(p)
  <2> PICK k : k = IF job[p].op = "keep" THEN Key(p) ELSE job[p].task.key
    OBVIOUS
  <2>1. local' = local \/ \E v \in Save : v.sum = local[k].sum /\ local' = [local EXCEPT ![k] = v]
    BY <1>1, UpdateEffect DEF Shape
  <2>2. \A x \in Keys : local'[x].sum = local[x].sum
    BY <2>1 DEF Shape, Stores
  <2> QED BY <1>1, <2>2 DEF SavesStand, UpdateCloudRevision
<1>2. CASE ~UpdateCloudRevision(p)
  BY <1>2 DEF Stage, ReadQueue, WriteQueue, WriteFails, Join, RunDue, DeleteDue, NoneLeft, RunTask, RestoreTask, Upload, Erase,
              StageFails, Fetch, Copy, Heads, Revive, phone, past, noted, SavesStand
<1> QED BY <1>1, <1>2

LEMMA CopyBacks ==
  ASSUME Shape, SaveKept, NEW p \in Procs, Copy(p), Overwrites(p)', "crossed" \notin slips, NEW k \in job'[p].keys
  PROVE  Backed(k)'
<1>1. /\ At(p, "copy") /\ Key(p) \in Keys /\ job[p].keys = {Key(p)}
      /\ job'[p].keys = job[p].keys /\ job'[p].op = job[p].op
  BY CopyEffect DEF Shape, Moves, Becomes, Has
<1>2. k = Key(p) /\ job[p].op # "keep"
  BY <1>1 DEF Overwrites
<1>3. copies' = copies \cup ({local[k].sum} \ {0}) /\ newest' = newest /\ vers' = vers
  BY <1>2 DEF Copy, past, noted, cloud
<1>4. newest[k] = local[k].sum \/ Backed(k)
  BY <1>1, <1>2, SaveKeptIs
<1> QED BY <1>3, <1>4 DEF Backed

LEMMA PutSaves ==
  ASSUME Shape, Shape', Grows, Safe, SaveKept, NEW p \in Procs, Put(p), slips \subseteq slips', "crossed" \notin slips', NEW k \in Keys
  PROVE  (newest'[k] = local'[k].sum \/ Backed(k)') /\ (k = Key(p) => Backed(k)')
<1> PICK x : x = Key(p)
  OBVIOUS
<1>1. /\ At(p, "put") /\ x \in Keys /\ job[p].keys = {x} /\ job[p].op \in {"use", "restore", "version"}
      /\ job[p].stages = <<"put">> \/ (job[p].op = "use" /\ job[p].stages = <<"put", "complete">>)
      /\ Revision(x, job[p].save) /\ copies' = copies /\ vers' = vers
      /\ \E v \in Save : v.sum = job[p].save.sum /\ local' = [local EXCEPT ![x] = v]
      /\ newest' = IF job[p].op = "restore" THEN [newest EXCEPT ![x] = job[p].save.sum] ELSE newest
  BY PutEffect DEF Shape, cloud
<1>2. newest \in [Keys -> Nat] /\ local \in [Keys -> Save]
  BY DEF Shape, Stores
<1>3. CASE k # x
  <2>1. newest'[k] = newest[k] /\ local'[k] = local[k]
    BY <1>1, <1>2, <1>3
  <2>2. newest[k] = local[k].sum \/ Backed(k)
    BY SaveKeptIs
  <2> QED BY <1>1, <1>3, <2>1, <2>2 DEF Backed
<1>4. CASE k = x /\ job[p].op = "restore"
  <2>1. newest'[k] = job[p].save.sum
    BY <1>1, <1>2, <1>4
  <2>2. job[p].save.cloud \in DOMAIN vers[k] /\ vers[k][job[p].save.cloud] = job[p].save.sum
    BY <1>1, <1>4, Numbers DEF Revision, Shape
  <2>3. job[p].save.sum \in ToSet(vers[k])
    BY <2>2 DEF ToSet
  <2> QED BY <1>1, <2>1, <2>3 DEF Backed
<1>5. CASE k = x /\ job[p].op # "restore"
  <2>1. Overwrites(p)
    BY <1>1, <1>5 DEF Overwrites, Overwriting
  <2>2. Backed(k)
    BY <1>1, <1>5, <2>1 DEF Safe
  <2> QED BY <1>1, <1>5, <2>2 DEF Backed
<1> QED BY <1>3, <1>4, <1>5

LEMMA SavesNext ==
  ASSUME Shape, Safe, SaveKept, [Next]_vars
  PROVE  Safe' /\ SaveKept'
<1>0. Shape' /\ Grows /\ slips \subseteq slips' /\ Server /\ Server' /\ Jobs /\ Stores
  BY ShapeNext, SlipsGrow DEF Shape
<1> SUFFICES ASSUME "crossed" \notin slips'
             PROVE  /\ \A q \in Procs : Overwrites(q)' => \A k \in job'[q].keys : Backed(k)'
                    /\ \A k \in Keys : newest'[k] = local'[k].sum \/ Backed(k)'
  BY DEF Safe, SaveKept, Backed
<1>1. "crossed" \notin slips
  BY <1>0
<1>2. ASSUME SavesStand, \A q \in Procs : Calm(q)
      PROVE  /\ \A q \in Procs : Overwrites(q)' => \A k \in job'[q].keys : Backed(k)'
             /\ \A k \in Keys : newest'[k] = local'[k].sum \/ Backed(k)'
  <2>1. SaveKept'
    BY <1>0, <1>2, SavesStandKept
  <2> QED BY <1>0, <1>2, <2>1, CalmSafe DEF SaveKept, Backed
\* A save has another content, and nobody is about to replace it.
<1>3. ASSUME NEW x \in Keys, copies \subseteq copies', \A q \in Procs : Calm(q),
             \A k \in Keys \ {x} : newest'[k] = newest[k] /\ local'[k] = local[k],
             newest'[x] = local'[x].sum, Backed(x)' \/ \A q \in Procs : ~Replacing(q, x)
      PROVE  /\ \A q \in Procs : Overwrites(q)' => \A k \in job'[q].keys : Backed(k)'
             /\ \A k \in Keys : newest'[k] = local'[k].sum \/ Backed(k)'
  <2>1. ASSUME NEW k \in Keys PROVE newest'[k] = local'[k].sum \/ Backed(k)'
    <3>1. CASE k # x
      <4>1. newest[k] = local[k].sum \/ Backed(k)
        BY <1>1, SaveKeptIs
      <4> QED BY <1>0, <1>3, <3>1, <4>1, BackedStands
    <3> QED BY <1>3, <3>1
  <2>2. ASSUME NEW q \in Procs, Overwrites(q)', NEW k \in job'[q].keys PROVE Backed(k)'
    <3>1. Overwrites(q) /\ k \in job[q].keys
      BY <1>3, <2>2 DEF Calm, Stays, Has, Overwrites
    <3>2. Backed(k) /\ k \in Keys
      BY <1>0, <1>1, <3>1, Reading DEF Safe, Job
    <3>3. CASE k = x
      <4>1. Replacing(q, x)
        BY <1>0, <3>1, <3>3, Overwriter DEF Replacing
      <4> QED BY <1>3, <3>3, <4>1
    <3> QED BY <1>0, <1>3, <3>2, <3>3, BackedStands
  <2> QED BY <2>1, <2>2
<1>4. ASSUME NEW p \in Procs, NEW x \in Keys, NEW base \in {0, local[x].cloud}, CommitSave(p, x, base)
      PROVE  /\ \A q \in Procs : Overwrites(q)' => \A k \in job'[q].keys : Backed(k)'
             /\ \A k \in Keys : newest'[k] = local'[k].sum \/ Backed(k)'
  <2>1. Committed(p, x, base)
    BY <1>0, <1>4, CommitSaveEffect
  <2>2. PICK v \in Save : local' = [local EXCEPT ![x] = v] /\ newest' = [newest EXCEPT ![x] = v.sum]
    BY <2>1 DEF Committed
  <2>3. /\ \A k \in Keys \ {x} : newest'[k] = newest[k] /\ local'[k] = local[k]
        /\ newest'[x] = local'[x].sum
    BY <1>0, <2>2 DEF Stores
  <2>4. copies' = copies /\ \A q \in Procs : ~Replacing(q, x)
    BY <1>4 DEF CommitSave, Crossed, Slip
  <2>5. \A q \in Procs : Calm(q)
    <3>1. Begin(p)
      BY <1>4 DEF Begin
    <3> QED BY <1>0, <3>1, BeginCalm
  <2> QED BY <1>3, <2>3, <2>4, <2>5
<1>5. ASSUME NEW p \in Procs, Begin(p), ~\E x \in Keys : \E base \in {0, local[x].cloud} : CommitSave(p, x, base)
      PROVE  /\ \A q \in Procs : Overwrites(q)' => \A k \in job'[q].keys : Backed(k)'
             /\ \A k \in Keys : newest'[k] = local'[k].sum \/ Backed(k)'
  <2>1. SavesStand
    BY <1>5 DEF Begin, Wake, Delete, Retry, KeepLocal, UseCloud, RestoreCloudBattery, RestoreCloudVersion, phone, noted, SavesStand
  <2> QED BY <1>0, <1>2, <1>5, <2>1, BeginCalm
<1>6. ASSUME NEW p \in Procs, Stage(p)
      PROVE  /\ \A q \in Procs : Overwrites(q)' => \A k \in job'[q].keys : Backed(k)'
             /\ \A k \in Keys : newest'[k] = local'[k].sum \/ Backed(k)'
  <2>1. Comes(p) /\ \A q \in Procs \ {p} : Calm(q)
    BY <1>6, StageCalm DEF Shape
  <2>2. CASE ~Put(p)
    <3>1. SavesStand
      BY <1>6, <2>2, LocalSteps
    <3>2. \A k \in Keys : newest'[k] = local'[k].sum \/ Backed(k)'
      <4>1. SaveKept'
        BY <1>0, <3>1, SavesStandKept
      <4> QED BY <4>1 DEF SaveKept, Backed
    <3>3. ASSUME Overwrites(p)', NEW k \in job'[p].keys PROVE Backed(k)'
      <4>1. CASE Copy(p)
        BY <1>1, <3>3, <4>1, CopyBacks
      <4>2. CASE Overwrites(p) /\ job'[p].keys = job[p].keys
        <5>1. Backed(k) /\ k \in Keys
          BY <1>0, <1>1, <3>3, <4>2, Reading DEF Safe, Job
        <5> QED BY <1>0, <3>1, <5>1, BackedStands DEF SavesStand
      <4> QED BY <2>1, <3>3, <4>1, <4>2 DEF Comes
    <3>4. ASSUME NEW q \in Procs \ {p}, Overwrites(q)', NEW k \in job'[q].keys PROVE Backed(k)'
      BY <1>0, <2>1, <3>1, <3>4, CalmSafe
    <3> QED BY <3>2, <3>3, <3>4
  <2>3. CASE Put(p)
    <3>1. /\ At(p, "put") /\ Key(p) \in Keys /\ job[p].keys = {Key(p)}
          /\ copies' = copies /\ (\A k \in Keys : k # Key(p) => newest'[k] = newest[k])
      <4>1. /\ newest \in [Keys -> Nat]
            /\ newest' = IF job[p].op = "restore" THEN [newest EXCEPT ![Key(p)] = job[p].save.sum] ELSE newest
        BY <1>0, <2>3, PutEffect DEF Stores
      <4> QED BY <1>0, <2>3, <4>1, PutEffect
    <3>2. \A k \in Keys : (newest'[k] = local'[k].sum \/ Backed(k)') /\ (k = Key(p) => Backed(k)')
      BY <1>0, <2>3, PutSaves
    <3>3. ASSUME NEW q \in Procs, Overwrites(q)', NEW k \in job'[q].keys PROVE Backed(k)'
      <4>1. Overwrites(q) /\ k \in job[q].keys
        <5>1. CASE q = p
          <6>1. ~Copy(p)
            BY <3>1 DEF Copy, At
          <6> QED BY <2>1, <3>3, <5>1, <6>1 DEF Comes
        <5>2. CASE q # p
          BY <2>1, <3>3, <5>2 DEF Calm, Stays, Has, Overwrites
        <5> QED BY <5>1, <5>2
      <4>2. Backed(k) /\ k \in Keys
        BY <1>0, <1>1, <4>1, Reading DEF Safe, Job
      <4> QED BY <1>0, <3>1, <3>2, <4>2, BackedStands
    <3> QED BY <3>2, <3>3
  <2> QED BY <2>2, <2>3
<1>7. ASSUME NEW x \in Keys, RemoveLocal(x)
      PROVE  /\ \A q \in Procs : Overwrites(q)' => \A k \in job'[q].keys : Backed(k)'
             /\ \A k \in Keys : newest'[k] = local'[k].sum \/ Backed(k)'
  <2>1. local' = [local EXCEPT ![x] = NoSave] /\ newest' = [newest EXCEPT ![x] = 0] /\ copies' = copies
    BY <1>7 DEF RemoveLocal
  <2>2. /\ \A k \in Keys \ {x} : newest'[k] = newest[k] /\ local'[k] = local[k]
        /\ newest'[x] = local'[x].sum /\ newest'[x] = 0
    BY <1>0, <2>1 DEF Stores, NoSave
  <2>3. Backed(x)'
    BY <2>2 DEF Backed
  <2>4. \A q \in Procs : Calm(q)
    BY <1>7, AlienCalm DEF Alien
  <2> QED BY <1>3, <2>1, <2>2, <2>3, <2>4
<1>8. ASSUME Alien, ~\E x \in Keys : RemoveLocal(x)
      PROVE  /\ \A q \in Procs : Overwrites(q)' => \A k \in job'[q].keys : Backed(k)'
             /\ \A k \in Keys : newest'[k] = local'[k].sum \/ Backed(k)'
  <2>1. SavesStand
    BY <1>8 DEF Alien, Kill, SwitchScope, OtherUpload, OtherDelete, vars, phone, past, noted, SavesStand
  <2> QED BY <1>2, <1>8, <2>1, AlienCalm
<1> QED BY <1>4, <1>5, <1>6, <1>7, <1>8, Steps

------------------------------------------------------------------------------
(* Nothing is overwritten unseen. *)

\* The save of k, if there was one, is the one there was or descends from it.
Later(k) == local[k].rev # 0 => local'[k].rev # 0 /\ from[local[k].sum] \subseteq from'[local'[k].sum]
\* It descends from the version it is based on.
Seen(k) == local[k].cloud # 0 => vers[k][local[k].cloud] \in from[local[k].sum]

LEMMA NoBlindIs ==
  NoBlindOverwrite <=> (slips \cap {"crossed", "removed"} = {} => \A k \in Keys : Seen(k))
BY DEF NoBlindOverwrite, Seen

LEMMA SameLater ==
  ASSUME Shape, Grows, NEW k \in Keys, local'[k].rev = local[k].rev, local'[k].sum = local[k].sum
  PROVE  Later(k)
<1>1. local[k].rev # 0 => local[k].sum \in Made
  BY DEF Shape, Stores
<1> QED BY <1>1 DEF Later, Grows

\* A version the server has, and what the save on top of it descends from.
LEMMA SeenStands ==
  ASSUME Shape, Grows, NEW k \in Keys, Seen(k), local'[k] = local[k]
  PROVE  Seen(k)'
<1>1. CASE local[k].cloud = 0
  BY <1>1 DEF Seen
<1>2. CASE local[k].cloud # 0
  <2>1. local[k].rev # 0
    BY <1>2 DEF Shape, Stores, NoSave
  <2>2. local[k].cloud \in Revs(k)
    <3>1. local[k].cloud \in 0 .. Len(vers[k]) /\ Len(vers[k]) \in Nat
      BY Numbers DEF Shape, Stores
    <3> QED BY <1>2, <3>1 DEF Revs
  <2>3. vers'[k][local[k].cloud] = vers[k][local[k].cloud]
    BY <2>2 DEF Grows
  <2>4. from[local[k].sum] \subseteq from'[local'[k].sum]
    BY <2>1, SameLater DEF Later
  <2> QED BY <1>2, <2>3, <2>4 DEF Seen
<1> QED BY <1>1, <1>2

\* Who sends has a task.
LEMMA SendersTask ==
  ASSUME Jobs, NEW p \in Procs, Sends(p)
  PROVE  /\ job[p].task.key \in Keys /\ Updating(p, job[p].task.key)
         /\ job[p].stages = <<"update", "complete", "next">> =>
              job[p].save.sum = job[p].task.sum /\ Revision(job[p].task.key, job[p].save)
<1>1. Reads(p) /\ job[p].op = "run" /\ job[p].stages \in {<<"upload", "next">>, <<"update", "complete", "next">>}
  BY Reading DEF Sends, Sending
<1>2. job[p].stages \notin Taskless
  BY <1>1, RunKinds
<1>3. IsTask(job[p].task)
  BY <1>1, <1>2 DEF Reads, Good, InLine
<1>4. To(p, "upload") \/ To(p, "update")
  BY <1>1, Ahead
<1> QED BY <1>1, <1>3, <1>4 DEF Reads, Good, IsTask, Updating

LEMMA DescendsStands ==
  ASSUME Shape, Descends, NEW p \in Procs, Sends(p), slips \cap {"crossed", "removed"} = {},
         NEW k, k = job[p].task.key, Later(k)
  PROVE  local'[k].rev # 0 /\ job[p].task.sum \in from'[local'[k].sum]
BY DEF Descends, Later

LEMMA CommitLater ==
  ASSUME Shape, Grows, NEW p \in Procs, NEW x \in Keys, NEW base \in {0, local[x].cloud}, CommitSave(p, x, base), NEW k \in Keys
  PROVE  Later(k) /\ (Seen(k) => Seen(k)')
<1>1. Committed(p, x, base) /\ Descended(x) /\ vers' = vers
  BY CommitSaveEffect DEF Shape, CommitSave, cloud
<1>2. PICK v \in Save : /\ v.rev = local[x].rev + 1 /\ v.cloud = base /\ v.sum = Len(from) + 1
                        /\ local' = [local EXCEPT ![x] = v]
  BY <1>1 DEF Committed
<1>3. local \in [Keys -> Save] /\ local[x].rev \in Nat
  BY DEF Shape, Stores, Save
<1>4. CASE k # x
  <2>1. local'[k] = local[k]
    BY <1>2, <1>3, <1>4
  <2> QED BY <2>1, SameLater, SeenStands
<1>5. CASE k = x
  <2>1. local'[k] = v
    BY <1>2, <1>3, <1>5
  <2>2. local[k].rev # 0 => from[local[k].sum] \subseteq from'[v.sum]
    BY <1>1, <1>2, <1>5 DEF Descended
  <2>3. Later(k)
    BY <1>2, <1>3, <1>5, <2>1, <2>2 DEF Later
  <2>4. ASSUME Seen(k) PROVE Seen(k)'
    <3>1. CASE v.cloud = 0
      BY <2>1, <3>1 DEF Seen
    <3>2. CASE v.cloud # 0
      <4>1. v.cloud = local[k].cloud /\ local[k].cloud # 0
        BY <1>2, <1>5, <3>2
      <4>2. local[k].rev # 0
        BY <4>1 DEF Shape, Stores, NoSave
      <4> QED BY <1>1, <2>1, <2>2, <2>4, <4>1, <4>2 DEF Seen
    <3> QED BY <3>1, <3>2
  <2> QED BY <2>3, <2>4
<1> QED BY <1>4, <1>5

\* After the answer to an upload, and after a conflict is resolved, a save is based on a
\* version it has seen.
LEMMA UpdateSeen ==
  ASSUME Shape, Shape', Grows, Descends, NEW p \in Procs, UpdateCloudRevision(p), slips \cap {"crossed", "removed"} = {}, NEW k \in Keys
  PROVE  Later(k) /\ (Seen(k) => Seen(k)')
<1> PICK x : x = IF job[p].op = "keep" THEN Key(p) ELSE job[p].task.key
  OBVIOUS
<1>0. vers' = vers
  BY DEF UpdateCloudRevision, cloud
<1>1. /\ At(p, "update") /\ x \in Keys /\ vers' = vers
      /\ \/ local' = local
         \/ /\ local[x].rev # 0
            /\ \E v \in Save : /\ v.rev = local[x].rev /\ v.sum = local[x].sum /\ v.cloud = job[p].save.cloud
                               /\ local' = [local EXCEPT ![x] = v]
            /\ job[p].op # "keep" => from' = from
            /\ job[p].op = "keep" => from[job[p].save.sum] \subseteq from'[local[x].sum]
  <2>1. Stores /\ Server /\ Jobs
    BY DEF Shape
  <2> QED BY <1>0, <2>1, UpdateEffect
<1>2. CASE local'[k] = local[k]
  BY <1>2, SameLater, SeenStands
<1>3. ASSUME k = x, local[x].rev # 0, NEW v \in Save, v.rev = local[x].rev, v.sum = local[x].sum, v.cloud = job[p].save.cloud,
             local'[k] = v, job[p].op # "keep" => from' = from,
             job[p].op = "keep" => from[job[p].save.sum] \subseteq from'[local[x].sum]
      PROVE  Later(k) /\ Seen(k)'
  <2>1. Later(k)
    BY <1>3, SameLater
  <2>2. CASE job[p].op = "keep"
    <3>1. job[p].stages = <<"update", "complete", "enqueue", "run">> /\ Reads(p)
      BY <1>1, <2>2, Reading, AtStage DEF Shape
    <3>2. job[p].stages \in Downloaded /\ job[p].keys = {x}
      BY <2>2, <3>1, KeepKinds, KeyIs DEF Resolvers
    <3>3. Revision(x, job[p].save)
      BY <2>2, <3>1, <3>2 DEF Reads, Good
    <3>4. vers[x][v.cloud] = job[p].save.sum /\ job[p].save.sum \in Made
      BY <1>3, <3>3, Numbers DEF Revision, Shape, Server
    <3>5. job[p].save.sum \in from[job[p].save.sum]
      BY <3>4 DEF Shape, Server
    <3> QED BY <1>1, <1>3, <2>1, <2>2, <3>4, <3>5 DEF Seen
  <2>3. CASE job[p].op # "keep"
    <3>1. job[p].op = "run" /\ job[p].stages = <<"update", "complete", "next">>
      BY <1>1, <2>3, Reading, AtStage DEF Shape
    <3>2. Sends(p)
      BY <3>1 DEF Sends, Sending
    <3>3. job[p].save.sum = job[p].task.sum /\ Revision(x, job[p].save)
      BY <2>3, <3>1, <3>2, SendersTask DEF Shape
    <3>4. job[p].task.sum \in from[local[x].sum]
      BY <2>3, <3>2 DEF Descends
    <3> QED BY <1>1, <1>3, <2>1, <2>3, <3>3, <3>4 DEF Seen, Revision
  <2> QED BY <2>1, <2>2, <2>3
<1>4. local'[k] = local[k] \/ (k = x /\ local' # local)
  BY <1>1 DEF Shape, Stores
<1>5. ASSUME k = x, local' # local PROVE Later(k) /\ Seen(k)'
  <2>1. PICK v \in Save : /\ v.rev = local[x].rev /\ v.sum = local[x].sum /\ v.cloud = job[p].save.cloud
                          /\ local' = [local EXCEPT ![x] = v]
    BY <1>1, <1>5
  <2>2. local'[k] = v
    BY <1>1, <1>5, <2>1 DEF Shape, Stores
  <2> QED BY <1>1, <1>3, <1>5, <2>1, <2>2
<1> QED BY <1>2, <1>4, <1>5

LEMMA PutSeen ==
  ASSUME Shape, Grows, NEW p \in Procs, Put(p), NEW k \in Keys
  PROVE  (k # Key(p) => local'[k] = local[k]) /\ (Seen(k) => Seen(k)')
<1> PICK x : x = Key(p)
  OBVIOUS
<1>1. /\ x \in Keys /\ Revision(x, job[p].save) /\ vers' = vers /\ from' = from
      /\ \E v \in Save : v.cloud = job[p].save.cloud /\ v.sum = job[p].save.sum /\ local' = [local EXCEPT ![x] = v]
  BY PutEffect DEF Shape, cloud
<1>2. CASE k # x
  <2>1. local'[k] = local[k]
    BY <1>1, <1>2 DEF Shape, Stores
  <2> QED BY <1>2, <2>1, SeenStands
<1>3. CASE k = x
  <2>1. local'[k].cloud = job[p].save.cloud /\ local'[k].sum = job[p].save.sum
    BY <1>1, <1>3 DEF Shape, Stores
  <2>2. vers[k][job[p].save.cloud] = job[p].save.sum /\ job[p].save.cloud \in Revs(k)
    BY <1>1, <1>3 DEF Revision
  <2>3. job[p].save.sum \in from[job[p].save.sum]
    BY <1>3, <2>2 DEF Shape, Server
  <2> QED BY <1>1, <1>3, <2>1, <2>2, <2>3 DEF Seen
<1> QED BY <1>2, <1>3

LEMMA RunTaskDescends ==
  ASSUME Shape, Grows, NEW p \in Procs, RunTask(p), Sends(p)', NEW k, k = job'[p].task.key
  PROVE  local'[k].rev # 0 /\ job'[p].task.sum \in from'[local'[k].sum]
<1>1. \A t \in job[p].todo : IsTask(t)
  BY Reading DEF Reads, Good, Shape
<1>2. PICK t \in job[p].todo : /\ (local[t.key].rev = t.rev /\ local[t.key].sum = t.sum) \/ job'[p].stages = <<"complete", "next">>
                               /\ job'[p].task = t
  BY <1>1, RunTaskEffect DEF Shape, IsTask, Becomes, Has
<1>3. job'[p].stages # <<"complete", "next">>
  BY PlainIs DEF Sends, Plain
<1>4. local' = local /\ from' = from
  BY DEF RunTask, phone, past, noted
<1>5. t.rev # 0 /\ t.sum \in from[t.sum]
  BY <1>1 DEF IsTask, Shape, Server
<1> QED BY <1>2, <1>3, <1>4, <1>5

LEMMA SeenNext ==
  ASSUME Shape, Descends, NoBlindOverwrite, [Next]_vars
  PROVE  Descends' /\ NoBlindOverwrite'
<1>0. Shape' /\ Grows /\ slips \subseteq slips' /\ Server /\ Jobs /\ Stores /\ Ids
  BY ShapeNext, SlipsGrow DEF Shape
<1> SUFFICES ASSUME slips' \cap {"crossed", "removed"} = {}
             PROVE  /\ \A q \in Procs : Sends(q)' => local'[job'[q].task.key].rev # 0
                                                      /\ job'[q].task.sum \in from'[local'[job'[q].task.key].sum]
                    /\ \A k \in Keys : Seen(k)'
  BY DEF Descends, NoBlindOverwrite, Seen
<1>1. slips \cap {"crossed", "removed"} = {}
  BY <1>0
<1>2. \A k \in Keys : Seen(k)
  BY <1>1, NoBlindIs
\* What q is sending, after a step that is another's.
<1>3. ASSUME NEW q \in Procs, Calm(q), Sends(q)', Later(job[q].task.key)
      PROVE  local'[job'[q].task.key].rev # 0 /\ job'[q].task.sum \in from'[local'[job'[q].task.key].sum]
  <2>1. Sends(q) /\ job'[q].task = job[q].task
    BY <1>3 DEF Calm, Stays, Has, Sends
  <2> QED BY <1>1, <1>3, <2>1, DescendsStands
<1>4. ASSUME NEW q \in Procs, Calm(q), Sends(q)' PROVE job[q].task.key \in Keys /\ Updating(q, job[q].task.key)
  <2>1. Sends(q)
    BY <1>4 DEF Calm, Stays, Has, Sends
  <2> QED BY <1>0, <2>1, SendersTask
<1>5. ASSUME \A k \in Keys : Later(k) /\ Seen(k)', \A q \in Procs : Calm(q)
      PROVE  /\ \A q \in Procs : Sends(q)' => local'[job'[q].task.key].rev # 0
                                               /\ job'[q].task.sum \in from'[local'[job'[q].task.key].sum]
             /\ \A k \in Keys : Seen(k)'
  BY <1>3, <1>4, <1>5
<1>6. ASSUME local' = local, NEW k \in Keys PROVE Later(k) /\ Seen(k)'
  BY <1>0, <1>2, <1>6, SameLater, SeenStands
<1>7. ASSUME NEW p \in Procs, Begin(p)
      PROVE  /\ \A q \in Procs : Sends(q)' => local'[job'[q].task.key].rev # 0
                                               /\ job'[q].task.sum \in from'[local'[job'[q].task.key].sum]
             /\ \A k \in Keys : Seen(k)'
  <2>1. \A q \in Procs : Calm(q)
    BY <1>0, <1>7, BeginCalm
  <2>2. ASSUME NEW k \in Keys PROVE Later(k) /\ Seen(k)'
    <3>1. CASE local' = local
      BY <1>6, <3>1
    <3>2. CASE \E x \in Keys : \E base \in {0, local[x].cloud} : CommitSave(p, x, base)
      BY <1>0, <1>2, <3>2, CommitLater
    <3> QED BY <1>7, <3>1, <3>2 DEF Begin, Wake, Delete, Retry, KeepLocal, UseCloud, RestoreCloudBattery, RestoreCloudVersion, phone
  <2> QED BY <1>5, <2>1, <2>2
<1>8. ASSUME NEW p \in Procs, Stage(p)
      PROVE  /\ \A q \in Procs : Sends(q)' => local'[job'[q].task.key].rev # 0
                                               /\ job'[q].task.sum \in from'[local'[job'[q].task.key].sum]
             /\ \A k \in Keys : Seen(k)'
  <2>1. Comes(p) /\ \A q \in Procs \ {p} : Calm(q)
    BY <1>0, <1>8, StageCalm
  <2>2. CASE ~Put(p)
    <3>1. ASSUME NEW k \in Keys PROVE Later(k) /\ Seen(k)'
      <4>1. CASE UpdateCloudRevision(p)
        BY <1>0, <1>1, <1>2, <4>1, UpdateSeen
      <4>2. CASE local' = local
        BY <1>6, <4>2
      <4> QED BY <1>8, <2>2, <4>1, <4>2
              DEF Stage, ReadQueue, WriteQueue, WriteFails, Join, RunDue, DeleteDue, NoneLeft, RunTask, RestoreTask, Upload, Erase,
                  StageFails, Fetch, Copy, Heads, Revive, phone
    <3>2. ASSUME Sends(p)' PROVE local'[job'[p].task.key].rev # 0 /\ job'[p].task.sum \in from'[local'[job'[p].task.key].sum]
      <4>1. CASE RunTask(p)
        BY <1>0, <3>2, <4>1, RunTaskDescends
      <4>2. CASE Sends(p) /\ job'[p].task = job[p].task
        <5>1. job[p].task.key \in Keys
          BY <1>0, <4>2, SendersTask
        <5> QED BY <1>1, <3>1, <4>2, <5>1, DescendsStands
      <4> QED BY <2>1, <3>2, <4>1, <4>2 DEF Comes
    <3> QED BY <1>3, <1>4, <2>1, <3>1, <3>2
  <2>3. CASE Put(p)
    <3>1. \A k \in Keys : (k # Key(p) => local'[k] = local[k]) /\ Seen(k)'
      BY <1>0, <1>2, <2>3, PutSeen
    <3>2. ASSUME NEW q \in Procs \ {p}, Sends(q)'
          PROVE  local'[job'[q].task.key].rev # 0 /\ job'[q].task.sum \in from'[local'[job'[q].task.key].sum]
      <4>1. job[q].task.key \in Keys /\ Updating(q, job[q].task.key)
        BY <1>4, <2>1, <3>2
      <4>2. ~\E r \in Procs \ {p} : Updating(r, Key(p))
        BY <2>3 DEF Put, Crossed, Slip
      <4>3. Later(job[q].task.key)
        BY <1>0, <3>1, <4>1, <4>2, SameLater
      <4> QED BY <1>3, <2>1, <3>2, <4>3
    <3>3. ~Sends(p)'
      <4>1. At(p, "put") /\ ~At(p, "next") /\ ~At(p, "upload")
        BY <2>3 DEF Put, At
      <4> QED BY <2>1, <4>1 DEF Comes, RunTask, Upload
    <3> QED BY <3>1, <3>2, <3>3
  <2> QED BY <2>2, <2>3
<1>9. ASSUME NEW x \in Keys, RemoveLocal(x)
      PROVE  /\ \A q \in Procs : Sends(q)' => local'[job'[q].task.key].rev # 0
                                               /\ job'[q].task.sum \in from'[local'[job'[q].task.key].sum]
             /\ \A k \in Keys : Seen(k)'
  <2>1. Quiet /\ job' = job
    BY <1>9 DEF RemoveLocal, Slip
  <2>2. \A q \in Procs : ~Sends(q)'
    BY <2>1 DEF Quiet, Idle, Sends, Sending
  <2>3. ASSUME NEW k \in Keys PROVE Seen(k)'
    <3>1. local' = [local EXCEPT ![x] = NoSave]
      BY <1>9 DEF RemoveLocal
    <3>2. CASE k = x
      BY <1>0, <3>1, <3>2 DEF Stores, NoSave, Seen
    <3>3. CASE k # x
      <4>1. local'[k] = local[k]
        BY <1>0, <3>1, <3>3 DEF Stores
      <4> QED BY <1>0, <1>2, <4>1, SeenStands
    <3> QED BY <3>2, <3>3
  <2> QED BY <2>2, <2>3
<1>10. ASSUME Alien, ~\E x \in Keys : RemoveLocal(x)
      PROVE  /\ \A q \in Procs : Sends(q)' => local'[job'[q].task.key].rev # 0
                                               /\ job'[q].task.sum \in from'[local'[job'[q].task.key].sum]
             /\ \A k \in Keys : Seen(k)'
  <2>1. local' = local
    BY <1>10 DEF Alien, Kill, SwitchScope, OtherUpload, OtherDelete, vars, phone
  <2>2. \A q \in Procs : Calm(q)
    BY <1>10, AlienCalm
  <2>3. \A k \in Keys : Later(k) /\ Seen(k)'
    BY <1>6, <2>1
  <2> QED BY <1>5, <2>2, <2>3
<1> QED BY <1>7, <1>8, <1>9, <1>10, Steps

------------------------------------------------------------------------------
(* The queue. *)

LEMMA NewerAt ==
  ASSUME Newer, "scope" \notin slips, NEW p \in Procs, At(p, "write"), job[p].stale = "no", NEW k \in Keys,
         queue["account"][k].id # 0, job[p].list[k].id # 0
  PROVE  job[p].list[k].rev >= queue["account"][k].rev
BY DEF Newer

\* Who stays at a write has what it had, and so has the queue.
LEMMA CalmNewer ==
  ASSUME Newer, "scope" \notin slips, queue' = queue, NEW q \in Procs, Calm(q), At(q, "write")', job'[q].stale = "no",
         NEW k \in Keys, queue'["account"][k].id # 0, job'[q].list[k].id # 0
  PROVE  job'[q].list[k].rev >= queue'["account"][k].rev
<1>1. Stays(q) /\ job[q].stale = "no"
  BY DEF Calm
<1>2. At(q, "write") /\ job'[q].list = job[q].list
  BY <1>1 DEF Stays, Has, At, Idle
<1> QED BY <1>1, <1>2, NewerAt

LEMMA ReadNewer ==
  ASSUME Shape, NEW p \in Procs, ReadQueue(p), At(p, "write")', NEW k \in Keys, queue[scope][k].id # 0, job'[p].list[k].id # 0
  PROVE  job'[p].list[k].rev >= queue[scope][k].rev
<1>1. PICK stage \in QueueStages :
        /\ At(p, stage)
        /\ \/ stage \notin {"complete", "clear"} /\ Moves(p, Tail(job[p].stages))
           \/ /\ Becomes(p, <<"write">> \o job[p].stages, job[p].todo, job[p].task, job[p].save, job'[p].list)
              /\ job'[p].list \in [Keys -> Task]
              /\ \A x \in Keys : Edit(p, stage, queue[scope], job'[p].list, Fresh(p), x)
  BY ReadEffect DEF Shape
<1>2. CASE stage \notin {"complete", "clear"} /\ Moves(p, Tail(job[p].stages))
  <2>1. Tail(job[p].stages) \in {<<"run">>, <<"next">>}
    <3>1. job[p].stages \in {<<"enqueue", "run">>, <<"back", "next">>, <<"now", "run">>, <<"conflict", "next">>,
                             <<"delay", "next">>, <<"fail", "next">>}
      BY <1>1, <1>2, Reading, AtStage DEF QueueStages, Shape
    <3> QED BY <3>1, Nexts
  <2>2. job'[p].stages \in Plain
    BY <1>2, <2>1 DEF Moves, Becomes, Has, Plain
  <2> QED BY <2>2, PlainIs DEF At, Idle
<1>3. ASSUME NEW l \in [Keys -> Task], l = job'[p].list, NEW old \in [Keys -> Task], old = queue[scope], NEW fresh, fresh = Fresh(p),
             Edit(p, stage, old, l, fresh, k)
      PROVE  l[k].rev >= old[k].rev
  <2>1. l[k].rev \in Nat /\ old[k].rev \in Nat
    BY <1>3 DEF Task
  <2>2. l[k] # NoTask /\ old[k].id # 0
    BY <1>3 DEF NoTask
  <2> QED BY <1>3, <2>1, <2>2 DEF Edit, Same
<1>4. queue[scope] \in [Keys -> Task]
  BY DEF Shape, Stores
<1> QED BY <1>1, <1>2, <1>3, <1>4

LEMMA NewerNext ==
  ASSUME Shape, Newer, [Next]_vars
  PROVE  Newer'
<1>0. slips \subseteq slips' /\ Stores /\ Server /\ Jobs /\ Ids
  BY SlipsGrow DEF Shape
<1> SUFFICES ASSUME "scope" \notin slips'
             PROVE  /\ scope' = "account"
                    /\ \A q \in Procs : At(q, "write")' /\ job'[q].stale = "no" => \A k \in Keys :
                         queue'["account"][k].id # 0 /\ job'[q].list[k].id # 0 => job'[q].list[k].rev >= queue'["account"][k].rev
  BY DEF Newer
<1>1. "scope" \notin slips /\ scope = "account"
  BY <1>0 DEF Newer
<1>2. scope' = "account"
  <2>1. ASSUME NEW p \in Procs, Begin(p) PROVE scope' = scope
    BY <2>1 DEF Begin, Wake, Delete, CommitSave, Retry, KeepLocal, UseCloud, RestoreCloudBattery, RestoreCloudVersion, phone
  <2>2. ASSUME NEW p \in Procs, Stage(p) PROVE scope' = scope
    BY <2>2 DEF Stage, ReadQueue, WriteQueue, WriteFails, Join, RunDue, DeleteDue, NoneLeft, RunTask, RestoreTask, Upload, Erase,
                UpdateCloudRevision, StageFails, Fetch, Copy, Put, Heads, Revive, phone
  <2>3. ~SwitchScope
    BY DEF SwitchScope, Slip
  <2>4. Alien => scope' = scope
    BY <2>3 DEF Alien, Kill, RemoveLocal, OtherUpload, OtherDelete, vars, phone
  <2> QED BY <1>1, <2>1, <2>2, <2>4, Steps
<1>3. ASSUME queue' = queue, \A q \in Procs : Calm(q), NEW q \in Procs, At(q, "write")', job'[q].stale = "no", NEW k \in Keys,
             queue'["account"][k].id # 0, job'[q].list[k].id # 0
      PROVE  job'[q].list[k].rev >= queue'["account"][k].rev
  BY <1>1, <1>3, CalmNewer
<1>4. ASSUME NEW p \in Procs, Begin(p) PROVE queue' = queue /\ \A q \in Procs : Calm(q)
  <2>1. queue' = queue
    BY <1>4 DEF Begin, Wake, Delete, CommitSave, Retry, KeepLocal, UseCloud, RestoreCloudBattery, RestoreCloudVersion, phone
  <2> QED BY <1>0, <1>4, <2>1, BeginCalm
<1>5. Alien => queue' = queue /\ \A q \in Procs : Calm(q)
  <2>1. Alien => queue' = queue
    BY DEF Alien, Kill, SwitchScope, RemoveLocal, OtherUpload, OtherDelete, vars, phone
  <2> QED BY <2>1, AlienCalm
<1>6. ASSUME NEW p \in Procs, Stage(p), NEW q \in Procs, At(q, "write")', job'[q].stale = "no", NEW k \in Keys,
             queue'["account"][k].id # 0, job'[q].list[k].id # 0
      PROVE  job'[q].list[k].rev >= queue'["account"][k].rev
  <2>1. Comes(p) /\ \A r \in Procs \ {p} : Calm(r)
    BY <1>0, <1>6, StageCalm
  <2>2. CASE WriteQueue(p)
    <3>1. /\ At(p, "write")
          /\ \A r \in Procs \ {p} : Stays(r) /\ job'[r].stale = IF At(r, "write") \/ At(r, "clear") THEN "yes" ELSE job[r].stale
      BY <1>0, <2>2, WriteEffect
    <3>2. ~ReadQueue(p)
      BY <3>1 DEF ReadQueue, At, QueueStages
    <3>3. q # p
      BY <1>6, <2>1, <3>2 DEF Comes
    <3>4. At(q, "write")
      BY <1>6, <3>1, <3>3 DEF Stays, Has, At, Idle
    <3> QED BY <1>6, <3>1, <3>3, <3>4
  <2>3. CASE ~WriteQueue(p)
    <3>1. queue' = queue
      BY <1>6, <2>3
         DEF Stage, ReadQueue, WriteFails, Join, RunDue, DeleteDue, NoneLeft, RunTask, RestoreTask, Upload, Erase,
             UpdateCloudRevision, StageFails, Fetch, Copy, Put, Heads, Revive, phone
    <3>2. CASE q # p
      BY <1>1, <1>6, <2>1, <3>1, <3>2, CalmNewer
    <3>3. CASE q = p
      BY <1>1, <1>6, <2>1, <3>1, <3>3, ReadNewer DEF Comes
    <3> QED BY <3>2, <3>3
  <2> QED BY <2>2, <2>3
<1> QED BY <1>2, <1>3, <1>4, <1>5, <1>6, Steps

LEMMA QueueSteps ==
  ASSUME [Next]_vars
  PROVE  queue' = queue \/ \E p \in Procs : WriteQueue(p)
<1>1. ASSUME NEW p \in Procs, Begin(p) PROVE queue' = queue
  BY <1>1 DEF Begin, Wake, Delete, CommitSave, Retry, KeepLocal, UseCloud, RestoreCloudBattery, RestoreCloudVersion, phone
<1>2. ASSUME NEW p \in Procs, Stage(p), ~WriteQueue(p) PROVE queue' = queue
  BY <1>2 DEF Stage, ReadQueue, WriteFails, Join, RunDue, DeleteDue, NoneLeft, RunTask, RestoreTask, Upload, Erase,
              UpdateCloudRevision, StageFails, Fetch, Copy, Put, Heads, Revive, phone
<1>3. Alien => queue' = queue
  BY DEF Alien, Kill, SwitchScope, RemoveLocal, OtherUpload, OtherDelete, vars, phone
<1> QED BY <1>1, <1>2, <1>3, Steps

LEMMA NewestStays ==
  ASSUME Shape, Newer, [Next]_vars, slips' \cap {"raced", "scope"} = {}, NEW s \in DOMAIN queue, NEW k \in Keys,
         queue[s][k].id # 0, queue'[s][k].id # 0
  PROVE  queue'[s][k].rev >= queue[s][k].rev
<1>1. /\ s \in {"account", "anonymous"} /\ queue[s][k].rev \in Nat /\ slips \subseteq slips'
  BY SlipsGrow DEF Shape, Stores, Task
<1>2. CASE queue' = queue
  BY <1>1, <1>2
<1>3. ASSUME NEW p \in Procs, WriteQueue(p) PROVE queue'[s][k].rev >= queue[s][k].rev
  <2>1. At(p, "write") /\ queue' = [queue EXCEPT ![scope] = job[p].list] /\ (job[p].stale = "yes" => "raced" \in slips')
    BY <1>3 DEF WriteQueue, Slip
  <2>2. "scope" \notin slips /\ scope = "account"
    BY <1>1 DEF Newer
  <2>3. job[p].stale = "no"
    BY <2>1, Reading DEF Shape, Job
  <2>4. CASE s = "account"
    <3>1. queue'[s] = job[p].list
      BY <1>1, <2>1, <2>2, <2>4 DEF Shape, Stores
    <3>2. job[p].list[k].id # 0
      BY <3>1
    <3> QED BY <2>1, <2>2, <2>3, <2>4, <3>1, <3>2, NewerAt
  <2>5. CASE s # "account"
    <3>1. queue'[s] = queue[s]
      BY <1>1, <2>1, <2>2, <2>5 DEF Shape, Stores
    <3> QED BY <1>1, <3>1
  <2> QED BY <2>4, <2>5
<1> QED BY <1>2, <1>3, QueueSteps

------------------------------------------------------------------------------
(* No deletion is undone. *)

LEMMA EditGone ==
  ASSUME Stores, NEW p \in Procs, NEW stage \in QueueStages, NEW l \in [Keys -> Task], NEW k \in Keys,
         NEW fresh, Edit(p, stage, queue[scope], l, fresh, k), NEW ids, 0 \notin ids, queue[scope][k].id \notin ids,
         fresh.id \notin ids, stage = "back" => job[p].task.id \notin ids
  PROVE  l[k].id \notin ids
<1>1. NoTask.id = 0
  BY DEF NoTask
<1> QED BY <1>1 DEF Edit, Same

LEMMA GoneStands ==
  ASSUME Shape, NEW ids \in SUBSET (1 .. issued), Gone(ids), [Next]_vars, "raced" \notin slips',
         \A p \in Procs : At(p, "back") => job[p].task.id \notin ids
  PROVE  Gone(ids)'
<1>0. Stores /\ Server /\ Jobs /\ Ids
  BY DEF Shape
<1>1. ASSUME NEW q \in Procs, queue' = queue, Calm(q), At(q, "write")', job'[q].stale = "no", NEW k \in Keys
      PROVE  job'[q].list[k].id \notin ids
  <2>1. Stays(q) /\ job[q].stale = "no"
    BY <1>1 DEF Calm
  <2>2. At(q, "write") /\ job'[q].list = job[q].list
    BY <1>1, <2>1 DEF Stays, Has, At, Idle
  <2> QED BY <2>1, <2>2 DEF Gone
<1>2. CASE queue' = queue /\ \A q \in Procs : Calm(q)
  BY <1>1, <1>2 DEF Gone
<1>3. ASSUME NEW p \in Procs, Begin(p) PROVE queue' = queue /\ \A q \in Procs : Calm(q)
  <2>1. queue' = queue
    BY <1>3 DEF Begin, Wake, Delete, CommitSave, Retry, KeepLocal, UseCloud, RestoreCloudBattery, RestoreCloudVersion, phone
  <2> QED BY <1>0, <1>3, <2>1, BeginCalm
<1>4. Alien => queue' = queue /\ \A q \in Procs : Calm(q)
  <2>1. Alien => queue' = queue
    BY DEF Alien, Kill, SwitchScope, RemoveLocal, OtherUpload, OtherDelete, vars, phone
  <2> QED BY <2>1, AlienCalm
<1>5. ASSUME NEW p \in Procs, Stage(p) PROVE Gone(ids)'
  <2>1. Comes(p) /\ \A r \in Procs \ {p} : Calm(r)
    BY <1>0, <1>5, StageCalm
  <2>2. CASE WriteQueue(p)
    <3>1. /\ At(p, "write")
          /\ \A r \in Procs \ {p} : Stays(r) /\ job'[r].stale = IF At(r, "write") \/ At(r, "clear") THEN "yes" ELSE job[r].stale
      BY <1>0, <2>2, WriteEffect
    <3>2. ~ReadQueue(p)
      BY <3>1 DEF ReadQueue, At, QueueStages
    <3>3. ASSUME NEW q \in Procs, At(q, "write")', job'[q].stale = "no" PROVE FALSE
      <4>1. q # p
        BY <2>1, <3>2, <3>3 DEF Comes
      <4>2. At(q, "write")
        BY <3>1, <3>3, <4>1 DEF Stays, Has, At, Idle
      <4> QED BY <3>1, <3>3, <4>1, <4>2
    <3>4. queue' = [queue EXCEPT ![scope] = job[p].list] /\ job[p].stale # "yes"
      BY <2>2 DEF WriteQueue, Slip
    <3>5. job[p].stale = "no"
      BY <1>0, <3>4, Reading DEF Job
    <3>6. ASSUME NEW s \in {"account", "anonymous"}, NEW k \in Keys PROVE queue'[s][k].id \notin ids
      <4>1. queue'[s] = queue[s] \/ queue'[s] = job[p].list
        BY <1>0, <3>4 DEF Stores
      <4>2. job[p].list[k].id \notin ids /\ queue[s][k].id \notin ids
        BY <3>1, <3>5 DEF Gone
      <4> QED BY <4>1, <4>2
    <3> QED BY <3>3, <3>6 DEF Gone
  <2>3. CASE ~WriteQueue(p)
    <3>1. queue' = queue
      BY <1>5, <2>3
         DEF Stage, ReadQueue, WriteFails, Join, RunDue, DeleteDue, NoneLeft, RunTask, RestoreTask, Upload, Erase,
             UpdateCloudRevision, StageFails, Fetch, Copy, Put, Heads, Revive, phone
    <3>2. ASSUME At(p, "write")', job'[p].stale = "no", NEW k \in Keys PROVE job'[p].list[k].id \notin ids
      <4>1. ReadQueue(p)
        BY <2>1, <3>2 DEF Comes
      <4>2. PICK stage \in QueueStages :
              /\ At(p, stage)
              /\ \/ stage \notin {"complete", "clear"} /\ Moves(p, Tail(job[p].stages))
                 \/ /\ job'[p].list \in [Keys -> Task]
                    /\ \A x \in Keys : Edit(p, stage, queue[scope], job'[p].list, Fresh(p), x)
        BY <1>0, <4>1, ReadEffect
      <4>3. ~(stage \notin {"complete", "clear"} /\ Moves(p, Tail(job[p].stages)))
        <5>1. SUFFICES ASSUME stage \notin {"complete", "clear"}, Moves(p, Tail(job[p].stages)) PROVE FALSE
          OBVIOUS
        <5>2. job[p].stages \in {<<"enqueue", "run">>, <<"back", "next">>, <<"now", "run">>, <<"conflict", "next">>,
                                 <<"delay", "next">>, <<"fail", "next">>}
          BY <1>0, <4>2, <5>1, Reading, AtStage DEF QueueStages
        <5>3. Tail(job[p].stages) \in {<<"run">>, <<"next">>}
          BY <5>2, Nexts
        <5>4. job'[p].stages \in Plain
          BY <5>1, <5>3 DEF Moves, Becomes, Has, Plain
        <5> QED BY <3>2, <5>4, PlainIs DEF At, Idle
      <4> PICK l, fresh : l = job'[p].list /\ fresh = Fresh(p)
        OBVIOUS
      <4>4. fresh.id \notin ids
        <5>1. fresh.id = issued + 1 /\ issued \in Nat
          BY <1>0 DEF Fresh, Server
        <5> QED BY <5>1
      <4>5. queue[scope][k].id \notin ids
        BY <1>0 DEF Stores, Gone
      <4>6. l \in [Keys -> Task] /\ Edit(p, stage, queue[scope], l, fresh, k)
        BY <4>2, <4>3
      <4>7. l[k].id \notin ids
        BY <1>0, <4>2, <4>4, <4>5, <4>6, EditGone
      <4> QED BY <4>7
    <3>3. ASSUME NEW q \in Procs, At(q, "write")', job'[q].stale = "no", NEW k \in Keys PROVE job'[q].list[k].id \notin ids
      BY <1>1, <2>1, <3>1, <3>2, <3>3
    <3> QED BY <3>1, <3>3 DEF Gone
  <2> QED BY <2>2, <2>3
<1> QED BY <1>2, <1>3, <1>4, <1>5, Steps

LEMMA OneRuns ==
  ASSUME NEW p, NEW q, Running(p), Running(q)
  PROVE  p = q
BY DEF Running

LEMMA Runner ==
  ASSUME Line, NEW p \in Procs, NEW x, At(p, x), x # "due", job[p].op \in InLine
  PROVE  Running(p)
BY NotDue DEF Line

\* Who comes to run has nothing in hand.
LEMMA RunnerIs ==
  ASSUME Shape, LineStep, NEW q \in Procs, Running(q)'
  PROVE  Running(q) \/ job'[q].stages = <<"due">>
<1>0. Line
  BY DEF Shape
<1>1. CASE line' = line
  BY <1>1 DEF Running
<1>2. ASSUME NEW p \in Procs, Joins(p) PROVE Running(q) \/ job'[q].stages = <<"due">>
  <2>1. CASE q = p
    BY <1>2, <2>1 DEF Joins
  <2>2. CASE q # p
    <3>1. line' = Append(line, p) /\ line \in Seq(Procs)
      BY <1>0, <1>2 DEF Joins, Line
    <3>2. CASE line = <<>>
      BY <2>2, <3>1, <3>2 DEF Running
    <3>3. CASE line # <<>>
      <4>1. Head(line') = Head(line)
        BY <3>1, <3>3
      <4> QED BY <3>3, <4>1 DEF Running
    <3> QED BY <3>2, <3>3
  <2> QED BY <2>1, <2>2
<1>3. ASSUME NEW p \in Procs, Leaves(p), Running(p) PROVE Running(q) \/ job'[q].stages = <<"due">>
  <2>1. line' = Tail(line) /\ job'[p] = NoJob /\ \A r \in Procs \ {p} : job'[r] = job[r]
    BY <1>3 DEF Leaves, Ends, Gets
  <2>2. q \in ToSet(line') /\ ToSet(line') = ToSet(line) \ {p}
    <3>1. line' \in Seq(Procs) /\ ToSet(line') = ToSet(line) \ {p}
      BY <1>0, <1>3, <2>1, TailIs DEF Line
    <3>2. line' # <<>> /\ line'[1] = q
      BY <3>1 DEF Running
    <3>3. 1 \in DOMAIN line'
      BY <3>1, <3>2
    <3> QED BY <3>1, <3>2, <3>3 DEF ToSet
  <2>3. q # p /\ job[q].op \in InLine
    BY <1>0, <2>2 DEF Line
  <2>4. ~Running(q)
    BY <1>3, <2>3, OneRuns
  <2>5. job[q].stages = <<"due">>
    BY <1>0, <2>3, <2>4 DEF Line
  <2> QED BY <2>1, <2>3, <2>5
<1>4. ASSUME NEW p \in Procs, Leaves(p), ~Running(p) PROVE Running(q) \/ job'[q].stages = <<"due">>
  BY <1>1, <1>4 DEF Leaves, Ends
<1>5. CASE Kill
  BY <1>5 DEF Kill, Running
<1> QED BY <1>1, <1>2, <1>3, <1>4, <1>5 DEF LineStep

LEMMA DueMine ==
  ASSUME Shape', NEW q \in Procs, job'[q].stages = <<"due">>
  PROVE  Mine(q)'
<1> PICK j \in Job : j = job'[q]
  BY DEF Shape, Jobs
<1>1. Good(j)' /\ j.stages = <<"due">>
  BY DEF Shape, Jobs, Fits
<1>2. j.todo = {}
  BY <1>1 DEF Good
<1>3. Todo(q)' = {}
  BY <1>2 DEF Todo
<1>4. /\ j.stages \notin {<<"back", "next">>, <<"write", "back", "next">>, <<"upload", "next">>}
      /\ j.stages # <<"clear", "erase">> /\ j.stages # <<"write", "clear", "erase">> /\ j.stages # <<"erase">>
  BY <1>1
<1> QED BY <1>3, <1>4 DEF Mine

\* Stages at which a deletion, or a task, is under way.
Tense == {<<"back", "next">>, <<"write", "back", "next">>, <<"upload", "next">>, <<"clear", "erase">>,
          <<"write", "clear", "erase">>, <<"erase">>}

LEMMA LooseMine ==
  ASSUME NEW q \in Procs, job'[q].stages \notin Tense, Todo(q)' \cap cancelled' = {}
  PROVE  Mine(q)'
BY DEF Mine, Tense

LEMMA Loose ==
  /\ <<"due">> \notin Tense /\ <<"next">> \notin Tense /\ <<"complete", "next">> \notin Tense /\ <<"conflict", "next">> \notin Tense
  /\ <<"delay", "next">> \notin Tense /\ <<"fail", "next">> \notin Tense /\ <<"update", "complete", "next">> \notin Tense
  /\ <<"write", "complete", "next">> \notin Tense /\ <<"write", "conflict", "next">> \notin Tense
  /\ <<"write", "delay", "next">> \notin Tense /\ <<"write", "fail", "next">> \notin Tense /\ <<>> \notin Tense
BY DEF Tense

LEMMA TodoIds ==
  ASSUME Jobs, Server, NEW q \in Procs
  PROVE  Todo(q) \subseteq 1 .. issued
<1>1. \A t \in job[q].todo : IsTask(t)
  BY Reading DEF Reads, Good
<1>2. \A t \in job[q].todo : t.id \in 1 .. issued
  BY <1>1 DEF IsTask
<1> QED BY <1>2 DEF Todo, Server

\* Another's step leaves the runner what it has.
LEMMA MineStands ==
  ASSUME Shape, [Next]_vars, NEW q \in Procs, Mine(q), Running(q), Stays(q), job'[q].stale \in {job[q].stale, "yes"},
         cancelled' = cancelled, "raced" \notin slips', scope' = scope,
         queue' = queue \/ (At(q, "clear") => job'[q].stale = "yes")
  PROVE  Mine(q)'
<1>0. /\ job'[q].stages = job[q].stages /\ job'[q].todo = job[q].todo /\ job'[q].task = job[q].task
      /\ job'[q].list = job[q].list /\ job'[q].keys = job[q].keys
  BY DEF Stays, Has
<1>1. Todo(q)' = Todo(q)
  BY <1>0 DEF Todo
<1>2. ASSUME job'[q].stages = <<"clear", "erase">>, job'[q].stale = "no" PROVE job'[q].todo = Tasks(job[q].keys)'
  <2>1. At(q, "clear")
    BY <1>0, <1>2 DEF At, Idle
  <2>2. queue' = queue
    BY <1>2, <2>1
  <2>3. job[q].todo = Tasks(job[q].keys)
    BY <1>0, <1>2 DEF Mine
  <2> PICK keys : keys = job[q].keys
    OBVIOUS
  <2>4. Tasks(keys)' = Tasks(keys)
    BY <2>2 DEF Tasks
  <2>5. Tasks(job[q].keys)' = Tasks(keys)'
    BY <1>0 DEF Tasks
  <2> QED BY <1>0, <2>3, <2>4, <2>5
<1>3. ASSUME job'[q].stages = <<"erase">> PROVE Gone(Todo(q))'
  <2> PICK ids : ids = Todo(q)
    OBVIOUS
  <2>1. Gone(ids)
    BY <1>0, <1>3 DEF Mine
  <2>2. ids \subseteq 1 .. issued
    BY TodoIds DEF Shape
  <2>3. \A p \in Procs : ~At(p, "back")
    <3>1. ASSUME NEW p \in Procs, At(p, "back") PROVE FALSE
      <4>1. job[p].op \in InLine
        BY <3>1, Reading, AtStage DEF Shape, InLine
      <4>2. p = q
        BY <3>1, <4>1, Runner, OneRuns DEF Shape
      <4>3. job[p].stages = <<"erase">>
        BY <1>0, <1>3, <4>2
      <4>4. Head(job[p].stages) = "back"
        BY <3>1 DEF At
      <4> QED BY <4>3, <4>4
    <3> QED BY <3>1
  <2>4. Gone(ids)'
    BY <2>1, <2>2, <2>3, GoneStands
  <2> QED BY <1>1, <2>4 DEF Gone
<1>4. /\ Todo(q)' \cap cancelled' = {}
      /\ job'[q].stages \in {<<"back", "next">>, <<"write", "back", "next">>, <<"upload", "next">>} => job'[q].task.id \notin cancelled'
      /\ job'[q].stages = <<"write", "clear", "erase">> /\ job'[q].stale = "no" => \A k \in Keys : job'[q].list[k].id \notin Todo(q)'
  BY <1>0, <1>1 DEF Mine
<1> QED BY <1>1, <1>2, <1>3, <1>4 DEF Mine

LEMMA NoJobMine ==
  ASSUME NEW p \in Procs, job'[p] = NoJob
  PROVE  Mine(p)'
<1>1. job'[p].stages = <<>> /\ job'[p].todo = {}
  BY DEF NoJob
<1>2. Todo(p)' = {}
  BY <1>1 DEF Todo
<1> QED BY <1>1, <1>2, Loose, LooseMine

LEMMA BecomesLoose ==
  ASSUME NEW p \in Procs, NEW stages, NEW todo, NEW task, NEW save, NEW list, Becomes(p, stages, todo, task, save, list),
         stages \notin Tense, \A t \in todo : t.id \notin cancelled, cancelled' = cancelled
  PROVE  Mine(p)'
<1>1. job'[p].stages = stages /\ job'[p].todo = todo
  BY DEF Becomes, Has
<1>2. Todo(p)' \cap cancelled' = {}
  BY <1>1 DEF Todo
<1> QED BY <1>1, <1>2, LooseMine

LEMMA InHand ==
  ASSUME NEW p \in Procs, Mine(p)
  PROVE  \A t \in job[p].todo : t.id \notin cancelled
BY DEF Mine, Todo

LEMMA RunnerOp ==
  ASSUME Line, NEW p \in Procs, Running(p)
  PROVE  job[p].op \in InLine
<1>1. line \in Seq(Procs) /\ line # <<>> /\ line[1] = p
  BY DEF Line, Running
<1>2. 1 \in DOMAIN line
  BY <1>1
<1>3. p \in ToSet(line)
  BY <1>1, <1>2 DEF ToSet
<1> QED BY <1>3 DEF Line

\* A reading of the queue by who runs.
LEMMA ReadMine ==
  ASSUME Shape, NEW p \in Procs, ReadQueue(p), Running(p), Mine(p)
  PROVE  Mine(p)'
<1>0. Stores /\ Server /\ Jobs /\ Line /\ cancelled' = cancelled /\ job[p].op \in InLine /\ queue' = queue /\ Reads(p)
  BY RunnerOp, Reading DEF Shape, ReadQueue, phone
<1>1. PICK stage \in QueueStages :
        /\ At(p, stage)
        /\ \/ stage \notin {"complete", "clear"} /\ Moves(p, Tail(job[p].stages))
           \/ /\ Becomes(p, <<"write">> \o job[p].stages, job[p].todo, job[p].task, job[p].save, job'[p].list)
              /\ job'[p].list \in [Keys -> Task]
              /\ stage = "clear" => \A k \in Keys : \A j \in job[p].keys :
                   job'[p].list[k].id # queue[scope][j].id \/ job'[p].list[k] = NoTask
  BY <1>0, ReadEffect
<1>2. \/ stage = "back" /\ job[p].stages = <<"back", "next">>
      \/ stage = "clear" /\ job[p].stages = <<"clear", "erase">>
      \/ stage \in {"complete", "conflict", "delay", "fail"}
         /\ job[p].stages \in {<<"complete", "next">>, <<"conflict", "next">>, <<"delay", "next">>, <<"fail", "next">>}
  BY <1>0, <1>1, AtStage DEF QueueStages, InLine
<1>3. CASE stage \notin {"complete", "clear"} /\ Moves(p, Tail(job[p].stages))
  <2>1. Tail(job[p].stages) = <<"next">>
    <3>1. job[p].stages \in {<<"back", "next">>, <<"complete", "next">>, <<"conflict", "next">>, <<"delay", "next">>, <<"fail", "next">>}
      BY <1>2, <1>3
    <3>2. job[p].stages # <<"complete", "next">>
      BY <1>1, <1>3 DEF At
    <3> QED BY <3>1, <3>2, Nexts
  <2> QED BY <1>0, <1>3, <2>1, InHand, Loose, BecomesLoose DEF Moves
<1>4. CASE stage \in {"complete", "conflict", "delay", "fail"}
           /\ Becomes(p, <<"write">> \o job[p].stages, job[p].todo, job[p].task, job[p].save, job'[p].list)
  <2>1. job[p].stages \in {<<"complete", "next">>, <<"conflict", "next">>, <<"delay", "next">>, <<"fail", "next">>}
    BY <1>2, <1>4
  <2>2. <<"write">> \o job[p].stages \in {<<"write", "complete", "next">>, <<"write", "conflict", "next">>,
                                          <<"write", "delay", "next">>, <<"write", "fail", "next">>}
    BY <2>1, Writes
  <2>3. <<"write">> \o job[p].stages \notin Tense
    BY <2>2, Loose
  <2> QED BY <1>0, <1>4, <2>3, InHand, BecomesLoose
<1>5. ASSUME Becomes(p, <<"write">> \o job[p].stages, job[p].todo, job[p].task, job[p].save, job'[p].list), NEW s, s = job'[p].stages
      PROVE  /\ s = <<"write">> \o job[p].stages /\ job'[p].todo = job[p].todo /\ job'[p].task = job[p].task
             /\ job'[p].stale = job[p].stale /\ job'[p].keys = job[p].keys /\ Todo(p)' = Todo(p)
  BY <1>5 DEF Becomes, Has, Todo
<1>6. CASE stage = "back" /\ Becomes(p, <<"write">> \o job[p].stages, job[p].todo, job[p].task, job[p].save, job'[p].list)
  <2>1. job[p].stages = <<"back", "next">>
    BY <1>2, <1>6
  <2> PICK s : s = job'[p].stages
    OBVIOUS
  <2>2. s = <<"write", "back", "next">>
    BY <1>5, <1>6, <2>1, Writes
  <2>3. s # <<"clear", "erase">> /\ s # <<"write", "clear", "erase">> /\ s # <<"erase">>
    BY <2>2
  <2>4. job'[p].task.id \notin cancelled' /\ Todo(p)' \cap cancelled' = {}
    BY <1>0, <1>5, <1>6, <2>1 DEF Mine
  <2> QED BY <2>3, <2>4 DEF Mine
<1>7. CASE stage = "clear" /\ Becomes(p, <<"write">> \o job[p].stages, job[p].todo, job[p].task, job[p].save, job'[p].list)
  <2>1. job[p].stages = <<"clear", "erase">>
    BY <1>2, <1>7
  <2> PICK s : s = job'[p].stages
    OBVIOUS
  <2>2. s = <<"write", "clear", "erase">>
    BY <1>5, <1>7, <2>1, Writes
  <2>3. /\ s # <<"clear", "erase">> /\ s # <<"erase">>
        /\ s \notin {<<"back", "next">>, <<"write", "back", "next">>, <<"upload", "next">>}
    BY <2>2
  <2>4. ASSUME job'[p].stale = "no", NEW k \in Keys PROVE job'[p].list[k].id \notin Todo(p)
    <3>1. job[p].todo = Tasks(job[p].keys)
      BY <1>5, <1>7, <2>1, <2>4 DEF Mine
    <3>2. ASSUME NEW t \in Tasks(job[p].keys) PROVE t.id # 0 /\ job'[p].list[k].id # t.id
      <4>1. PICK j \in job[p].keys : t = queue[scope][j] /\ t.id # 0
        BY <3>2 DEF Tasks
      <4>2. job'[p].list[k].id # t.id \/ job'[p].list[k] = NoTask
        BY <1>1, <1>3, <1>7, <4>1
      <4> QED BY <4>1, <4>2 DEF NoTask
    <3> QED BY <3>1, <3>2 DEF Todo
  <2>5. Todo(p)' \cap cancelled' = {} /\ Todo(p)' = Todo(p)
    BY <1>0, <1>5, <1>7 DEF Mine
  <2> QED BY <2>3, <2>4, <2>5 DEF Mine
<1> QED BY <1>1, <1>2, <1>3, <1>4, <1>6, <1>7

\* A write of the queue by who runs.
LEMMA WriteMine ==
  ASSUME Shape, NEW p \in Procs, WriteQueue(p), Running(p), Mine(p), "raced" \notin slips', scope = "account",
         \A k \in Keys : queue["anonymous"][k] = NoTask
  PROVE  Mine(p)'
<1>0. Stores /\ Server /\ Jobs /\ Line /\ cancelled' = cancelled /\ job[p].op \in InLine /\ Reads(p)
  BY RunnerOp, Reading DEF Shape, WriteQueue
<1>1. /\ At(p, "write") /\ job' \in [Procs -> Job] /\ job'[p].stale = "no"
      /\ job'[p] = NoJob \/ Has(p, Tail(Tail(job[p].stages)), job[p].todo, job[p].task, job[p].save, NoList)
      /\ \A q \in Procs \ {p} : Stays(q) /\ job'[q].stale = IF At(q, "write") \/ At(q, "clear") THEN "yes" ELSE job[q].stale
  BY <1>0, WriteEffect
<1>2. job[p].stages \in {<<"write", "clear", "erase">>, <<"write", "back", "next">>}
      \/ job[p].stages \in {<<"write", "complete", "next">>, <<"write", "conflict", "next">>, <<"write", "delay", "next">>, <<"write", "fail", "next">>}
  BY <1>0, <1>1, AtStage DEF InLine
<1>3. CASE job'[p] = NoJob
  BY <1>3, NoJobMine
<1>4. ASSUME Has(p, Tail(Tail(job[p].stages)), job[p].todo, job[p].task, job[p].save, NoList), job[p].stages # <<"write", "clear", "erase">>
      PROVE  Mine(p)'
  <2>1. Tail(Tail(job[p].stages)) = <<"next">>
    BY <1>2, <1>4, Afters
  <2>2. job'[p].stages = <<"next">> /\ Todo(p)' = Todo(p)
    BY <1>4, <2>1 DEF Has, Todo
  <2>3. Todo(p)' \cap cancelled' = {}
    BY <1>0, <2>2 DEF Mine
  <2> QED BY <2>2, <2>3, Loose, LooseMine
<1>5. ASSUME Has(p, Tail(Tail(job[p].stages)), job[p].todo, job[p].task, job[p].save, NoList), job[p].stages = <<"write", "clear", "erase">>
      PROVE  Mine(p)'
  <2>1. Tail(Tail(job[p].stages)) = <<"erase">>
    BY <1>5, Afters
  <2>2. job'[p].stages = <<"erase">> /\ Todo(p)' = Todo(p)
    BY <1>5, <2>1 DEF Has, Todo
  <2>3. queue' = [queue EXCEPT ![scope] = job[p].list] /\ job[p].stale # "yes"
    BY DEF WriteQueue, Slip
  <2>4. job[p].stale = "no"
    BY <2>3, Reading, <1>0 DEF Job
  <2>5. \A k \in Keys : job[p].list[k].id \notin Todo(p)
    BY <1>5, <2>4 DEF Mine
  <2>6. ASSUME NEW s \in {"account", "anonymous"}, NEW k \in Keys PROVE queue'[s][k].id \notin Todo(p)
    <3>1. CASE s = "account"
      <4>1. queue'[s] = job[p].list
        BY <1>0, <2>3, <3>1 DEF Stores
      <4> QED BY <2>5, <4>1
    <3>2. CASE s = "anonymous"
      <4>1. queue'[s] = queue[s]
        BY <1>0, <2>3, <3>2 DEF Stores
      <4>2. queue'[s][k].id = 0
        BY <3>2, <4>1 DEF NoTask
      <4> QED BY <1>0, <4>2, TodoIds
    <3> QED BY <3>1, <3>2
  <2>7. ASSUME NEW q \in Procs, At(q, "write")', job'[q].stale = "no" PROVE FALSE
    <3>1. CASE q = p
      BY <2>2, <2>7, <3>1 DEF At
    <3>2. CASE q # p
      <4>1. At(q, "write")
        BY <1>1, <2>7, <3>2 DEF Stays, Has, At, Idle
      <4> QED BY <1>1, <2>7, <3>2, <4>1
    <3> QED BY <3>1, <3>2
  <2>8. Gone(Todo(p))'
    BY <2>2, <2>6, <2>7 DEF Gone
  <2>9. Todo(p)' \cap cancelled' = {}
    BY <1>0, <2>2 DEF Mine
  <2>10. /\ <<"erase">> \notin {<<"back", "next">>, <<"write", "back", "next">>, <<"upload", "next">>}
         /\ <<"erase">> # <<"clear", "erase">> /\ <<"erase">> # <<"write", "clear", "erase">>
    OBVIOUS
  <2> QED BY <2>2, <2>8, <2>9, <2>10 DEF Mine
<1> QED BY <1>1, <1>3, <1>4, <1>5

\* What is queued has not been cancelled.
LEMMA TasksGone ==
  ASSUME Stores, Gone(cancelled), NEW keys \in SUBSET Keys
  PROVE  \A t \in Tasks(keys) : t.id \notin cancelled
BY TasksAre DEF Gone, Stores

\* Any other step of who runs.
LEMMA StageMine ==
  ASSUME Shape, NEW p \in Procs, Stage(p), Running(p), Mine(p), Gone(cancelled), "raced" \notin slips',
         scope = "account", \A k \in Keys : queue["anonymous"][k] = NoTask
  PROVE  Mine(p)'
<1>0. /\ Stores /\ Server /\ Jobs /\ Line /\ Ids /\ job[p].op \in InLine /\ Reads(p)
      /\ \A t \in job[p].todo : t.id \notin cancelled
  BY RunnerOp, Reading, InHand DEF Shape
<1>1. CASE ReadQueue(p)
  BY <1>1, ReadMine
<1>2. CASE WriteQueue(p)
  BY <1>2, WriteMine
<1>3. ASSUME Thrown(p), At(p, "write") \/ At(p, "update"), cancelled' = cancelled PROVE Mine(p)'
  <2>1. CASE Ends(p)
    BY <2>1, NoJobMine DEF Ends, Gets
  <2>2. CASE Becomes(p, <<"delay", "next">>, job[p].todo, job[p].task, job[p].save, NoList)
    BY <1>0, <1>3, <2>2, Loose, BecomesLoose
  <2> QED BY <1>0, <1>3, <2>1, <2>2, ThrownEffect
<1>4. CASE WriteFails(p)
  BY <1>3, <1>4 DEF WriteFails
<1>5. CASE RunDue(p)
  <2>1. CASE Ends(p)
    BY <2>1, NoJobMine DEF Ends, Gets
  <2>2. ASSUME job'[p].todo \subseteq Tasks(Keys), Becomes(p, <<"next">>, job'[p].todo, job[p].task, job[p].save, job[p].list)
        PROVE  Mine(p)'
    <3>1. cancelled' = cancelled
      BY <1>5 DEF RunDue, past, noted
    <3>2. \A t \in job'[p].todo : t.id \notin cancelled
      BY <1>0, <2>2, TasksGone
    <3> QED BY <2>2, <3>1, <3>2, Loose, BecomesLoose
  <2> QED BY <1>0, <1>5, <2>1, <2>2, RunDueEffect
<1>6. CASE DeleteDue(p)
  <2>1. Becomes(p, <<"clear", "erase">>, Tasks(job[p].keys), job[p].task, job[p].save, job[p].list)
    BY <1>0, <1>6, DeleteDueEffect
  <2>2. cancelled' = cancelled /\ queue' = queue /\ scope' = scope
    BY <1>6 DEF DeleteDue, past, noted, phone
  <2> PICK keys : keys = job[p].keys
    OBVIOUS
  <2>3. job'[p].stages = <<"clear", "erase">> /\ job'[p].todo = Tasks(keys) /\ job'[p].keys = keys
    BY <2>1 DEF Becomes, Has
  <2>4. Tasks(keys)' = Tasks(keys) /\ Tasks(job[p].keys)' = Tasks(keys)'
    BY <2>2, <2>3 DEF Tasks
  <2>5. Todo(p)' \cap cancelled' = {}
    <3>1. keys \in SUBSET Keys
      BY <1>0 DEF Jobs, Job
    <3> QED BY <1>0, <2>2, <2>3, <3>1, TasksGone DEF Todo
  <2>6. /\ <<"clear", "erase">> \notin {<<"back", "next">>, <<"write", "back", "next">>, <<"upload", "next">>}
        /\ <<"clear", "erase">> # <<"write", "clear", "erase">> /\ <<"clear", "erase">> # <<"erase">>
    OBVIOUS
  <2> QED BY <2>3, <2>4, <2>5, <2>6 DEF Mine
<1>7. CASE NoneLeft(p)
  BY <1>0, <1>7, EndEffect, NoJobMine DEF NoneLeft, Ends, Gets
\* A task in hand becomes the task at hand.
<1>8. ASSUME NEW t \in job[p].todo, NEW stages \in {<<"upload", "next">>, <<"complete", "next">>, <<"back", "next">>}, NEW save, NEW list,
             Becomes(p, stages, job[p].todo \ {t}, t, save, list), cancelled' = cancelled
      PROVE  Mine(p)'
  <2>1. job'[p].stages = stages /\ job'[p].todo = job[p].todo \ {t} /\ job'[p].task = t
    BY <1>8 DEF Becomes, Has
  <2>2. Todo(p)' \cap cancelled' = {} /\ job'[p].task.id \notin cancelled'
    BY <1>0, <1>8, <2>1 DEF Todo
  <2>3. stages # <<"clear", "erase">> /\ stages # <<"write", "clear", "erase">> /\ stages # <<"erase">>
    OBVIOUS
  <2> QED BY <2>1, <2>2, <2>3 DEF Mine
<1>9. CASE RunTask(p)
  <2>1. \A t \in job[p].todo : t.key \in Keys
    BY <1>0 DEF Reads, Good, IsTask
  <2>2. cancelled' = cancelled
    BY <1>9 DEF RunTask, past, noted
  <2> QED BY <1>0, <1>8, <1>9, <2>1, <2>2, RunTaskEffect
<1>10. CASE RestoreTask(p)
  <2>1. cancelled' = cancelled
    BY <1>10 DEF RestoreTask, past, noted
  <2> QED BY <1>0, <1>8, <1>10, <2>1, RestoreTaskEffect
<1>11. CASE Upload(p)
  <2>1. cancelled' = cancelled
    BY <1>11 DEF Upload, noted
  <2> PICK t, save : t = job[p].task /\ save = job[p].save
    OBVIOUS
  <2>2. \E stages \in {<<"update", "complete", "next">>, <<"conflict", "next">>, <<"delay", "next">>, <<"fail", "next">>} :
          \E task, v : Becomes(p, stages, job[p].todo, task, v, job[p].list)
    BY <1>0, <1>11, UploadEffect
  <2> QED BY <1>0, <2>1, <2>2, Loose, BecomesLoose
<1>12. CASE Erase(p)
  <2>1. CASE Ends(p)
    BY <2>1, NoJobMine DEF Ends, Gets
  <2>2. CASE cancelled' = cancelled /\ Moves(p, <<"next">>)
    BY <1>0, <2>2, Loose, BecomesLoose DEF Moves
  <2> QED BY <1>0, <1>12, <2>1, <2>2, EraseEffect
<1>13. CASE UpdateCloudRevision(p)
  <2>1. At(p, "update") /\ cancelled' = cancelled
    BY <1>13 DEF UpdateCloudRevision
  <2>2. job[p].stages = <<"update", "complete", "next">>
    BY <1>0, <2>1, AtStage DEF InLine
  <2>3. Tail(job[p].stages) = <<"complete", "next">>
    BY <2>2
  <2> PICK k : k = IF job[p].op = "keep" THEN Key(p) ELSE job[p].task.key
    OBVIOUS
  <2>4. Thrown(p) \/ \E v \in Save : Becomes(p, Tail(job[p].stages), job[p].todo, job[p].task, v, job[p].list)
    BY <1>0, <1>13, UpdateEffect
  <2> QED BY <1>0, <1>3, <2>1, <2>3, <2>4, Loose, BecomesLoose
<1>14. ~Join(p) /\ ~StageFails(p) /\ ~Fetch(p) /\ ~Copy(p) /\ ~Put(p) /\ ~Heads(p) /\ ~Revive(p)
  <2>1. \A x \in {"run", "fetch", "heads", "revive", "copy", "put"} : ~At(p, x)
    <3>1. ASSUME NEW x \in {"run", "fetch", "heads", "revive", "copy", "put"}, At(p, x) PROVE FALSE
      BY <1>0, <3>1, AtStage DEF InLine
    <3> QED BY <3>1
  <2> QED BY <2>1 DEF Join, StageFails, Fetch, Copy, Put, Heads, Revive
<1> QED BY <1>1, <1>2, <1>4, <1>5, <1>6, <1>7, <1>9, <1>10, <1>11, <1>12, <1>13, <1>14 DEF Stage

LEMMA CancelledSteps ==
  ASSUME Shape, [Next]_vars
  PROVE  cancelled' = cancelled \/ \E p \in Procs : Erase(p) /\ Running(p) /\ cancelled' = cancelled \cup Todo(p)
<1>0. Jobs /\ Line
  BY DEF Shape
<1>1. ASSUME NEW p \in Procs, Begin(p) PROVE cancelled' = cancelled
  BY <1>1 DEF Begin, Wake, Delete, CommitSave, Retry, KeepLocal, UseCloud, RestoreCloudBattery, RestoreCloudVersion, noted
<1>2. ASSUME NEW p \in Procs, Stage(p), ~Erase(p) PROVE cancelled' = cancelled
  BY <1>2 DEF Stage, ReadQueue, WriteQueue, WriteFails, Join, RunDue, DeleteDue, NoneLeft, RunTask, RestoreTask, Upload,
              UpdateCloudRevision, StageFails, Fetch, Copy, Put, Heads, Revive, past, noted
<1>3. ASSUME NEW p \in Procs, Erase(p) PROVE cancelled' = cancelled \/ (Running(p) /\ cancelled' = cancelled \cup Todo(p))
  <2>1. At(p, "erase") /\ job[p].op = "delete" /\ (cancelled' = cancelled \/ cancelled' = cancelled \cup Todo(p))
    BY <1>0, <1>3, EraseEffect
  <2>2. Running(p)
    BY <1>0, <2>1, Runner DEF InLine
  <2> QED BY <2>1, <2>2
<1>4. Alien => cancelled' = cancelled
  BY DEF Alien, Kill, SwitchScope, RemoveLocal, OtherUpload, OtherDelete, vars, past, noted
<1> QED BY <1>1, <1>2, <1>3, <1>4, Steps

\* Where another's step leaves who runs.
LEMMA RunnerStays ==
  ASSUME Shape, [Next]_vars, NEW q \in Procs, Running(q), "scope" \notin slips'
  PROVE  \/ Stage(q) \/ Kill
         \/ /\ Stays(q) /\ job'[q].stale \in {job[q].stale, "yes"} /\ scope' = scope
            /\ queue' = queue \/ (At(q, "clear") => job'[q].stale = "yes")
<1>0. Stores /\ Server /\ Jobs /\ Line /\ Ids /\ job[q].op \in InLine
  BY RunnerOp DEF Shape
<1>1. ASSUME NEW p \in Procs, Begin(p) PROVE job'[q] = job[q] /\ queue' = queue /\ scope' = scope
  <2>1. PICK j \in Job : Begun(p, j)
    BY <1>0, <1>1, Begins
  <2>2. job[p] = NoJob
    BY <1>0, <2>1, IdleIs DEF Begun
  <2>3. q # p
    BY <1>0, <2>2 DEF NoJob, InLine
  <2> QED BY <2>1, <2>3 DEF Begun, Gets
<1>2. ASSUME NEW p \in Procs, WriteQueue(p), p # q
      PROVE  /\ Stays(q) /\ job'[q].stale \in {job[q].stale, "yes"} /\ scope' = scope
             /\ At(q, "clear") => job'[q].stale = "yes"
  <2>1. Stays(q) /\ job'[q].stale = IF At(q, "write") \/ At(q, "clear") THEN "yes" ELSE job[q].stale
    BY <1>0, <1>2, WriteEffect
  <2>2. scope' = scope
    BY <1>2 DEF WriteQueue
  <2> QED BY <2>1, <2>2
<1>3. ASSUME NEW p \in Procs, Stage(p), ~WriteQueue(p), p # q PROVE job'[q] = job[q] /\ queue' = queue /\ scope' = scope
  <2>1. Grows
    BY ShapeNext
  <2>2. job'[q] = job[q]
    BY <1>0, <1>3, <2>1, StageFits DEF Only
  <2>3. queue' = queue /\ scope' = scope
    BY <1>3 DEF Stage, ReadQueue, WriteFails, Join, RunDue, DeleteDue, NoneLeft, RunTask, RestoreTask, Upload, Erase,
                UpdateCloudRevision, StageFails, Fetch, Copy, Put, Heads, Revive, phone
  <2> QED BY <2>2, <2>3
<1>4. Alien => Kill \/ (job'[q] = job[q] /\ queue' = queue /\ scope' = scope)
  <2>1. ~SwitchScope
    BY DEF SwitchScope, Slip
  <2> QED BY <2>1 DEF Alien, RemoveLocal, OtherUpload, OtherDelete, vars, phone
<1>5. ASSUME job'[q] = job[q] PROVE Stays(q) /\ job'[q].stale = job[q].stale
  BY <1>5 DEF Stays, Has
<1> QED BY <1>1, <1>2, <1>3, <1>4, <1>5, Steps

LEMMA CancelsNext ==
  ASSUME Shape, Newer, Cancels, [Next]_vars
  PROVE  Cancels'
<1> SUFFICES ASSUME slips' \cap {"raced", "scope"} = {}
             PROVE  /\ scope' = "account" /\ \A k \in Keys : queue'["anonymous"][k] = NoTask
                    /\ cancelled' \subseteq 1 .. issued'
                    /\ Gone(cancelled)'
                    /\ \A q \in Procs : Running(q)' => Mine(q)'
  BY DEF Cancels
<1>0. Stores /\ Server /\ Jobs /\ Line /\ Ids /\ Shape' /\ Grows /\ LineStep /\ slips \subseteq slips' /\ Newer'
  BY ShapeNext, LineSteps, SlipsGrow, NewerNext DEF Shape
<1>1. /\ scope = "account" /\ \A k \in Keys : queue["anonymous"][k] = NoTask
      /\ cancelled \subseteq 1 .. issued
      /\ Gone(cancelled) /\ \A q \in Procs : Running(q) => Mine(q)
  BY <1>0 DEF Cancels
<1>2. scope' = "account"
  BY <1>0 DEF Newer
<1>3. ASSUME NEW k \in Keys PROVE queue'["anonymous"][k] = NoTask
  <2>1. ASSUME NEW p \in Procs, WriteQueue(p) PROVE queue'["anonymous"] = queue["anonymous"]
    BY <1>0, <1>1, <2>1 DEF WriteQueue, Stores
  <2> QED BY <1>1, <2>1, QueueSteps
\* What is added is what a deletion has had in its hands alone.
<1>4. /\ cancelled' \subseteq 1 .. issued
      /\ Gone(cancelled') /\ \A p \in Procs : At(p, "back") => job[p].task.id \notin cancelled'
  <2>1. ASSUME NEW p \in Procs, At(p, "back") PROVE Running(p) /\ job[p].task.id \notin cancelled
    <3>1. job[p].stages = <<"back", "next">> /\ job[p].op \in InLine
      BY <1>0, <2>1, Reading, AtStage DEF InLine
    <3>2. Running(p)
      BY <1>0, <2>1, <3>1, Runner
    <3> QED BY <1>1, <3>1, <3>2 DEF Mine
  <2>2. CASE cancelled' = cancelled
    BY <1>1, <2>1, <2>2
  <2>3. ASSUME NEW p \in Procs, Erase(p), Running(p), cancelled' = cancelled \cup Todo(p)
        PROVE  /\ cancelled' \subseteq 1 .. issued
               /\ Gone(cancelled') /\ \A r \in Procs : ~At(r, "back")
    <3>1. Gone(Todo(p))
      <4>1. job[p].stages = <<"erase">>
        BY <1>0, <2>3, EraseEffect
      <4> QED BY <1>1, <2>3, <4>1 DEF Mine
    <3>2. Todo(p) \subseteq 1 .. issued
      BY <1>0, TodoIds
    <3>3. ASSUME NEW r \in Procs, At(r, "back") PROVE FALSE
      <4>1. r = p
        BY <2>1, <2>3, <3>3, OneRuns
      <4> QED BY <2>3, <3>3, <4>1 DEF At, Erase
    <3> PICK ids, todo : ids = cancelled /\ todo = Todo(p)
      OBVIOUS
    <3>4. Gone(ids \cup todo)
      BY <1>1, <3>1 DEF Gone
    <3> QED BY <1>1, <2>3, <3>2, <3>3, <3>4
  <2> QED BY <2>1, <2>2, <2>3, CancelledSteps
<1>5. issued \in Nat /\ issued' \in Nat /\ issued <= issued'
  BY <1>0 DEF Grows, Server, Shape
<1>6. cancelled' \subseteq 1 .. issued'
  BY <1>4, <1>5
<1>7. Gone(cancelled)'
  <2> PICK ids : ids = cancelled'
    OBVIOUS
  <2>1. Gone(ids)'
    BY <1>4, GoneStands
  <2> QED BY <2>1 DEF Gone
<1>8. ASSUME NEW q \in Procs, Running(q)' PROVE Mine(q)'
  <2>1. CASE job'[q].stages = <<"due">>
    BY <1>0, <2>1, DueMine
  <2>2. ASSUME Running(q), ~Stage(q) PROVE Mine(q)'
    <3>1. cancelled' = cancelled
      <4>1. ASSUME NEW p \in Procs, Erase(p), Running(p) PROVE FALSE
        BY <2>2, <4>1, OneRuns DEF Stage
      <4> QED BY <4>1, CancelledSteps
    <3>2. ~Kill
      BY <1>8 DEF Kill, Running
    <3> QED BY <1>1, <2>2, <3>1, <3>2, RunnerStays, MineStands
  <2>3. CASE Running(q) /\ Stage(q)
    BY <1>1, <2>3, StageMine
  <2> QED BY <1>0, <1>8, <2>1, <2>2, <2>3, RunnerIs
<1> QED BY <1>2, <1>3, <1>4, <1>6, <1>7, <1>8

\* What the server accepts has not been cancelled.
LEMMA AcceptedUncancelled ==
  ASSUME Shape, Cancels, [Next]_vars, slips \cap {"raced", "scope"} = {}, NEW d \in done' \ done
  PROVE  d.id \notin cancelled
<1>0. Stores /\ Server /\ Jobs /\ Line /\ Ids
  BY DEF Shape
<1>1. ASSUME NEW p \in Procs, Upload(p) PROVE d.id \notin cancelled
  <2> PICK t : t = job[p].task
    OBVIOUS
  <2>1. /\ At(p, "upload") /\ job[p].op = "run" /\ job[p].stages = <<"upload", "next">>
        /\ done' = done \/ \E e : done' = done \cup {e} /\ e.id = t.id
    BY <1>0, <1>1, UploadEffect
  <2>2. d.id = t.id
    BY <2>1
  <2>3. Running(p)
    BY <1>0, <2>1, Runner DEF InLine
  <2>4. t.id \notin cancelled
    BY <2>1, <2>3 DEF Cancels, Mine
  <2> QED BY <2>2, <2>4
<1>2. ASSUME NEW p \in Procs, Revive(p) PROVE done' = done
  BY <1>0, <1>2, ReviveEffect
<1>3. ASSUME NEW p \in Procs, Erase(p) PROVE done' = done
  BY <1>3 DEF Erase
<1>4. ASSUME NEW k \in Keys, OtherUpload(k) \/ OtherDelete(k) PROVE done' = done
  BY <1>4 DEF OtherUpload, OtherDelete
<1>5. UNCHANGED <<cloud, issued, from>> => done' = done
  BY DEF cloud
<1>6. ASSUME NEW p \in Procs, \/ \E k \in Keys : \E base \in {0, local[k].cloud} : CommitSave(p, k, base)
                             \/ ReadQueue(p) \/ UpdateCloudRevision(p)
      PROVE  done' = done
  BY <1>6 DEF CommitSave, ReadQueue, UpdateCloudRevision, cloud
<1> QED BY <1>1, <1>2, <1>3, <1>4, <1>5, <1>6, ServerSteps DEF ServerStep

------------------------------------------------------------------------------
(* No save is forgotten. *)

\* The save of a key stays, or one of the next revision takes its place.
Unmoved(k) == local'[k].rev = local[k].rev /\ local'[k].sum = local[k].sum
Rises(k) == Unmoved(k) \/ local'[k].rev = local[k].rev + 1

LEMMA SaveRises ==
  ASSUME Shape, [Next]_vars, NEW k \in Keys
  PROVE  Rises(k) \/ RemoveLocal(k)
<1>0. local \in [Keys -> Save] /\ Stores /\ Server /\ Jobs
  BY DEF Shape, Stores
<1>1. ASSUME NEW x \in Keys, RemoveLocal(x) PROVE Rises(k) \/ RemoveLocal(k)
  <2>1. CASE x # k
    <3>1. local'[k] = local[k]
      BY <1>0, <1>1, <2>1 DEF RemoveLocal
    <3> QED BY <3>1 DEF Rises, Unmoved
  <2> QED BY <1>1, <2>1
<1>2. ASSUME NEW x \in Keys, NEW v \in Save, local' = [local EXCEPT ![x] = v],
             v.rev = local[x].rev + 1 \/ (v.rev = local[x].rev /\ v.sum = local[x].sum)
      PROVE  Rises(k)
  BY <1>0, <1>2 DEF Rises, Unmoved
<1>3. ASSUME local' = local PROVE Rises(k)
  BY <1>3 DEF Rises, Unmoved
<1>4. ASSUME NEW p \in Procs, NEW x \in Keys, NEW base \in {0, local[x].cloud}, CommitSave(p, x, base) PROVE Rises(k)
  <2>1. Committed(p, x, base)
    BY <1>0, <1>4, CommitSaveEffect
  <2>2. PICK v \in Save : v.rev = local[x].rev + 1 /\ local' = [local EXCEPT ![x] = v]
    BY <2>1 DEF Committed
  <2> QED BY <1>2, <2>2
<1>5. ASSUME NEW p \in Procs, UpdateCloudRevision(p) PROVE Rises(k)
  <2> PICK x : x = IF job[p].op = "keep" THEN Key(p) ELSE job[p].task.key
    OBVIOUS
  <2> QED BY <1>0, <1>2, <1>3, <1>5, UpdateEffect
<1>6. ASSUME NEW p \in Procs, Put(p) PROVE Rises(k)
  BY <1>0, <1>2, <1>6, PutEffect
<1>7. ASSUME NEW p \in Procs, WriteQueue(p) \/ Copy(p) PROVE local' = local
  BY <1>7 DEF WriteQueue, Copy
<1>8. SwitchScope \/ UNCHANGED <<phone, newest>> => local' = local
  BY DEF SwitchScope, phone
<1> QED BY <1>1, <1>3, <1>4, <1>5, <1>6, <1>7, <1>8, StoreSteps DEF StoreStep, SaveStep

\* A save that is removed has no task, and nothing is under way.
LEMMA RemovedAlone ==
  ASSUME Shape, Cancels, Clean, Clean', NEW k \in Keys, RemoveLocal(k)
  PROVE  /\ \A p \in Procs : job[p] = NoJob
         /\ \A t \in Task : Held(t) /\ t.id # 0 => t.key # k
<1>1. Quiet /\ queue[scope][k] = NoTask
  BY DEF RemoveLocal, Slip, Clean
<1>2. \A p \in Procs : job[p] = NoJob
  BY <1>1, IdleIs DEF Quiet, Shape
<1>3. scope = "account" /\ \A j \in Keys : queue["anonymous"][j] = NoTask
  BY DEF Cancels, Clean
<1>4. NoTask.id = 0
  BY DEF NoTask
<1>5. ASSUME NEW t \in Task, NEW s \in {"account", "anonymous"}, NEW j \in Keys, t = queue[s][j], t.id # 0 PROVE t.key # k
  <2>1. t.key = j /\ s = "account"
    BY <1>3, <1>4, <1>5 DEF Shape, Stores, IsList
  <2> QED BY <1>1, <1>3, <1>4, <1>5, <2>1
<1>6. ASSUME NEW t \in Task, NEW p \in Procs, t = job[p].task \/ t \in job[p].todo \/ \E j \in Keys : t = job[p].list[j]
      PROVE  t.id = 0
  <2>1. NoJob.task = NoTask /\ NoJob.todo = {} /\ NoJob.list = NoList
    BY DEF NoJob
  <2> QED BY <1>2, <1>4, <1>6, <2>1, NoneTyped
<1>7. \A t \in Task : Held(t) /\ t.id # 0 => t.key # k
  BY <1>5, <1>6 DEF Held
<1> QED BY <1>2, <1>7

LEMMA WithinStands ==
  ASSUME Shape, NEW k \in Keys, Rises(k), NEW x, x.rev \in Nat, Within(k, x)
  PROVE  Within(k, x)'
<1>1. local[k].rev \in Nat
  BY DEF Shape, Stores, Save
<1> QED BY <1>1 DEF Rises, Unmoved, Within

\* While something is under way, saves only rise.
LEMMA BusyRises ==
  ASSUME Shape, Cancels, Clean, Clean', [Next]_vars, NEW p \in Procs, job[p] # NoJob, NEW k \in Keys
  PROVE  Rises(k)
BY SaveRises, RemovedAlone

LEMMA RankedTasks ==
  ASSUME Shape, Cancels, Ranks, Clean, Clean', [Next]_vars, NEW t \in Task, Held(t)', t.id # 0
  PROVE  Within(t.key, t)'
<1>0. Stores /\ Server /\ Jobs /\ Ids
  BY DEF Shape
<1>1. ASSUME Known(t) PROVE Within(t.key, t)'
  <2>1. PICK u \in Task : Held(u) /\ Same(t, u)
    BY <1>1 DEF Known
  <2>2. u.id # 0 /\ u.key = t.key /\ u.rev = t.rev /\ u.sum = t.sum
    BY <2>1 DEF Same
  <2>3. Within(t.key, t) /\ t.key \in Keys /\ t.rev \in Nat
    <3>1. Within(u.key, u) /\ u.key \in Keys
      BY <1>0, <2>1, <2>2, HeldKeys DEF Ranks
    <3>2. t.rev \in Nat
      BY DEF Task
    <3> QED BY <2>2, <3>1, <3>2 DEF Within
  <2>4. ~RemoveLocal(t.key)
    BY <2>1, <2>2, <2>3, RemovedAlone
  <2> QED BY <2>3, <2>4, SaveRises, WithinStands
<1>2. ASSUME NEW p \in Procs, At(p, "enqueue"), t = Fresh(p) PROVE Within(t.key, t)'
  <2>1. job[p].op \in {"save", "keep"} /\ job[p].stages \in Updated /\ job[p].op \in Resolvers \cup {"save", "retry"}
    BY <1>0, <1>2, Reading, AtStage, KeepKinds DEF Resolvers
  <2>2. Key(p) \in Keys /\ job[p].keys = {Key(p)}
    BY <1>0, <2>1, Reading, KeyIs
  <2>3. Within(Key(p), job[p].save)
    BY <2>1, <2>2 DEF Ranks, Filing, Ranked
  <2>4. t.key = Key(p) /\ t.rev = job[p].save.rev /\ t.sum = job[p].save.sum /\ t.rev \in Nat
    BY <1>2 DEF Fresh, Task
  <2>5. Within(t.key, t)
    BY <2>3, <2>4 DEF Within
  <2>6. job[p] # NoJob
    BY <1>2 DEF At, Idle, NoJob
  <2> QED BY <2>2, <2>4, <2>5, <2>6, BusyRises, WithinStands
<1>3. PICK f \in Task : (Known(t) \/ t = f) /\ Issued(f)
  BY <1>0, KeptNext DEF Kept
<1> QED BY <1>1, <1>2, <1>3 DEF Issued, AllKnown

\* Who files a save or completes a task has what it had, or has come to it by this step.
Lasts(q) ==
  /\ job'[q].op = job[q].op /\ job'[q].keys = job[q].keys /\ job'[q].task = job[q].task /\ job'[q].save = job[q].save
  /\ job'[q].stages \in Updated => job[q].stages \in Updated
  /\ job'[q].stages \in Completing => job[q].stages \in Completing
Saves(q) == \E k \in Keys : \E base \in {0, local[k].cloud} : CommitSave(q, k, base)
Arrives(q) ==
  \/ job'[q].stages \notin Updated \cup Completing
  \/ Lasts(q)
  \/ RunTask(q) \/ UpdateCloudRevision(q) \/ Put(q) \/ Saves(q)

\* Stages at which nothing is filed or completed.
Elsewhere == {<<>>, <<"run">>, <<"due">>, <<"next">>, <<"erase">>, <<"clear", "erase">>, <<"back", "next">>, <<"now", "run">>,
              <<"conflict", "next">>, <<"delay", "next">>, <<"fail", "next">>, <<"update", "complete", "next">>,
              <<"write", "now", "run">>, <<"write", "clear", "erase">>, <<"write", "back", "next">>,
              <<"write", "conflict", "next">>, <<"write", "delay", "next">>, <<"write", "fail", "next">>,
              <<"fetch", "put">>, <<"put">>, <<"put", "complete">>, <<"fetch", "put", "complete">>, <<"revive", "fetch", "put">>,
              <<"copy", "revive", "fetch", "put">>, <<"heads", "copy", "revive", "fetch", "put">>,
              <<"copy", "fetch", "put", "complete">>, <<"update", "complete", "enqueue", "run">>,
              <<"copy", "update", "complete", "enqueue", "run">>, <<"fetch", "copy", "update", "complete", "enqueue", "run">>}

LEMMA ElsewhereIs ==
  \A s \in Elsewhere : s \notin Updated /\ s \notin Completing
<1>1. \A s \in Elsewhere : s \notin Updated
  BY DEF Elsewhere, Updated
<1>2. \A s \in Elsewhere : s \notin Completing
  BY DEF Elsewhere, Completing
<1> QED BY <1>1, <1>2

LEMMA ElsewhereArrives ==
  ASSUME NEW q \in Procs, NEW s \in Elsewhere, job'[q].stages = s
  PROVE  Arrives(q)
BY ElsewhereIs DEF Arrives

LEMMA StaysArrives ==
  ASSUME NEW q \in Procs, Stays(q) \/ job'[q] = job[q]
  PROVE  Arrives(q)
BY DEF Arrives, Lasts, Stays, Has

LEMMA ReadArrives ==
  ASSUME Shape, NEW p \in Procs, ReadQueue(p)
  PROVE  Arrives(p)
<1>0. Reads(p) /\ Stores /\ Server /\ Jobs
  BY Reading DEF Shape
<1>1. PICK stage \in QueueStages :
        /\ At(p, stage)
        /\ \/ stage \notin {"complete", "clear"} /\ Moves(p, Tail(job[p].stages))
           \/ Becomes(p, <<"write">> \o job[p].stages, job[p].todo, job[p].task, job[p].save, job'[p].list)
  BY <1>0, ReadEffect
<1>2. \/ job[p].stages \in {<<"enqueue", "run">>, <<"now", "run">>, <<"complete">>, <<"complete", "enqueue", "run">>}
      \/ job[p].stages \in {<<"clear", "erase">>, <<"back", "next">>}
      \/ job[p].stages \in {<<"complete", "next">>, <<"conflict", "next">>, <<"delay", "next">>, <<"fail", "next">>}
  BY <1>0, <1>1, AtStage DEF QueueStages
<1>3. CASE stage \notin {"complete", "clear"} /\ Moves(p, Tail(job[p].stages))
  <2>1. job[p].stages \in {<<"enqueue", "run">>, <<"back", "next">>, <<"now", "run">>, <<"conflict", "next">>,
                           <<"delay", "next">>, <<"fail", "next">>}
    BY <1>0, <1>1, <1>3, AtStage DEF QueueStages
  <2>2. job'[p].stages \in {<<"run">>, <<"next">>}
    BY <1>3, <2>1, Nexts DEF Moves, Becomes, Has
  <2> QED BY <2>2, ElsewhereArrives DEF Elsewhere
<1>4. CASE Becomes(p, <<"write">> \o job[p].stages, job[p].todo, job[p].task, job[p].save, job'[p].list)
  <2>1. /\ job'[p].op = job[p].op /\ job'[p].keys = job[p].keys /\ job'[p].task = job[p].task
        /\ job'[p].save = job[p].save /\ job'[p].stages = <<"write">> \o job[p].stages
    BY <1>4 DEF Becomes, Has
  <2>2. CASE job[p].stages \in {<<"enqueue", "run">>, <<"complete", "enqueue", "run">>}
    <3>1. job'[p].stages \in {<<"write", "enqueue", "run">>, <<"write", "complete", "enqueue", "run">>}
      BY <2>1, <2>2, Writes
    <3>2. job[p].stages \in Updated /\ job'[p].stages \notin Completing
      BY <2>2, <3>1 DEF Updated, Completing
    <3> QED BY <2>1, <3>2 DEF Arrives, Lasts
  <2>3. CASE job[p].stages \in {<<"complete">>, <<"complete", "next">>}
    <3>1. job'[p].stages \in {<<"write", "complete">>, <<"write", "complete", "next">>}
      BY <2>1, <2>3, Writes
    <3>2. job[p].stages \in Completing /\ job'[p].stages \notin Updated
      BY <2>3, <3>1 DEF Updated, Completing
    <3> QED BY <2>1, <3>2 DEF Arrives, Lasts
  <2>4. CASE job[p].stages \in {<<"now", "run">>, <<"clear", "erase">>, <<"back", "next">>}
    <3>1. job'[p].stages \in {<<"write", "now", "run">>, <<"write", "clear", "erase">>, <<"write", "back", "next">>}
      BY <2>1, <2>4, Writes
    <3> QED BY <3>1, ElsewhereArrives DEF Elsewhere
  <2>5. CASE job[p].stages \in {<<"conflict", "next">>, <<"delay", "next">>, <<"fail", "next">>}
    <3>1. job'[p].stages \in {<<"write", "conflict", "next">>, <<"write", "delay", "next">>, <<"write", "fail", "next">>}
      BY <2>1, <2>5, Writes
    <3> QED BY <3>1, ElsewhereArrives DEF Elsewhere
  <2> QED BY <1>2, <2>2, <2>3, <2>4, <2>5
<1> QED BY <1>1, <1>3, <1>4

LEMMA WriteArrives ==
  ASSUME Shape, NEW p \in Procs, WriteQueue(p)
  PROVE  Arrives(p)
<1>1. /\ At(p, "write") /\ Reads(p)
      /\ job'[p] = NoJob \/ Has(p, Tail(Tail(job[p].stages)), job[p].todo, job[p].task, job[p].save, NoList)
  BY Reading, WriteEffect DEF Shape
<1>2. CASE job'[p] = NoJob
  BY <1>2, ElsewhereArrives DEF NoJob, Elsewhere
<1>3. CASE Has(p, Tail(Tail(job[p].stages)), job[p].todo, job[p].task, job[p].save, NoList)
  <2>1. /\ job'[p].op = job[p].op /\ job'[p].keys = job[p].keys /\ job'[p].task = job[p].task
        /\ job'[p].save = job[p].save /\ job'[p].stages = Tail(Tail(job[p].stages))
    BY <1>3 DEF Has
  <2>2. \/ job'[p].stages \in {<<>>, <<"run">>, <<"erase">>, <<"next">>}
        \/ job'[p].stages = <<"enqueue", "run">> /\ job[p].stages = <<"write", "complete", "enqueue", "run">>
    BY <1>1, <2>1, AtStage, Afters
  <2>3. CASE job'[p].stages \in {<<>>, <<"run">>, <<"erase">>, <<"next">>}
    BY <2>3, ElsewhereArrives DEF Elsewhere
  <2>4. CASE job'[p].stages = <<"enqueue", "run">> /\ job[p].stages = <<"write", "complete", "enqueue", "run">>
    <3>1. job[p].stages \in Updated /\ job'[p].stages \notin Completing
      BY <2>4 DEF Updated, Completing
    <3> QED BY <2>1, <3>1 DEF Arrives, Lasts
  <2> QED BY <2>2, <2>3, <2>4
<1> QED BY <1>1, <1>2, <1>3

LEMMA StageArrives ==
  ASSUME Shape, NEW p \in Procs, Stage(p)
  PROVE  Arrives(p)
<1>0. Reads(p) /\ Stores /\ Server /\ Jobs /\ Ids
  BY Reading DEF Shape
<1>1. ASSUME NEW stages, NEW todo, NEW task, NEW save, NEW list, Becomes(p, stages, todo, task, save, list), stages \in Elsewhere
      PROVE  Arrives(p)
  BY <1>1, ElsewhereArrives DEF Becomes, Has
<1>2. <<>> \in Elsewhere /\ \A x \in {"run", "due", "next", "erase"} : <<x>> \in Elsewhere
  BY DEF Elsewhere
<1>3. ASSUME job'[p] = NoJob PROVE Arrives(p)
  BY <1>2, <1>3, ElsewhereArrives DEF NoJob
<1>4. ASSUME End(p) PROVE Arrives(p)
  BY <1>0, <1>3, <1>4, EndEffect DEF Ends, Gets
<1>5. <<"delay", "next">> \in Elsewhere /\ <<"conflict", "next">> \in Elsewhere /\ <<"fail", "next">> \in Elsewhere
      /\ <<"update", "complete", "next">> \in Elsewhere /\ <<"clear", "erase">> \in Elsewhere /\ <<"back", "next">> \in Elsewhere
  BY DEF Elsewhere
<1>6. CASE WriteFails(p)
  <2>1. Thrown(p) /\ At(p, "write")
    BY <1>6 DEF WriteFails
  <2> QED BY <1>0, <1>1, <1>3, <1>5, <2>1, ThrownEffect DEF Ends, Gets
<1>7. CASE Join(p)
  <2>1. job'[p].stages = <<"due">>
    BY <1>0, <1>7, JoinEffect DEF Gets, New
  <2> QED BY <1>2, <2>1, ElsewhereArrives
<1>8. CASE RunDue(p)
  BY <1>0, <1>1, <1>2, <1>3, <1>8, RunDueEffect DEF Ends, Gets
<1>9. CASE DeleteDue(p)
  BY <1>0, <1>1, <1>5, <1>9, DeleteDueEffect
<1>10. CASE NoneLeft(p)
  BY <1>4, <1>10 DEF NoneLeft
<1>11. CASE RestoreTask(p)
  BY <1>0, <1>1, <1>5, <1>11, RestoreTaskEffect
<1>12. CASE Upload(p)
  BY <1>0, <1>1, <1>5, <1>12, UploadEffect
<1>13. CASE Erase(p)
  BY <1>0, <1>1, <1>2, <1>3, <1>13, EraseEffect DEF Moves, Ends, Gets
<1>14. CASE StageFails(p)
  BY <1>4, <1>14 DEF StageFails
<1>15. ASSUME NEW x, x \in {"fetch", "copy", "heads", "revive"}, At(p, x), NEW task, NEW save,
              Becomes(p, Tail(job[p].stages), job[p].todo, task, save, job[p].list)
       PROVE  Arrives(p)
  <2>1. Tail(job[p].stages) \in {<<"copy", "update", "complete", "enqueue", "run">>, <<"update", "complete", "enqueue", "run">>,
                                 <<"fetch", "put", "complete">>, <<"put", "complete">>, <<"put">>, <<"fetch", "put">>,
                                 <<"copy", "revive", "fetch", "put">>, <<"revive", "fetch", "put">>}
    BY <1>0, <1>15, AtStage, FlowNexts
  <2>2. Tail(job[p].stages) \in Elsewhere
    BY <2>1 DEF Elsewhere
  <2> QED BY <1>1, <1>15, <2>2
<1>16. CASE Fetch(p)
  BY <1>0, <1>3, <1>15, <1>16, FetchEffect DEF Ends, Gets
<1>17. CASE Copy(p)
  BY <1>0, <1>15, <1>17, CopyEffect DEF Moves
<1>18. CASE Heads(p)
  BY <1>0, <1>3, <1>15, <1>18, HeadsEffect DEF Ends, Gets
<1>19. CASE Revive(p)
  BY <1>0, <1>3, <1>15, <1>19, ReviveEffect DEF Ends, Gets
<1>20. RunTask(p) \/ UpdateCloudRevision(p) \/ Put(p) => Arrives(p)
  BY DEF Arrives
<1> QED BY <1>6, <1>7, <1>8, <1>9, <1>10, <1>11, <1>12, <1>13, <1>14, <1>16, <1>17, <1>18, <1>19, <1>20,
           ReadArrives, WriteArrives DEF Stage

LEMMA BeginArrives ==
  ASSUME Shape, NEW p \in Procs, Begin(p)
  PROVE  Arrives(p)
<1>0. job \in [Procs -> Job]
  BY DEF Shape, Jobs
<1>1. ASSUME NEW op, NEW keys, NEW stages \in Elsewhere, NEW task, NEW save, Enter(p, op, keys, stages, task, save)
      PROVE  Arrives(p)
  <2>1. job'[p] = [NoJob EXCEPT !.op = op, !.keys = keys, !.stages = stages, !.task = task, !.save = save]
    BY <1>0, <1>1 DEF Enter
  <2>2. job'[p].stages = stages
    BY <2>1 DEF NoJob
  <2> QED BY <2>2, ElsewhereArrives
<1>2. <<"run">> \in Elsewhere /\ <<"due">> \in Elsewhere /\ <<"now", "run">> \in Elsewhere /\ <<"fetch", "put">> \in Elsewhere
      /\ <<"copy", "fetch", "put", "complete">> \in Elsewhere /\ <<"heads", "copy", "revive", "fetch", "put">> \in Elsewhere
      /\ <<"fetch", "copy", "update", "complete", "enqueue", "run">> \in Elsewhere
  BY DEF Elsewhere
<1>3. CASE Wake(p)
  BY <1>1, <1>2, <1>3 DEF Wake
<1>4. ASSUME NEW keys, Delete(p, keys) PROVE Arrives(p)
  BY <1>1, <1>2, <1>4 DEF Delete
<1>5. ASSUME NEW k \in Keys, Retry(p, k) PROVE Arrives(p)
  BY <1>1, <1>2, <1>5 DEF Retry
<1>6. ASSUME NEW k \in Keys, KeepLocal(p, k) PROVE Arrives(p)
  BY <1>1, <1>2, <1>6 DEF KeepLocal
<1>7. ASSUME NEW k \in Keys, UseCloud(p, k) PROVE Arrives(p)
  BY <1>1, <1>2, <1>7 DEF UseCloud
<1>8. ASSUME NEW k \in Keys, RestoreCloudBattery(p, k) PROVE Arrives(p)
  BY <1>1, <1>2, <1>8 DEF RestoreCloudBattery
<1>9. ASSUME NEW k \in Keys, NEW r \in DOMAIN vers[k], RestoreCloudVersion(p, k, r) PROVE Arrives(p)
  BY <1>1, <1>2, <1>9 DEF RestoreCloudVersion
<1>10. Saves(p) => Arrives(p)
  BY DEF Arrives
<1> QED BY <1>3, <1>4, <1>5, <1>6, <1>7, <1>8, <1>9, <1>10 DEF Begin, Saves

LEMMA AllArrive ==
  ASSUME Shape, [Next]_vars, NEW q \in Procs
  PROVE  Arrives(q)
<1>0. Stores /\ Server /\ Jobs /\ Ids /\ Grows
  BY ServerNext DEF Shape
<1>1. ASSUME NEW p \in Procs, Begin(p) PROVE Arrives(q)
  <2>1. \A r \in Procs \ {p} : job'[r] = job[r]
    BY <1>0, <1>1, Begins DEF Begun, Gets
  <2> QED BY <1>1, <2>1, BeginArrives, StaysArrives
<1>2. ASSUME NEW p \in Procs, Stage(p) PROVE Arrives(q)
  <2>1. \A r \in Procs \ {p} : Stays(r) \/ job'[r] = job[r]
    BY <1>0, <1>2, StageFits, WriteEffect DEF Only
  <2> QED BY <1>2, <2>1, StageArrives, StaysArrives
<1>3. CASE Alien
  <2>1. CASE Kill
    <3>1. job'[q].stages = <<>>
      BY <2>1 DEF Kill, NoJob
    <3> QED BY <3>1, ElsewhereArrives DEF Elsewhere
  <2>2. CASE job' = job
    BY <2>2, StaysArrives
  <2> QED BY <1>3, <2>1, <2>2 DEF Alien, SwitchScope, vars, RemoveLocal, OtherUpload, OtherDelete
<1> QED BY <1>1, <1>2, <1>3, Steps

LEMMA RankedSaves ==
  ASSUME Shape, Cancels, Ranks, Clean, Clean', [Next]_vars, NEW q \in Procs, Filing(q)', NEW k \in job'[q].keys
  PROVE  Ranked(q, k)'
<1>0. Stores /\ Server /\ Jobs /\ Reads(q) /\ job[q] \in Job
  BY Reading DEF Shape
<1>1. job'[q].op \in {"save", "keep"} /\ job'[q].stages \in Updated
  BY DEF Filing
<1>2. CASE Lasts(q)
  <2>1. Filing(q) /\ k \in job[q].keys /\ job'[q].save = job[q].save /\ job'[q].task = job[q].task /\ job'[q].op = job[q].op
    BY <1>1, <1>2 DEF Lasts, Filing
  <2>2. Ranked(q, k) /\ k \in Keys /\ job[q].save.rev \in Nat
    BY <1>0, <2>1 DEF Ranks, Job, Save
  <2>3. job[q] # NoJob
    BY <2>1 DEF Filing, NoJob
  <2> PICK x : x = job[q].save
    OBVIOUS
  <2>4. Within(k, x)'
    BY <2>2, <2>3, BusyRises, WithinStands DEF Ranked
  <2> QED BY <2>1, <2>2, <2>4 DEF Ranked, Within
<1>3. CASE RunTask(q)
  <2>1. \A t \in job[q].todo : t.key \in Keys
    BY <1>0 DEF Reads, Good, IsTask
  <2>2. At(q, "next") /\ job'[q].op = job[q].op
    BY <1>0, <1>3, <2>1, RunTaskEffect DEF Becomes, Has
  <2> QED BY <1>0, <1>1, <2>2, AtStage
<1>4. CASE Put(q)
  <2>1. job'[q] = NoJob \/ job'[q].op = "use"
    BY <1>0, <1>4, PutEffect DEF Gets, Moves, Becomes, Has
  <2> QED BY <1>1, <2>1 DEF NoJob
<1>5. CASE UpdateCloudRevision(q)
  <2> PICK x : x = IF job[q].op = "keep" THEN Key(q) ELSE job[q].task.key
    OBVIOUS
  <2>1. At(q, "update") /\ x \in Keys /\ local \in [Keys -> Save]
    BY <1>0, <1>5, UpdateEffect DEF Stores
  <2>2. CASE Thrown(q)
    <3>1. job'[q] = NoJob \/ job'[q].op = "run"
      BY <1>0, <2>1, <2>2, ThrownEffect DEF Becomes, Has, Ends, Gets
    <3> QED BY <1>1, <3>1 DEF NoJob
  <2>3. ASSUME NEW v \in Save, v.rev = local[x].rev, v.sum = local[x].sum, local' = [local EXCEPT ![x] = v],
               Becomes(q, Tail(job[q].stages), job[q].todo, job[q].task, v, job[q].list)
        PROVE  Ranked(q, k)'
    <3>1. job'[q].op = job[q].op /\ job'[q].keys = job[q].keys /\ job'[q].task = job[q].task /\ job'[q].save = v
      BY <2>3 DEF Becomes, Has
    <3>2. job[q].op = "keep"
      BY <1>0, <1>1, <2>1, <3>1, AtStage
    <3>3. k = x /\ x = Key(q) /\ job[q].keys = {x}
      BY <1>0, <2>1, <3>1, <3>2, KeyIs DEF Resolvers
    <3>4. local'[x] = v
      BY <2>1, <2>3
    <3>5. IsTask(job[q].task) /\ job[q].task.key = x /\ job[q].task \in Task /\ Held(job[q].task)
      BY <1>0, <3>2, <3>3 DEF Reads, Good, Held, Job
    <3>6. job[q].task.id # 0
      BY <1>0, <3>5, Numbers DEF IsTask
    <3>7. job[q].task.rev <= v.rev
      BY <2>3, <3>5, <3>6 DEF Ranks, Within
    <3>8. v.rev \in Nat
      BY DEF Save
    <3> QED BY <3>1, <3>3, <3>4, <3>7, <3>8 DEF Ranked, Within
  <2> QED BY <1>0, <1>5, <2>2, <2>3, UpdateEffect
<1>6. CASE Saves(q)
  <2>1. PICK x \in Keys : \E base \in {0, local[x].cloud} : CommitSave(q, x, base)
    BY <1>6 DEF Saves
  <2>2. PICK base : Committed(q, x, base)
    BY <1>0, <2>1, CommitSaveEffect
  <2>3. PICK v \in Save : local' = [local EXCEPT ![x] = v] /\ Gets(q, New("save", {x}, <<"enqueue", "run">>, NoTask, v))
    BY <2>2 DEF Committed
  <2>4. job'[q].op = "save" /\ job'[q].keys = {x} /\ job'[q].save = v /\ local'[x] = v /\ v.rev \in Nat
    BY <1>0, <2>3 DEF Gets, New, Stores, Save
  <2> QED BY <2>4 DEF Ranked, Within
<1> QED BY <1>1, <1>2, <1>3, <1>4, <1>5, <1>6, AllArrive DEF Arrives

LEMMA RanksNext ==
  ASSUME Shape, Cancels, Ranks, [Next]_vars
  PROVE  Ranks'
<1> SUFFICES ASSUME Clean' PROVE Ranks'
  BY DEF Ranks
<1>1. Clean
  BY SlipsGrow DEF Clean
<1>2. \A t \in Task : Held(t)' /\ t.id # 0 => Within(t.key, t)'
  BY <1>1, RankedTasks
<1>3. \A p \in Procs : Filing(p)' => \A k \in job'[p].keys : Ranked(p, k)'
  BY <1>1, RankedSaves
<1> QED BY <1>2, <1>3 DEF Ranks

LEMMA SumsGrow ==
  ASSUME Server, Server', Grows, NEW k \in Keys
  PROVE  ToSet(vers[k]) \subseteq ToSet(vers'[k])
<1>1. \A r \in Revs(k) : r \in Revs(k)' /\ vers'[k][r] = vers[k][r]
  BY Numbers DEF Grows, Revs
<1>2. DOMAIN vers[k] = Revs(k) /\ vers'[k] \in Seq(Nat)
  BY Numbers DEF Server
<1>3. DOMAIN vers'[k] = Revs(k)'
  BY <1>2 DEF Revs
<1> QED BY <1>1, <1>2, <1>3 DEF ToSet

LEMMA CompletersTask ==
  ASSUME Shape, NEW p \in Procs, Completes(p)
  PROVE  IsTask(job[p].task) /\ job[p].task \in Task /\ Held(job[p].task) /\ job[p].task.id # 0 /\ job[p].task.key \in Keys
         /\ job[p].task.rev \in Nat /\ job[p] # NoJob
<1>0. Server /\ Reads(p) /\ job[p] \in Job
  BY Reading DEF Shape
<1>1. IsTask(job[p].task)
  <2>1. CASE job[p].op = "use"
    BY <1>0, <2>1 DEF Reads, Good
  <2>2. CASE job[p].op = "run"
    <3>1. job[p].stages \notin Taskless
      BY DEF Completes, Completing, Taskless
    <3> QED BY <1>0, <2>2, <3>1 DEF Reads, Good, InLine
  <2> QED BY <2>1, <2>2 DEF Completes
<1>2. job[p].task.id # 0 /\ job[p].task.key \in Keys /\ job[p].task.rev \in Nat
  BY <1>0, <1>1, Numbers DEF IsTask, Task
<1>3. job[p].task \in Task /\ Held(job[p].task)
  BY <1>0 DEF Job, Held
<1>4. job[p] # NoJob
  BY DEF Completes, NoJob
<1> QED BY <1>1, <1>2, <1>3, <1>4

\* A task of p's is complete: there is a newer save, or it is in the cloud.
Finished(p) == Superseded(job[p].task) \/ (job[p].op = "run" /\ job[p].task.sum \in ToSet(vers[job[p].task.key]))

LEMMA FinishedNext ==
  ASSUME Shape, Shape', Grows, Cancels, Ranks, Settled, Clean, Clean', [Next]_vars, NEW q \in Procs, Completes(q)'
  PROVE  Finished(q)'
<1>0. Stores /\ Server /\ Jobs /\ Reads(q) /\ job[q] \in Job /\ Server' /\ local \in [Keys -> Save]
  BY Reading DEF Shape, Stores
<1>1. job'[q].op \in {"run", "use"} /\ job'[q].stages \in Completing
  BY DEF Completes
<1>2. CASE Lasts(q)
  <2>1. Completes(q) /\ job'[q].op = job[q].op /\ job'[q].task = job[q].task
    BY <1>1, <1>2 DEF Lasts, Completes
  <2>2. job[q] # NoJob /\ job[q].task.key \in Keys /\ job[q].task.rev \in Nat
    BY <2>1, CompletersTask
  <2>3. Rises(job[q].task.key)
    BY <2>2, BusyRises
  <2>4. CASE Superseded(job[q].task)
    <3>1. local[job[q].task.key].rev \in Nat
      BY <1>0, <2>2 DEF Save
    <3> QED BY <2>1, <2>2, <2>3, <2>4, <3>1 DEF Rises, Unmoved, Superseded, Finished
  <2>5. CASE job[q].op = "run" /\ job[q].task.sum \in ToSet(vers[job[q].task.key])
    BY <1>0, <2>1, <2>2, <2>5, SumsGrow DEF Finished
  <2> QED BY <2>1, <2>4, <2>5 DEF Settled
<1>3. CASE RunTask(q)
  <2>1. \A t \in job[q].todo : t.key \in Keys
    BY <1>0 DEF Reads, Good, IsTask
  <2>2. PICK t \in job[q].todo :
          /\ (local[t.key].rev = t.rev /\ local[t.key].sum = t.sum) \/ job'[q].stages = <<"complete", "next">>
          /\ job'[q].stages \in {<<"upload", "next">>, <<"complete", "next">>} /\ job'[q].task = t
          /\ (local[t.key].rev = t.rev /\ local[t.key].sum = t.sum) => job'[q].stages = <<"upload", "next">>
    <3>1. PICK t \in job[q].todo :
            job' = [job EXCEPT ![q].todo = @ \ {t}, ![q].task = t, ![q].save = local[t.key], ![q].stages =
              IF local[t.key].rev = t.rev /\ local[t.key].sum = t.sum THEN <<"upload", "next">> ELSE <<"complete", "next">>]
      BY <1>3 DEF RunTask
    <3>2. job'[q].task = t /\ job'[q].stages = (IF local[t.key].rev = t.rev /\ local[t.key].sum = t.sum THEN <<"upload", "next">> ELSE <<"complete", "next">>)
      BY <1>0, <3>1 DEF Jobs, Job
    <3> QED BY <3>2
  <2>3. ~(local[t.key].rev = t.rev /\ local[t.key].sum = t.sum)
    <3>1. <<"upload", "next">> \notin Completing
      BY DEF Completing
    <3> QED BY <1>1, <2>2, <3>1
  <2>4. t \in Task /\ Held(t) /\ IsTask(t) /\ t.key \in Keys
    BY <1>0, <2>1 DEF Job, Held, Reads, Good
  <2>5. t.id # 0 /\ t.rev \in Nat /\ local[t.key].rev \in Nat
    BY <1>0, <2>4, Numbers DEF IsTask, Task, Save
  <2>6. t.rev < local[t.key].rev
    BY <2>3, <2>4, <2>5 DEF Ranks, Within
  <2>7. local' = local
    BY <1>3 DEF RunTask, phone
  <2> QED BY <2>2, <2>6, <2>7 DEF Finished, Superseded
<1>4. CASE Put(q)
  <2>1. /\ Key(q) \in Keys /\ job[q].keys = {Key(q)}
        /\ \/ Gets(q, NoJob)
           \/ job[q].op = "use" /\ Moves(q, <<"complete">>)
        /\ \E v \in Save : v.rev = local[Key(q)].rev + 1 /\ local' = [local EXCEPT ![Key(q)] = v]
    BY <1>0, <1>4, PutEffect
  <2>2. ~Gets(q, NoJob)
    BY <1>1 DEF Gets, NoJob
  <2>3. job[q].op = "use" /\ job'[q].task = job[q].task
    BY <2>1, <2>2 DEF Moves, Becomes, Has
  <2>4. IsTask(job[q].task) /\ job[q].task.key = Key(q) /\ job[q].task \in Task /\ Held(job[q].task)
    BY <1>0, <2>1, <2>3 DEF Reads, Good, Held, Job
  <2>5. job[q].task.id # 0 /\ job[q].task.rev \in Nat
    BY <1>0, <2>4, Numbers DEF IsTask, Task
  <2>6. job[q].task.rev <= local[Key(q)].rev /\ local[Key(q)].rev \in Nat
    BY <1>0, <2>1, <2>4, <2>5 DEF Ranks, Within, Save
  <2>7. local'[Key(q)].rev = local[Key(q)].rev + 1
    BY <1>0, <2>1
  <2> QED BY <2>3, <2>4, <2>5, <2>6, <2>7 DEF Finished, Superseded
<1>5. CASE UpdateCloudRevision(q)
  <2> PICK x : x = IF job[q].op = "keep" THEN Key(q) ELSE job[q].task.key
    OBVIOUS
  <2>1. At(q, "update")
    BY <1>5 DEF UpdateCloudRevision
  <2>2. CASE Thrown(q)
    <3>1. job'[q] = NoJob \/ job'[q].stages = <<"delay", "next">>
      BY <1>0, <2>1, <2>2, ThrownEffect DEF Becomes, Has, Ends, Gets
    <3>2. <<"delay", "next">> \notin Completing /\ NoJob.op = "none"
      BY DEF Completing, NoJob
    <3> QED BY <1>1, <3>1, <3>2
  <2>3. ASSUME NEW v, Becomes(q, Tail(job[q].stages), job[q].todo, job[q].task, v, job[q].list) PROVE Finished(q)'
    <3>1. job'[q].op = job[q].op /\ job'[q].task = job[q].task
      BY <2>3 DEF Becomes, Has
    <3>2. job[q].op = "run" /\ job[q].stages = <<"update", "complete", "next">>
      BY <1>0, <1>1, <2>1, <3>1, AtStage
    <3>3. job[q].save.sum = job[q].task.sum /\ Revision(job[q].task.key, job[q].save) /\ IsTask(job[q].task)
      BY <1>0, <3>2, RunKinds DEF Reads, Good, InLine
    <3>4. job[q].task.key \in Keys
      BY <3>3 DEF IsTask
    <3>5. job[q].task.sum \in ToSet(vers[job[q].task.key])
      BY <1>0, <3>3, <3>4, Numbers DEF Revision, ToSet
    <3> QED BY <1>0, <3>1, <3>2, <3>4, <3>5, SumsGrow DEF Finished
  <2> QED BY <1>0, <1>5, <2>2, <2>3, UpdateEffect
<1>6. CASE Saves(q)
  <2>1. PICK x \in Keys : \E base \in {0, local[x].cloud} : CommitSave(q, x, base)
    BY <1>6 DEF Saves
  <2>2. PICK base : Committed(q, x, base)
    BY <1>0, <2>1, CommitSaveEffect
  <2>3. job'[q].op = "save"
    BY <2>2 DEF Committed, Gets, New
  <2> QED BY <1>1, <2>3
<1> QED BY <1>1, <1>2, <1>3, <1>4, <1>5, <1>6, AllArrive DEF Arrives

LEMMA SettledNext ==
  ASSUME Shape, Cancels, Ranks, Settled, [Next]_vars
  PROVE  Settled'
<1> SUFFICES ASSUME Clean', NEW p \in Procs, Completes(p)' PROVE Finished(p)'
  BY DEF Settled, Finished
<1>1. Clean /\ Shape' /\ Grows
  BY SlipsGrow, ShapeNext DEF Clean
<1> QED BY <1>1, FinishedNext

\* What a stage leads to when it is to write.
LEMMA StageWrites ==
  ASSUME Jobs, NEW p \in Procs, NEW stage \in QueueStages, At(p, stage)
  PROVE  /\ stage = "complete" => <<"write">> \o job[p].stages \in Finishing
         /\ stage = "clear" => <<"write">> \o job[p].stages = <<"write", "clear", "erase">>
         /\ stage = "enqueue" => <<"write">> \o job[p].stages = <<"write", "enqueue", "run">>
         /\ stage # "enqueue" => <<"write">> \o job[p].stages # <<"write", "enqueue", "run">>
<1>0. Reads(p)
  BY Reading
<1>1. CASE stage = "complete"
  <2>1. job[p].stages \in {<<"complete", "enqueue", "run">>, <<"complete">>, <<"complete", "next">>}
    BY <1>0, <1>1, AtStage
  <2>2. <<"write">> \o job[p].stages \in {<<"write", "complete", "enqueue", "run">>, <<"write", "complete">>, <<"write", "complete", "next">>}
    BY <2>1, Writes
  <2>3. <<"write">> \o job[p].stages # <<"write", "enqueue", "run">>
    BY <2>2
  <2> QED BY <1>1, <2>2, <2>3 DEF Finishing
<1>2. CASE stage = "clear"
  <2>1. <<"write">> \o job[p].stages = <<"write", "clear", "erase">>
    BY <1>0, <1>2, AtStage, Writes
  <2>2. <<"write", "clear", "erase">> # <<"write", "enqueue", "run">>
    OBVIOUS
  <2> QED BY <1>2, <2>1, <2>2
<1>3. CASE stage = "enqueue"
  BY <1>0, <1>3, AtStage, Writes
<1>4. CASE stage \in {"back", "conflict", "delay", "fail", "now"}
  <2>1. job[p].stages \in {<<"back", "next">>, <<"conflict", "next">>, <<"delay", "next">>, <<"fail", "next">>, <<"now", "run">>}
    BY <1>0, <1>4, AtStage
  <2>2. <<"write">> \o job[p].stages \in {<<"write", "back", "next">>, <<"write", "conflict", "next">>, <<"write", "delay", "next">>,
                                         <<"write", "fail", "next">>, <<"write", "now", "run">>}
    BY <2>1, Writes
  <2>3. <<"write">> \o job[p].stages # <<"write", "enqueue", "run">>
    BY <2>2
  <2> QED BY <1>4, <2>3
<1> QED BY <1>1, <1>2, <1>3, <1>4 DEF QueueStages

LEMMA ReadDrops ==
  ASSUME Shape, scope = "account", NEW p \in Procs, ReadQueue(p), At(p, "write")'
  PROVE  Drops(p)'
<1>0. Reads(p) /\ Stores /\ Server /\ Jobs /\ Ids /\ job[p] \in Job
  BY Reading DEF Shape
<1>1. PICK stage \in QueueStages :
        /\ At(p, stage) /\ (stage = "enqueue" => Fresh(p) \in Task)
        /\ \/ stage \notin {"complete", "clear"} /\ Moves(p, Tail(job[p].stages))
           \/ /\ Becomes(p, <<"write">> \o job[p].stages, job[p].todo, job[p].task, job[p].save, job'[p].list)
              /\ job'[p].list \in [Keys -> Task]
              /\ \A k \in Keys : Edit(p, stage, queue[scope], job'[p].list, Fresh(p), k)
              /\ stage = "enqueue" => Filed(p, job'[p].list)
  BY <1>0, ReadEffect
<1>2. CASE stage \notin {"complete", "clear"} /\ Moves(p, Tail(job[p].stages))
  <2>1. job[p].stages \in {<<"enqueue", "run">>, <<"back", "next">>, <<"now", "run">>, <<"conflict", "next">>,
                           <<"delay", "next">>, <<"fail", "next">>}
    BY <1>0, <1>1, <1>2, AtStage DEF QueueStages
  <2>2. job'[p].stages \in {<<"run">>, <<"next">>}
    BY <1>2, <2>1, Nexts DEF Moves, Becomes, Has
  <2>3. job'[p].stages \in Plain
    BY <2>2 DEF Plain
  <2> QED BY <2>3, PlainIs DEF At, Idle
<1>3. ASSUME Becomes(p, <<"write">> \o job[p].stages, job[p].todo, job[p].task, job[p].save, job'[p].list),
             NEW l \in [Keys -> Task], l = job'[p].list, NEW old \in [Keys -> Task], old = queue["account"],
             NEW fresh, fresh = Fresh(p), \A k \in Keys : Edit(p, stage, old, l, fresh, k), stage = "enqueue" => Filed(p, l)
      PROVE  Drops(p)'
  <2>1. /\ job'[p].op = job[p].op /\ job'[p].keys = job[p].keys /\ job'[p].task = job[p].task
        /\ job'[p].save = job[p].save /\ job'[p].stages = <<"write">> \o job[p].stages
    BY <1>3 DEF Becomes, Has
  <2>2. queue'["account"] = old /\ NoTask.id = 0
    BY <1>3 DEF ReadQueue, phone, NoTask
  <2>3. ASSUME NEW k \in Keys, old[k].id # 0, l[k].id = 0
        PROVE  \/ job'[p].stages \in Finishing /\ job'[p].task.id = old[k].id
               \/ job'[p].stages = <<"write", "clear", "erase">> /\ k \in job'[p].keys
    <3>1. Edit(p, stage, old, l, fresh, k)
      BY <1>3
    <3>2. CASE stage = "complete" /\ old[k].id = job[p].task.id
      BY <1>0, <1>1, <2>1, <3>2, StageWrites
    <3>3. CASE stage = "clear" /\ \E j \in job[p].keys : old[k].id = old[j].id
      <4>1. PICK j \in job[p].keys : old[k].id = old[j].id
        BY <3>3
      <4>2. j \in Keys
        BY <1>0 DEF Job
      <4>3. Held(old[k]) /\ Held(old[j]) /\ old[k].key = k /\ old[j].key = j
        BY <1>0, <1>3, <2>2, <2>3, <4>1, <4>2 DEF Held, Stores, IsList
      <4>4. k = j
        BY <1>0, <1>3, <2>3, <4>1, <4>2, <4>3 DEF Ids
      <4> QED BY <1>0, <1>1, <2>1, <3>3, <4>4, StageWrites
    <3>4. CASE stage = "enqueue" /\ l[k] = fresh
      <4>1. fresh.id = issued + 1 /\ issued \in Nat
        BY <1>0, <1>3 DEF Fresh, Server
      <4> QED BY <2>3, <3>4, <4>1
    <3>5. CASE stage = "back" /\ l[k] = job[p].task
      <4>1. job[p].op = "delete" /\ job[p].stages = <<"back", "next">>
        BY <1>0, <1>1, <3>5, AtStage
      <4>2. IsTask(job[p].task)
        BY <1>0, <4>1, DeleteKinds DEF Reads, Good, InLine
      <4>3. job[p].task.id # 0
        BY <1>0, <4>2, Numbers DEF IsTask
      <4> QED BY <2>3, <3>5, <4>3
    <3>6. l[k] # old[k] /\ ~Same(l[k], old[k])
      BY <2>3 DEF Same
    <3> QED BY <3>1, <3>2, <3>3, <3>4, <3>5, <3>6 DEF Edit
  <2>4. ASSUME job'[p].stages = <<"write", "enqueue", "run">>, NEW k \in job'[p].keys
        PROVE  l[k].id # 0 /\ l[k].rev >= job'[p].save.rev
    <3>1. stage = "enqueue"
      BY <1>0, <1>1, <2>1, <2>4, StageWrites
    <3>2. job[p].op \in Resolvers \cup {"save", "retry"}
      BY <1>0, <1>1, <3>1, AtStage DEF Resolvers
    <3>3. k = Key(p)
      BY <1>0, <2>1, <2>4, <3>2, KeyIs
    <3> QED BY <1>3, <2>1, <3>1, <3>3 DEF Filed
  <2> QED BY <1>3, <2>2, <2>3, <2>4 DEF Drops
<1>4. queue[scope] \in [Keys -> Task] /\ queue[scope] = queue["account"]
  BY <1>0 DEF Stores
<1> QED BY <1>1, <1>2, <1>3, <1>4

LEMMA CalmDrops ==
  ASSUME DropsLittle, Clean, queue' = queue, NEW q \in Procs, Calm(q), At(q, "write")', job'[q].stale = "no"
  PROVE  Drops(q)'
<1>1. Stays(q) /\ job[q].stale = "no"
  BY DEF Calm
<1>2. /\ At(q, "write") /\ job'[q].list = job[q].list /\ job'[q].stages = job[q].stages /\ job'[q].keys = job[q].keys
      /\ job'[q].task = job[q].task /\ job'[q].save = job[q].save
  BY <1>1 DEF Stays, Has, At, Idle
<1>3. Drops(q)
  BY <1>1, <1>2 DEF DropsLittle
<1> QED BY <1>2, <1>3 DEF Drops

LEMMA DropsNext ==
  ASSUME Shape, Newer, DropsLittle, [Next]_vars
  PROVE  DropsLittle'
<1> SUFFICES ASSUME Clean', NEW q \in Procs, At(q, "write")', job'[q].stale = "no" PROVE Drops(q)'
  BY DEF DropsLittle
<1>0. Clean /\ Stores /\ Server /\ Jobs /\ Ids
  BY SlipsGrow DEF Shape, Clean
<1>1. scope = "account"
  BY <1>0 DEF Newer, Clean
<1>2. ASSUME NEW p \in Procs, WriteQueue(p) PROVE FALSE
  <2>1. /\ At(p, "write")
        /\ \A r \in Procs \ {p} : Stays(r) /\ job'[r].stale = IF At(r, "write") \/ At(r, "clear") THEN "yes" ELSE job[r].stale
    BY <1>0, <1>2, WriteEffect
  <2>2. ~ReadQueue(p)
    BY <2>1 DEF ReadQueue, At, QueueStages
  <2>3. Comes(p)
    BY <1>0, <1>2, StageComes DEF Stage
  <2>4. q # p
    BY <2>2, <2>3 DEF Comes
  <2>5. At(q, "write")
    BY <2>1, <2>4 DEF Stays, Has, At, Idle
  <2> QED BY <2>1, <2>4, <2>5
<1>3. queue' = queue
  BY <1>2, QueueSteps
<1>4. ASSUME NEW p \in Procs, Begin(p) PROVE Drops(q)'
  BY <1>0, <1>3, <1>4, BeginCalm, CalmDrops
<1>5. CASE Alien
  BY <1>0, <1>3, <1>5, AlienCalm, CalmDrops
<1>6. ASSUME NEW p \in Procs, Stage(p) PROVE Drops(q)'
  <2>1. Comes(p) /\ \A r \in Procs \ {p} : Calm(r)
    BY <1>0, <1>6, StageCalm
  <2>2. CASE q # p
    BY <1>0, <1>3, <2>1, <2>2, CalmDrops
  <2>3. CASE q = p
    BY <1>1, <2>1, <2>3, ReadDrops DEF Comes
  <2> QED BY <2>2, <2>3
<1> QED BY <1>4, <1>5, <1>6, Steps

LEMMA OwedSteps ==
  ASSUME [Next]_vars
  PROVE  (queue' = queue /\ owed' = owed) \/ \E p \in Procs : WriteQueue(p)
<1>1. ASSUME NEW p \in Procs, Begin(p) PROVE owed' = owed
  BY <1>1 DEF Begin, Wake, Delete, CommitSave, Retry, KeepLocal, UseCloud, RestoreCloudBattery, RestoreCloudVersion, noted
<1>2. ASSUME NEW p \in Procs, Stage(p), ~WriteQueue(p) PROVE owed' = owed
  BY <1>2 DEF Stage, ReadQueue, WriteFails, Join, RunDue, DeleteDue, NoneLeft, RunTask, RestoreTask, Upload, Erase,
              UpdateCloudRevision, StageFails, Fetch, Copy, Put, Heads, Revive, past, noted
<1>3. Alien => owed' = owed
  BY DEF Alien, Kill, SwitchScope, RemoveLocal, OtherUpload, OtherDelete, vars, past, noted
<1> QED BY <1>1, <1>2, <1>3, Steps, QueueSteps

LEMMA Enqueuers ==
  ASSUME Shape, NEW p \in Procs, NEW k, Enqueues(p, k)
  PROVE  /\ Filing(p) /\ k = Key(p) /\ k \in Keys /\ job[p].keys = {k}
         /\ At(p, "enqueue") \/ At(p, "write")
         /\ At(p, "enqueue") => job[p].stages = <<"enqueue", "run">>
         /\ At(p, "write") => job[p].stages = <<"write", "enqueue", "run">>
<1>0. Reads(p) /\ job[p].stages \in Enqueuing
  BY Reading DEF Shape, Enqueues
<1>1. CASE job[p].stages = <<"enqueue", "run">>
  <2>1. At(p, "enqueue") /\ ~At(p, "write")
    BY <1>1 DEF At, Idle
  <2>2. job[p].op \in {"save", "keep"}
    BY <1>0, <2>1, AtStage
  <2>3. k = Key(p) /\ k \in Keys /\ job[p].keys = {k}
    BY <1>0, <2>2, KeyIs DEF Resolvers, Enqueues
  <2> QED BY <1>1, <2>1, <2>2, <2>3, KeepKinds DEF Filing
<1>2. CASE job[p].stages = <<"write", "enqueue", "run">>
  <2>1. At(p, "write") /\ ~At(p, "enqueue")
    BY <1>2 DEF At, Idle
  <2>2. job[p].op \in {"save", "keep"}
    BY <1>0, <1>2, <2>1, AtStage
  <2>3. k = Key(p) /\ k \in Keys /\ job[p].keys = {k}
    BY <1>0, <2>2, KeyIs DEF Resolvers, Enqueues
  <2> QED BY <1>2, <2>1, <2>2, <2>3, KeepKinds DEF Filing
<1> QED BY <1>0, <1>1, <1>2 DEF Enqueuing

\* A save that takes the place of another is on its way to the queue, or comes from the cloud.
LEMMA NewSaves ==
  ASSUME Shape, Shape', Grows, [Next]_vars, NEW k \in Keys
  PROVE  Unmoved(k) \/ Cared(k)' \/ local'[k].rev = 0
<1>0. local \in [Keys -> Save] /\ Stores /\ Server /\ Jobs
  BY DEF Shape, Stores
<1>1. ASSUME NEW x \in Keys, NEW v, local' = [local EXCEPT ![x] = v], x # k PROVE Unmoved(k)
  BY <1>0, <1>1 DEF Unmoved
<1>2. ASSUME NEW x \in Keys, RemoveLocal(x) PROVE Unmoved(k) \/ local'[k].rev = 0
  <2>1. local' = [local EXCEPT ![x] = NoSave] /\ NoSave.rev = 0
    BY <1>2 DEF RemoveLocal, NoSave
  <2> QED BY <1>0, <1>1, <2>1
<1>3. ASSUME local' = local PROVE Unmoved(k)
  BY <1>3 DEF Unmoved
<1>4. ASSUME NEW p \in Procs, NEW x \in Keys, NEW base \in {0, local[x].cloud}, CommitSave(p, x, base)
      PROVE  Unmoved(k) \/ Cared(k)'
  <2>1. Committed(p, x, base)
    BY <1>0, <1>4, CommitSaveEffect
  <2>2. PICK v \in Save : local' = [local EXCEPT ![x] = v] /\ Gets(p, New("save", {x}, <<"enqueue", "run">>, NoTask, v))
    BY <2>1 DEF Committed
  <2>3. CASE x = k
    <3>1. local'[k] = v /\ job'[p].stages = <<"enqueue", "run">> /\ job'[p].keys = {k} /\ job'[p].save = v
      BY <1>0, <2>2, <2>3 DEF Gets, New
    <3> QED BY <3>1 DEF Cared, Enqueues, Enqueuing
  <2> QED BY <1>1, <2>2, <2>3
<1>5. ASSUME NEW p \in Procs, UpdateCloudRevision(p) PROVE Unmoved(k)
  <2> PICK x : x = IF job[p].op = "keep" THEN Key(p) ELSE job[p].task.key
    OBVIOUS
  <2>1. local' = local \/ \E v \in Save : x \in Keys /\ v.rev = local[x].rev /\ v.sum = local[x].sum /\ local' = [local EXCEPT ![x] = v]
    BY <1>0, <1>5, UpdateEffect
  <2> QED BY <1>0, <2>1 DEF Unmoved
<1>6. ASSUME NEW p \in Procs, Put(p) PROVE Unmoved(k) \/ Cared(k)'
  <2>1. /\ Key(p) \in Keys /\ Revision(Key(p), job[p].save) /\ vers' = vers
        /\ \E v \in Save : v.sum = job[p].save.sum /\ local' = [local EXCEPT ![Key(p)] = v]
    BY <1>0, <1>6, PutEffect DEF cloud
  <2>2. CASE k = Key(p)
    <3>1. local'[k].sum = job[p].save.sum
      BY <1>0, <2>1, <2>2
    <3>2. job[p].save.sum \in ToSet(vers[k])
      BY <1>0, <2>1, <2>2, Numbers DEF Revision, ToSet
    <3> QED BY <2>1, <3>1, <3>2 DEF Cared, Stored
  <2> QED BY <1>1, <2>1, <2>2
<1>7. ASSUME NEW p \in Procs, WriteQueue(p) \/ Copy(p) PROVE local' = local
  BY <1>7 DEF WriteQueue, Copy
<1>8. SwitchScope \/ UNCHANGED <<phone, newest>> => local' = local
  BY DEF SwitchScope, phone
<1> QED BY <1>2, <1>3, <1>4, <1>5, <1>6, <1>7, <1>8, StoreSteps DEF StoreStep, SaveStep

\* Who is to enqueue a save goes on, unless it finds a task for it in the queue.
LEMMA EnqueuersStay ==
  ASSUME Shape, Clean, Clean', [Next]_vars, NEW p \in Procs, NEW k, Enqueues(p, k), ~WriteQueue(p)
  PROVE  \/ job'[p].stages \in Enqueuing /\ job'[p].keys = job[p].keys /\ job'[p].save = job[p].save
         \/ ReadQueue(p) /\ Filed(p, queue[scope])
<1>0. Stores /\ Server /\ Jobs /\ Ids /\ Reads(p) /\ Grows
  BY Reading, ServerNext DEF Shape
<1>1. /\ At(p, "enqueue") \/ At(p, "write")
      /\ At(p, "enqueue") => job[p].stages = <<"enqueue", "run">>
      /\ At(p, "write") => job[p].stages = <<"write", "enqueue", "run">>
      /\ job[p].stages \in Enqueuing
  BY Enqueuers DEF Enqueues
<1>2. ASSUME NEW r \in Procs, Begin(r) PROVE job'[p] = job[p]
  <2>1. Idle(r) /\ \A q \in Procs \ {r} : job'[q] = job[q]
    BY <1>0, <1>2, Begins DEF Begun, Gets
  <2> QED BY <1>1, <2>1 DEF At
<1>3. ASSUME NEW r \in Procs, Stage(r), r # p PROVE Stays(p) \/ job'[p] = job[p]
  BY <1>0, <1>3, StageFits, WriteEffect DEF Only
<1>4. CASE Alien
  <2>1. CASE Kill
    <3>1. "cut" \notin slips'
      BY DEF Clean
    <3>2. ~To(p, "enqueue")
      BY <2>1, <3>1 DEF Kill, Slip
    <3>3. ToSet(<<"enqueue", "run">>) = {"enqueue", "run"} /\ ToSet(<<"write", "enqueue", "run">>) = {"write", "enqueue", "run"}
      BY PlanSets
    <3> QED BY <1>1, <3>2, <3>3 DEF To
  <2>2. CASE job' = job
    BY <1>1, <2>2
  <2> QED BY <1>4, <2>1, <2>2 DEF Alien, SwitchScope, vars, RemoveLocal, OtherUpload, OtherDelete
<1>5. CASE Stage(p) /\ At(p, "write")
  <2>1. WriteFails(p)
    BY <1>5
       DEF Stage, ReadQueue, WriteFails, Join, RunDue, DeleteDue, NoneLeft, RunTask, RestoreTask, Upload, Erase,
           UpdateCloudRevision, StageFails, Fetch, Copy, Put, Heads, Revive, At, QueueStages
  <2>2. job[p].stages[2] = "enqueue"
    BY <1>1, <1>5
  <2> QED BY <2>1, <2>2 DEF WriteFails, Slip, Clean
<1>6. CASE Stage(p) /\ At(p, "enqueue")
  <2>1. ReadQueue(p)
    BY <1>6
       DEF Stage, WriteQueue, WriteFails, Join, RunDue, DeleteDue, NoneLeft, RunTask, RestoreTask, Upload, Erase,
           UpdateCloudRevision, StageFails, Fetch, Copy, Put, Heads, Revive, At
  <2>2. PICK stage \in QueueStages :
          /\ At(p, stage)
          /\ \/ Moves(p, Tail(job[p].stages)) /\ (stage = "enqueue" => Filed(p, queue[scope]))
             \/ Becomes(p, <<"write">> \o job[p].stages, job[p].todo, job[p].task, job[p].save, job'[p].list)
    BY <1>0, <2>1, ReadEffect
  <2>3. stage = "enqueue"
    BY <1>6, <2>2 DEF At
  <2>4. CASE Becomes(p, <<"write">> \o job[p].stages, job[p].todo, job[p].task, job[p].save, job'[p].list)
    <3>1. job'[p].keys = job[p].keys /\ job'[p].save = job[p].save /\ job'[p].stages = <<"write">> \o job[p].stages
      BY <2>4 DEF Becomes, Has
    <3>2. job'[p].stages = <<"write", "enqueue", "run">>
      BY <1>1, <1>6, <3>1, Writes
    <3> QED BY <3>1, <3>2 DEF Enqueuing
  <2> QED BY <2>1, <2>2, <2>3, <2>4
<1> QED BY <1>1, <1>2, <1>3, <1>4, <1>5, <1>6, Steps DEF Stays, Has

\* A task that is held, of the revision of the save or of a newer one, is the task of that save.
LEMMA TaskOfSave ==
  ASSUME Ranks, Clean, NEW k \in Keys, NEW t \in Task, Held(t), t.id # 0, t.key = k, t.rev >= local[k].rev, local[k].rev \in Nat
  PROVE  t.rev = local[k].rev /\ t.sum = local[k].sum
<1>1. Within(k, t) /\ t.rev \in Nat
  BY DEF Ranks, Task
<1> QED BY <1>1 DEF Within

LEMMA CaredStands ==
  ASSUME Shape, Shape', Grows, Newer, Newer', Ranks, Clean, Clean', [Next]_vars, queue' = queue,
         \A p \in Procs : ~WriteQueue(p), NEW k \in Keys, Unmoved(k), Cared(k)
  PROVE  Cared(k)'
<1>0. scope = "account" /\ scope' = "account" /\ Stores /\ Server /\ Server'
  BY DEF Newer, Shape, Clean
<1>1. CASE Stored(k)
  BY <1>0, <1>1, SumsGrow DEF Cared, Stored, Unmoved
<1>2. CASE Queued(k)
  <2>1. queue'[scope'] = queue[scope] /\ local'[k].rev = local[k].rev /\ local'[k].sum = local[k].sum
    BY <1>0 DEF Unmoved
  <2>2. Queued(k)'
    BY <1>2, <2>1 DEF Queued
  <2> QED BY <2>2 DEF Cared
<1>3. ASSUME NEW p \in Procs, Enqueues(p, k) PROVE Cared(k)'
  <2>1. CASE job'[p].stages \in Enqueuing /\ job'[p].keys = job[p].keys /\ job'[p].save = job[p].save
    <3>1. Enqueues(p, k)'
      BY <1>3, <2>1 DEF Enqueues, Unmoved
    <3> QED BY <3>1 DEF Cared
  <2>2. CASE Filed(p, queue[scope])
    <3>1. k = Key(p) /\ job[p].save.rev = local[k].rev
      BY <1>3, Enqueuers DEF Enqueues
    <3> PICK t : t = queue["account"][k]
      OBVIOUS
    <3>2. t \in Task /\ Held(t) /\ t.id # 0 /\ t.rev >= local[k].rev /\ local[k].rev \in Nat
      BY <1>0, <2>2, <3>1 DEF Filed, Stores, Held, Save
    <3>3. t.key = k
      BY <1>0, <3>2 DEF Stores, IsList, NoTask
    <3>4. Queued(k)
      BY <1>0, <3>2, <3>3, TaskOfSave DEF Queued
    <3> QED BY <1>2, <3>4
  <2> QED BY <1>3, <2>1, <2>2, EnqueuersStay
<1> QED BY <1>1, <1>2, <1>3 DEF Cared

\* The last save's task is lost by a write to who completes it only, and then the save is in the
\* cloud, or is enqueued again.
LEMMA CompletedCared ==
  ASSUME Shape, Ranks, Settled, Clean, NEW p \in Procs, WriteQueue(p), NEW k \in Keys, Queued(k), scope = "account",
         job[p].stages \in Finishing, job[p].task.id = queue["account"][k].id
  PROVE  Stored(k) \/ Enqueues(p, k)'
<1>0. Stores /\ Server /\ Jobs /\ Ids /\ Reads(p) /\ At(p, "write") /\ local' = local /\ job[p] \in Job
  BY Reading, WriteEffect DEF Shape, WriteQueue
<1> PICK t, u : t = job[p].task /\ u = queue["account"][k]
  OBVIOUS
<1>1. t \in Task /\ u \in Task /\ Held(t) /\ Held(u) /\ u.id # 0 /\ u.rev = local[k].rev /\ u.sum = local[k].sum /\ u.key = k
  BY <1>0 DEF Stores, Job, Held, Queued, IsList, NoTask
<1>2. t.id = u.id /\ t.key = k /\ t.rev = local[k].rev /\ t.sum = local[k].sum /\ t.rev \in Nat
  BY <1>0, <1>1 DEF Ids, Task
<1>3. ASSUME Completes(p) PROVE Stored(k)
  <2>1. Superseded(t) \/ t.sum \in ToSet(vers[t.key])
    BY <1>3 DEF Settled
  <2> QED BY <1>2, <2>1 DEF Superseded, Stored
<1>4. CASE job[p].stages = <<"write", "complete", "enqueue", "run">>
  <2>1. job[p].op = "keep"
    BY <1>0, <1>4, AtStage
  <2>2. Key(p) \in Keys /\ job[p].keys = {Key(p)}
    BY <1>0, <2>1, KeyIs DEF Resolvers
  <2>3. t.key = Key(p)
    BY <1>0, <2>1, <2>2 DEF Reads, Good
  <2>4. Ranked(p, k)
    BY <1>2, <1>4, <2>1, <2>2, <2>3, KeepKinds DEF Ranks, Filing
  <2>5. t.rev <= job[p].save.rev /\ Within(k, job[p].save) /\ job[p].save.rev \in Nat
    BY <1>0, <2>1, <2>4 DEF Ranked, Job, Save
  <2>6. job[p].save.rev = local[k].rev /\ job[p].save.sum = local[k].sum
    BY <1>2, <2>5 DEF Within
  <2>7. Tail(Tail(job[p].stages)) = <<"enqueue", "run">>
    BY <1>4, Afters
  <2> PICK s : s = Tail(Tail(job[p].stages))
    OBVIOUS
  <2>8. s # <<>>
    BY <2>7
  <2>9. Has(p, s, job[p].todo, job[p].task, job[p].save, NoList)
    BY <1>0, <2>8, WriteEffect
  <2>10. job'[p].stages = <<"enqueue", "run">> /\ job'[p].keys = job[p].keys /\ job'[p].save = job[p].save
    BY <2>7, <2>9 DEF Has
  <2> QED BY <1>0, <1>2, <2>2, <2>3, <2>6, <2>10 DEF Enqueues, Enqueuing
<1>5. CASE job[p].stages \in {<<"write", "complete">>, <<"write", "complete", "next">>}
  <2>1. job[p].op \in {"run", "use"}
    BY <1>0, <1>5, AtStage
  <2> QED BY <1>3, <1>5, <2>1 DEF Completes, Completing
<1> QED BY <1>4, <1>5 DEF Finishing

LEMMA WriteCared ==
  ASSUME Shape, Shape', Grows, Newer, Ranks, Settled, DropsLittle, Carried, Clean, Clean', NEW p \in Procs, WriteQueue(p),
         NEW k \in Keys, k \in owed', local[k].rev # 0
  PROVE  Cared(k)'
<1>0. Stores /\ Server /\ Jobs /\ Ids /\ Reads(p) /\ At(p, "write") /\ job[p] \in Job
  BY Reading, WriteEffect DEF Shape
<1>1. scope = "account" /\ scope' = scope /\ local' = local /\ vers' = vers /\ queue' = [queue EXCEPT ![scope] = job[p].list]
  BY DEF Newer, WriteQueue, cloud, Clean
<1>2. job[p].stale = "no"
  <2>1. job[p].stale # "yes"
    BY DEF WriteQueue, Slip, Clean
  <2> QED BY <1>0, <2>1 DEF Job
<1> PICK t : t = job[p].list[k]
  OBVIOUS
<1>3. t \in Task /\ Held(t) /\ queue'["account"][k] = t /\ local[k].rev \in Nat
  BY <1>0, <1>1 DEF Job, Held, Stores, Save
<1>4. ASSUME t.id # 0, t.rev >= local[k].rev PROVE Cared(k)'
  <2>1. t.key = k
    BY <1>0, <1>4 DEF Reads, Good, IsList, NoTask
  <2>2. t.rev = local[k].rev /\ t.sum = local[k].sum
    BY <1>3, <1>4, <2>1, TaskOfSave
  <2>3. Queued(k)'
    BY <1>1, <1>3, <1>4, <2>2 DEF Queued
  <2> QED BY <2>3 DEF Cared
<1>5. CASE k \notin owed
  <2>1. t.id # 0 /\ t.rev = local[k].rev
    BY <1>5 DEF WriteQueue
  <2> QED BY <1>3, <1>4, <2>1
<1>6. CASE Stored(k)
  BY <1>1, <1>6 DEF Cared, Stored
<1>7. Drops(p)
  BY <1>0, <1>2 DEF DropsLittle
<1>8. CASE k \in owed /\ Queued(k)
  <2>1. CASE t.id # 0
    <3>1. t.rev >= queue["account"][k].rev
      BY <1>0, <1>1, <1>2, <1>8, <2>1, NewerAt DEF Queued, Clean
    <3> QED BY <1>1, <1>4, <1>8, <2>1, <3>1 DEF Queued
  <2>2. CASE t.id = 0 /\ job[p].stages \in Finishing /\ job[p].task.id = queue["account"][k].id
    BY <1>1, <1>6, <1>8, <2>2, CompletedCared DEF Cared
  <2>3. CASE job[p].stages = <<"write", "clear", "erase">> /\ k \in job[p].keys
    <3>1. job[p].stages[2] = "clear"
      BY <2>3
    <3>2. owed' = owed \ job[p].keys
      BY <3>1 DEF WriteQueue
    <3> QED BY <2>3, <3>2
  <2> QED BY <1>1, <1>7, <1>8, <2>1, <2>2, <2>3 DEF Drops, Queued
<1>9. ASSUME NEW q \in Procs, Enqueues(q, k) PROVE Cared(k)'
  <2>1. CASE q = p
    <3>1. job[p].stages = <<"write", "enqueue", "run">> /\ k \in job[p].keys /\ job[p].save.rev = local[k].rev
      BY <1>0, <1>9, <2>1, Enqueuers DEF Enqueues
    <3> QED BY <1>4, <1>7, <3>1 DEF Drops
  <2>2. CASE q # p
    <3>1. job'[q].stages = job[q].stages /\ job'[q].keys = job[q].keys /\ job'[q].save = job[q].save
      BY <1>0, <2>2, WriteEffect DEF Stays, Has
    <3>2. Enqueues(q, k)'
      BY <1>1, <1>9, <3>1 DEF Enqueues
    <3> QED BY <3>2 DEF Cared
  <2> QED BY <2>1, <2>2
<1> QED BY <1>5, <1>6, <1>8, <1>9 DEF Carried, Cared

LEMMA CarriedNext ==
  ASSUME Shape, Newer, Ranks, Settled, DropsLittle, Carried, [Next]_vars
  PROVE  Carried'
<1>0. slips \subseteq slips' /\ Shape' /\ Grows /\ Newer'
  BY SlipsGrow, ShapeNext, NewerNext
<1>1. owed' \subseteq Keys
  <2>1. ASSUME NEW p \in Procs, WriteQueue(p) PROVE owed' \subseteq Keys
    BY <2>1 DEF WriteQueue, Carried
  <2> QED BY <2>1, OwedSteps DEF Carried
<1>2. ASSUME Clean', NEW k \in owed', local'[k].rev # 0 PROVE Cared(k)'
  <2>1. Clean /\ k \in Keys
    BY <1>0, <1>1, <1>2 DEF Clean
  <2>2. ASSUME NEW p \in Procs, WriteQueue(p) PROVE Cared(k)'
    <3>1. local' = local
      BY <2>2 DEF WriteQueue
    <3> QED BY <1>0, <1>2, <2>1, <2>2, <3>1, WriteCared
  <2>3. CASE (\A p \in Procs : ~WriteQueue(p)) /\ queue' = queue /\ owed' = owed
    <3>1. CASE Unmoved(k)
      <4>1. Cared(k)
        BY <1>2, <2>1, <2>3, <3>1 DEF Carried, Unmoved
      <4> QED BY <1>0, <1>2, <2>1, <2>3, <3>1, <4>1, CaredStands
    <3> QED BY <1>0, <1>2, <2>1, <3>1, NewSaves
  <2> QED BY <2>2, <2>3, OwedSteps
<1> QED BY <1>1, <1>2 DEF Carried

------------------------------------------------------------------------------
(* The promises. *)

LEMMA SyInvInit ==
  ASSUME Init
  PROVE  SyInv
<1>1. /\ local = [k \in Keys |-> NoSave] /\ job = [p \in Procs |-> NoJob] /\ newest = [k \in Keys |-> 0]
      /\ queue = [s \in {"account", "anonymous"} |-> NoList] /\ scope = "account" /\ cancelled = {} /\ line = <<>>
      /\ NoSave.cloud = 0 /\ NoTask.id = 0
  BY DEF Init, NoSave, NoTask
<1>2. ASSUME NEW p \in Procs PROVE ~Sends(p) /\ ~Overwrites(p) /\ ~Running(p) /\ \A x \in {"write", "back"} : ~At(p, x)
  BY <1>1 DEF NoJob, Sends, Overwrites, Running, At, Idle
<1>3. Shape
  BY ShapeInit
<1>4. Safe /\ Descends /\ Newer
  BY <1>1, <1>2 DEF Safe, Descends, Newer
<1>5. NoBlindOverwrite /\ SaveKept
  BY <1>1 DEF NoBlindOverwrite, SaveKept
<1>6. Cancels
  <2>1. \A k \in Keys : queue["anonymous"][k] = NoTask
    BY <1>1, NoneTyped
  <2>2. Gone(cancelled)
    BY <1>1 DEF Gone
  <2> QED BY <1>1, <1>2, <2>1, <2>2 DEF Cancels
<1>7. Settled /\ DropsLittle /\ Carried
  <2>1. owed = {} /\ \A p \in Procs : ~Completes(p)
    BY <1>1 DEF Init, Completes, NoJob
  <2> QED BY <1>2, <2>1 DEF Settled, DropsLittle, Carried
<1>8. Ranks
  <2>1. \A p \in Procs : ~Filing(p)
    BY <1>1 DEF Filing, NoJob
  <2>2. \A t \in Task : Held(t) => t.id = 0
    <3>1. \A k \in Keys : NoList[k].id = 0
      BY <1>1, NoneTyped
    <3>2. \A s \in {"account", "anonymous"} : \A k \in Keys : queue[s][k].id = 0
      BY <1>1, <3>1
    <3>3. \A p \in Procs : job[p].task.id = 0 /\ job[p].todo = {} /\ \A k \in Keys : job[p].list[k].id = 0
      BY <1>1, <3>1 DEF NoJob
    <3> QED BY <3>2, <3>3 DEF Held
  <2> QED BY <2>1, <2>2 DEF Ranks
<1> QED BY <1>3, <1>4, <1>5, <1>6, <1>7, <1>8 DEF SyInv, Shape

LEMMA SyInvNext ==
  ASSUME SyInv, [Next]_vars
  PROVE  SyInv'
<1>1. /\ Shape /\ Safe /\ Descends /\ NoBlindOverwrite /\ SaveKept /\ Newer /\ Cancels
      /\ Ranks /\ Settled /\ DropsLittle /\ Carried
  BY DEF SyInv, Shape
<1>2. Shape' /\ Safe' /\ SaveKept' /\ Descends' /\ NoBlindOverwrite' /\ Newer' /\ Cancels'
  BY <1>1, ShapeNext, SavesNext, SeenNext, NewerNext, CancelsNext
<1>3. Ranks' /\ Settled' /\ DropsLittle' /\ Carried'
  BY <1>1, RanksNext, SettledNext, DropsNext, CarriedNext
<1> QED BY <1>2, <1>3 DEF SyInv, Shape

\* Everything the promises rest on, for any number of saves, operations and faults.
THEOREM SyncInvariant == Spec => []SyInv
BY SyInvInit, SyInvNext, PTL DEF Spec

\* docs/08:212: what the phone bases its next upload on is a version of the cloud that its save
\* descends from, or that the user has chosen it over, so no other device's version is
\* overwritten unseen; unless a restore crossed an upload, or a save with a task was removed.
THEOREM NothingBlind == Spec => []NoBlindOverwrite
<1>1. SyInv => NoBlindOverwrite
  BY DEF SyInv
<1> QED BY <1>1, SyncInvariant, PTL

\* The save the player made last is on the phone, among the copies or in the cloud, whatever
\* has failed and wherever the app was killed, unless a restore crossed an upload.
THEOREM SavesKept == Spec => []SaveKept
<1>1. SyInv => SaveKept
  BY DEF SyInv
<1> QED BY <1>1, SyncInvariant, PTL

\* docs/04:298: whenever nothing is under way, a save that was enqueued is in the cloud or has a
\* task in the queue, whatever request or write has failed and however a run, a restore, a choice
\* in a conflict and the player's next save were interleaved, unless two operations wrote the
\* queue from one reading, an enqueue was cut off, a save with a task was removed, or the account
\* changed.
THEOREM NothingIsForgotten == Spec => []NothingForgotten
<1>1. SyInv => NothingForgotten
  <2> SUFFICES ASSUME SyInv, Clean, NEW k \in owed, Quiet, local[k].rev # 0
               PROVE  Stored(k) \/ Queued(k)
    BY DEF NothingForgotten, NewestQueued, Clean
  <2>1. ASSUME NEW p \in Procs PROVE ~Enqueues(p, k)
    <3>1. job[p].stages = <<>>
      BY DEF Quiet, Idle
    <3> QED BY <3>1 DEF Enqueues, Enqueuing
  <2> QED BY <2>1 DEF SyInv, Carried, Cared
<1> QED BY <1>1, SyncInvariant, PTL

NewestStep == slips' \cap {"raced", "scope"} = {} => \A s \in DOMAIN queue : \A k \in Keys :
  queue[s][k].id # 0 /\ queue'[s][k].id # 0 => queue'[s][k].rev >= queue[s][k].rev

\* docs/04:297: whoever writes the queue, the task it has for a key is never replaced by one of
\* an older revision, unless two operations wrote from one reading or the session ended.
THEOREM NewestTaskStays == Spec => QueueKeepsNewest
<1>1. SyInv /\ [Next]_vars => NewestStep
  <2> SUFFICES ASSUME SyInv, [Next]_vars, slips' \cap {"raced", "scope"} = {}, NEW s \in DOMAIN queue, NEW k \in Keys,
                      queue[s][k].id # 0, queue'[s][k].id # 0
               PROVE  queue'[s][k].rev >= queue[s][k].rev
    BY DEF NewestStep
  <2>1. Shape /\ Newer
    BY DEF SyInv, Shape
  <2> QED BY <2>1, NewestStays
<1>2. Spec => [][NewestStep]_vars
  BY <1>1, SyncInvariant, PTL DEF Spec
<1> QED BY <1>2, PTL DEF QueueKeepsNewest, NewestStep

\* docs/04:300: a task that a deletion has cancelled is not accepted by the server again, however
\* its upload, its deletion and what was enqueued meanwhile were interleaved.
THEOREM DeletionsStand == Spec => DeletionNotUndone
<1>1. SyInv /\ [Next]_vars => [\A d \in done' \ done : d.id \in cancelled => slips \cap {"raced", "scope"} # {}]_vars
  <2> SUFFICES ASSUME SyInv, [Next]_vars, NEW d \in done' \ done, d.id \in cancelled, slips \cap {"raced", "scope"} = {}
               PROVE  FALSE
    OBVIOUS
  <2>1. Shape /\ Cancels
    BY DEF SyInv, Shape
  <2> QED BY <2>1, AcceptedUncancelled
<1> QED BY <1>1, SyncInvariant, PTL DEF Spec, DeletionNotUndone
===============================================================================
