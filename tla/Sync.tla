-------------------------------- MODULE Sync --------------------------------
(***************************************************************************)
(* The synchronisation of one game's saves with the cloud: the player and  *)
(* the pages commit saves, the queue keeps the tasks of an account in one  *)
(* file, the sync service uploads, resolves conflicts and restores, the    *)
(* delete service deletes.  Everything is a chain of awaits on one thread; *)
(* runs and deletions go one at a time (SyncService.exclusive), the rest   *)
(* at any time, and an operation on the queue reads the file, waits, and   *)
(* writes it back.                                                         *)
(*                                                                         *)
(* Abstractions.  A content is a number.  A commit and the update of a     *)
(* manifest are one step each (LocalSave has their calls), a request       *)
(* takes effect before its answer is given up (SaveStore has late ones),   *)
(* and a deleted head keeps its row.  Synchronisation is switched on for   *)
(* every kind of save.  What the library shows of it is in Library.        *)
(***************************************************************************)
EXTENDS Integers, FiniteSets, SequencesExt

CONSTANTS
  Keys,      \* kind and slot of the game's saves
  Procs,     \* bound: operations under way at once
  Does,      \* the operations an instance has
  Faults,    \* "net": a request fails, "refuse": it is refused for good, "disk": the queue
             \* cannot be written, "kill": the app is killed, "scope": the session ends
  MaxMade,   \* bound: contents made
  MaxBegun,  \* bound: operations begun
  MaxOther,  \* bound: steps of another device
  MaxUpsets  \* bound: faults, and local saves removed

Ops == {"save", "forget", "wake", "retry", "keep", "use", "restore", "version", "delete", "other"}
ASSUME SyncAssumption ==
  /\ Does \subseteq Ops /\ Faults \subseteq {"net", "refuse", "disk", "kill", "scope"}
  /\ {MaxMade, MaxBegun, MaxOther, MaxUpsets} \subseteq Nat

VARIABLES
  local,     \* the manifest of each key: localRevision (0: none), cloudRevision and checksum
  copies,    \* contents kept by storeConflictCopy
  queue,     \* the queue file of each scope: at most one task for a key
  scope,     \* activeScope()
  line,      \* exclusiveTail: the operations that wait in it, the first one is running
  job,       \* each operation: the stages it has to go, and what it has read
  head,      \* the server: the current revision of each key, 0 when there is none to see,
  vers,      \* the contents of its revisions,
  done,      \* and its idempotency keys, each with its request and its revision
  begun,     \* operations begun
  others,    \* steps of another device
  upsets,    \* faults, and local saves removed
  issued,    \* tasks issued
  from,      \* history: of each content, the contents it descends from
  newest,    \* history: the last content the player committed to each key
  owed,      \* history: keys whose last save had a task since the last deletion in the cloud
  cancelled, \* history: tasks a deletion that succeeded has cancelled
  slips      \* history: what happened that the code does not care for

phone == <<local, copies, queue, scope>>
cloud == <<head, vers, done>>
noted == <<issued, from, newest, owed, cancelled, slips>>
past == <<begun, others, upsets, noted>>
vars == <<phone, line, job, cloud, past>>

None == -1
Unseen == -2 \* a conflict of which the answer told nothing
NoSave == [rev |-> 0, cloud |-> 0, sum |-> 0]
\* due: "now", "later" after a failure, "never" when it is terminal; head: the conflict.
NoTask == [key |-> None, id |-> 0, rev |-> 0, sum |-> 0, due |-> "now", head |-> None]
NoList == [k \in Keys |-> NoTask]
NoJob == [op |-> "none", keys |-> {}, stages |-> <<>>, todo |-> {}, task |-> NoTask,
          save |-> NoSave, list |-> NoList, stale |-> "no"]

Init ==
  /\ local = [k \in Keys |-> NoSave] /\ copies = {} /\ scope = "account"
  /\ queue = [s \in {"account", "anonymous"} |-> NoList]
  /\ line = <<>> /\ job = [p \in Procs |-> NoJob]
  /\ head = [k \in Keys |-> 0] /\ vers = [k \in Keys |-> <<>>] /\ done = {}
  /\ begun = 0 /\ upsets = 0 /\ others = 0 /\ issued = 0 /\ from = <<>> /\ newest = [k \in Keys |-> 0]
  /\ owed = {} /\ cancelled = {} /\ slips = {}

------------------------------------------------------------------------------
(* Operations and their stages. *)

Idle(p) == job[p].stages = <<>>
Quiet == \A p \in Procs : Idle(p)
To(p, stage) == stage \in ToSet(job[p].stages)
At(p, stage) == ~Idle(p) /\ Head(job[p].stages) = stage
Running(p) == line # <<>> /\ Head(line) = p
Enter(p, op, keys, stages, task, save) ==
  /\ op \in Does /\ Idle(p) /\ begun < MaxBegun /\ begun' = begun + 1
  /\ job' = [job EXCEPT ![p] = [NoJob EXCEPT
       !.op = op, !.keys = keys, !.stages = stages, !.task = task, !.save = save]]
Left(p, stages) == IF stages = <<>> THEN NoJob ELSE [job[p] EXCEPT !.stages = stages]
Pop(p) == job' = [job EXCEPT ![p] = Left(p, Tail(job[p].stages))]
Become(p, stages) == job' = [job EXCEPT ![p].stages = stages]
EndM(p) == job' = [job EXCEPT ![p] = NoJob] /\ line' = line \* only an operation that succeeds leaves
\* The end, by return or by an error that is thrown: finally, the next in line may run.
End(p) == job' = [job EXCEPT ![p] = NoJob] /\ line' = IF Running(p) THEN Tail(line) ELSE line
Upset == upsets < MaxUpsets /\ upsets' = upsets + 1
Other == others < MaxOther /\ others' = others + 1
Slip(x) == slips' = slips \cup x
Key(p) == CHOOSE k \in job[p].keys : TRUE
\* The key of the task an operation is at, and whether it is to set its cloudRevision.
Updating(p, k) == job[p].task.key = k /\ (To(p, "upload") \/ To(p, "update"))
Replacing(p, k) == k \in job[p].keys /\ To(p, "put") /\ ~To(p, "copy")
Crossed(x) == Slip(IF x THEN {"crossed"} ELSE {})

------------------------------------------------------------------------------
(* The server, as SaveStore has it. *)

Current(k) == IF head[k] = 0 THEN 0 ELSE vers[k][head[k]]
\* commitTx: an upload or a restore of content sum on top of revision base.
Answer(k, id, base, sum) ==
  LET known == {d \in done : d.id = id} IN
  IF known # {}
  THEN LET d == CHOOSE d \in known : TRUE IN IF d.base = base THEN d.rev ELSE None
  ELSE IF head[k] # base /\ head[k] # 0 /\ Current(k) = sum THEN head[k]
  ELSE IF head[k] = base THEN Len(vers[k]) + 1
  ELSE None
\* What a 409 tells: the current revision (0: deleted), or nothing when the key was used for
\* another base.
Shown(k, id) == IF \E d \in done : d.id = id THEN Unseen ELSE head[k]
\* What the request leaves behind.
Commit(k, id, base, sum) ==
  LET rev == Answer(k, id, base, sum) IN
  /\ IF rev = Len(vers[k]) + 1
     THEN /\ vers' = [vers EXCEPT ![k] = Append(@, sum)] /\ head' = [head EXCEPT ![k] = rev]
     ELSE UNCHANGED <<vers, head>>
  /\ done' = IF id # 0 /\ rev # None THEN done \cup {[id |-> id, base |-> base, rev |-> rev]}
             ELSE done
\* Another device of the account uploads on top of what it has seen, or deletes.
OtherUpload(k) ==
  /\ "other" \in Does /\ Len(from) < MaxMade /\ Other
  /\ LET new == Len(from) + 1 IN
     /\ from' = Append(from, {new} \cup IF head[k] = 0 THEN {} ELSE from[Current(k)])
     /\ vers' = [vers EXCEPT ![k] = Append(@, new)]
  /\ head' = [head EXCEPT ![k] = Len(vers'[k])]
  /\ UNCHANGED <<phone, line, job, done, begun, upsets, issued, newest, owed, cancelled, slips>>
OtherDelete(k) ==
  /\ "other" \in Does /\ head[k] # 0 /\ head' = [head EXCEPT ![k] = 0] /\ Other
  /\ UNCHANGED <<phone, line, job, vers, done, begun, upsets, noted>>

------------------------------------------------------------------------------
(* The player and the pages begin an operation. *)

\* flushBattery, commitState and importBattery: a new save is committed, then enqueued.  An
\* import is based on the cloudRevision the page was drawn with, perhaps before an upload.
CommitSave(p, k, base) ==
  /\ Len(from) < MaxMade
  /\ LET new == Len(from) + 1
         save == [rev |-> local[k].rev + 1, cloud |-> base, sum |-> new] IN
     /\ Enter(p, "save", {k}, <<"enqueue", "run">>, NoTask, save)
     /\ local' = [local EXCEPT ![k] = save] /\ newest' = [newest EXCEPT ![k] = new]
     /\ from' = Append(from, {new} \cup IF local[k].rev = 0 THEN {} ELSE from[local[k].sum])
  /\ Crossed(\E q \in Procs : Replacing(q, k))
  /\ UNCHANGED <<copies, queue, scope, line, cloud, others, upsets, issued, owed, cancelled>>
\* SavesPage.removeLocal; its task stays.
RemoveLocal(k) ==
  /\ "forget" \in Does /\ local[k].rev # 0 /\ Upset
  /\ local' = [local EXCEPT ![k] = NoSave] /\ newest' = [newest EXCEPT ![k] = 0]
  /\ Slip(IF Quiet /\ queue[scope][k] = NoTask THEN {} ELSE {"removed"})
  /\ UNCHANGED <<copies, queue, scope, line, job, cloud, begun, others, issued, from, owed, cancelled>>
\* App: after the refresh of the session, and when the network is back.
Wake(p) ==
  /\ Enter(p, "wake", {}, <<"run">>, NoTask, NoSave)
  /\ UNCHANGED <<phone, line, cloud, others, upsets, noted>>
\* SyncService.retry, resolveKeepLocal and resolveUseCloud find their task first.
Retry(p, k) ==
  /\ queue[scope][k].head = None /\ queue[scope][k].due # "now"
  /\ Enter(p, "retry", {k}, <<"now", "run">>, queue[scope][k], NoSave)
  /\ UNCHANGED <<phone, line, cloud, others, upsets, noted>>
KeepLocal(p, k) ==
  /\ queue[scope][k].head \notin {None, Unseen} \* the page cannot show what it does not know
  /\ Enter(p, "keep", {k}, <<"fetch", "copy", "update", "complete", "enqueue", "run">>,
           queue[scope][k], NoSave)
  /\ UNCHANGED <<phone, line, cloud, others, upsets, noted>>
UseCloud(p, k) ==
  /\ queue[scope][k].head \notin {None, Unseen}
  /\ Enter(p, "use", {k}, <<"copy", "fetch", "put", "complete">>, queue[scope][k], NoSave)
  /\ UNCHANGED <<phone, line, cloud, others, upsets, noted>>
\* restoreCloudBattery keeps the local save as .previous only.
RestoreCloudBattery(p, k) ==
  /\ local[k].rev # 0 /\ queue[scope][k].head = None
  /\ Enter(p, "restore", {k}, <<"fetch", "put">>, [NoTask EXCEPT !.head = 0], NoSave)
  /\ UNCHANGED <<phone, line, cloud, others, upsets, noted>>
\* restoreCloudVersion of revision r.
RestoreCloudVersion(p, k, r) ==
  /\ local[k].rev # 0 /\ r \in DOMAIN vers[k]
  /\ Enter(p, "version", {k}, <<"heads", "copy", "revive", "fetch", "put">>,
           [NoTask EXCEPT !.rev = r], NoSave)
  /\ UNCHANGED <<phone, line, cloud, others, upsets, noted>>
\* CloudDeleteService.deleteSave and deleteROM, in line.
Delete(p, keys) ==
  /\ \A k \in keys : local[k].rev # 0
  /\ Enter(p, "delete", keys, <<"due">>, NoTask, NoSave) /\ line' = Append(line, p)
  /\ UNCHANGED <<phone, cloud, others, upsets, noted>>

------------------------------------------------------------------------------
(* The queue: a stage reads the file of the scope, the next one writes it back. *)

QueueStages == {"enqueue", "back", "complete", "conflict", "delay", "fail", "now", "clear"}
Fresh(p) == [key |-> Key(p), id |-> issued + 1, rev |-> job[p].save.rev, sum |-> job[p].save.sum,
             due |-> "now", head |-> None]
EnqueuedM(list, t) == [list EXCEPT ![t.key] = t] \* an older save takes the place of a newer one
\* The newest revision stays.
Enqueued(list, t) == IF list[t.key].id # 0 /\ list[t.key].rev > t.rev THEN list
                     ELSE [list EXCEPT ![t.key] = t]
RemovedM(list, ids) == \* by key instead of by id
  [k \in Keys |-> IF list[k].id \in ids \/ \E i \in ids : i < list[k].id THEN NoTask ELSE list[k]]
Removed(list, ids) == [k \in Keys |-> IF list[k].id \in ids THEN NoTask ELSE list[k]]
Edited(p, stage, list) ==
  LET t == job[p].task
      k == t.key IN
  CASE stage = "enqueue" -> Enqueued(list, Fresh(p))
    [] stage = "back" -> Enqueued(list, t)
    [] stage = "complete" -> Removed(list, {t.id})
    [] stage = "clear" -> Removed(list, {list[j].id : j \in job[p].keys})
    [] OTHER ->
         IF k = None \/ list[k].id # t.id THEN list
         ELSE CASE stage = "conflict" -> [list EXCEPT ![k].head = t.head]
                [] stage = "delay" -> [list EXCEPT ![k].head = None, ![k].due = "later"]
                [] stage = "fail" -> [list EXCEPT ![k].due = "never"]
                [] stage = "now" -> [list EXCEPT ![k].due = "now"]
\* An older save, and a task that is gone, leave the file alone.
Written(p, stage, list) ==
  \/ stage \in {"complete", "clear"} \/ Edited(p, stage, list) # list
  \/ stage \notin {"enqueue", "back"} /\ list[job[p].task.key].id = job[p].task.id
ReadQueue(p) ==
  /\ ~Idle(p) /\ Head(job[p].stages) \in QueueStages
  /\ LET stage == Head(job[p].stages)
         list == queue[scope] IN
     /\ issued' = IF stage = "enqueue" THEN issued + 1 ELSE issued
     /\ IF Written(p, stage, list)
        THEN job' = [job EXCEPT ![p].stages = <<"write">> \o @,
                                ![p].list = Edited(p, stage, list)]
        ELSE Pop(p)
  /\ UNCHANGED <<phone, line, cloud, begun, others, upsets, from, newest, owed, cancelled, slips>>
\* Anything written since the file was read is lost: a reading is stale.
WriteQueue(p) ==
  /\ At(p, "write")
  /\ queue' = [queue EXCEPT ![scope] = job[p].list]
  /\ job' = [q \in Procs |->
       IF q = p
       THEN LET left == Left(p, Tail(Tail(job[p].stages))) IN
            [left EXCEPT !.list = NoList, !.stale = "no"]
       ELSE [job[q] EXCEPT !.stale = IF At(q, "write") \/ At(q, "clear") THEN "yes" ELSE @]]
  /\ owed' = CASE job[p].stages[2] \in {"enqueue", "back"} ->
                    owed \cup {k \in Keys : job[p].list[k].id # 0 /\ job[p].list[k].rev = local[k].rev}
               [] job[p].stages[2] = "clear" -> owed \ job[p].keys
               [] OTHER -> owed
  /\ Slip(IF job[p].stale = "yes" THEN {"raced"} ELSE {})
  /\ UNCHANGED <<local, copies, scope, line, cloud, begun, others, upsets, issued, from, newest, cancelled>>
\* runTask catches what its try throws, and delays the task; the rest ends the operation.
Thrown(p) ==
  IF To(p, "next") /\ (To(p, "complete") \/ To(p, "update"))
  THEN line' = line /\ job' = [job EXCEPT ![p].stages = <<"delay", "next">>, ![p].list = NoList]
  ELSE End(p)
WriteFails(p) ==
  /\ At(p, "write") /\ "disk" \in Faults /\ Upset
  /\ Thrown(p)
  /\ Slip(IF job[p].stages[2] \in {"enqueue", "back"} THEN {"cut"} ELSE {})
  /\ UNCHANGED <<phone, cloud, begun, others, issued, from, newest, owed, cancelled>>

------------------------------------------------------------------------------
(* In line: runDue, and the deletions. *)

Join(p) ==
  /\ At(p, "run") /\ line' = Append(line, p)
  /\ job' = [job EXCEPT ![p] = [NoJob EXCEPT !.op = "run", !.stages = <<"due">>]]
  /\ UNCHANGED <<phone, cloud, past>>
Tasks(keys) == {queue[scope][k] : k \in {j \in keys : queue[scope][j].id # 0}}
\* Tasks with a conflict are tried again like any other; a delay may have passed or not.
RunDue(p) ==
  /\ At(p, "due") /\ Running(p) /\ job[p].op # "delete"
  /\ IF scope = "anonymous" THEN End(p)
     ELSE /\ \E passed \in SUBSET {t \in Tasks(Keys) : t.due = "later"} :
               job' = [job EXCEPT ![p].stages = <<"next">>,
                                  ![p].todo = passed \cup {t \in Tasks(Keys) : t.due = "now"}]
          /\ line' = line
  /\ UNCHANGED <<phone, cloud, past>>
DeleteDueM(p) == \* a deletion does not wait for its turn
  /\ At(p, "due") /\ job[p].op = "delete"
  /\ job' = [job EXCEPT ![p].stages = <<"clear", "erase">>, ![p].todo = Tasks(job[p].keys)]
  /\ UNCHANGED <<phone, line, cloud, past>>
DeleteDue(p) ==
  /\ At(p, "due") /\ Running(p) /\ job[p].op = "delete"
  /\ job' = [job EXCEPT ![p].stages = <<"clear", "erase">>, ![p].todo = Tasks(job[p].keys)]
  /\ UNCHANGED <<phone, line, cloud, past>>
NoneLeft(p) ==
  /\ At(p, "next") /\ job[p].todo = {} /\ End(p) /\ UNCHANGED <<phone, cloud, past>>
\* runTask: a task that the save has left behind is complete.
RunTask(p) ==
  /\ At(p, "next") /\ job[p].op # "delete"
  /\ \E t \in job[p].todo :
       LET stored == local[t.key] IN
       job' = [job EXCEPT ![p].todo = @ \ {t}, ![p].task = t, ![p].save = stored, ![p].stages =
         IF stored.rev = t.rev /\ stored.sum = t.sum THEN <<"upload", "next">>
         ELSE <<"complete", "next">>]
  /\ UNCHANGED <<phone, line, cloud, past>>
\* restoreTasks
RestoreTask(p) ==
  /\ At(p, "next") /\ job[p].op = "delete"
  /\ \E t \in job[p].todo :
       job' = [job EXCEPT ![p].todo = @ \ {t}, ![p].task = t, ![p].stages = <<"back", "next">>]
  /\ UNCHANGED <<phone, line, cloud, past>>

Reply(p, stages, save, t) ==
  job' = [job EXCEPT ![p].stages = stages \o <<"next">>, ![p].save = save, ![p].task = t]
SameAsCurrentM(k, t) == Shown(k, t.id) > 0 \* any 409 with a current revision
\* error.current?.checksum===task.checksum; the server has made this test before.
SameAsCurrent(k, t) == Shown(k, t.id) > 0 /\ Current(k) = t.sum
\* A request whose answer is lost may have taken effect.
Upload(p) ==
  /\ At(p, "upload")
  /\ LET t == job[p].task
         save == job[p].save
         k == t.key
         rev == Answer(k, t.id, save.cloud, save.sum) IN
     \/ /\ scope = "account" /\ Commit(k, t.id, save.cloud, save.sum) /\ UNCHANGED upsets
        /\ IF rev # None THEN Reply(p, <<"update", "complete">>, [save EXCEPT !.cloud = rev], t)
           ELSE IF SameAsCurrent(k, t)
           THEN Reply(p, <<"update", "complete">>, [save EXCEPT !.cloud = head[k]], t)
           ELSE Reply(p, <<"conflict">>, NoSave, [t EXCEPT !.head = Shown(k, t.id)])
     \/ /\ scope = "account" /\ "net" \in Faults /\ Upset
        /\ Reply(p, <<"delay">>, NoSave, t)
        /\ Commit(k, t.id, save.cloud, save.sum) \/ UNCHANGED cloud
     \/ /\ scope = "anonymous" /\ Reply(p, <<"delay">>, NoSave, t) /\ UNCHANGED <<cloud, upsets>>
     \/ /\ scope = "account" /\ "refuse" \in Faults /\ Upset
        /\ Reply(p, <<"fail">>, NoSave, t) /\ UNCHANGED cloud
  /\ UNCHANGED <<phone, line, begun, others, noted>>
\* A deletion; that there was nothing to delete (404) is as good.
Erase(p) ==
  /\ At(p, "erase")
  /\ \/ /\ scope = "account" /\ head' = [k \in Keys |-> IF k \in job[p].keys THEN 0 ELSE head[k]]
        /\ cancelled' = cancelled \cup {t.id : t \in job[p].todo} /\ End(p) /\ UNCHANGED upsets
     \/ /\ scope = "account" /\ "net" \in Faults /\ Upset
        /\ head' \in {head, [k \in Keys |-> IF k \in job[p].keys THEN 0 ELSE head[k]]}
        /\ Become(p, <<"next">>) /\ UNCHANGED <<line, cancelled>>
     \/ /\ scope = "anonymous"
        /\ Become(p, <<"next">>) /\ UNCHANGED <<line, head, upsets, cancelled>>
  /\ UNCHANGED <<phone, vers, done, begun, others, issued, from, newest, owed, slips>>

------------------------------------------------------------------------------
(* The other stages. *)

\* updateCloudRevision; the player may have committed a newer save meanwhile.
UpdateCloudRevision(p) ==
  /\ At(p, "update")
  /\ LET k == IF job[p].op = "keep" THEN Key(p) ELSE job[p].task.key
         save == [local[k] EXCEPT !.cloud = job[p].save.cloud] IN
     IF local[k].rev = 0 THEN Thrown(p) /\ UNCHANGED <<local, from>>
     ELSE /\ local' = [local EXCEPT ![k] = save]
          /\ job' = [job EXCEPT ![p] = [Left(p, Tail(job[p].stages)) EXCEPT !.save = save]]
          \* who keeps the local save has seen the other one
          /\ from' = IF job[p].op = "keep"
                     THEN [from EXCEPT ![save.sum] = @ \cup from[job[p].save.sum]] ELSE from
          /\ line' = line
  /\ UNCHANGED <<copies, queue, scope, cloud, begun, others, upsets, issued, newest, owed>>
  /\ UNCHANGED <<cancelled, slips>>

\* A request, or the local save, cannot be read: the operation ends.
StageFails(p) ==
  /\ \E s \in {"fetch", "heads", "revive"} : At(p, s)
  /\ \/ "net" \in Faults /\ Upset
     \/ scope = "anonymous" /\ UNCHANGED upsets
  /\ End(p) /\ UNCHANGED <<phone, cloud, begun, others, noted>>
\* download: nothing of a deleted save; revision 0 stands for the current one.
Fetch(p) ==
  /\ At(p, "fetch") /\ scope = "account"
  /\ LET k == Key(p)
         r == IF job[p].task.head = 0 THEN head[k] ELSE job[p].task.head IN
     IF head[k] = 0 THEN End(p)
     ELSE /\ job' = [job EXCEPT ![p] = [Left(p, Tail(job[p].stages)) EXCEPT
                 !.save = [rev |-> 0, cloud |-> r, sum |-> vers[k][r]]]]
          /\ line' = line
  /\ UNCHANGED <<phone, cloud, past>>
CopyM(p) == At(p, "copy") /\ Pop(p) /\ UNCHANGED <<phone, line, cloud, past>> \* no copy
\* storeConflictCopy, of the local save or of the one that was downloaded.
Copy(p) ==
  /\ At(p, "copy") /\ Pop(p)
  /\ copies' = copies \cup ({IF job[p].op = "keep" THEN job[p].save.sum ELSE local[Key(p)].sum}
                            \ {0})
  /\ UNCHANGED <<local, queue, scope, line, cloud, past>>
\* commit of what was downloaded.
Put(p) ==
  /\ At(p, "put") /\ Pop(p)
  /\ LET k == Key(p)
         save == job[p].save IN
     /\ local' = [local EXCEPT ![k] = [rev |-> @.rev + 1, cloud |-> save.cloud, sum |-> save.sum]]
     /\ newest' = IF job[p].op = "restore" THEN [newest EXCEPT ![k] = save.sum] ELSE newest
     /\ Crossed(\E q \in Procs \ {p} : Updating(q, k))
  /\ UNCHANGED <<copies, queue, scope, line, cloud, begun, others, upsets, issued, from, owed, cancelled>>
\* restoreCloudVersion bases its request on the head it has just listed.
Heads(p) ==
  /\ At(p, "heads") /\ scope = "account"
  /\ IF head[Key(p)] = 0 THEN End(p)
     ELSE /\ line' = line
          /\ job' = [job EXCEPT ![p] = [Left(p, Tail(job[p].stages)) EXCEPT !.save.cloud = head[Key(p)]]]
  /\ UNCHANGED <<phone, cloud, past>>
Revive(p) ==
  /\ At(p, "revive") /\ scope = "account"
  /\ LET k == Key(p)
         sum == vers[k][job[p].task.rev]
         rev == Answer(k, 0, job[p].save.cloud, sum) IN
     /\ IF head[k] = 0 THEN UNCHANGED cloud ELSE Commit(k, 0, job[p].save.cloud, sum)
     /\ \/ "net" \in Faults /\ Upset /\ End(p)
        \/ /\ UNCHANGED upsets
           /\ IF head[k] = 0 \/ rev = None THEN End(p)
              ELSE job' = [job EXCEPT ![p] = [Left(p, Tail(job[p].stages)) EXCEPT !.task.head = rev]]
                   /\ line' = line
  /\ UNCHANGED <<phone, begun, others, noted>>

------------------------------------------------------------------------------
(* Faults. *)

\* The app is killed; what it had still to write to the queue is never written.
Kill ==
  /\ "kill" \in Faults /\ ~Quiet /\ Upset
  /\ job' = [p \in Procs |-> NoJob] /\ line' = <<>>
  /\ Slip(IF \E p \in Procs : \/ To(p, "enqueue") \/ To(p, "back")
                              \/ job[p].op = "delete" /\ job[p].todo # {}
          THEN {"cut"} ELSE {})
  /\ UNCHANGED <<phone, cloud, begun, others, issued, from, newest, owed, cancelled>>
\* logout, a refresh that is answered 401, and login to the same account.
SwitchScope ==
  /\ "scope" \in Faults /\ Upset
  /\ scope' = IF scope = "account" THEN "anonymous" ELSE "account"
  /\ Slip({"scope"})
  /\ UNCHANGED <<local, copies, queue, line, job, cloud, begun, others, issued, from, newest>>
  /\ UNCHANGED <<owed, cancelled>>

------------------------------------------------------------------------------
Stage(p) ==
  \/ ReadQueue(p) \/ WriteQueue(p) \/ WriteFails(p)
  \/ Join(p) \/ RunDue(p) \/ DeleteDue(p) \/ NoneLeft(p) \/ RunTask(p) \/ RestoreTask(p)
  \/ Upload(p) \/ Erase(p) \/ UpdateCloudRevision(p)
  \/ StageFails(p) \/ Fetch(p) \/ Copy(p) \/ Put(p) \/ Heads(p) \/ Revive(p)
Begin(p) ==
  \/ Wake(p) \/ Delete(p, Keys)
  \/ \E k \in Keys :
       \/ \E base \in {0, local[k].cloud} : CommitSave(p, k, base)
       \/ Retry(p, k) \/ KeepLocal(p, k) \/ UseCloud(p, k)
       \/ RestoreCloudBattery(p, k) \/ Delete(p, {k})
       \/ \E r \in DOMAIN vers[k] : RestoreCloudVersion(p, k, r)
Next ==
  \/ \E p \in Procs : Begin(p) \/ Stage(p)
  \/ \E k \in Keys : RemoveLocal(k) \/ OtherUpload(k) \/ OtherDelete(k)
  \/ Kill \/ SwitchScope
Spec == Init /\ [][Next]_vars

------------------------------------------------------------------------------
(* Properties. *)

\* The shape of the state: one task for a key, of a content that was made; the line is of
\* operations under way, each once.
TypeOK ==
  /\ \A k \in Keys : local[k].sum \in 0 .. Len(from) /\ local[k].cloud \in 0 .. Len(vers[k])
  /\ \A s \in DOMAIN queue : \A k \in Keys :
       LET t == queue[s][k] IN
       t = NoTask \/ (t.key = k /\ t.id \in 1 .. issued /\ t.sum \in 1 .. Len(from))
  /\ \A k \in Keys : head[k] \in 0 .. Len(vers[k])
  /\ \A d \in done : d.id \in 1 .. issued
  /\ \A i, j \in DOMAIN line : ~Idle(line[i]) /\ (line[i] = line[j] => i = j)

Stored(k) == local[k].sum \in ToSet(vers[k])
Queued(k) == queue[scope][k].id # 0 /\ queue[scope][k].rev = local[k].rev
             /\ queue[scope][k].sum = local[k].sum
NewestQueued == \A k \in owed : Quiet /\ local[k].rev # 0 => Stored(k) \/ Queued(k)
\* docs/04:298, a save made while another is uploaded is queued: once nothing is under way, a
\* save is in the cloud or has a task, whatever request, write or upload has failed and
\* whatever was resolved or restored meanwhile, unless two operations wrote the queue from one
\* reading ("raced"), an enqueue was cut off, a save with a task was removed, or the account
\* changed.
NothingForgotten == slips \cap {"raced", "cut", "removed", "scope"} = {} => NewestQueued

\* docs/08:212, other devices are not overwritten silently: a save descends from the version
\* of the cloud it is based on, or the user has chosen it over that version.
NoBlindOverwrite ==
  slips \cap {"crossed", "removed"} = {} =>
    \A k \in Keys : local[k].cloud # 0 => vers[k][local[k].cloud] \in from[local[k].sum]

\* The save the player made last is still on the phone or in the cloud after a conflict or a
\* restored version replaced it, whatever has failed and wherever the app was killed.
SaveKept ==
  "crossed" \notin slips =>
    \A k \in Keys : newest[k] \in {0, local[k].sum} \cup copies \cup ToSet(vers[k])

\* docs/04:300, deleting cancels what waits: a task that a deletion has cancelled is never
\* accepted by the server again.
DeletionNotUndone ==
  [][\A d \in done' \ done : d.id \in cancelled => slips \cap {"raced", "scope"} # {}]_vars

\* docs/04:297, of the tasks of a key the newest revision stays.
QueueKeepsNewest ==
  [][slips' \cap {"raced", "scope"} = {} => \A s \in DOMAIN queue : \A k \in Keys :
       queue[s][k].id # 0 /\ queue'[s][k].id # 0 => queue'[s][k].rev >= queue[s][k].rev]_vars

\* docs/04:299, "the same checksum again is an idempotent success": a task the server has
\* accepted is not turned into a conflict.
NoFalseConflict == \A p \in Procs : At(p, "conflict") => \A d \in done : d.id # job[p].task.id
=============================================================================
