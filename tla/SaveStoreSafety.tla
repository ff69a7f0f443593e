--------------------------- MODULE SaveStoreSafety ---------------------------
(***************************************************************************)
(* The types and the storage invariants of SaveStore.                      *)
(*                                                                         *)
(* A handler's step uses fields of its job that depend on where the        *)
(* handler is, so TypeOK is proved together with JobsFit and the           *)
(* finiteness of the version table, as TInv.                               *)
(*                                                                         *)
(* ContentKept is not inductive: it rests on the digest mutexes            *)
(* (MutexHeld), on the collector's recheck (CollectorSure), on the grace   *)
(* period of released blobs (FilesInHand) and on exact reference counts    *)
(* (RefCountsExact), which in turn rest on revisions that are given out    *)
(* once (HeadCurrent).  They are proved together, as SInv.                 *)
(***************************************************************************)
EXTENDS SaveStore, FiniteSetTheorems, TLAPS


------------------------------------------------------------------------------
(* The operators the actions are built from. *)

\* The tag of a version row is a tag.
LEMMA TagOfType ==
  ASSUME TypeOK, NEW v \in versions
  PROVE  TagOf(v) \in Tag
BY DEF TypeOK, TagOf, Tag, Version

\* The null tag is a tag.
LEMMA NoTagType == NoTag \in Tag
BY DEF NoTag, Tag

\* The release of a finite set of versions leaves well-formed blob rows.
LEMMA ReleasedType ==
  ASSUME TypeOK, NEW S, IsFiniteSet(S)
  PROVE  Released(S) \in [Digests -> [refs : Nat, due : Time \cup {Never}]]
<1> SUFFICES ASSUME NEW d \in Digests
             PROVE  Released(S)[d] \in [refs : Nat, due : Time \cup {Never}]
  BY DEF Released
<1> DEFINE n == Cardinality({v \in S : v.live /\ v.blob = d})
<1>1. n \in Nat
  BY FS_Subset, FS_CardinalityType
<1>2. now + BlobGrace \in Time
  BY SaveStoreAssumption DEF TypeOK, Time
<1> QED BY <1>1, <1>2 DEF TypeOK, Released

\* A handler that replies leaves a well-formed answer, and its job fits.
LEMMA ReplyType ==
  ASSUME TInv, NEW h \in Handlers, pc[h] # "idle", task' = task,
         NEW kind \in {"ok", "conflict", "reused", "refused", "missing", "error"},
         NEW tag \in Tag, Reply(h, kind, tag)
  PROVE  /\ pc' \in [Handlers -> {"idle", "lock", "put", "read", "open", "commit", "reply"}]
         /\ answer' \in [Handlers -> Answer]
         /\ job' = job
         /\ JobsFit'
         /\ locks' \in [Digests -> Handlers \cup {NoHandler, Gc}]
<1>1. answer' \in [Handlers -> Answer]
  BY DEF TInv, TypeOK, Reply, Answer
<1>2. locks' \in [Digests -> Handlers \cup {NoHandler, Gc}]
  BY DEF TInv, TypeOK, Reply, Unlocked
<1> QED BY <1>1, <1>2 DEF TInv, TypeOK, JobsFit, Reply

------------------------------------------------------------------------------
(* The initial state. *)

\* The empty tables and idle handlers of Init have their types.
LEMMA InitType == Init => TInv
<1> SUFFICES ASSUME Init PROVE TInv
  OBVIOUS
<1>1. NoAnswer \in Answer /\ NoTag \in Tag
  BY DEF NoAnswer, Answer, NoTag, Tag
<1>2. NoHead \in [rev : Nat, deletedAt : Time \cup {Never}]
  BY DEF NoHead
<1>3. NoRow \in [refs : Nat, due : Time \cup {Never}]
  BY DEF NoRow
<1>4. TypeOK
  BY <1>1, <1>2, <1>3, SaveStoreAssumption DEF Init, TypeOK
<1>5. IsFiniteSet(versions) /\ JobsFit
  BY FS_EmptySet DEF Init, JobsFit
<1> QED BY <1>4, <1>5 DEF TInv

------------------------------------------------------------------------------
(* The phones. *)

\* A fresh task is well formed.
LEMMA FreshTaskType ==
  ASSUME TInv, NEW c \in Clients, NEW op \in Ops, NEW s \in Saves, NEW src \in Nat,
         NEW d \in Digests \cup {NoDigest}, NEW seen \in Tag,
         op = "upload" => d \in Digests,
         FreshTask(c, op, s, src, d, seen)
  PROVE  /\ issued' \in [Clients -> 0 .. MaxTasks]
         /\ task' \in [Clients -> Task \cup {NoTask}]
         /\ \A e \in Clients : task'[e] # NoTask /\ task'[e].op = "upload" => task'[e].blob \in Digests
<1> DEFINE t == [op |-> op, save |-> s, src |-> src, blob |-> d,
                 key |-> <<c, issued[c] + 1>>, seen |-> seen]
<1>1. issued[c] \in 0 .. MaxTasks /\ issued[c] < MaxTasks
  BY DEF TInv, TypeOK, FreshTask
<1>2. issued' \in [Clients -> 0 .. MaxTasks]
  BY <1>1, SaveStoreAssumption DEF TInv, TypeOK, FreshTask
<1>3. t \in Task
  BY <1>1, SaveStoreAssumption DEF Task, Keys
<1>4. task' = [task EXCEPT ![c] = t]
  BY DEF FreshTask
<1> QED BY <1>2, <1>3, <1>4 DEF TInv, TypeOK, JobsFit

\* Queueing an upload (SyncQueue.enqueue) keeps every type.
LEMMA NewUploadType ==
  ASSUME TInv, NEW c \in Clients, NEW s \in MySaves(c), NEW d \in Digests, NewUpload(c, s, d)
  PROVE  TInv'
<1>1. s \in Saves /\ "upload" \in Ops /\ 0 \in Nat
  BY DEF MySaves, Ops
<1>2. /\ issued' \in [Clients -> 0 .. MaxTasks]
      /\ task' \in [Clients -> Task \cup {NoTask}]
      /\ \A e \in Clients : task'[e] # NoTask /\ task'[e].op = "upload" => task'[e].blob \in Digests
  BY <1>1, FreshTaskType, NoTagType DEF NewUpload
<1> QED BY <1>2 DEF TInv, TypeOK, JobsFit, NewUpload, serverVars, handlerVars, gcVars, history

\* Choosing a version to restore keeps every type.
LEMMA NewRestoreType ==
  ASSUME TInv, NEW c \in Clients, NEW v \in versions, NewRestore(c, v)
  PROVE  TInv'
<1>1. PICK w \in CurrentOf(v.save) : FreshTask(c, "restore", v.save, v.rev, NoDigest, TagOf(w))
  BY DEF NewRestore
<1>2. v.save \in Saves /\ v.rev \in Nat /\ "restore" \in Ops
  BY DEF TInv, TypeOK, Version, Ops
<1>3. TagOf(w) \in Tag
  BY TagOfType DEF TInv, CurrentOf
<1>4. /\ issued' \in [Clients -> 0 .. MaxTasks]
      /\ task' \in [Clients -> Task \cup {NoTask}]
      /\ \A e \in Clients : task'[e] # NoTask /\ task'[e].op = "upload" => task'[e].blob \in Digests
  BY <1>1, <1>2, <1>3, FreshTaskType
<1> QED BY <1>4 DEF TInv, TypeOK, JobsFit, NewRestore, serverVars, handlerVars, gcVars, history

\* Asking for the current cloud save keeps every type.
LEMMA NewDownloadType ==
  ASSUME TInv, NEW c \in Clients, NEW s \in MySaves(c), NewDownload(c, s)
  PROVE  TInv'
<1>1. s \in Saves /\ "download" \in Ops /\ 0 \in Nat
  BY DEF MySaves, Ops
<1>2. /\ issued' \in [Clients -> 0 .. MaxTasks]
      /\ task' \in [Clients -> Task \cup {NoTask}]
      /\ \A e \in Clients : task'[e] # NoTask /\ task'[e].op = "upload" => task'[e].blob \in Digests
  BY <1>1, FreshTaskType, NoTagType DEF NewDownload
<1> QED BY <1>2 DEF TInv, TypeOK, JobsFit, NewDownload, serverVars, handlerVars, gcVars, history

\* A request that reaches the server gives its handler a well-formed job.
LEMMA SendType ==
  ASSUME TInv, NEW c \in Clients, NEW h \in Handlers, Send(c, h)
  PROVE  TInv'
<1> DEFINE t == task[c]
           seen == IF t.op = "upload" THEN view[c][t.save] ELSE t.seen
           j == [client |-> c, op |-> t.op, save |-> t.save, src |-> t.src,
                 blob |-> t.blob, key |-> t.key, seen |-> seen]
<1>1. t \in Task /\ seen \in Tag
  BY DEF TInv, TypeOK, Send, Task
<1>2. j \in Job
  BY <1>1 DEF Task, Job
<1>3. job' = [job EXCEPT ![h] = j]
  BY DEF Send
<1>4. TypeOK'
  BY <1>2, <1>3 DEF TInv, TypeOK, Send, serverVars, gcVars, history
<1>5. JobsFit'
  BY <1>2, <1>3 DEF TInv, TypeOK, JobsFit, Send
<1> QED BY <1>4, <1>5 DEF TInv, Send, serverVars

\* A request given up on the phone keeps every type.
LEMMA TimeOutType ==
  ASSUME TInv, NEW c \in Clients, TimeOut(c)
  PROVE  TInv'
<1>1. task' \in [Clients -> Task \cup {NoTask}]
  BY DEF TInv, TypeOK, TimeOut
<1>2. TypeOK'
  BY <1>1 DEF TInv, TypeOK, TimeOut, serverVars, handlerVars, gcVars, history
<1>3. JobsFit'
  BY DEF TInv, TypeOK, JobsFit, TimeOut, handlerVars
<1> QED BY <1>2, <1>3 DEF TInv, TimeOut, serverVars

\* Taking a handler's answer keeps every type: the tag adopted is a tag.
LEMMA FinishType ==
  ASSUME TInv, NEW h \in Handlers, Finish(h)
  PROVE  TInv'
<1> DEFINE c == job[h].client
           s == job[h].save
           a == answer[h]
           mine == task[c] # NoTask /\ task[c].key = job[h].key
           learned == [a.tag EXCEPT !.blob = IF a.kind = "ok" /\ job[h].op = "upload"
                                             THEN job[h].blob ELSE @]
           Known == \A e \in Clients :
             task'[e] # NoTask /\ task'[e].op = "upload" => task'[e].blob \in Digests
<1>1. /\ c \in Clients /\ s \in Saves
      /\ job[h].op = "upload" => job[h].blob \in Digests
      /\ a.tag \in Tag
  BY DEF TInv, TypeOK, JobsFit, Finish, Job, Answer
<1>2. learned \in Tag
  BY <1>1 DEF Tag
<1>3. NoAnswer \in Answer
  BY NoTagType DEF NoAnswer, Answer
<1>4. /\ view' \in [Clients -> [Saves -> Tag]]
      /\ waits' \in [Clients -> Handlers \cup {NoHandler}]
  <2>1. /\ view' = view \/ view' = [view EXCEPT ![c][s] = learned]
        /\ waits' = waits \/ waits' = [waits EXCEPT ![c] = NoHandler]
    BY DEF Finish, phoneVars
  <2>2. waits' \in [Clients -> Handlers \cup {NoHandler}]
    BY <2>1 DEF TInv, TypeOK
  <2>3. [view EXCEPT ![c][s] = learned] \in [Clients -> [Saves -> Tag]]
    <3>1. view \in [Clients -> [Saves -> Tag]] /\ c \in Clients /\ s \in Saves /\ learned \in Tag
      BY <1>1, <1>2 DEF TInv, TypeOK
    <3> HIDE DEF c, s, learned
    <3> QED BY <3>1
  <2>4. view \in [Clients -> [Saves -> Tag]]
    BY DEF TInv, TypeOK
  <2> QED BY <2>1, <2>2, <2>3, <2>4
<1>5. /\ issued' \in [Clients -> 0 .. MaxTasks]
      /\ task' \in [Clients -> Task \cup {NoTask}]
      /\ Known
  <2>1. CASE task' = task /\ issued' = issued
    BY <2>1 DEF TInv, TypeOK, JobsFit
  <2>2. CASE task' = [task EXCEPT ![c] = IF mine THEN NoTask ELSE @] /\ issued' = issued
    BY <2>2 DEF TInv, TypeOK, JobsFit
  <2>3. CASE job[h].op = "upload" /\ FreshTask(c, "upload", s, 0, job[h].blob, NoTag)
    <3>1. "upload" \in Ops /\ 0 \in Nat
      BY DEF Ops
    <3> QED BY <1>1, <2>3, <3>1, NoTagType, FreshTaskType
  <2> QED BY <2>1, <2>2, <2>3 DEF Finish, phoneVars
<1>6. TypeOK'
  BY <1>3, <1>4, <1>5 DEF TInv, TypeOK, Finish, serverVars, gcVars, history
<1>7. JobsFit'
  BY <1>5 DEF TInv, TypeOK, JobsFit, Finish
<1> QED BY <1>6, <1>7 DEF TInv, Finish, serverVars

------------------------------------------------------------------------------
(* The handlers. *)

\* LockDigest keeps every type.
LEMMA UploadLockType ==
  ASSUME TInv, NEW h \in Handlers, UploadLock(h)
  PROVE  TInv'
<1>1. locks' \in [Digests -> Handlers \cup {NoHandler, Gc}]
  BY DEF TInv, TypeOK, UploadLock
<1>2. TypeOK'
  BY <1>1 DEF TInv, TypeOK, UploadLock, StayingOut, gcVars, phoneVars, history
<1>3. JobsFit'
  BY DEF TInv, TypeOK, JobsFit, UploadLock, StayingOut, phoneVars
<1> QED BY <1>2, <1>3 DEF TInv, UploadLock

\* FSStore.Put, failing or not, keeps every type.
LEMMA UploadPutType ==
  ASSUME TInv, NEW h \in Handlers, UploadPut(h)
  PROVE  TInv'
<1>1. job[h].blob \in Digests
  BY DEF TInv, JobsFit, UploadPut
<1>2. files' \subseteq Digests
  BY <1>1 DEF TInv, TypeOK, UploadPut
<1>3. task' = task
  BY DEF UploadPut, StayingOut, phoneVars
<1>4. CASE pc' = [pc EXCEPT ![h] = "commit"] /\ UNCHANGED <<job, answer, locks>>
  <2>1. TypeOK'
    BY <1>2, <1>4 DEF TInv, TypeOK, UploadPut, StayingOut, gcVars, phoneVars, history
  <2>2. JobsFit'
    BY <1>1, <1>3, <1>4 DEF TInv, TypeOK, JobsFit, UploadPut
  <2> QED BY <2>1, <2>2 DEF TInv, UploadPut
<1>5. CASE Reply(h, "error", NoTag)
  <2>1. /\ pc' \in [Handlers -> {"idle", "lock", "put", "read", "open", "commit", "reply"}]
        /\ answer' \in [Handlers -> Answer] /\ job' = job /\ JobsFit'
        /\ locks' \in [Digests -> Handlers \cup {NoHandler, Gc}]
    BY <1>3, <1>5, ReplyType, NoTagType DEF UploadPut
  <2>2. TypeOK'
    BY <1>2, <2>1 DEF TInv, TypeOK, UploadPut, StayingOut, gcVars, phoneVars, history
  <2> QED BY <2>1, <2>2 DEF TInv, UploadPut
<1> QED BY <1>4, <1>5 DEF UploadPut

\* GetContent hands the job the digest of a version row.
LEMMA ReadContentType ==
  ASSUME TInv, NEW h \in Handlers, ReadContent(h)
  PROVE  TInv'
<1>1. task' = task
  BY DEF ReadContent, StayingOut, phoneVars
<1>2. CASE Reply(h, "missing", NoTag)
  <2>1. /\ pc' \in [Handlers -> {"idle", "lock", "put", "read", "open", "commit", "reply"}]
        /\ answer' \in [Handlers -> Answer] /\ job' = job /\ JobsFit'
        /\ locks' \in [Digests -> Handlers \cup {NoHandler, Gc}]
    BY <1>1, <1>2, ReplyType, NoTagType DEF ReadContent
  <2> QED BY <2>1 DEF TInv, TypeOK, ReadContent, StayingOut, RollBack, gcVars, phoneVars, history
<1>3. ASSUME NEW v \in versions,
             job' = [job EXCEPT ![h].blob = v.blob,
                                ![h].seen = IF @.rev = 0 THEN TagOf(v) ELSE @],
             pc' = [pc EXCEPT ![h] = IF job[h].op = "restore" THEN "commit" ELSE "open"],
             UNCHANGED <<answer, locks>>
      PROVE  TInv'
  <2>1. job[h] \in Job /\ job[h].op # "upload"
    BY DEF TInv, JobsFit, ReadContent
  <2>2. v.blob \in Digests /\ TagOf(v) \in Tag
    BY TagOfType DEF TInv, TypeOK, Version
  <2> DEFINE j == [job[h] EXCEPT !.blob = v.blob,
                                 !.seen = IF @.rev = 0 THEN TagOf(v) ELSE @]
  <2>3. job' = [job EXCEPT ![h] = j]
    BY <1>3, <2>1 DEF TInv, TypeOK, Job
  <2>4. j \in Job /\ j.op = job[h].op /\ j.blob = v.blob
    BY <2>1, <2>2 DEF Job
  <2>5. TypeOK'
    <3>1. job' \in [Handlers -> Job \cup {NoTask}]
      <4> HIDE DEF j
      <4> QED BY <2>3, <2>4 DEF TInv, TypeOK
    <3>2. /\ pc' \in [Handlers -> {"idle", "lock", "put", "read", "open", "commit", "reply"}]
          /\ answer' \in [Handlers -> Answer]
      BY <1>3 DEF TInv, TypeOK
    <3>3. locks' = locks
      BY <1>3
    <3> QED BY <3>1, <3>2, <3>3
    DEF TInv, TypeOK, ReadContent, StayingOut, RollBack, gcVars, phoneVars, history
  <2>6. JobsFit'
    BY <1>1, <1>3, <2>1, <2>2, <2>3, <2>4 DEF TInv, TypeOK, JobsFit, Job, Ops
  <2> QED BY <2>5, <2>6 DEF TInv, ReadContent, RollBack
<1> QED BY <1>2, <1>3 DEF ReadContent, VersionsOf

\* Opening the file keeps every type.
LEMMA OpenBlobType ==
  ASSUME TInv, NEW h \in Handlers, OpenBlob(h)
  PROVE  TInv'
<1>1. job[h].seen \in Tag /\ pc[h] # "idle" /\ task' = task
  BY DEF TInv, JobsFit, Job, OpenBlob, StayingOut, phoneVars
<1>2. /\ pc' \in [Handlers -> {"idle", "lock", "put", "read", "open", "commit", "reply"}]
      /\ answer' \in [Handlers -> Answer] /\ job' = job /\ JobsFit'
      /\ locks' \in [Digests -> Handlers \cup {NoHandler, Gc}]
  BY <1>1, ReplyType, NoTagType DEF OpenBlob
<1> QED BY <1>2 DEF TInv, TypeOK, OpenBlob, StayingOut, RollBack, gcVars, phoneVars, history

\* A transaction that rolls back and replies.
LEMMA RollBackType ==
  ASSUME TInv, NEW h \in Handlers, Committing(h),
         NEW kind \in {"ok", "conflict", "reused", "refused", "missing", "error"},
         NEW tag \in Tag, Reply(h, kind, tag), RollBack, StayingOut
  PROVE  TInv'
<1>1. pc[h] # "idle" /\ task' = task
  BY DEF Committing, StayingOut, phoneVars
<1>2. /\ pc' \in [Handlers -> {"idle", "lock", "put", "read", "open", "commit", "reply"}]
      /\ answer' \in [Handlers -> Answer] /\ job' = job /\ JobsFit'
      /\ locks' \in [Digests -> Handlers \cup {NoHandler, Gc}]
  BY <1>1, ReplyType
<1> QED BY <1>2 DEF TInv, TypeOK, RollBack, StayingOut, serverVars, gcVars, phoneVars, history

\* The row a transaction stores for its key is well formed.
LEMMA IdempotencyType ==
  ASSUME TInv, NEW h \in Handlers, Committing(h), NEW tag \in Tag, StoreIdempotency(h, tag)
  PROVE  idem' \subseteq IdemRow
<1>1. job[h] \in Job
  BY DEF TInv, JobsFit, Committing
<1>2. HashOf(h) \in Hash
  BY <1>1 DEF HashOf, Hash, Job, Tag
<1>3. now + IdemTTL \in Time
  BY SaveStoreAssumption DEF TInv, TypeOK, Time
<1> QED BY <1>1, <1>2, <1>3 DEF TInv, TypeOK, StoreIdempotency, IdemRow, Job

\* commitTx, whatever way it ends, keeps every type.
LEMMA CommitType ==
  ASSUME TInv, NEW h \in Handlers, Commit(h)
  PROVE  TInv'
<1>1. CASE CommitKnownKey(h)
  <2>1. \A r \in idem : r.tag \in Tag
    BY DEF TInv, TypeOK, IdemRow
  <2>2. PICK r \in idem : Reply(h, "ok", r.tag) \/ Reply(h, "reused", NoTag)
    BY <1>1 DEF CommitKnownKey, ValidRows, RowsOf
  <2> QED BY <1>1, <2>1, <2>2, NoTagType, RollBackType DEF CommitKnownKey
<1>2. CASE CommitUnchanged(h)
  <2>1. PICK v \in versions :
          \/ /\ StoreIdempotency(h, TagOf(v)) /\ Reply(h, "ok", TagOf(v))
             /\ UNCHANGED <<users, heads, versions, blobs, files, history>>
          \/ KeyClash(h) /\ Reply(h, "error", NoTag) /\ RollBack
    BY <1>2 DEF CommitUnchanged, Unchanged, CurrentOf
  <2>2. TagOf(v) \in Tag
    BY TagOfType DEF TInv
  <2>3. CASE Reply(h, "error", NoTag) /\ RollBack
    BY <1>2, <2>3, NoTagType, RollBackType DEF CommitUnchanged
  <2>4. CASE /\ StoreIdempotency(h, TagOf(v)) /\ Reply(h, "ok", TagOf(v))
             /\ UNCHANGED <<users, heads, versions, blobs, files, history>>
    <3>1. Committing(h) /\ pc[h] # "idle" /\ task' = task /\ StayingOut
      BY <1>2 DEF CommitUnchanged, Committing, StayingOut, phoneVars
    <3>2. idem' \subseteq IdemRow
      BY <2>2, <2>4, <3>1, IdempotencyType
    <3>3. /\ pc' \in [Handlers -> {"idle", "lock", "put", "read", "open", "commit", "reply"}]
          /\ answer' \in [Handlers -> Answer] /\ job' = job /\ JobsFit'
          /\ locks' \in [Digests -> Handlers \cup {NoHandler, Gc}]
      BY <2>2, <2>4, <3>1, ReplyType
    <3> QED BY <2>4, <3>1, <3>2, <3>3 DEF TInv, TypeOK, StayingOut, gcVars, phoneVars, history
  <2> QED BY <2>1, <2>3, <2>4
<1>3. CASE CommitConflict(h)
  <2>1. CurrentOf(job[h].save) \subseteq versions
    BY DEF CurrentOf
  <2>2. \A v \in versions : TagOf(v) \in Tag
    BY TagOfType DEF TInv
  <2> QED BY <1>3, <2>1, <2>2, NoTagType, RollBackType DEF CommitConflict
<1>4. CASE CommitRefused(h)
  BY <1>4, NoTagType, RollBackType DEF CommitRefused, Acceptable
<1>5. CASE CommitFails(h)
  BY <1>5, NoTagType, RollBackType DEF CommitFails, Acceptable
<1>6. CASE CommitAborts(h)
  BY <1>6, NoTagType, RollBackType DEF CommitAborts
<1>7. CASE CommitAccept(h)
  <2> DEFINE s == job[h].save
             d == job[h].blob
             tag == [rev |-> NextRevision(h), blob |-> d, epoch |-> epoch[s]]
             v == [save |-> s, rev |-> NextRevision(h), blob |-> d, at |-> now, live |-> TRUE]
  <2>1. /\ s \in Saves /\ d \in Digests /\ job[h] \in Job
        /\ Committing(h) /\ pc[h] # "idle" /\ task' = task
    BY <1>7 DEF TInv, JobsFit, CommitAccept, Acceptable, Committing, Job, StayingOut, phoneVars
  <2>2. tag \in Tag /\ NextRevision(h) \in Nat
    BY <2>1 DEF TInv, TypeOK, Tag, NextRevision
  <2>3. now \in Time
    BY SaveStoreAssumption DEF TInv, TypeOK, Time
  <2>4. versions' = versions \cup {v}
    BY <1>7 DEF CommitAccept
  <2>5. versions' \subseteq Version /\ IsFiniteSet(versions')
    <3>1. v \in Version
      BY <2>1, <2>2, <2>3 DEF Version
    <3>2. IsFiniteSet(versions')
      BY <2>4, FS_AddElement DEF TInv
    <3> QED BY <2>4, <3>1, <3>2 DEF TInv, TypeOK
  <2>6. idem' \subseteq IdemRow
    BY <1>7, <2>1, <2>2, IdempotencyType DEF CommitAccept
  <2>7. /\ pc' \in [Handlers -> {"idle", "lock", "put", "read", "open", "commit", "reply"}]
        /\ answer' \in [Handlers -> Answer] /\ job' = job /\ JobsFit'
        /\ locks' \in [Digests -> Handlers \cup {NoHandler, Gc}]
    BY <1>7, <2>1, <2>2, ReplyType DEF CommitAccept
  <2>8. made' \in [Keys -> [n : Nat, at : Time \cup {Never}]]
    BY <1>7, <2>1, <2>3 DEF TInv, TypeOK, CommitAccept, Job
  <2>9. /\ blobs' \in [Digests -> [refs : Nat, due : Time \cup {Never}]]
        /\ heads' \in [Saves -> [rev : Nat, deletedAt : Time \cup {Never}]]
    BY <1>7, <2>1, <2>2 DEF TInv, TypeOK, CommitAccept
  <2> QED BY <1>7, <2>5, <2>6, <2>7, <2>8, <2>9
      DEF TInv, TypeOK, CommitAccept, StayingOut, gcVars, phoneVars
<1> QED BY <1>1, <1>2, <1>3, <1>4, <1>5, <1>6, <1>7 DEF Commit

\* So does every step of a handler.
LEMMA HandleType ==
  ASSUME TInv, NEW h \in Handlers, Handle(h)
  PROVE  TInv'
BY UploadLockType, UploadPutType, ReadContentType, OpenBlobType, CommitType, FinishType DEF Handle

------------------------------------------------------------------------------
(* Deletions, maintenance and the rest. *)

\* Marking heads deleted or an account deleting keeps every type.
LEMMA UserDeleteType ==
  ASSUME TInv, UserDelete
  PROVE  TInv'
<1>1. CASE \E u \in Users : RequestDeletion(u)
  <2>1. users' \in [Users -> {"active", "deleting", "deleted"}]
    BY <1>1 DEF TInv, TypeOK, RequestDeletion
  <2> QED BY <1>1, <2>1 DEF TInv, TypeOK, JobsFit, RequestDeletion, Inside, handlerVars, gcVars,
                            phoneVars, history
<1>2. CASE \E S \in SUBSET Saves : DeleteHeads(S)
  <2>1. now \in Time
    BY SaveStoreAssumption DEF TInv, TypeOK, Time
  <2>2. heads' \in [Saves -> [rev : Nat, deletedAt : Time \cup {Never}]]
    <3>1. PICK S \in SUBSET Saves : DeleteHeads(S)
      BY <1>2
    <3>2. \A s \in Saves : [heads[s] EXCEPT !.deletedAt = now]
                            \in [rev : Nat, deletedAt : Time \cup {Never}]
      BY <2>1 DEF TInv, TypeOK
    <3> QED BY <3>1, <3>2 DEF TInv, TypeOK, DeleteHeads
  <2> QED BY <1>2, <2>2 DEF TInv, TypeOK, JobsFit, DeleteHeads, Inside, handlerVars, gcVars,
                            phoneVars, history
<1>3. ASSUME NEW s \in Saves, DeleteHead(s) \/ DeleteROM(Owner[s], Rom[s])
      PROVE  \E S \in SUBSET Saves : DeleteHeads(S)
  BY <1>3 DEF DeleteHead, DeleteROM
<1> QED BY <1>1, <1>2, <1>3 DEF UserDelete

\* The removal of heads leaves well-formed tables.
LEMMA RemoveHeadsType ==
  ASSUME TInv, NEW S, RemoveHeads(S)
  PROVE  /\ versions' \subseteq Version /\ IsFiniteSet(versions')
         /\ heads' \in [Saves -> [rev : Nat, deletedAt : Time \cup {Never}]]
         /\ blobs' \in [Digests -> [refs : Nat, due : Time \cup {Never}]]
         /\ epoch' \in [Saves -> Nat]
         /\ made' = made
<1>1. VersionsOf(S) \subseteq versions
  BY DEF VersionsOf
<1>2. IsFiniteSet(VersionsOf(S)) /\ IsFiniteSet(versions \ VersionsOf(S))
  BY <1>1, FS_Subset DEF TInv
<1>3. blobs' \in [Digests -> [refs : Nat, due : Time \cup {Never}]]
  BY <1>2, ReleasedType DEF TInv, RemoveHeads
<1>4. heads' \in [Saves -> [rev : Nat, deletedAt : Time \cup {Never}]]
  BY DEF TInv, TypeOK, RemoveHeads, NoHead
<1>5. epoch' \in [Saves -> Nat]
  BY DEF TInv, TypeOK, RemoveHeads
<1> QED BY <1>2, <1>3, <1>4, <1>5 DEF TInv, TypeOK, RemoveHeads

\* The deletion job's transaction keeps every type.
LEMMA ProcessDeletionType ==
  ASSUME TInv, NEW u \in Users, ProcessDeletion(u)
  PROVE  TInv'
<1>1. users' \in [Users -> {"active", "deleting", "deleted"}]
  BY DEF TInv, TypeOK, ProcessDeletion
<1>2. RemoveHeads({s \in Saves : Owner[s] = u})
  BY DEF ProcessDeletion
<1>3. idem' \subseteq idem
  BY DEF ProcessDeletion
<1> QED BY <1>1, <1>2, <1>3, RemoveHeadsType
    DEF TInv, TypeOK, JobsFit, ProcessDeletion, Inside, handlerVars, gcVars, phoneVars

\* PurgeDeletedHeads keeps every type.
LEMMA PurgeType ==
  ASSUME TInv, NEW S, PurgeDeletedHeads(S)
  PROVE  TInv'
BY RemoveHeadsType
DEF TInv, TypeOK, JobsFit, PurgeDeletedHeads, Inside, handlerVars, gcVars, phoneVars

\* Pruning keeps the version table finite: it marks as many rows as it takes out.
LEMMA PruneType ==
  ASSUME TInv, NEW S, PruneHistory(S)
  PROVE  TInv'
<1> DEFINE mark == [v \in S |-> [v EXCEPT !.live = FALSE]]
           marked == {[v EXCEPT !.live = FALSE] : v \in S}
<1>1. S \subseteq versions
  BY DEF PruneHistory, Prunable
<1>2. IsFiniteSet(S) /\ IsFiniteSet(versions \ S)
  BY <1>1, FS_Subset DEF TInv
<1>3. IsFiniteSet(marked)
  <2>1. mark \in Surjection(S, marked)
    BY Zenon DEF Surjection
  <2> HIDE DEF mark, marked
  <2> QED BY <1>2, <2>1, FS_Surjection
<1>4. IsFiniteSet(versions')
  <2> HIDE DEF marked
  <2>1. versions' = (versions \ S) \cup marked
    BY DEF PruneHistory, marked
  <2> QED BY <1>2, <1>3, <2>1, FS_Union
<1>5. marked \subseteq Version
  <2>1. \A v \in Version : [v EXCEPT !.live = FALSE] \in Version
    BY DEF Version
  <2> QED BY <1>1, <2>1 DEF TInv, TypeOK
<1>6. versions' \subseteq Version
  BY <1>5 DEF TInv, TypeOK, PruneHistory
<1>7. blobs' \in [Digests -> [refs : Nat, due : Time \cup {Never}]]
  BY <1>2, ReleasedType DEF TInv, PruneHistory
<1> QED BY <1>4, <1>6, <1>7
    DEF TInv, TypeOK, JobsFit, PruneHistory, Inside, handlerVars, gcVars, phoneVars, history

\* DeleteExpiredIdempotency keeps every type.
LEMMA ExpireType ==
  ASSUME TInv, NEW S, DeleteExpiredIdempotency(S)
  PROVE  TInv'
BY DEF TInv, TypeOK, JobsFit, DeleteExpiredIdempotency, Inside, handlerVars, gcVars, phoneVars,
       history

\* Every step of the collector keeps every type.
LEMMA CollectType ==
  ASSUME TInv, Collect
  PROVE  TInv'
<1>1. CASE \E S \in SUBSET Digests : GcScan(S)
  BY <1>1 DEF TInv, TypeOK, JobsFit, GcScan, serverVars, handlerVars, phoneVars, history
<1>2. CASE \E d \in Digests : GcLock(d)
  BY <1>2 DEF TInv, TypeOK, JobsFit, GcLock, GcQuiet, handlerVars, phoneVars, history
<1>3. CASE GcRecheck
  BY <1>3 DEF TInv, TypeOK, JobsFit, GcRecheck, GcNext, GcQuiet, handlerVars, phoneVars, history
<1>4. CASE GcUnlink
  BY <1>4 DEF TInv, TypeOK, JobsFit, GcUnlink, GcQuiet, handlerVars, phoneVars, history
<1>5. CASE GcFails
  BY <1>5 DEF TInv, TypeOK, JobsFit, GcFails, GcNext, GcQuiet, handlerVars, phoneVars, history
<1>6. CASE GcForget
  <2>1. blobs' \in [Digests -> [refs : Nat, due : Time \cup {Never}]]
    BY <1>6 DEF TInv, TypeOK, GcForget, NoRow
  <2> QED BY <1>6, <2>1 DEF TInv, TypeOK, JobsFit, GcForget, GcNext, GcQuiet, handlerVars,
                            phoneVars, history
<1> QED BY <1>1, <1>2, <1>3, <1>4, <1>5, <1>6 DEF Collect

\* A restart leaves idle handlers, free mutexes and the tables as they were.
LEMMA CrashType ==
  ASSUME TInv, Crash
  PROVE  TInv'
<1>1. NoAnswer \in Answer
  BY NoTagType DEF NoAnswer, Answer
<1>2. TypeOK'
  BY <1>1 DEF TInv, TypeOK, Crash, phoneVars, history
<1>3. JobsFit'
  BY DEF TInv, JobsFit, Crash, phoneVars
<1> QED BY <1>2, <1>3 DEF TInv, Crash

\* The clock stays below its bound.
LEMMA TickType ==
  ASSUME TInv, Tick
  PROVE  TInv'
<1>1. now' \in 0 .. MaxTime
  BY SaveStoreAssumption DEF TInv, TypeOK, Tick
<1> QED BY <1>1 DEF TInv, TypeOK, JobsFit, Tick, serverVars, handlerVars, gcVars, phoneVars, history

------------------------------------------------------------------------------

\* TInv is inductive.
LEMMA NextType == TInv /\ [Next]_vars => TInv'
<1> SUFFICES ASSUME TInv, [Next]_vars PROVE TInv'
  OBVIOUS
<1>1. ASSUME NEW c \in Clients, Phone(c) PROVE TInv'
  BY <1>1, NewUploadType, NewRestoreType, NewDownloadType, SendType, TimeOutType DEF Phone
<1>2. CASE Maintain
  BY <1>2, ProcessDeletionType, PurgeType, PruneType, ExpireType, CollectType DEF Maintain
<1>3. CASE UNCHANGED vars
  BY <1>3 DEF TInv, TypeOK, JobsFit, vars, serverVars, handlerVars, gcVars, phoneVars, history
<1> QED BY <1>1, <1>2, <1>3, HandleType, UserDeleteType, CrashType, TickType DEF Next

\* The shape of every reachable state: tables, handlers, collector and phones.
THEOREM TypeCorrect == Spec => []TypeOK
<1>1. TInv => TypeOK
  BY DEF TInv
<1> QED BY <1>1, InitType, NextType, PTL DEF Spec

\* TInv itself, for the proofs that rest on it.
THEOREM TypesFit == Spec => []TInv
BY InitType, NextType, PTL DEF Spec

------------------------------------------------------------------------------
(* The storage invariants. *)


SInv == /\ MutexHeld /\ CollectorSure /\ FilesInHand /\ InFlightReadable
        /\ ContentKept /\ RefCountsExact /\ HeadCurrent

------------------------------------------------------------------------------
(* Reference counts. *)

\* Finitely many versions reference a digest; the count is zero when none does.
LEMMA LiveRefsFinite ==
  ASSUME TInv, NEW d
  PROVE  /\ IsFiniteSet(LiveRefs(d)) /\ Cardinality(LiveRefs(d)) \in Nat
         /\ Cardinality(LiveRefs(d)) = 0 <=> LiveRefs(d) = {}
<1>1. IsFiniteSet(LiveRefs(d))
  BY FS_Subset DEF TInv, LiveRefs
<1> QED BY <1>1, FS_EmptySet, FS_CardinalityType

\* A live version keeps its digest from being due, and its row in place.
LEMMA LiveNotDue ==
  ASSUME TInv, RefCountsExact, NEW v \in versions, v.live
  PROVE  v.blob \in Digests /\ blobs[v.blob].refs > 0 /\ ~Due(v.blob)
<1>1. v.blob \in Digests /\ v \in LiveRefs(v.blob)
  BY DEF TInv, TypeOK, Version, LiveRefs
<1>2. blobs[v.blob].refs # 0
  BY <1>1, LiveRefsFinite DEF RefCountsExact
<1> QED BY <1>1, <1>2 DEF TInv, TypeOK, Due

\* What is left of a digest's row when the versions in S are released: the exact count,
\* and a blob that was not due has its whole grace period before it.
LEMMA ReleasedExact ==
  ASSUME TInv, RefCountsExact, NEW S \in SUBSET versions, NEW d \in Digests
  PROVE  /\ Released(S)[d].refs = Cardinality(LiveRefs(d) \ S)
         /\ Released(S)[d].refs > 0 => Released(S)[d].due = Never
         /\ blobs[d] # NoRow => Released(S)[d] # NoRow
         /\ ~Due(d) => ~(/\ Released(S)[d].refs = 0 /\ Released(S)[d].due # Never
                         /\ Released(S)[d].due <= now)
<1> DEFINE gone == {v \in S : v.live /\ v.blob = d}
           left == LiveRefs(d) \ S
           n == Cardinality(gone)
<1>1. IsFiniteSet(gone) /\ IsFiniteSet(left) /\ n \in Nat /\ Cardinality(left) \in Nat
  BY LiveRefsFinite, FS_Subset, FS_CardinalityType DEF TInv
<1>2. Cardinality(LiveRefs(d)) = Cardinality(left) + n
  <2>1. LiveRefs(d) = left \cup gone /\ left \cap gone = {}
    BY DEF LiveRefs
  <2> HIDE DEF left, gone
  <2>2. Cardinality(left \cup gone) = Cardinality(left) + Cardinality(gone) - Cardinality(left \cap gone)
    BY <1>1, FS_Union
  <2>3. Cardinality(left \cap gone) = 0
    BY <2>1, FS_EmptySet
  <2>4. Cardinality(LiveRefs(d)) = Cardinality(left \cup gone)
    BY <2>1
  <2> QED BY <1>1, <2>2, <2>3, <2>4
<1>3. blobs[d].refs = Cardinality(left) + n /\ (blobs[d].refs > 0 => blobs[d].due = Never)
  BY <1>2 DEF RefCountsExact
<1>4. Released(S)[d] = IF n = 0 THEN blobs[d]
                       ELSE [refs |-> IF blobs[d].refs > n THEN blobs[d].refs - n ELSE 0,
                             due |-> IF blobs[d].refs <= n THEN now + BlobGrace ELSE blobs[d].due]
  BY DEF Released
<1>5. now \in Nat /\ BlobGrace > 0 /\ BlobGrace \in Nat /\ Never < 0
  BY SaveStoreAssumption DEF TInv, TypeOK, Never
<1> DEFINE l == Cardinality(left)
<1>6. l \in Nat /\ n \in Nat /\ blobs[d].refs = l + n /\ (l + n > 0 => blobs[d].due = Never)
  BY <1>1, <1>3
<1> HIDE DEF n, l
<1>7. CASE n = 0
  BY <1>4, <1>6, <1>7 DEF Due, l
<1>8. CASE n # 0
  <2>1. Released(S)[d] = [refs |-> l, due |-> IF l = 0 THEN now + BlobGrace ELSE Never]
    BY <1>4, <1>6, <1>8
  <2> QED BY <1>5, <1>6, <2>1 DEF NoRow, Never, l
<1> QED BY <1>6, <1>7, <1>8

------------------------------------------------------------------------------
(* What a step leaves alone keeps its part of the invariant. *)

\* A step that leaves heads, versions, blobs and files alone keeps what only they decide.
LEMMA StorageStays ==
  ASSUME SInv, UNCHANGED <<heads, versions, blobs, files>>
  PROVE  ContentKept' /\ RefCountsExact' /\ HeadCurrent'
BY DEF SInv, ContentKept, RefCountsExact, HeadCurrent, LiveRefs, CurrentOf, Visible, Deleted

\* A step that leaves the collector, the blobs and the clock alone keeps the collector's fact.
LEMMA CollectorStays ==
  ASSUME SInv, UNCHANGED <<gcVars, blobs, now>>
  PROVE  CollectorSure'
BY DEF SInv, CollectorSure, gcVars, Due

\* A step that also leaves the handlers, mutexes and files alone keeps the facts about them.
LEMMA HandlersStay ==
  ASSUME SInv, UNCHANGED <<handlerVars, gcVars, locks, files, blobs, now>>
  PROVE  MutexHeld' /\ CollectorSure' /\ FilesInHand' /\ InFlightReadable'
BY DEF SInv, MutexHeld, CollectorSure, FilesInHand, InFlightReadable, Storing, Reading, Due,
       handlerVars, gcVars

\* A handler that stores nothing may release its mutex: the others keep theirs.
LEMMA MutexReleased ==
  ASSUME TInv, SInv, NEW h \in Handlers, NEW l \in {"reply", "idle", "lock", "read"},
         pc' = [pc EXCEPT ![h] = l], \A g \in Handlers \ {h} : job'[g] = job[g],
         UNCHANGED gcVars, locks' = locks \/ locks' = Unlocked(h)
  PROVE  MutexHeld'
<1>1. \A g \in Handlers : Storing(g)' => g # h /\ Storing(g) /\ job'[g] = job[g]
  BY DEF TInv, TypeOK, Storing
<1>2. \A g \in Handlers : Storing(g) => job[g].blob \in Digests
  BY DEF TInv, JobsFit, Storing
<1>3. \A g \in Handlers : Storing(g)' => locks'[job'[g].blob] = g
  BY <1>1, <1>2 DEF SInv, MutexHeld, Unlocked
<1> QED BY <1>3, SaveStoreAssumption DEF SInv, MutexHeld, Unlocked, gcVars

\* A handler that stops using files: the others keep what they hold.
LEMMA HandlerLetsGo ==
  ASSUME TInv, SInv, NEW h \in Handlers, NEW l \in {"reply", "idle", "lock", "read"},
         pc' = [pc EXCEPT ![h] = l], \A g \in Handlers \ {h} : job'[g] = job[g],
         locks' = locks \/ locks' = Unlocked(h),
         UNCHANGED <<gcVars, blobs, now>>, files \subseteq files'
  PROVE  MutexHeld' /\ CollectorSure' /\ FilesInHand' /\ InFlightReadable'
<1>1. \A g \in Handlers : (Storing(g) \/ Reading(g))' => g # h /\ pc'[g] = pc[g] /\ job'[g] = job[g]
  BY DEF TInv, TypeOK, Storing, Reading
<1>2. MutexHeld'
  BY MutexReleased
<1>3. CollectorSure'
  BY CollectorStays
<1>4. FilesInHand'
  BY <1>1 DEF SInv, FilesInHand, Storing, Reading, Due
<1>5. InFlightReadable'
  BY <1>1 DEF SInv, InFlightReadable, Reading
<1> QED BY <1>2, <1>3, <1>4, <1>5

------------------------------------------------------------------------------
(* The phones and the handlers. *)

\* Init has no version, file, handler or collector at work.
LEMMA InitSafe == Init => SInv
<1> SUFFICES ASSUME Init PROVE SInv
  OBVIOUS
<1>1. MutexHeld /\ CollectorSure /\ FilesInHand /\ InFlightReadable
  BY DEF Init, MutexHeld, CollectorSure, FilesInHand, InFlightReadable, Storing, Reading
<1>2. ContentKept /\ HeadCurrent
  BY DEF Init, ContentKept, HeadCurrent, Visible, NoHead
<1>3. RefCountsExact
  <2>1. \A d : LiveRefs(d) = {}
    BY DEF Init, LiveRefs
  <2> QED BY <2>1, FS_EmptySet DEF Init, RefCountsExact, NoRow
<1> QED BY <1>1, <1>2, <1>3 DEF SInv

\* A phone changes no table; sending starts a handler that holds nothing yet.
LEMMA PhoneSafe ==
  ASSUME TInv, SInv, NEW c \in Clients, Phone(c)
  PROVE  SInv'
<1>1. ASSUME NEW h \in Handlers, Send(c, h) PROVE SInv'
  <2>1. PICK l \in {"lock", "read"} : pc' = [pc EXCEPT ![h] = l]
    BY <1>1 DEF Send
  <2>2. \A g \in Handlers \ {h} : job'[g] = job[g]
    BY <1>1 DEF TInv, TypeOK, Send
  <2>3. MutexHeld' /\ CollectorSure' /\ FilesInHand' /\ InFlightReadable'
    BY <1>1, <2>1, <2>2, HandlerLetsGo DEF Send, serverVars
  <2> QED BY <1>1, <2>3, StorageStays DEF SInv, Send, serverVars
<1>2. CASE UNCHANGED <<serverVars, handlerVars, gcVars, now>>
  BY <1>2, HandlersStay, StorageStays DEF SInv, serverVars
<1>3. \/ \E h \in Handlers : Send(c, h)
      \/ UNCHANGED <<serverVars, handlerVars, gcVars, now>>
  BY DEF Phone, NewUpload, NewRestore, NewDownload, TimeOut
<1> QED BY <1>1, <1>2, <1>3

\* Taking the answer frees the handler, which holds no mutex any more.
LEMMA FinishSafe ==
  ASSUME TInv, SInv, NEW h \in Handlers, Finish(h)
  PROVE  SInv'
<1>1. /\ pc' = [pc EXCEPT ![h] = "idle"]
      /\ \A g \in Handlers \ {h} : job'[g] = job[g]
      /\ UNCHANGED <<heads, versions, blobs, files, locks, gcVars, now>>
  BY DEF TInv, TypeOK, Finish, serverVars
<1> QED BY <1>1, HandlerLetsGo, StorageStays DEF SInv

\* The mutex is taken only when nobody, the collector included, has it.
LEMMA UploadLockSafe ==
  ASSUME TInv, SInv, NEW h \in Handlers, UploadLock(h)
  PROVE  SInv'
<1>1. /\ pc' = [pc EXCEPT ![h] = "put"] /\ job' = job
      /\ locks[job[h].blob] = NoHandler /\ job[h].blob \in Digests
      /\ locks' = [locks EXCEPT ![job[h].blob] = h]
      /\ UNCHANGED <<heads, versions, blobs, files, gcVars, now>>
  BY DEF TInv, JobsFit, UploadLock, StayingOut
<1>2. MutexHeld'
  BY <1>1, SaveStoreAssumption DEF TInv, TypeOK, SInv, MutexHeld, Storing, gcVars
<1>3. FilesInHand' /\ InFlightReadable'
  BY <1>1 DEF TInv, TypeOK, SInv, FilesInHand, InFlightReadable, Storing, Reading, Due
<1> QED BY <1>1, <1>2, <1>3, CollectorStays, StorageStays DEF SInv

\* Put only adds the file of the digest whose mutex the upload holds.
LEMMA UploadPutSafe ==
  ASSUME TInv, SInv, NEW h \in Handlers, UploadPut(h)
  PROVE  SInv'
<1>1. /\ files \subseteq files' /\ pc[h] = "put" /\ job' = job /\ job[h].op = "upload"
      /\ UNCHANGED <<heads, versions, blobs, gcVars, now>>
  BY DEF TInv, JobsFit, UploadPut, StayingOut, Reply
<1>2. ContentKept' /\ RefCountsExact' /\ HeadCurrent'
  BY <1>1 DEF SInv, ContentKept, RefCountsExact, HeadCurrent, LiveRefs, CurrentOf, Visible, Deleted
<1>3. CASE Reply(h, "error", NoTag)
  <2>1. pc' = [pc EXCEPT ![h] = "reply"] /\ locks' = Unlocked(h)
    BY <1>3 DEF Reply
  <2> QED BY <1>1, <1>2, <2>1, HandlerLetsGo DEF SInv
<1>4. CASE files' = files \cup {job[h].blob} /\ pc' = [pc EXCEPT ![h] = "commit"] /\ locks' = locks
  <2>1. MutexHeld'
    BY <1>1, <1>4 DEF TInv, TypeOK, SInv, MutexHeld, Storing, gcVars
  <2>2. FilesInHand' /\ InFlightReadable'
    BY <1>1, <1>4 DEF TInv, TypeOK, SInv, FilesInHand, InFlightReadable, Storing, Reading, Due
  <2> QED BY <1>1, <1>2, <2>1, <2>2, CollectorStays DEF SInv
<1> QED BY <1>3, <1>4 DEF UploadPut

\* GetContent reads a live version, so its file exists and its blob is not due.
LEMMA ReadContentSafe ==
  ASSUME TInv, SInv, NEW h \in Handlers, ReadContent(h)
  PROVE  SInv'
<1>1. UNCHANGED <<heads, versions, blobs, files, gcVars, now>>
  BY DEF ReadContent, StayingOut, RollBack
<1>2. CASE Reply(h, "missing", NoTag)
  <2>1. pc' = [pc EXCEPT ![h] = "reply"] /\ job' = job /\ locks' = Unlocked(h)
    BY <1>2 DEF Reply
  <2> QED BY <1>1, <2>1, HandlerLetsGo, StorageStays DEF SInv
<1>3. ASSUME NEW v \in versions, v.live, locks' = locks,
             job' = [job EXCEPT ![h].blob = v.blob,
                                ![h].seen = IF @.rev = 0 THEN TagOf(v) ELSE @],
             pc' = [pc EXCEPT ![h] = IF job[h].op = "restore" THEN "commit" ELSE "open"]
      PROVE  SInv'
  <2>1. job[h] \in Job /\ job[h].op # "upload" /\ h \in DOMAIN job
    BY DEF TInv, TypeOK, JobsFit, ReadContent
  <2>2. v.blob \in files /\ ~Due(v.blob)
    BY <1>3, LiveNotDue DEF SInv, ContentKept
  <2>3. /\ job'[h].blob = v.blob /\ job'[h].op = job[h].op
        /\ \A g \in Handlers \ {h} : job'[g] = job[g] /\ pc'[g] = pc[g]
    BY <1>3, <2>1 DEF TInv, TypeOK, Job
  <2>4. ~Storing(h)'
    BY <1>3, <2>1, <2>3 DEF TInv, TypeOK, Storing
  <2>5. MutexHeld'
    BY <1>1, <1>3, <2>3, <2>4 DEF SInv, MutexHeld, Storing, gcVars
  <2>6. FilesInHand' /\ InFlightReadable'
    BY <1>1, <2>2, <2>3, <2>4 DEF SInv, FilesInHand, InFlightReadable, Storing, Reading, Due
  <2> QED BY <1>1, <2>5, <2>6, CollectorStays, StorageStays DEF SInv
<1> QED BY <1>2, <1>3 DEF ReadContent, VersionsOf

\* A handler that replies and changes no table the invariant is about.
LEMMA ReplySafe ==
  ASSUME TInv, SInv, NEW h \in Handlers, NEW kind, NEW tag, Reply(h, kind, tag),
         UNCHANGED <<heads, versions, blobs, files, gcVars, now>>
  PROVE  SInv'
<1>1. pc' = [pc EXCEPT ![h] = "reply"] /\ job' = job /\ locks' = Unlocked(h)
  BY DEF Reply
<1> QED BY <1>1, HandlerLetsGo, StorageStays DEF SInv

\* Opening a file changes no table.
LEMMA OpenBlobSafe ==
  ASSUME TInv, SInv, NEW h \in Handlers, OpenBlob(h)
  PROVE  SInv'
<1>1. UNCHANGED <<heads, versions, blobs, files, gcVars, now>>
  BY DEF OpenBlob, StayingOut, RollBack
<1> QED BY <1>1, ReplySafe DEF OpenBlob

\* An accepted commit: its file is in hand, its digest is not the one being collected,
\* and its revision is new.
LEMMA CommitAcceptSafe ==
  ASSUME TInv, SInv, NEW h \in Handlers, CommitAccept(h)
  PROVE  SInv'
<1> DEFINE s == job[h].save
           d == job[h].blob
           n == heads[s].rev + 1
           v == [save |-> s, rev |-> n, blob |-> d, at |-> now, live |-> TRUE]
<1>1. /\ s \in Saves /\ d \in Digests /\ n \in Nat /\ n > heads[s].rev
      /\ pc[h] = "commit" /\ job[h].op \in {"upload", "restore"}
  BY DEF TInv, TypeOK, JobsFit, CommitAccept, Acceptable, Committing, Job, Ops
<1>2. /\ versions' = versions \cup {v}
      /\ heads' = [heads EXCEPT ![s] = [rev |-> n, deletedAt |-> Never]]
      /\ blobs' = [blobs EXCEPT ![d] = [refs |-> @.refs + 1, due |-> Never]]
      /\ pc' = [pc EXCEPT ![h] = "reply"] /\ job' = job
      /\ locks' = Unlocked(h)
      /\ UNCHANGED <<files, gcVars, now>>
  BY DEF CommitAccept, NextRevision, Reply, StayingOut
<1>3. d \in files
  BY <1>1 DEF SInv, FilesInHand, InFlightReadable, Storing, Reading
<1>4. gcPhase \in {"unlink", "forget"} => gcDigest # d
  <2>1. CASE job[h].op = "upload"
    <3>1. locks[d] = h
      BY <1>1, <2>1 DEF SInv, MutexHeld, Storing
    <3> QED BY <3>1, SaveStoreAssumption DEF SInv, MutexHeld
  <2>2. CASE job[h].op = "restore"
    BY <1>1, <2>2 DEF SInv, FilesInHand, CollectorSure, Reading
  <2> QED BY <1>1, <2>1, <2>2
<1>5. v \notin versions /\ \A w \in versions : w.save = s => w.rev < n
  BY <1>1 DEF TInv, TypeOK, SInv, HeadCurrent, Version
<1>6. blobs[d].refs \in Nat /\ \A e \in Digests : e # d => blobs'[e] = blobs[e]
  BY <1>1, <1>2 DEF TInv, TypeOK
<1>7. blobs'[d] = [refs |-> blobs[d].refs + 1, due |-> Never]
  BY <1>1, <1>2 DEF TInv, TypeOK
<1> HIDE DEF n
<1>8. MutexHeld'
  BY <1>2, MutexReleased
<1>9. CollectorSure'
  BY <1>2, <1>4, <1>6 DEF SInv, CollectorSure, MutexHeld, Due, gcVars
<1>10. FilesInHand' /\ InFlightReadable'
  <2>1. \A g \in Handlers : (Storing(g) \/ Reading(g))' =>
          g # h /\ pc'[g] = pc[g] /\ job'[g] = job[g]
    BY <1>2 DEF TInv, TypeOK, Storing, Reading
  <2>2. \A g \in Handlers : Reading(g)' => job[g].blob \in Digests /\ ~Due(job[g].blob)
    BY <2>1 DEF TInv, JobsFit, SInv, FilesInHand, Reading
  <2>3. \A g \in Handlers : Reading(g)' => ~Due(job[g].blob)'
    BY <1>2, <1>6, <1>7, <2>1, <2>2 DEF Due
  <2> QED BY <1>2, <2>1, <2>3 DEF SInv, FilesInHand, InFlightReadable, Storing, Reading
<1>11. ContentKept'
  BY <1>2, <1>3 DEF SInv, ContentKept
<1>12. RefCountsExact'
  <2>1. LiveRefs(d)' = LiveRefs(d) \cup {v}
    BY <1>2 DEF LiveRefs
  <2>2. v \notin LiveRefs(d)
    BY <1>5 DEF LiveRefs
  <2>3. \A e \in Digests : e # d => LiveRefs(e)' = LiveRefs(e)
    BY <1>2 DEF LiveRefs
  <2>4. Cardinality(LiveRefs(d)') = Cardinality(LiveRefs(d)) + 1
    <3> HIDE DEF v
    <3> QED BY <2>1, <2>2, LiveRefsFinite, FS_AddElement
  <2>5. \A e \in Digests : /\ blobs'[e].refs = Cardinality(LiveRefs(e)')
                           /\ blobs'[e].refs > 0 => blobs'[e].due = Never
    <3>1. \A e \in Digests : /\ blobs[e].refs = Cardinality(LiveRefs(e))
                             /\ blobs[e].refs > 0 => blobs[e].due = Never
      BY DEF SInv, RefCountsExact
    <3>2. blobs'[d].refs = Cardinality(LiveRefs(d)') /\ blobs'[d].due = Never
      BY <1>1, <1>7, <2>4, <3>1
    <3>3. ASSUME NEW e \in Digests, e # d
          PROVE  /\ blobs'[e].refs = Cardinality(LiveRefs(e)')
                 /\ blobs'[e].refs > 0 => blobs'[e].due = Never
      <4>1. blobs'[e] = blobs[e] /\ LiveRefs(e)' = LiveRefs(e)
        BY <1>6, <2>3, <3>3
      <4> QED BY <3>1, <4>1
    <3> QED BY <1>2, <3>2, <3>3 DEF LiveRefs
  <2>6. \A w \in versions' : blobs'[w.blob] # NoRow
    <3>1. blobs'[d] # NoRow
      BY <1>6, <1>7 DEF NoRow
    <3>2. \A w \in versions : w.blob \in Digests /\ blobs[w.blob] # NoRow
      BY DEF TInv, TypeOK, Version, SInv, RefCountsExact
    <3> QED BY <1>2, <1>6, <3>1, <3>2
  <2> QED BY <2>5, <2>6 DEF RefCountsExact
<1>13. HeadCurrent'
  <2>1. heads'[s] = [rev |-> n, deletedAt |-> Never] /\ \A t \in Saves \ {s} : heads'[t] = heads[t]
    BY <1>1, <1>2 DEF TInv, TypeOK
  <2>2. \A t \in Saves : Visible(t)' => \E w \in CurrentOf(t)' : w.live
    <3>1. v \in CurrentOf(s)'
      BY <1>1, <1>2, <2>1 DEF TInv, TypeOK, CurrentOf, Visible, Deleted
    <3>2. ASSUME NEW t \in Saves \ {s}, Visible(t)' PROVE \E w \in CurrentOf(t)' : w.live
      <4>1. heads'[t] = heads[t] /\ Visible(t)
        BY <2>1, <3>2 DEF Visible, Deleted
      <4>2. PICK w \in CurrentOf(t) : w.live
        BY <4>1 DEF SInv, HeadCurrent
      <4>3. w \in CurrentOf(t)'
        BY <1>2, <4>1, <4>2 DEF CurrentOf, Visible, Deleted
      <4> QED BY <4>2, <4>3
    <3>3. \E w \in CurrentOf(s)' : w.live
      BY <3>1
    <3> QED BY <1>2, <3>2, <3>3 DEF CurrentOf, Visible, Deleted
  <2>3. \A w \in versions' : w.rev \in 1 .. heads'[w.save].rev
    <3>1. \A w \in versions : w.save \in Saves /\ w.rev \in 1 .. heads[w.save].rev
      BY DEF TInv, TypeOK, Version, SInv, HeadCurrent
    <3>2. \A w \in versions : w.rev \in 1 .. heads'[w.save].rev
      BY <1>1, <1>5, <2>1, <3>1 DEF TInv, TypeOK
    <3>3. v.rev \in 1 .. heads'[v.save].rev
      BY <1>1, <2>1 DEF TInv, TypeOK
    <3> QED BY <1>2, <3>2, <3>3
  <2>4. \A w, x \in versions' : w.save = x.save /\ w.rev = x.rev => w = x
    <3>1. \A w \in versions : w.save = s => w.rev # n
      BY <1>1, <1>5 DEF TInv, TypeOK, Version
    <3>2. v.save = s /\ v.rev = n
      OBVIOUS
    <3> HIDE DEF v
    <3> QED BY <1>2, <3>1, <3>2 DEF SInv, HeadCurrent
  <2> QED BY <2>2, <2>3, <2>4 DEF HeadCurrent
<1> QED BY <1>8, <1>9, <1>10, <1>11, <1>12, <1>13 DEF SInv

\* Every way commitTx ends keeps the invariant.
LEMMA CommitSafe ==
  ASSUME TInv, SInv, NEW h \in Handlers, Commit(h)
  PROVE  SInv'
<1>1. CASE CommitAccept(h)
  BY <1>1, CommitAcceptSafe
<1>2. CASE ~CommitAccept(h)
  <2>1. UNCHANGED <<heads, versions, blobs, files, gcVars, now>>
    BY <1>2 DEF Commit, CommitKnownKey, CommitUnchanged, CommitConflict, CommitRefused, CommitFails,
                CommitAborts, RollBack, StayingOut, serverVars
  <2>2. \E kind, tag : Reply(h, kind, tag)
    BY <1>2 DEF Commit, CommitKnownKey, CommitUnchanged, CommitConflict, CommitRefused, CommitFails,
                CommitAborts
  <2> QED BY <2>1, <2>2, ReplySafe
<1> QED BY <1>1, <1>2

\* So does every step of a handler.
LEMMA HandleSafe ==
  ASSUME TInv, SInv, NEW h \in Handlers, Handle(h)
  PROVE  SInv'
BY UploadLockSafe, UploadPutSafe, ReadContentSafe, OpenBlobSafe, CommitSafe, FinishSafe DEF Handle

------------------------------------------------------------------------------
(* Deletions and maintenance. *)

\* Marking heads deleted moves no reference and no file.
LEMMA UserDeleteSafe ==
  ASSUME TInv, SInv, UserDelete
  PROVE  SInv'
<1>1. UNCHANGED <<versions, blobs, files, locks, handlerVars, gcVars, now>>
  BY DEF UserDelete, DeleteHead, DeleteROM, DeleteHeads, RequestDeletion, Inside
<1>2. \A s \in Saves : /\ heads'[s].rev = heads[s].rev
                       /\ Visible(s)' => heads'[s] = heads[s]
  <2>1. CASE heads' = heads
    BY <2>1
  <2>2. CASE \E S \in SUBSET Saves : DeleteHeads(S)
    <3>1. PICK S \in SUBSET Saves : DeleteHeads(S)
      BY <2>2
    <3>2. now # Never
      BY SaveStoreAssumption DEF TInv, TypeOK, Never
    <3>3. \A s \in Saves : heads'[s] = IF s \in S /\ Visible(s)
                                       THEN [heads[s] EXCEPT !.deletedAt = now] ELSE heads[s]
      BY <3>1 DEF DeleteHeads
    <3> QED BY <3>2, <3>3, ZenonT(60) DEF TInv, TypeOK, Visible, Deleted
  <2> QED BY <2>1, <2>2 DEF UserDelete, DeleteHead, DeleteROM, RequestDeletion
<1>3. ContentKept' /\ RefCountsExact'
  BY <1>1 DEF SInv, ContentKept, RefCountsExact, LiveRefs
<1>4. HeadCurrent'
  <2>1. ASSUME NEW s \in Saves, Visible(s)' PROVE \E v \in CurrentOf(s)' : v.live
    BY <1>1, <1>2, <2>1 DEF SInv, HeadCurrent, CurrentOf, Visible, Deleted
  <2>2. \A v \in versions' : v.rev \in 1 .. heads'[v.save].rev
    BY <1>1, <1>2 DEF TInv, TypeOK, Version, SInv, HeadCurrent
  <2> QED BY <1>1, <2>1, <2>2 DEF SInv, HeadCurrent
<1> QED BY <1>1, <1>3, <1>4, HandlersStay DEF SInv

\* The versions in S are taken out or marked, the collector is idle, and every head that
\* is still visible keeps its current version.
LEMMA ReleaseSafe ==
  ASSUME TInv, SInv, NEW S \in SUBSET versions, gcPhase = "idle", blobs' = Released(S),
         UNCHANGED <<files, locks, handlerVars, gcVars, now>>,
         \A d \in Digests : LiveRefs(d)' = LiveRefs(d) \ S,
         \A v \in versions' : \E w \in versions : v.blob = w.blob /\ (v.live => w.live)
  PROVE  MutexHeld' /\ CollectorSure' /\ FilesInHand' /\ InFlightReadable' /\ ContentKept'
         /\ RefCountsExact'
<1>1. MutexHeld' /\ CollectorSure' /\ InFlightReadable'
  BY DEF SInv, MutexHeld, CollectorSure, InFlightReadable, Storing, Reading, handlerVars, gcVars
<1>2. FilesInHand'
  <2>1. \A h \in Handlers : Reading(h) => job[h].blob \in Digests /\ ~Due(job[h].blob)
    BY DEF TInv, JobsFit, SInv, FilesInHand, Reading
  <2>2. \A d \in Digests : ~Due(d) => ~Due(d)'
    BY ReleasedExact DEF SInv, Due
  <2>3. \A h \in Handlers : Reading(h)' => ~Due(job[h].blob)'
    BY <2>1, <2>2 DEF Reading, handlerVars
  <2> QED BY <2>3 DEF SInv, FilesInHand, Storing, Reading, handlerVars
<1>3. ContentKept'
  BY DEF SInv, ContentKept
<1>4. RefCountsExact'
  <2>1. ASSUME NEW d \in Digests
        PROVE  /\ blobs'[d].refs = Cardinality(LiveRefs(d)')
               /\ blobs'[d].refs > 0 => blobs'[d].due = Never
    BY ReleasedExact DEF SInv
  <2>2. ASSUME NEW v \in versions' PROVE blobs'[v.blob] # NoRow
    <3>1. PICK w \in versions : v.blob = w.blob
      OBVIOUS
    <3>2. w.blob \in Digests /\ blobs[w.blob] # NoRow
      BY DEF TInv, TypeOK, Version, SInv, RefCountsExact
    <3> QED BY <3>1, <3>2, ReleasedExact, ZenonT(60) DEF SInv
  <2> QED BY <2>1, <2>2 DEF RefCountsExact
<1> QED BY <1>1, <1>2, <1>3, <1>4

\* Heads leave with all their versions.
LEMMA RemoveHeadsSafe ==
  ASSUME TInv, SInv, NEW S, RemoveHeads(S), gcPhase = "idle",
         UNCHANGED <<files, locks, handlerVars, gcVars, now>>
  PROVE  SInv'
<1>1. VersionsOf(S) \in SUBSET versions /\ versions' = versions \ VersionsOf(S)
  BY DEF VersionsOf, RemoveHeads
<1>2. \A d \in Digests : LiveRefs(d)' = LiveRefs(d) \ VersionsOf(S)
  BY <1>1 DEF LiveRefs
<1>3. \A v \in versions' : \E w \in versions : v.blob = w.blob /\ (v.live => w.live)
  BY <1>1
<1>4. blobs' = Released(VersionsOf(S))
  BY DEF RemoveHeads
<1>5. HeadCurrent'
  <2>1. \A s \in Saves : heads'[s] = IF s \in S THEN NoHead ELSE heads[s]
    BY DEF RemoveHeads
  <2>2. \A v \in versions' : v \in versions /\ v.save \in Saves /\ v.save \notin S
    BY <1>1 DEF VersionsOf, TInv, TypeOK, Version
  <2>3. ASSUME NEW s \in Saves, Visible(s)' PROVE \E v \in CurrentOf(s)' : v.live
    <3>1. s \notin S /\ Visible(s) /\ heads'[s] = heads[s]
      BY <2>1, <2>3 DEF Visible, Deleted, NoHead
    <3>2. PICK v \in CurrentOf(s) : v.live
      BY <3>1 DEF SInv, HeadCurrent
    <3>3. v \in CurrentOf(s)'
      BY <1>1, <3>1, <3>2 DEF CurrentOf, VersionsOf, Visible, Deleted
    <3> QED BY <3>2, <3>3
  <2>4. \A v \in versions' : v.rev \in 1 .. heads'[v.save].rev
    BY <2>1, <2>2 DEF SInv, HeadCurrent
  <2>5. \A v, w \in versions' : v.save = w.save /\ v.rev = w.rev => v = w
    BY <2>2 DEF SInv, HeadCurrent
  <2> QED BY <2>3, <2>4, <2>5 DEF HeadCurrent
<1> QED BY <1>1, <1>2, <1>3, <1>4, <1>5, ReleaseSafe DEF SInv

\* PruneHistory drops one reference per version it marks, and leaves BlobGrace before any blob is due.
LEMMA PruneSafe ==
  ASSUME TInv, SInv, NEW S, PruneHistory(S)
  PROVE  SInv'
<1> DEFINE marked == {[v EXCEPT !.live = FALSE] : v \in S}
<1>1. /\ S \in SUBSET versions /\ versions' = (versions \ S) \cup marked /\ blobs' = Released(S)
      /\ gcPhase = "idle" /\ UNCHANGED <<heads, files, locks, handlerVars, gcVars, now>>
      /\ \A v \in S : v.rev # heads[v.save].rev
  BY DEF PruneHistory, Prunable, Inside
<1>2. \A x \in marked : \E v \in S : /\ x.save = v.save /\ x.rev = v.rev /\ x.blob = v.blob
                                     /\ x.live = FALSE /\ x = [v EXCEPT !.live = FALSE]
  <2>1. \A v \in S : v \in Version
    BY <1>1 DEF TInv, TypeOK
  <2> QED BY <2>1 DEF Version
<1> HIDE DEF marked
<1>3. \A d \in Digests : LiveRefs(d)' = LiveRefs(d) \ S
  BY <1>1, <1>2 DEF LiveRefs
<1>4. \A v \in versions' : \E w \in versions : v.blob = w.blob /\ (v.live => w.live)
  BY <1>1, <1>2
<1>5. HeadCurrent'
  <2>1. ASSUME NEW s \in Saves, Visible(s)' PROVE \E v \in CurrentOf(s)' : v.live
    <3>1. Visible(s)
      BY <1>1, <2>1 DEF Visible, Deleted
    <3>2. PICK v \in CurrentOf(s) : v.live
      BY <3>1 DEF SInv, HeadCurrent
    <3>3. v \in CurrentOf(s)'
      BY <1>1, <3>1, <3>2 DEF CurrentOf, Visible, Deleted
    <3> QED BY <3>2, <3>3
  <2>2. \A x \in versions' : \E v \in versions : /\ x.save = v.save /\ x.rev = v.rev
                                                 /\ \/ x = v /\ v \notin S
                                                    \/ v \in S /\ x = [v EXCEPT !.live = FALSE]
    BY <1>1, <1>2
  <2>3. \A x \in versions' : x.rev \in 1 .. heads'[x.save].rev
    BY <1>1, <2>2 DEF SInv, HeadCurrent
  <2>4. ASSUME NEW x \in versions', NEW y \in versions', x.save = y.save, x.rev = y.rev
        PROVE  x = y
    <3>1. PICK v \in versions : /\ x.save = v.save /\ x.rev = v.rev
                                /\ \/ x = v /\ v \notin S
                                   \/ v \in S /\ x = [v EXCEPT !.live = FALSE]
      BY <2>2
    <3>2. PICK w \in versions : /\ y.save = w.save /\ y.rev = w.rev
                                /\ \/ y = w /\ w \notin S
                                   \/ w \in S /\ y = [w EXCEPT !.live = FALSE]
      BY <2>2
    <3>3. v = w
      BY <2>4, <3>1, <3>2 DEF SInv, HeadCurrent
    <3> QED BY <3>1, <3>2, <3>3
  <2> QED BY <2>1, <2>3, <2>4 DEF HeadCurrent
<1> QED BY <1>1, <1>3, <1>4, <1>5, ReleaseSafe DEF SInv

\* The collector takes a file away only while its digest has no reference, nobody reads
\* it and nobody can bring it back.
LEMMA CollectSafe ==
  ASSUME TInv, SInv, Collect
  PROVE  SInv'
<1>1. UNCHANGED <<heads, versions, handlerVars, now>>
  BY DEF Collect, GcScan, GcLock, GcRecheck, GcUnlink, GcFails, GcForget, GcQuiet, serverVars
<1>2. CASE \E S \in SUBSET Digests : GcScan(S)
  <2>1. UNCHANGED <<locks, files, blobs>> /\ gcPhase' = "lock"
    BY <1>2 DEF GcScan, serverVars
  <2>2. MutexHeld' /\ CollectorSure' /\ FilesInHand' /\ InFlightReadable'
    BY <1>1, <2>1 DEF SInv, MutexHeld, CollectorSure, FilesInHand, InFlightReadable, Storing,
                      Reading, Due, handlerVars
  <2> QED BY <1>1, <2>1, <2>2, StorageStays DEF SInv
<1>3. ASSUME NEW d \in Digests, GcLock(d) PROVE SInv'
  <2>1. /\ UNCHANGED <<files, blobs>> /\ gcPhase' = "check" /\ gcDigest' = d
        /\ locks[d] = NoHandler /\ locks' = [locks EXCEPT ![d] = Gc]
    BY <1>3 DEF GcLock
  <2>2. MutexHeld'
    BY <1>1, <2>1, SaveStoreAssumption DEF TInv, TypeOK, SInv, MutexHeld, Storing, handlerVars
  <2>3. CollectorSure' /\ FilesInHand' /\ InFlightReadable'
    BY <1>1, <2>1 DEF SInv, CollectorSure, FilesInHand, InFlightReadable, Storing, Reading, Due,
                      handlerVars
  <2> QED BY <1>1, <2>1, <2>2, <2>3, StorageStays DEF SInv
<1>4. ASSUME gcPhase \in {"check", "unlink", "forget"}, GcNext(gcDue), files' = files,
             \/ blobs' = blobs
             \/ /\ \A v \in versions : v.blob # gcDigest
                /\ blobs' = [blobs EXCEPT ![gcDigest] = NoRow] /\ Due(gcDigest)
      PROVE  SInv'
  <2>1. /\ gcPhase' \in {"idle", "lock"} /\ locks[gcDigest] = Gc
        /\ locks' = [locks EXCEPT ![gcDigest] = NoHandler]
    BY <1>4 DEF SInv, MutexHeld, GcNext
  <2>2. MutexHeld' /\ CollectorSure' /\ InFlightReadable'
    BY <1>1, <1>4, <2>1, SaveStoreAssumption
    DEF TInv, TypeOK, SInv, MutexHeld, CollectorSure, InFlightReadable, Storing, Reading, handlerVars
  <2>3. FilesInHand' /\ RefCountsExact'
    <3>1. CASE blobs' = blobs
      BY <1>1, <1>4, <3>1 DEF SInv, FilesInHand, RefCountsExact, LiveRefs, Storing, Reading, Due,
                              handlerVars
    <3>2. CASE /\ \A v \in versions : v.blob # gcDigest
               /\ blobs' = [blobs EXCEPT ![gcDigest] = NoRow] /\ Due(gcDigest)
      <4>1. gcDigest \in Digests /\ blobs[gcDigest].refs = 0
        BY <1>4, <3>2 DEF SInv, MutexHeld, Due
      <4>2. blobs'[gcDigest] = NoRow /\ \A d \in Digests \ {gcDigest} : blobs'[d] = blobs[d]
        BY <3>2, <4>1 DEF TInv, TypeOK
      <4>3. \A d \in Digests : ~Due(d) => ~Due(d)'
        BY <1>1, <4>2 DEF Due, NoRow
      <4>4. \A h \in Handlers : Reading(h) => job[h].blob \in Digests /\ ~Due(job[h].blob)
        BY DEF TInv, JobsFit, SInv, FilesInHand, Reading
      <4>5. \A h \in Handlers : Reading(h)' => ~Due(job[h].blob)'
        BY <1>1, <4>3, <4>4 DEF Reading, handlerVars
      <4>6. FilesInHand'
        BY <1>1, <1>4, <4>5 DEF SInv, FilesInHand, Storing, Reading, handlerVars
      <4>7. RefCountsExact'
        <5>1. \A d \in Digests : LiveRefs(d)' = LiveRefs(d)
          BY <1>1 DEF LiveRefs
        <5>2. \A d \in Digests : /\ blobs'[d].refs = blobs[d].refs
                                 /\ blobs'[d].refs > 0 => blobs'[d].due = Never
          BY <4>1, <4>2 DEF SInv, RefCountsExact, NoRow
        <5>3. \A v \in versions : v.blob \in Digests \ {gcDigest} /\ blobs[v.blob] # NoRow
          BY <3>2 DEF TInv, TypeOK, Version, SInv, RefCountsExact
        <5> QED BY <1>1, <4>2, <5>1, <5>2, <5>3 DEF SInv, RefCountsExact
      <4> QED BY <4>6, <4>7
    <3> QED BY <1>4, <3>1, <3>2
  <2>4. ContentKept' /\ HeadCurrent'
    BY <1>1, <1>4 DEF SInv, ContentKept, HeadCurrent, CurrentOf, Visible, Deleted
  <2> QED BY <2>2, <2>3, <2>4 DEF SInv
<1>5. CASE GcRecheck /\ Due(gcDigest)
  <2>1. /\ UNCHANGED <<files, blobs, locks, gcDigest>> /\ gcPhase = "check" /\ gcPhase' = "unlink"
    BY <1>5 DEF GcRecheck
  <2>2. MutexHeld' /\ CollectorSure' /\ FilesInHand' /\ InFlightReadable'
    BY <1>1, <1>5, <2>1 DEF SInv, MutexHeld, CollectorSure, FilesInHand, InFlightReadable, Storing,
                            Reading, Due, handlerVars
  <2> QED BY <1>1, <2>1, <2>2, StorageStays DEF SInv
<1>6. CASE GcUnlink
  <2>1. /\ files' = files \ {gcDigest} /\ UNCHANGED <<blobs, locks, gcDigest>>
        /\ gcPhase = "unlink" /\ gcPhase' = "forget"
    BY <1>6 DEF GcUnlink
  <2>2. Due(gcDigest) /\ gcDigest \in Digests /\ locks[gcDigest] = Gc
    BY <2>1 DEF SInv, CollectorSure, MutexHeld
  <2>3. \A v \in versions : v.live => v.blob # gcDigest
    BY <2>2, LiveNotDue DEF SInv
  <2>4. \A h \in Handlers : Storing(h) \/ Reading(h) => job[h].blob # gcDigest
    BY <2>2, SaveStoreAssumption DEF SInv, MutexHeld, FilesInHand
  <2>5. ContentKept' /\ RefCountsExact' /\ HeadCurrent'
    BY <1>1, <2>1, <2>3 DEF SInv, ContentKept, RefCountsExact, HeadCurrent, LiveRefs, CurrentOf,
                            Visible, Deleted
  <2>6. FilesInHand' /\ InFlightReadable'
    BY <1>1, <2>1, <2>4 DEF SInv, FilesInHand, InFlightReadable, Storing, Reading, Due, handlerVars
  <2>7. MutexHeld' /\ CollectorSure'
    BY <1>1, <2>1, <2>2 DEF SInv, MutexHeld, CollectorSure, Storing, Due, handlerVars
  <2> QED BY <2>5, <2>6, <2>7 DEF SInv
<1>7. CASE GcForget
  BY <1>4, <1>7 DEF GcForget
<1>8. CASE GcFails
  BY <1>4, <1>8 DEF GcFails
<1>9. CASE GcRecheck /\ ~Due(gcDigest)
  BY <1>4, <1>9 DEF GcRecheck
<1> QED BY <1>2, <1>3, <1>5, <1>6, <1>7, <1>8, <1>9 DEF Collect

\* Every step of the maintenance loop keeps the invariant.
LEMMA MaintainSafe ==
  ASSUME TInv, SInv, Maintain
  PROVE  SInv'
<1>1. ASSUME NEW u \in Users, ProcessDeletion(u) PROVE SInv'
  BY <1>1, RemoveHeadsSafe DEF ProcessDeletion, Inside
<1>2. ASSUME NEW S, PurgeDeletedHeads(S) PROVE SInv'
  BY <1>2, RemoveHeadsSafe DEF PurgeDeletedHeads, Inside
<1>3. ASSUME NEW S, DeleteExpiredIdempotency(S) PROVE SInv'
  BY <1>3, HandlersStay, StorageStays DEF SInv, DeleteExpiredIdempotency, Inside
<1> QED BY <1>1, <1>2, <1>3, PruneSafe, CollectSafe DEF Maintain

\* A crash forgets who held what, and nobody holds anything.
LEMMA CrashSafe ==
  ASSUME TInv, SInv, Crash
  PROVE  SInv'
<1>1. MutexHeld' /\ CollectorSure' /\ FilesInHand' /\ InFlightReadable'
  BY DEF Crash, MutexHeld, CollectorSure, FilesInHand, InFlightReadable, Storing, Reading
<1> QED BY <1>1, StorageStays DEF SInv, Crash

\* Time passes only between requests, so what a request has read does not become due.
LEMMA TickSafe ==
  ASSUME TInv, SInv, Tick
  PROVE  SInv'
<1>1. now \in Nat /\ now' = now + 1
  BY DEF TInv, TypeOK, Tick
<1>2. \A h \in Handlers : ~Storing(h) /\ ~Reading(h)
  BY DEF Tick, Storing, Reading
<1>3. CollectorSure'
  <2>1. \A d \in Digests : Due(d) => Due(d)'
    BY <1>1 DEF Tick, serverVars, TInv, TypeOK, Due, Time
  <2> QED BY <2>1 DEF Tick, gcVars, SInv, CollectorSure, MutexHeld
<1>4. MutexHeld' /\ FilesInHand' /\ InFlightReadable'
  BY <1>2 DEF Tick, serverVars, handlerVars, gcVars, SInv, MutexHeld, FilesInHand, InFlightReadable,
              Storing, Reading
<1> QED BY <1>3, <1>4, StorageStays DEF SInv, Tick, serverVars

------------------------------------------------------------------------------

\* SInv is inductive relative to TInv.
LEMMA NextSafe == TInv /\ SInv /\ [Next]_vars => SInv'
<1> SUFFICES ASSUME TInv, SInv, [Next]_vars PROVE SInv'
  OBVIOUS
<1>1. CASE UNCHANGED vars
  BY <1>1, HandlersStay, StorageStays DEF SInv, vars, serverVars
<1> QED BY <1>1, PhoneSafe, HandleSafe, UserDeleteSafe, MaintainSafe, CrashSafe, TickSafe DEF Next

\* The inductive invariant holds in every reachable state.
THEOREM Invariance == Spec => []IInv
<1>1. TInv /\ SInv => IInv
  BY DEF SInv, IInv
<1> QED BY <1>1, InitType, InitSafe, NextType, NextSafe, PTL DEF Spec

\* Every version that is not deleted has its content on disk, for any number of users,
\* phones, saves, contents and requests at once.
THEOREM ContentSafe == Spec => []ContentKept
<1>1. IInv => ContentKept
  BY DEF IInv
<1> QED BY <1>1, Invariance, PTL

\* reference_count is exact, and every version row has its blob row.
THEOREM RefCountsCorrect == Spec => []RefCountsExact
<1>1. IInv => RefCountsExact
  BY DEF IInv
<1> QED BY <1>1, Invariance, PTL

\* A request that has read a row still finds its file.
THEOREM InFlightSafe == Spec => []InFlightReadable
<1>1. IInv => InFlightReadable
  BY DEF IInv
<1> QED BY <1>1, Invariance, PTL

\* A visible head has its current version, and a revision is given out once.
THEOREM HeadsSafe == Spec => []HeadCurrent
<1>1. IInv => HeadCurrent
  BY DEF IInv
<1> QED BY <1>1, Invariance, PTL
=============================================================================
