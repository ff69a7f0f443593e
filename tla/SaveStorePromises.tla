-------------------------- MODULE SaveStorePromises --------------------------
(***************************************************************************)
(* What the server of SaveStore promises its phones over time: a save that *)
(* was acknowledged is stored, nothing is overwritten unseen, a retried    *)
(* request takes effect once, and a deleted account stays empty.           *)
(***************************************************************************)
EXTENDS SaveStoreSafety

------------------------------------------------------------------------------
(* The inductive invariant. *)

\* A phone asks for saves of its own account, under keys of its own.
Owned ==
  /\ \A c \in Clients : task[c] # NoTask =>
       task[c].key[1] = c /\ Owner[task[c].save] = ClientUser[c]
  /\ \A h \in Handlers : pc[h] # "idle" =>
       job[h].key[1] = job[h].client /\ Owner[job[h].save] = ClientUser[job[h].client]

\* A key that has created a version still has its row, unless the row has expired or has
\* gone with its account.
KeysRemembered ==
  \A k \in Keys : made[k].n > 0 =>
    \/ \E r \in RowsOf(k) : r.expires = made[k].at + IdemTTL
    \/ made[k].at + IdemTTL <= now
    \/ users[ClientUser[k[1]]] = "deleted"

\* A tag that somebody holds for save s is that of a stored version while the head row
\* exists that it was read from.
Known(s, t) ==
  /\ t.epoch <= epoch[s]
  /\ t.rev > 0 /\ t.epoch = epoch[s] => \E v \in VersionsOf({s}) : TagOf(v) = t

\* Wherever a tag is on its way: phones, tasks, requests, answers and idempotency rows.
\* What answers an upload is the tag of its content.
ViewKnown(c, s) == Known(s, view[c][s])
TaskKnown(c) == task[c] # NoTask => Known(task[c].save, task[c].seen)
JobKnown(h) == pc[h] # "idle" => Known(job[h].save, job[h].seen)
AnswerKnown(h) ==
  pc[h] = "reply" =>
    /\ Known(job[h].save, answer[h].tag)
    /\ answer[h].kind = "ok" /\ job[h].op = "upload" => answer[h].tag.blob = job[h].blob
RowKnown(r) == /\ Known(r.hash.save, r.tag)
               /\ r.hash.op = "upload" => r.tag.blob = r.hash.blob
TagsKnown ==
  /\ \A c \in Clients : TaskKnown(c) /\ \A s \in Saves : ViewKnown(c, s)
  /\ \A h \in Handlers : JobKnown(h) /\ AnswerKnown(h)
  /\ \A r \in idem : RowKnown(r)

\* Only a download goes on from reading the row to opening the file.
Downloading == \A h \in Handlers : pc[h] = "open" => job[h].op # "upload"

PInv == Owned /\ Downloading /\ KeysRemembered /\ TagsKnown /\ DeletedAccountEmpty

LEMMA InitPromises == Init => PInv
BY SaveStoreAssumption
   DEF Init, PInv, Owned, Downloading, KeysRemembered, TagsKnown, TaskKnown, ViewKnown, JobKnown, AnswerKnown, RowKnown,
       Known, NoTag, DeletedAccountEmpty, VersionsOf

------------------------------------------------------------------------------
(* Which actions touch which table. *)

LEMMA VersionSteps ==
  ASSUME [Next]_vars
  PROVE  \/ UNCHANGED <<versions, epoch>>
         \/ \E h \in Handlers : CommitAccept(h)
         \/ \E S : RemoveHeads(S)
         \/ \E S : PruneHistory(S)
BY ZenonT(60) DEF Next, vars, Phone, NewUpload, NewRestore, NewDownload, Send, TimeOut, Handle, UploadLock,
       UploadPut, ReadContent, OpenBlob, Finish, Commit, CommitKnownKey, CommitUnchanged,
       CommitConflict, CommitRefused, CommitFails, CommitAborts, RollBack, UserDelete, DeleteHead,
       DeleteROM, DeleteHeads, RequestDeletion, Maintain, ProcessDeletion, PurgeDeletedHeads,
       DeleteExpiredIdempotency, Collect, GcScan, GcLock, GcRecheck, GcUnlink, GcFails, GcForget,
       GcQuiet, Crash, Tick, serverVars, history

LEMMA MadeSteps ==
  ASSUME [Next]_vars
  PROVE  UNCHANGED made \/ \E h \in Handlers : CommitAccept(h)
BY ZenonT(60) DEF Next, vars, Phone, NewUpload, NewRestore, NewDownload, Send, TimeOut, Handle, UploadLock,
       UploadPut, ReadContent, OpenBlob, Finish, Commit, CommitKnownKey, CommitUnchanged,
       CommitConflict, CommitRefused, CommitFails, CommitAborts, RollBack, UserDelete, DeleteHead,
       DeleteROM, DeleteHeads, RequestDeletion, Maintain, ProcessDeletion, PurgeDeletedHeads,
       PruneHistory, RemoveHeads,
       DeleteExpiredIdempotency, Collect, GcScan, GcLock, GcRecheck, GcUnlink, GcFails, GcForget,
       GcQuiet, Crash, Tick, serverVars, history

LEMMA UserSteps ==
  ASSUME [Next]_vars
  PROVE  \/ UNCHANGED users
         \/ \E u \in Users : RequestDeletion(u) \/ ProcessDeletion(u)
BY ZenonT(60) DEF Next, vars, Phone, NewUpload, NewRestore, NewDownload, Send, TimeOut, Handle, UploadLock,
       UploadPut, ReadContent, OpenBlob, Finish, Commit, CommitKnownKey, CommitUnchanged,
       CommitConflict, CommitRefused, CommitFails, CommitAborts, CommitAccept, RollBack, UserDelete,
       DeleteHead, DeleteROM, DeleteHeads, Maintain, PurgeDeletedHeads, PruneHistory,
       DeleteExpiredIdempotency, Collect, GcScan, GcLock, GcRecheck, GcUnlink, GcFails, GcForget,
       GcQuiet, Crash, Tick, serverVars

LEMMA HeadSteps ==
  ASSUME [Next]_vars
  PROVE  \/ UNCHANGED heads
         \/ \E h \in Handlers : CommitAccept(h)
         \/ \E S : RemoveHeads(S)
         \/ \E S : DeleteHeads(S)
BY ZenonT(60) DEF Next, vars, Phone, NewUpload, NewRestore, NewDownload, Send, TimeOut, Handle, UploadLock,
       UploadPut, ReadContent, OpenBlob, Finish, Commit, CommitKnownKey, CommitUnchanged,
       CommitConflict, CommitRefused, CommitFails, CommitAborts, RollBack, UserDelete, DeleteHead,
       DeleteROM, RequestDeletion, Maintain, ProcessDeletion, PurgeDeletedHeads, PruneHistory,
       DeleteExpiredIdempotency, Collect, GcScan, GcLock, GcRecheck, GcUnlink, GcFails, GcForget,
       GcQuiet, Crash, Tick, serverVars

LEMMA IdemSteps ==
  ASSUME [Next]_vars
  PROVE  \/ UNCHANGED idem
         \/ \E h \in Handlers : \/ CommitAccept(h)
                                \/ CommitUnchanged(h)
         \/ \E u \in Users : ProcessDeletion(u)
         \/ \E S : DeleteExpiredIdempotency(S)
BY ZenonT(60) DEF Next, vars, Phone, NewUpload, NewRestore, NewDownload, Send, TimeOut, Handle, UploadLock,
       UploadPut, ReadContent, OpenBlob, Finish, Commit, CommitKnownKey,
       CommitConflict, CommitRefused, CommitFails, CommitAborts, RollBack, UserDelete, DeleteHead,
       DeleteROM, DeleteHeads, RequestDeletion, Maintain, PurgeDeletedHeads, PruneHistory,
       Collect, GcScan, GcLock, GcRecheck, GcUnlink, GcFails, GcForget,
       GcQuiet, Crash, Tick, serverVars

LEMMA TimeSteps ==
  ASSUME TInv, [Next]_vars
  PROVE  now \in Nat /\ now' \in Nat /\ now <= now'
<1>1. now' = now \/ now' = now + 1
  BY ZenonT(60) DEF Next, vars, Phone, NewUpload, NewRestore, NewDownload, Send, TimeOut, Handle, UploadLock,
         UploadPut, ReadContent, OpenBlob, Finish, Commit, CommitKnownKey, CommitUnchanged,
         CommitConflict, CommitRefused, CommitFails, CommitAborts, CommitAccept, UserDelete, DeleteHead,
         DeleteROM, DeleteHeads, RequestDeletion, Maintain, ProcessDeletion, PurgeDeletedHeads,
         PruneHistory, DeleteExpiredIdempotency, Collect, GcScan, GcLock, GcRecheck, GcUnlink, GcFails,
         GcForget, GcQuiet, Crash, Tick, Inside, StayingOut
<1>2. now \in Nat
  BY DEF TInv, TypeOK
<1> QED BY <1>1, <1>2

------------------------------------------------------------------------------
(* Whose task and whose request it is. *)

LEMMA OwnedNext == ASSUME TInv, Owned, [Next]_vars PROVE Owned'
<1> DEFINE Task1(c) == task'[c] # NoTask =>
             task'[c].key[1] = c /\ Owner[task'[c].save] = ClientUser[c]
           Job1(h) == pc'[h] # "idle" =>
             job'[h].key[1] = job'[h].client /\ Owner[job'[h].save] = ClientUser[job'[h].client]
\* A fresh task bears a key of its phone.
<1>1. ASSUME NEW c \in Clients, NEW op, NEW s \in MySaves(c), NEW src, NEW d, NEW seen,
             FreshTask(c, op, s, src, d, seen)
      PROVE  \A e \in Clients : Task1(e)
  BY <1>1 DEF Owned, FreshTask, MySaves, TInv, TypeOK
<1>2. ASSUME UNCHANGED task PROVE \A e \in Clients : Task1(e)
  BY <1>2 DEF Owned
\* A handler's step keeps its request.
<1>3. ASSUME NEW h \in Handlers, pc[h] # "idle",
             \A g \in Handlers \ {h} : pc'[g] = pc[g] /\ job'[g] = job[g],
             \/ pc'[h] = "idle"
             \/ /\ job'[h].key = job[h].key /\ job'[h].save = job[h].save
                /\ job'[h].client = job[h].client
      PROVE  \A g \in Handlers : Job1(g)
  BY <1>3 DEF Owned
<1>4. ASSUME UNCHANGED <<pc, job>> PROVE \A g \in Handlers : Job1(g)
  BY <1>4 DEF Owned
<1>5. ASSUME NEW c \in Clients, Phone(c) PROVE Owned'
  <2>1. ASSUME NEW s \in MySaves(c), NewDownload(c, s) PROVE Owned'
    BY <1>1, <1>4, <2>1 DEF NewDownload, handlerVars, Owned
  <2>2. ASSUME NEW s \in MySaves(c), NEW d \in Digests, NewUpload(c, s, d) PROVE Owned'
    BY <1>1, <1>4, <2>2 DEF NewUpload, handlerVars, Owned
  <2>3. ASSUME NEW v \in versions, NewRestore(c, v) PROVE Owned'
    <3>1. v.save \in MySaves(c)
      BY <2>3 DEF NewRestore, Listed, VersionsOf
    <3> QED BY <1>1, <1>4, <2>3, <3>1 DEF NewRestore, handlerVars, Owned
  <2>4. ASSUME NEW h \in Handlers, Send(c, h) PROVE Owned'
    BY <1>2, <2>4 DEF Send, Owned, TInv, TypeOK
  <2>5. ASSUME TimeOut(c) PROVE Owned'
    BY <2>5 DEF TimeOut, handlerVars, Owned, TInv, TypeOK
  <2> QED BY <1>5, <2>1, <2>2, <2>3, <2>4, <2>5 DEF Phone
<1>6. ASSUME NEW h \in Handlers, Finish(h) PROVE Owned'
  <2>1. \A g \in Handlers : Job1(g)
    BY <1>3, <1>6 DEF Finish, TInv, TypeOK
  <2>2. job[h].client \in Clients /\ job[h].save \in MySaves(job[h].client)
    BY <1>6 DEF Finish, TInv, JobsFit, Job, Owned, MySaves
  <2>3. \/ UNCHANGED task
        \/ task' = [task EXCEPT ![job[h].client] = NoTask]
        \/ FreshTask(job[h].client, "upload", job[h].save, 0, job[h].blob, NoTag)
    BY <1>6, <2>2 DEF Finish, phoneVars, TInv, TypeOK
  <2>4. \A e \in Clients : Task1(e)
    <3>1. CASE task' = [task EXCEPT ![job[h].client] = NoTask]
      BY <3>1 DEF Owned, TInv, TypeOK
    <3> QED BY <1>1, <1>2, <2>2, <2>3, <3>1
  <2> QED BY <2>1, <2>4 DEF Owned
<1>7. ASSUME NEW h \in Handlers, Handle(h), ~Finish(h) PROVE Owned'
  <2>1. UNCHANGED task
    BY <1>7 DEF Handle, UploadLock, UploadPut, ReadContent, OpenBlob, Commit, CommitKnownKey,
                CommitUnchanged, CommitConflict, CommitRefused, CommitFails, CommitAborts,
                CommitAccept, StayingOut, phoneVars
  <2>2. pc[h] # "idle"
    BY <1>7 DEF Handle, UploadLock, UploadPut, ReadContent, OpenBlob, Commit, CommitKnownKey,
                CommitUnchanged, CommitConflict, CommitRefused, CommitFails, CommitAborts,
                CommitAccept, Committing, Acceptable
  <2>3. CASE ReadContent(h)
    <3>1. job \in [Handlers -> Job \cup {NoTask}] /\ job[h] \in Job
      BY <2>2 DEF TInv, TypeOK, JobsFit
    <3>2. \A g \in Handlers \ {h} : pc'[g] = pc[g] /\ job'[g] = job[g]
      BY <2>3, <3>1 DEF ReadContent, Reply, TInv, TypeOK
    <3>3. /\ job'[h].key = job[h].key /\ job'[h].save = job[h].save
          /\ job'[h].client = job[h].client
      <4>1. CASE Reply(h, "missing", NoTag)
        BY <4>1 DEF Reply
      <4>2. CASE ~Reply(h, "missing", NoTag)
        <5>1. PICK v \in versions : job' = [job EXCEPT ![h].blob = v.blob,
                                           ![h].seen = IF @.rev = 0 THEN TagOf(v) ELSE @]
          BY <2>3, <4>2 DEF ReadContent, VersionsOf
        <5> DEFINE j == [job[h] EXCEPT !.blob = v.blob, !.seen = IF @.rev = 0 THEN TagOf(v) ELSE @]
        <5>2. job'[h] = j
          BY <3>1, <5>1 DEF Job
        <5>3. j.key = job[h].key /\ j.save = job[h].save /\ j.client = job[h].client
          BY <3>1 DEF Job
        <5> QED BY <5>2, <5>3
      <4> QED BY <4>1, <4>2
    <3> QED BY <1>2, <1>3, <2>1, <2>2, <3>2, <3>3 DEF Owned
  <2>4. CASE ~ReadContent(h)
    <3>1. job' = job /\ \A g \in Handlers \ {h} : pc'[g] = pc[g]
      BY <1>7, <2>4 DEF Handle, UploadLock, UploadPut, OpenBlob, Commit, CommitKnownKey,
                        CommitUnchanged, CommitConflict, CommitRefused, CommitFails, CommitAborts,
                        CommitAccept, Reply, TInv, TypeOK
    <3> QED BY <1>2, <1>3, <2>1, <2>2, <3>1 DEF Owned
  <2> QED BY <2>3, <2>4
<1>8. ASSUME UserDelete \/ Maintain \/ Tick \/ UNCHANGED vars PROVE Owned'
  <2>1. UNCHANGED <<task, pc, job>>
    BY <1>8 DEF UserDelete, DeleteHead, DeleteROM, DeleteHeads, RequestDeletion, Maintain,
                ProcessDeletion, PurgeDeletedHeads, PruneHistory, DeleteExpiredIdempotency, Collect,
                GcScan, GcLock, GcRecheck, GcUnlink, GcFails, GcForget, GcQuiet, Tick, Inside,
                vars, handlerVars, phoneVars
  <2> QED BY <1>2, <1>4, <2>1 DEF Owned
<1>9. ASSUME Crash PROVE Owned'
  BY <1>2, <1>9 DEF Crash, phoneVars, Owned
<1> QED BY <1>5, <1>6, <1>7, <1>8, <1>9 DEF Next

LEMMA OpeningNext == ASSUME TInv, Downloading, [Next]_vars PROVE Downloading'
<1> SUFFICES ASSUME NEW g \in Handlers, pc'[g] = "open" PROVE job'[g].op # "upload"
  BY DEF Downloading
<1>1. ASSUME NEW h \in Handlers, ReadContent(h), g = h PROVE job'[g].op # "upload"
  <2>1. job[h] \in Job /\ job[h].op # "upload"
    BY <1>1 DEF ReadContent, TInv, JobsFit
  <2>2. PICK v \in versions : job' = [job EXCEPT ![h].blob = v.blob,
                                     ![h].seen = IF @.rev = 0 THEN TagOf(v) ELSE @]
    BY <1>1 DEF ReadContent, Reply, VersionsOf, TInv, TypeOK
  <2> DEFINE j == [job[h] EXCEPT !.blob = v.blob, !.seen = IF @.rev = 0 THEN TagOf(v) ELSE @]
  <2>3. job'[h] = j
    BY <2>1, <2>2 DEF TInv, TypeOK, Job
  <2>4. j.op = job[h].op
    BY <2>1 DEF Job
  <2> QED BY <1>1, <2>1, <2>3, <2>4
<1>2. ASSUME NEW h \in Handlers, ReadContent(h), g # h PROVE pc[g] = "open" /\ job'[g] = job[g]
  BY <1>2 DEF ReadContent, Reply, TInv, TypeOK
<1>3. ASSUME NEW h \in Handlers, Handle(h), ~ReadContent(h) PROVE pc[g] = "open" /\ job'[g] = job[g]
  BY <1>3 DEF Handle, UploadLock, UploadPut, OpenBlob, Commit, CommitKnownKey,
              CommitUnchanged, CommitConflict, CommitRefused, CommitFails, CommitAborts,
              CommitAccept, Reply, Finish, TInv, TypeOK
<1>4. ASSUME NEW c \in Clients, Phone(c) PROVE pc[g] = "open" /\ job'[g] = job[g]
  BY <1>4 DEF Phone, NewUpload, NewRestore, NewDownload, Send, TimeOut, handlerVars, TInv, TypeOK
<1>5. ASSUME UserDelete \/ Maintain \/ Tick \/ UNCHANGED vars PROVE UNCHANGED <<pc, job>>
  BY <1>5 DEF UserDelete, DeleteHead, DeleteROM, DeleteHeads, RequestDeletion, Maintain,
              ProcessDeletion, PurgeDeletedHeads, PruneHistory, DeleteExpiredIdempotency, Collect,
              GcScan, GcLock, GcRecheck, GcUnlink, GcFails, GcForget, GcQuiet, Tick, Inside,
              vars, handlerVars
<1>6. ~Crash
  BY DEF Crash
<1> QED BY <1>1, <1>2, <1>3, <1>4, <1>5, <1>6 DEF Next, Downloading

------------------------------------------------------------------------------
(* Deleted accounts. *)

\* What is left of a row's owner: new rows belong to active accounts.
LEMMA NewRows ==
  ASSUME TInv, Owned, NEW h \in Handlers, CommitAccept(h)
  PROVE  /\ job[h].save \in Saves /\ users[Owner[job[h].save]] = "active"
         /\ job[h].key \in Keys /\ ClientUser[job[h].key[1]] = Owner[job[h].save]
         /\ RowsOf(job[h].key) = {} /\ UNCHANGED <<users, now>>
         /\ idem' = idem \cup {[key |-> job[h].key, hash |-> HashOf(h),
                                tag |-> [rev |-> NextRevision(h), blob |-> job[h].blob,
                                         epoch |-> epoch[job[h].save]],
                                expires |-> now + IdemTTL]}
BY DEF CommitAccept, Acceptable, Committing, OwnerActive, StoreIdempotency, Owned, TInv, JobsFit, Job,
       StayingOut

LEMMA DeletedNext ==
  ASSUME TInv, SInv, Owned, DeletedAccountEmpty, [Next]_vars PROVE DeletedAccountEmpty'
<1> SUFFICES ASSUME NEW u \in Users, users'[u] = "deleted"
             PROVE  /\ \A s \in Saves : Owner[s] = u => heads'[s] = NoHead /\ VersionsOf({s})' = {}
                    /\ \A r \in idem' : ClientUser[r.key[1]] # u
  BY DEF DeletedAccountEmpty
<1> DEFINE Empty == /\ \A s \in Saves : Owner[s] = u => heads[s] = NoHead /\ VersionsOf({s}) = {}
                    /\ \A r \in idem : ClientUser[r.key[1]] # u
<1>1. CASE ProcessDeletion(u)
  BY <1>1 DEF ProcessDeletion, RemoveHeads, VersionsOf
<1>2. CASE ~ProcessDeletion(u)
  <2>1. users[u] = "deleted"
    <3>1. ASSUME NEW w \in Users, ProcessDeletion(w) PROVE users[u] = "deleted"
      BY <1>2, <3>1 DEF ProcessDeletion, TInv, TypeOK
    <3>2. ASSUME NEW w \in Users, RequestDeletion(w) PROVE users[u] = "deleted"
      BY <3>2 DEF RequestDeletion, TInv, TypeOK
    <3> QED BY <3>1, <3>2, UserSteps
  <2>2. Empty
    BY <2>1 DEF DeletedAccountEmpty
  <2>3. ASSUME NEW s \in Saves, Owner[s] = u PROVE heads'[s] = NoHead
    <3>0. heads[s] = NoHead
      BY <2>2, <2>3
    <3>1. ~Visible(s)
      BY <3>0 DEF Visible, NoHead
    <3>2. ASSUME NEW h \in Handlers, CommitAccept(h) PROVE heads'[s] = heads[s]
      <4>1. job[h].save # s
        BY <2>1, <2>3, <3>2, NewRows
      <4> QED BY <3>2, <4>1 DEF CommitAccept, TInv, TypeOK
    <3>3. ASSUME NEW S, RemoveHeads(S) \/ DeleteHeads(S) PROVE heads'[s] = NoHead
      BY <3>0, <3>1, <3>3 DEF RemoveHeads, DeleteHeads
    <3> QED BY <3>0, <3>2, <3>3, HeadSteps
  <2>4. ASSUME NEW s \in Saves, Owner[s] = u PROVE VersionsOf({s})' = {}
    <3>1. VersionsOf({s}) = {}
      BY <2>2, <2>4
    <3>2. ASSUME NEW h \in Handlers, CommitAccept(h) PROVE VersionsOf({s})' = {}
      <4>1. job[h].save # s
        BY <2>1, <2>4, <3>2, NewRows
      <4>2. \A v \in versions' : v \in versions \/ v.save = job[h].save
        BY <3>2 DEF CommitAccept
      <4> QED BY <3>1, <4>1, <4>2 DEF VersionsOf
    <3>3. ASSUME NEW S, RemoveHeads(S) PROVE VersionsOf({s})' = {}
      BY <3>1, <3>3 DEF RemoveHeads, VersionsOf
    <3>4. ASSUME NEW S, PruneHistory(S) PROVE VersionsOf({s})' = {}
      <4>1. \A v \in versions' : \E w \in versions : v.save = w.save
        BY <3>4 DEF PruneHistory, Prunable, TInv, TypeOK, Version
      <4> QED BY <3>1, <4>1 DEF VersionsOf
    <3>5. CASE UNCHANGED versions
      BY <3>1, <3>5 DEF VersionsOf
    <3> QED BY <3>2, <3>3, <3>4, <3>5, VersionSteps
  <2>5. ASSUME NEW r \in idem' PROVE ClientUser[r.key[1]] # u
    <3>1. ASSUME NEW h \in Handlers, CommitAccept(h), r \notin idem PROVE ClientUser[r.key[1]] # u
      BY <2>1, <2>5, <3>1, NewRows
    <3>2. ASSUME NEW h \in Handlers, CommitUnchanged(h), r \notin idem PROVE ClientUser[r.key[1]] # u
      <4>1. Visible(job[h].save) /\ r.key = job[h].key /\ pc[h] = "commit"
        BY <2>5, <3>2 DEF CommitUnchanged, Unchanged, CurrentOf, StoreIdempotency, RollBack, Committing
      <4>2. job[h].save \in Saves /\ ClientUser[job[h].key[1]] = Owner[job[h].save]
        BY <4>1 DEF Owned, TInv, JobsFit, Job
      <4>3. heads[job[h].save] # NoHead
        BY <4>1 DEF Visible, NoHead
      <4> QED BY <2>2, <4>1, <4>2, <4>3
    <3>3. CASE r \in idem
      BY <2>2, <3>3
    <3> QED BY <2>5, <3>1, <3>2, <3>3, IdemSteps DEF ProcessDeletion, DeleteExpiredIdempotency
  <2> QED BY <2>3, <2>4, <2>5
<1> QED BY <1>1, <1>2

------------------------------------------------------------------------------
(* Keys that have been used. *)

LEMMA KeysNext ==
  ASSUME TInv, Owned, KeysRemembered, [Next]_vars PROVE KeysRemembered'
<1> SUFFICES ASSUME NEW k \in Keys, made'[k].n > 0
             PROVE  \/ \E r \in RowsOf(k)' : r.expires = made'[k].at + IdemTTL
                    \/ made'[k].at + IdemTTL <= now'
                    \/ users'[ClientUser[k[1]]] = "deleted"
  BY DEF KeysRemembered
<1>0. now <= now' /\ now \in Nat /\ now' \in Nat /\ made[k].at \in Int /\ IdemTTL \in Nat
      /\ \A r \in idem : r.expires \in Int
  <2>1. Time \subseteq Int /\ Never \in Int
    BY DEF Time, Never
  <2> QED BY <2>1, TimeSteps, SaveStoreAssumption DEF TInv, TypeOK, IdemRow
\* A deleted account stays deleted.
<1>1. users[ClientUser[k[1]]] = "deleted" => users'[ClientUser[k[1]]] = "deleted"
  <2> DEFINE w == ClientUser[k[1]]
  <2>1. w \in Users
    BY SaveStoreAssumption DEF Keys
  <2> HIDE DEF w
  <2>2. ASSUME NEW u \in Users, ProcessDeletion(u) PROVE users[w] = "deleted" => users'[w] = "deleted"
    BY <2>1, <2>2 DEF ProcessDeletion, TInv, TypeOK
  <2>3. ASSUME NEW u \in Users, RequestDeletion(u) PROVE users[w] = "deleted" => users'[w] = "deleted"
    BY <2>1, <2>3 DEF RequestDeletion, TInv, TypeOK
  <2>4. users[w] = "deleted" => users'[w] = "deleted"
    BY <2>2, <2>3, UserSteps
  <2> QED BY <2>4 DEF w
<1>2. ASSUME NEW h \in Handlers, CommitAccept(h), job[h].key = k
      PROVE  \E r \in RowsOf(k)' : r.expires = made'[k].at + IdemTTL
  <2>1. made'[k].at = now
    BY <1>2 DEF CommitAccept, TInv, TypeOK
  <2>2. \E r \in idem' : r.key = job[h].key /\ r.expires = now + IdemTTL
    <3> DEFINE row == [key |-> job[h].key, hash |-> HashOf(h),
                       tag |-> [rev |-> NextRevision(h), blob |-> job[h].blob,
                                epoch |-> epoch[job[h].save]],
                       expires |-> now + IdemTTL]
    <3>1. row.key = job[h].key /\ row.expires = now + IdemTTL
      OBVIOUS
    <3>2. row \in idem'
      BY <1>2, NewRows
    <3> HIDE DEF row
    <3> QED BY <3>1, <3>2
  <2> QED BY <1>2, <2>1, <2>2 DEF RowsOf
<1>3. CASE made'[k] = made[k]
  <2>1. CASE \E r \in RowsOf(k) : r.expires = made[k].at + IdemTTL
    <3>1. PICK r \in RowsOf(k) : r.expires = made[k].at + IdemTTL
      BY <2>1
    <3>2. r \in idem' => r \in RowsOf(k)'
      BY <3>1 DEF RowsOf
    <3>3. ASSUME NEW S, DeleteExpiredIdempotency(S), r \notin idem' PROVE r.expires <= now'
      BY <1>0, <3>1, <3>3 DEF DeleteExpiredIdempotency, RowsOf
    <3>4. ASSUME NEW u \in Users, ProcessDeletion(u), r \notin idem'
          PROVE  users'[ClientUser[k[1]]] = "deleted"
      BY <3>1, <3>4 DEF ProcessDeletion, RowsOf, TInv, TypeOK
    <3>5. ASSUME NEW h \in Handlers, CommitAccept(h) \/ CommitUnchanged(h) PROVE r \in idem'
      BY <3>1, <3>5 DEF CommitAccept, CommitUnchanged, StoreIdempotency, RollBack, RowsOf
    <3>6. CASE UNCHANGED idem
      BY <1>3, <3>1, <3>2, <3>6 DEF RowsOf
    <3> QED BY <1>0, <1>3, <3>1, <3>2, <3>3, <3>4, <3>5, <3>6, IdemSteps
  <2>2. CASE made[k].at + IdemTTL <= now
    BY <1>0, <1>3, <2>2
  <2> QED BY <1>1, <1>3, <2>1, <2>2 DEF KeysRemembered
<1>4. CASE made'[k] # made[k]
  <2>1. PICK h \in Handlers : CommitAccept(h)
    BY <1>4, MadeSteps
  <2>2. job[h].key = k
    BY <1>4, <2>1, NewRows DEF CommitAccept, TInv, TypeOK
  <2> QED BY <1>2, <2>1, <2>2
<1> QED BY <1>3, <1>4

------------------------------------------------------------------------------
(* Tags. *)

\* A tag stays that of a stored version: rows go with their head, and the epoch changes.
LEMMA KnownStays ==
  ASSUME TInv, SInv, [Next]_vars, NEW s \in Saves, NEW t \in Tag, Known(s, t)
  PROVE  Known(s, t)'
<1>0. t.epoch \in Nat /\ t.rev \in Nat /\ epoch[s] \in Nat
  BY DEF TInv, TypeOK, Tag
<1>1. ASSUME epoch'[s] = epoch[s],
             \A v \in VersionsOf({s}) : \E w \in VersionsOf({s})' : w.rev = v.rev /\ w.blob = v.blob
      PROVE  Known(s, t)'
  BY <1>1 DEF Known, TagOf, VersionsOf
<1>2. CASE UNCHANGED <<versions, epoch>>
  BY <1>1, <1>2 DEF VersionsOf
<1>3. ASSUME NEW h \in Handlers, CommitAccept(h) PROVE Known(s, t)'
  BY <1>1, <1>3 DEF CommitAccept, VersionsOf
<1>4. ASSUME NEW S, PruneHistory(S) PROVE Known(s, t)'
  <2>1. ASSUME NEW v \in VersionsOf({s})
        PROVE  \E w \in VersionsOf({s})' : w.rev = v.rev /\ w.blob = v.blob
    <3>1. v \in Version /\ v \in versions /\ v.save = s
      BY DEF VersionsOf, TInv, TypeOK
    <3>2. v \in versions' \/ [v EXCEPT !.live = FALSE] \in versions'
      BY <1>4, <3>1 DEF PruneHistory
    <3> QED BY <3>1, <3>2 DEF VersionsOf, Version
  <2> QED BY <1>1, <1>4, <2>1 DEF PruneHistory, history
<1>5. ASSUME NEW S, RemoveHeads(S) PROVE Known(s, t)'
  <2>1. CASE s \notin S
    BY <1>1, <1>5, <2>1 DEF RemoveHeads, VersionsOf
  <2>2. CASE s \in S /\ heads[s] # NoHead
    <3>1. epoch'[s] = epoch[s] + 1
      BY <1>5, <2>2 DEF RemoveHeads
    <3> QED BY <1>0, <3>1 DEF Known
  <2>3. CASE s \in S /\ heads[s] = NoHead
    <3>1. epoch'[s] = epoch[s]
      BY <1>5, <2>3 DEF RemoveHeads
    <3>2. VersionsOf({s}) = {}
      BY <2>3 DEF SInv, HeadCurrent, VersionsOf, NoHead
    <3> QED BY <1>1, <3>1, <3>2
  <2> QED BY <2>1, <2>2, <2>3
<1> QED BY <1>2, <1>3, <1>4, <1>5, VersionSteps

\* The tag of a version is known.
LEMMA VersionKnown == ASSUME TInv, NEW v \in versions PROVE Known(v.save, TagOf(v))
BY DEF Known, TagOf, VersionsOf, TInv, TypeOK, Version

\* It is enough to look at the tags that a step puts somewhere.
LEMMA FrameTags ==
  ASSUME TInv, SInv, TagsKnown, [Next]_vars,
         \A c \in Clients : task'[c] = task[c] \/ TaskKnown(c)',
         \A c \in Clients, s \in Saves : view'[c][s] = view[c][s] \/ ViewKnown(c, s)',
         \A h \in Handlers :
           \/ pc[h] # "idle" /\ job'[h].save = job[h].save /\ job'[h].seen = job[h].seen
           \/ JobKnown(h)',
         \A h \in Handlers :
           \/ pc[h] = "reply" /\ job'[h] = job[h] /\ answer'[h] = answer[h]
           \/ AnswerKnown(h)',
         \A r \in idem' : r \in idem \/ RowKnown(r)'
  PROVE  TagsKnown'
<1>1. ASSUME NEW c \in Clients PROVE TaskKnown(c)'
  <2>1. task[c] # NoTask => task[c].save \in Saves /\ task[c].seen \in Tag
    BY DEF TInv, TypeOK, Task
  <2> QED BY <2>1, KnownStays DEF TagsKnown, TaskKnown
<1>2. ASSUME NEW c \in Clients, NEW s \in Saves PROVE ViewKnown(c, s)'
  <2>1. view[c][s] \in Tag
    BY DEF TInv, TypeOK
  <2> QED BY <2>1, KnownStays DEF TagsKnown, ViewKnown
<1>3. ASSUME NEW h \in Handlers PROVE JobKnown(h)' /\ AnswerKnown(h)'
  <2>1. pc[h] # "idle" => job[h].save \in Saves /\ job[h].seen \in Tag
    BY DEF TInv, JobsFit, Job
  <2>2. answer[h].tag \in Tag
    BY DEF TInv, TypeOK, Answer
  <2>3. JobKnown(h)'
    BY <2>1, KnownStays DEF TagsKnown, JobKnown
  <2>4. AnswerKnown(h)'
    BY <2>1, <2>2, KnownStays DEF TagsKnown, AnswerKnown
  <2> QED BY <2>3, <2>4
<1>4. ASSUME NEW r \in idem' PROVE RowKnown(r)'
  <2>1. r \in idem => r.hash.save \in Saves /\ r.tag \in Tag
    BY DEF TInv, TypeOK, IdemRow, Hash
  <2> QED BY <2>1, KnownStays DEF TagsKnown, RowKnown
<1> QED BY <1>1, <1>2, <1>3, <1>4 DEF TagsKnown

LEMMA PhoneTags ==
  ASSUME TInv, TInv', SInv, TagsKnown, [Next]_vars, NEW c \in Clients, Phone(c) PROVE TagsKnown'
<1>1. ASSUME NEW op, NEW s \in Saves, NEW src, NEW d, NEW seen, FreshTask(c, op, s, src, d, seen),
             Known(s, seen)', UNCHANGED <<view, pc, job, answer, idem>>
      PROVE  TagsKnown'
  <2>1. \A e \in Clients : task'[e] = task[e] \/ TaskKnown(e)'
    BY <1>1 DEF FreshTask, TaskKnown, TInv, TypeOK
  <2>2. \A h \in Handlers : (pc[h] = "idle" => JobKnown(h)') /\ (pc[h] # "reply" => AnswerKnown(h)')
    BY <1>1 DEF JobKnown, AnswerKnown
  <2> QED BY <1>1, <2>1, <2>2, FrameTags
<1>2. ASSUME NEW s \in MySaves(c), NewDownload(c, s) PROVE TagsKnown'
  <2>1. Known(s, NoTag)' /\ s \in Saves
    BY <1>2 DEF MySaves, TInv, TypeOK, Known, NoTag
  <2> QED BY <1>1, <1>2, <2>1 DEF NewDownload, serverVars, handlerVars
<1>3. ASSUME NEW s \in MySaves(c), NEW d \in Digests, NewUpload(c, s, d) PROVE TagsKnown'
  <2>1. Known(s, NoTag)' /\ s \in Saves
    BY <1>3 DEF MySaves, TInv, TypeOK, Known, NoTag
  <2> QED BY <1>1, <1>3, <2>1 DEF NewUpload, serverVars, handlerVars
<1>4. ASSUME NEW v \in versions, NewRestore(c, v) PROVE TagsKnown'
  <2>1. PICK w \in CurrentOf(v.save) : FreshTask(c, "restore", v.save, v.rev, NoDigest, TagOf(w))
    BY <1>4 DEF NewRestore
  <2>2. w \in versions /\ w.save = v.save /\ v.save \in Saves /\ TagOf(w) \in Tag
    BY TagOfType DEF CurrentOf, TInv, TypeOK, Version
  <2> DEFINE t == TagOf(w)
  <2>3. Known(v.save, t)
    BY <2>2, VersionKnown
  <2> HIDE DEF t
  <2>4. ASSUME NEW x, x = t PROVE Known(v.save, x)'
    BY <2>2, <2>3, <2>4, KnownStays DEF t
  <2> QED BY <1>1, <1>4, <2>1, <2>2, <2>4 DEF NewRestore, serverVars, handlerVars, t
<1>5. ASSUME NEW h \in Handlers, Send(c, h) PROVE TagsKnown'
  <2>1. /\ pc[h] = "idle" /\ task[c] # NoTask /\ pc'[h] \in {"lock", "read"} /\ job'[h].save = task[c].save
        /\ job'[h].seen = view[c][task[c].save] \/ job'[h].seen = task[c].seen
    BY <1>5 DEF Send, TInv, TypeOK
  <2>2. task[c].save \in Saves /\ task[c].seen \in Tag /\ view[c][task[c].save] \in Tag
    BY <2>1 DEF TInv, TypeOK, Task
  <2>3. Known(task[c].save, view[c][task[c].save])' /\ Known(task[c].save, task[c].seen)'
    BY <1>5, <2>1, <2>2, KnownStays DEF TagsKnown, TaskKnown, ViewKnown, Send
  <2>4. JobKnown(h)' /\ AnswerKnown(h)'
    BY <1>5, <2>1, <2>3 DEF JobKnown, AnswerKnown, Send
  <2>5. \A g \in Handlers \ {h} : pc'[g] = pc[g] /\ job'[g] = job[g] /\ answer'[g] = answer[g]
    BY <1>5 DEF Send, TInv, TypeOK
  <2>6. \A g \in Handlers \ {h} : /\ pc[g] = "idle" => JobKnown(g)'
                                  /\ pc[g] # "reply" => AnswerKnown(g)'
    BY <2>5 DEF JobKnown, AnswerKnown
  <2> QED BY <1>5, <2>4, <2>5, <2>6, FrameTags DEF Send, serverVars
<1>6. ASSUME TimeOut(c) PROVE TagsKnown'
  <2>1. \A e \in Clients : task'[e] = task[e] \/ TaskKnown(e)'
    BY <1>6 DEF TimeOut, TaskKnown, TInv, TypeOK
  <2>2. \A h \in Handlers : (pc[h] = "idle" => JobKnown(h)') /\ (pc[h] # "reply" => AnswerKnown(h)')
    BY <1>6 DEF JobKnown, AnswerKnown, TimeOut, handlerVars
  <2> QED BY <1>6, <2>1, <2>2, FrameTags DEF TimeOut, serverVars, handlerVars
<1> QED BY <1>2, <1>3, <1>4, <1>5, <1>6 DEF Phone

LEMMA FinishTags ==
  ASSUME TInv, TInv', SInv, TagsKnown, [Next]_vars, NEW h \in Handlers, Finish(h) PROVE TagsKnown'
<1> DEFINE a == answer[h]
           learned == [a.tag EXCEPT !.blob = IF a.kind = "ok" /\ job[h].op = "upload"
                                             THEN job[h].blob ELSE @]
<1>0. job[h].client \in Clients /\ job[h].save \in Saves /\ a.tag \in Tag /\ pc[h] = "reply"
  BY DEF Finish, TInv, TypeOK, JobsFit, Job, Answer
<1>1. PICK c \in Clients, s \in Saves, t \in Tag : c = job[h].client /\ s = job[h].save /\ t = a.tag
  BY <1>0
<1>2. learned = t /\ Known(s, t)
  <2>1. AnswerKnown(h)
    BY DEF TagsKnown
  <2>2. a.kind = "ok" /\ job[h].op = "upload" => job[h].blob = a.tag.blob
    BY <1>0, <2>1 DEF AnswerKnown
  <2>3. \A b : b = a.tag.blob => [a.tag EXCEPT !.blob = b] = a.tag
    BY <1>0 DEF Tag
  <2>4. (IF a.kind = "ok" /\ job[h].op = "upload" THEN job[h].blob ELSE a.tag.blob) = a.tag.blob
    BY <2>2
  <2>5. learned = a.tag /\ Known(job[h].save, a.tag)
    BY <1>0, <2>1, <2>3, <2>4 DEF AnswerKnown
  <2> HIDE DEF a, learned
  <2> QED BY <1>1, <2>5
<1>3. view' = view \/ view' = [view EXCEPT ![c][s] = t]
  <2>1. view' = view \/ view' = [view EXCEPT ![job[h].client][job[h].save] = learned]
    BY DEF Finish, phoneVars
  <2> HIDE DEF a, learned
  <2> QED BY <1>1, <1>2, <2>1
<1>4. \A e \in Clients, x \in Saves : view'[e][x] = view[e][x] \/ ViewKnown(e, x)'
  <2>1. Known(s, t)'
    BY <1>2, KnownStays
  <2>2. \A e \in Clients, x \in Saves : view'[e][x] = view[e][x] \/ (x = s /\ view'[e][x] = t)
    <3>1. view \in [Clients -> [Saves -> Tag]]
      BY DEF TInv, TypeOK
    <3>2. CASE view' = [view EXCEPT ![c][s] = t]
      <4>1. \A e \in Clients : view'[e] = IF e = c THEN [view[c] EXCEPT ![s] = t] ELSE view[e]
        BY <3>1, <3>2
      <4>2. \A e \in Clients : view[e] \in [Saves -> Tag]
        BY <3>1
      <4>3. ASSUME NEW x \in Saves
            PROVE  [view[c] EXCEPT ![s] = t][x] = IF x = s THEN t ELSE view[c][x]
        BY <4>2
      <4> QED BY <4>1, <4>3
    <3> QED BY <1>3, <3>2
  <2> QED BY <2>1, <2>2 DEF ViewKnown
<1>5. \A e \in Clients : task'[e] = task[e] \/ TaskKnown(e)'
  <2>1. \/ UNCHANGED task
        \/ task' = [task EXCEPT ![c] = NoTask]
        \/ FreshTask(c, "upload", s, 0, job[h].blob, NoTag)
    BY <1>0, <1>1 DEF Finish, phoneVars, TInv, TypeOK
  <2>2. CASE task' = [task EXCEPT ![c] = NoTask]
    BY <1>1, <2>2 DEF TaskKnown, TInv, TypeOK
  <2>3. CASE FreshTask(c, "upload", s, 0, job[h].blob, NoTag)
    <3>1. Known(s, NoTag)'
      BY DEF TInv, TypeOK, Known, NoTag
    <3>2. \A e \in Clients : task'[e] = task[e] \/ (task'[e].save = s /\ task'[e].seen = NoTag)
      BY <2>3 DEF FreshTask, TInv, TypeOK
    <3> QED BY <3>1, <3>2 DEF TaskKnown, NoTag
  <2> QED BY <2>1, <2>2, <2>3
<1>6. \A g \in Handlers : g # h => pc'[g] = pc[g] /\ job'[g] = job[g] /\ answer'[g] = answer[g]
  BY DEF Finish, TInv, TypeOK
<1>7. pc'[h] = "idle" /\ idem' = idem
  BY DEF Finish, TInv, TypeOK, serverVars
<1>8. \A g \in Handlers : g = h \/ pc[g] = "idle" => JobKnown(g)'
  BY <1>6, <1>7 DEF JobKnown
<1>9. \A g \in Handlers : g = h \/ pc[g] # "reply" => AnswerKnown(g)'
  BY <1>6, <1>7 DEF AnswerKnown
<1> QED BY <1>4, <1>5, <1>6, <1>7, <1>8, <1>9, FrameTags

\* A handler answers with a tag that is known.
LEMMA ReplyTags ==
  ASSUME TInv, TInv', SInv, TagsKnown, [Next]_vars, NEW h \in Handlers, pc[h] # "idle",
         NEW kind, NEW tag, Reply(h, kind, tag), NEW s, s = job[h].save, Known(s, tag)',
         kind = "ok" /\ job[h].op = "upload" => tag.blob = job[h].blob,
         UNCHANGED <<task, view>>, \A r \in idem' : r \in idem \/ RowKnown(r)'
  PROVE  TagsKnown'
<1>1. \A g \in Handlers : /\ job'[g] = job[g] /\ (g # h => pc'[g] = pc[g] /\ answer'[g] = answer[g])
                          /\ (g = h => answer'[g] = [kind |-> kind, tag |-> tag])
  BY DEF Reply, TInv, TypeOK
<1>2. \A g \in Handlers : pc[g] = "idle" => JobKnown(g)'
  BY <1>1 DEF JobKnown
<1>3. \A g \in Handlers : g = h \/ pc[g] # "reply" => AnswerKnown(g)'
  BY <1>1 DEF AnswerKnown, Reply
<1> QED BY <1>1, <1>2, <1>3, FrameTags

LEMMA CommitTags ==
  ASSUME TInv, TInv', SInv, TagsKnown, [Next]_vars, NEW h \in Handlers, Commit(h) PROVE TagsKnown'
<1>0. /\ pc[h] = "commit" /\ UNCHANGED <<task, view>>
      /\ job[h] \in Job /\ job[h].save \in Saves
  BY DEF Commit, CommitKnownKey, CommitUnchanged, CommitConflict, CommitRefused, CommitFails,
         CommitAborts, CommitAccept, Acceptable, Committing, StayingOut, phoneVars, TInv, JobsFit, Job
<1> PICK s \in Saves : s = job[h].save
  BY <1>0
<1>1. ASSUME NEW kind \in {"refused", "error", "conflict", "reused"}, Reply(h, kind, NoTag), UNCHANGED idem
      PROVE  TagsKnown'
  <2>1. Known(s, NoTag)'
    BY <1>0, <1>1 DEF Known, NoTag, TInv, TypeOK, Reply
  <2> QED BY <1>0, <1>1, <2>1, ReplyTags
<1>2. CASE CommitKnownKey(h)
  <2>1. PICK r \in ValidRows(h) :
          IF r.hash = HashOf(h) THEN Reply(h, "ok", r.tag) ELSE Reply(h, "reused", NoTag)
    BY <1>2 DEF CommitKnownKey
  <2>2. CASE r.hash = HashOf(h)
    <3>1. r \in idem /\ RowKnown(r) /\ r.tag \in Tag
      BY <2>1 DEF ValidRows, RowsOf, TagsKnown, TInv, TypeOK, IdemRow
    <3>2. r.hash.save = s /\ r.hash.op = job[h].op /\ (job[h].op = "upload" => r.hash.blob = job[h].blob)
      BY <2>2 DEF HashOf
    <3>3. Known(s, r.tag)'
      BY <3>1, <3>2, KnownStays DEF RowKnown
    <3> QED BY <1>0, <1>2, <2>1, <2>2, <3>1, <3>2, <3>3, ReplyTags DEF RowKnown, CommitKnownKey, RollBack
  <2> QED BY <1>1, <1>2, <2>1, <2>2 DEF CommitKnownKey, RollBack
\* A stored version answers the request.
<1>3. ASSUME NEW v \in CurrentOf(s), NEW kind, Reply(h, kind, TagOf(v)),
             kind = "ok" /\ job[h].op = "upload" => v.blob = job[h].blob,
             UNCHANGED <<versions, epoch>>, \A r \in idem' : r \in idem \/ RowKnown(r)'
      PROVE  TagsKnown'
  <2>1. v \in versions /\ v.save = s
    BY DEF CurrentOf
  <2>2. Known(s, TagOf(v))'
    BY <1>0, <1>3, <2>1 DEF Known, TagOf, VersionsOf, TInv, TypeOK, Version, Reply
  <2>3. TagOf(v).blob = v.blob
    BY DEF TagOf
  <2>4. ASSUME NEW t, t = TagOf(v) PROVE Known(s, t)'
    BY <1>0, <1>3, <2>1, <2>4 DEF Known, TagOf, VersionsOf, TInv, TypeOK, Version, Reply
  <2> QED BY <1>0, <1>3, <2>3, <2>4, ReplyTags
<1>4. CASE CommitUnchanged(h)
  <2>1. CASE UNCHANGED idem /\ Reply(h, "error", NoTag)
    BY <1>1, <2>1
  <2>2. ASSUME NEW v \in Unchanged(h), StoreIdempotency(h, TagOf(v)), Reply(h, "ok", TagOf(v)),
               UNCHANGED <<heads, versions, history>>
        PROVE  TagsKnown'
    <3>1. v \in CurrentOf(s) /\ v.blob = job[h].blob /\ v \in versions /\ v.save = s
      BY DEF Unchanged, CurrentOf
    <3>2. ASSUME NEW r \in idem', r \notin idem PROVE RowKnown(r)'
      <4>1. r.hash = HashOf(h) /\ r.tag = TagOf(v)
        BY <2>2, <3>2 DEF StoreIdempotency
      <4>2. r.hash.save = s /\ (r.hash.op = "upload" => r.hash.blob = job[h].blob) /\ r.tag.blob = v.blob
        BY <4>1 DEF HashOf, TagOf
      <4>3. Known(s, TagOf(v)) /\ TagOf(v) \in Tag
        BY <3>1, TagOfType, VersionKnown DEF TInv
      <4>4. PICK t \in Tag : t = TagOf(v)
        BY <4>3
      <4>5. Known(s, t)'
        BY <4>3, <4>4, KnownStays
      <4> QED BY <2>2, <3>1, <4>1, <4>2, <4>4, <4>5 DEF RowKnown, Reply
    <3> QED BY <1>3, <2>2, <3>1, <3>2 DEF history
  <2> QED BY <1>4, <2>1, <2>2 DEF CommitUnchanged, RollBack
<1>5. CASE CommitConflict(h)
  BY <1>1, <1>3, <1>5 DEF CommitConflict, RollBack, history
<1>6. CASE CommitAccept(h)
  <2> DEFINE tag == [rev |-> NextRevision(h), blob |-> job[h].blob, epoch |-> epoch[s]]
  <2>1. Reply(h, "ok", tag) /\ StoreIdempotency(h, tag) /\ epoch' = epoch
        /\ [save |-> s, rev |-> NextRevision(h), blob |-> job[h].blob, at |-> now, live |-> TRUE] \in versions'
    BY <1>6 DEF CommitAccept
  <2>2. tag.blob = job[h].blob /\ tag.rev = NextRevision(h) /\ tag.epoch = epoch[s]
    OBVIOUS
  <2>3. ASSUME NEW t, t = tag PROVE Known(s, t)'
    <3> DEFINE v == [save |-> s, rev |-> NextRevision(h), blob |-> job[h].blob, at |-> now, live |-> TRUE]
    <3>1. epoch[s] \in Nat /\ t.epoch = epoch[s] /\ epoch' = epoch
      BY <2>1, <2>3 DEF TInv, TypeOK
    <3>2. PICK w : w = v
      OBVIOUS
    <3>3. w \in versions' /\ w.save = s /\ t = [rev |-> w.rev, blob |-> w.blob, epoch |-> epoch[w.save]]
      BY <2>1, <2>3, <3>2
    <3>4. w \in VersionsOf({s})' /\ TagOf(w)' = t
      BY <3>1, <3>3 DEF VersionsOf, TagOf
    <3> QED BY <3>1, <3>4 DEF Known
  <2>4. ASSUME NEW r \in idem', r \notin idem PROVE RowKnown(r)'
    <3>1. r.hash = HashOf(h) /\ r.tag = tag
      BY <2>1, <2>4 DEF StoreIdempotency
    <3>2. r.hash.save = s /\ (r.hash.op = "upload" => r.hash.blob = job[h].blob)
      BY <3>1 DEF HashOf
    <3>3. Known(s, r.tag)'
      BY <2>3, <3>1 DEF Reply
    <3> HIDE DEF tag
    <3> QED BY <2>1, <2>2, <3>1, <3>2, <3>3 DEF RowKnown, Reply
  <2> HIDE DEF tag
  <2> QED BY <1>0, <2>1, <2>2, <2>3, <2>4, ReplyTags
<1> QED BY <1>1, <1>2, <1>4, <1>5, <1>6 DEF Commit, CommitRefused, CommitFails, CommitAborts, RollBack

\* The other steps of a handler: the upload's way to its commit, and the two halves of a read.
LEMMA HandleTags ==
  ASSUME TInv, TInv', SInv, Downloading, TagsKnown, [Next]_vars, NEW h \in Handlers, Handle(h)
  PROVE  TagsKnown'
<1>1. ASSUME pc[h] # "idle", pc[h] # "reply", pc'[h] # "reply", UNCHANGED <<task, view, answer, idem>>,
             job'[h].save = job[h].save, job'[h].seen = job[h].seen \/ JobKnown(h)',
             \A g \in Handlers \ {h} : pc'[g] = pc[g] /\ job'[g] = job[g]
      PROVE  TagsKnown'
  <2>1. \A g \in Handlers : pc[g] = "idle" => JobKnown(g)'
    BY <1>1 DEF JobKnown
  <2>2. \A g \in Handlers : pc[g] # "reply" => AnswerKnown(g)'
    BY <1>1 DEF AnswerKnown
  <2>3. \A g \in Handlers : pc[g] = "reply" => job'[g] = job[g] /\ answer'[g] = answer[g]
    BY <1>1
  <2>4. \A g \in Handlers : pc[g] # "idle" =>
          \/ job'[g].save = job[g].save /\ job'[g].seen = job[g].seen
          \/ JobKnown(g)'
    BY <1>1
  <2> QED BY <1>1, <2>1, <2>2, <2>3, <2>4, FrameTags
<1>2. ASSUME pc[h] # "idle" PROVE job[h] \in Job /\ job[h].save \in Saves /\ job[h].seen \in Tag
  BY <1>2 DEF TInv, JobsFit, Job
<1>3. ASSUME pc[h] # "idle", NEW kind \in {"error", "missing"}, Reply(h, kind, NoTag),
             UNCHANGED <<task, view, idem>>
      PROVE  TagsKnown'
  <2>1. PICK s \in Saves : s = job[h].save
    BY <1>2, <1>3
  <2>2. Known(s, NoTag)'
    BY DEF Known, NoTag, TInv, TypeOK
  <2> QED BY <1>3, <2>1, <2>2, ReplyTags
<1>4. CASE UploadLock(h)
  BY <1>1, <1>4 DEF UploadLock, StayingOut, phoneVars, TInv, TypeOK
<1>5. CASE UploadPut(h)
  <2>1. UNCHANGED <<task, view, idem>> /\ pc[h] = "put"
    BY <1>5 DEF UploadPut, StayingOut, phoneVars
  <2>2. CASE pc' = [pc EXCEPT ![h] = "commit"] /\ UNCHANGED <<job, answer, locks>>
    BY <1>1, <2>1, <2>2 DEF TInv, TypeOK
  <2> QED BY <1>3, <1>5, <2>1, <2>2 DEF UploadPut
<1>6. CASE ReadContent(h)
  <2>1. UNCHANGED <<task, view, idem, versions, epoch>> /\ pc[h] = "read"
    BY <1>6 DEF ReadContent, StayingOut, RollBack, phoneVars, history
  <2>2. ASSUME NEW v \in VersionsOf({job[h].save}), UNCHANGED answer,
               job' = [job EXCEPT ![h].blob = v.blob, ![h].seen = IF @.rev = 0 THEN TagOf(v) ELSE @],
               pc' = [pc EXCEPT ![h] = IF job[h].op = "restore" THEN "commit" ELSE "open"]
        PROVE  TagsKnown'
    <3> PICK s \in Saves : s = job[h].save
      BY <1>2, <2>1
    <3>1. v \in versions /\ v.save = s
      BY <2>2 DEF VersionsOf
    <3>2. Known(s, TagOf(v)) /\ TagOf(v) \in Tag
      BY <3>1, TagOfType, VersionKnown DEF TInv
    <3>3. PICK t \in Tag : t = TagOf(v)
      BY <3>2
    <3>4. Known(s, t)'
      BY <3>2, <3>3, KnownStays
    <3> DEFINE j == [job[h] EXCEPT !.blob = v.blob, !.seen = IF @.rev = 0 THEN TagOf(v) ELSE @]
    <3>5. job'[h] = j
      BY <1>2, <2>1, <2>2 DEF Job, TInv, TypeOK
    <3>6. j.save = s /\ (j.seen = job[h].seen \/ j.seen = t)
      BY <1>2, <2>1, <3>3 DEF Job
    <3> HIDE DEF j
    <3>7. job'[h].save = s /\ (job'[h].seen = job[h].seen \/ job'[h].seen = t)
      BY <3>5, <3>6
    <3>8. job'[h].seen = job[h].seen \/ JobKnown(h)'
      BY <3>4, <3>7 DEF JobKnown
    <3>9. \A g \in Handlers \ {h} : pc'[g] = pc[g] /\ job'[g] = job[g]
      BY <2>2 DEF TInv, TypeOK
    <3>10. pc'[h] # "reply"
      BY <2>2 DEF TInv, TypeOK
    <3> QED BY <1>1, <2>1, <2>2, <3>7, <3>8, <3>9, <3>10
  <2> QED BY <1>3, <1>6, <2>1, <2>2 DEF ReadContent
<1>7. CASE OpenBlob(h)
  <2>1. UNCHANGED <<task, view, idem>> /\ pc[h] = "open" /\ job[h].op # "upload"
    BY <1>7 DEF OpenBlob, StayingOut, RollBack, phoneVars, Downloading
  <2>2. PICK s \in Saves, t \in Tag : s = job[h].save /\ t = job[h].seen
    BY <1>2, <2>1
  <2>3. Known(s, t)'
    BY <2>1, <2>2, KnownStays DEF TagsKnown, JobKnown
  <2>4. CASE Reply(h, "ok", t)
    BY <2>1, <2>2, <2>3, <2>4, ReplyTags
  <2> QED BY <1>3, <1>7, <2>1, <2>2, <2>4 DEF OpenBlob
<1> QED BY <1>4, <1>5, <1>6, <1>7, CommitTags, FinishTags DEF Handle

LEMMA TagsNext ==
  ASSUME TInv, TInv', SInv, Downloading, TagsKnown, [Next]_vars PROVE TagsKnown'
<1>1. ASSUME UNCHANGED <<task, view, pc, job, answer>>, idem' \subseteq idem PROVE TagsKnown'
  <2>1. \A h \in Handlers : pc[h] = "idle" => JobKnown(h)'
    BY <1>1 DEF JobKnown
  <2>2. \A h \in Handlers : pc[h] # "reply" => AnswerKnown(h)'
    BY <1>1 DEF AnswerKnown
  <2> QED BY <1>1, <2>1, <2>2, FrameTags
<1>2. CASE UserDelete \/ Maintain \/ Tick \/ UNCHANGED vars
  <2>1. UNCHANGED <<task, view, pc, job, answer>>
    BY <1>2 DEF UserDelete, DeleteHead, DeleteROM, DeleteHeads, RequestDeletion, Maintain,
                ProcessDeletion, PurgeDeletedHeads, PruneHistory, DeleteExpiredIdempotency, Collect,
                GcScan, GcLock, GcRecheck, GcUnlink, GcFails, GcForget, GcQuiet, Tick, Inside,
                vars, handlerVars, phoneVars
  <2>2. idem' \subseteq idem
    BY <1>2 DEF UserDelete, DeleteHead, DeleteROM, DeleteHeads, RequestDeletion, Maintain,
                ProcessDeletion, PurgeDeletedHeads, PruneHistory, DeleteExpiredIdempotency, Collect,
                GcScan, GcLock, GcRecheck, GcUnlink, GcFails, GcForget, GcQuiet, Tick, Inside,
                vars, serverVars
  <2> QED BY <1>1, <2>1, <2>2
<1>3. CASE Crash
  <2>1. \A h \in Handlers : pc'[h] = "idle"
    BY <1>3 DEF Crash
  <2>2. \A h \in Handlers : JobKnown(h)' /\ AnswerKnown(h)'
    BY <2>1 DEF JobKnown, AnswerKnown
  <2> QED BY <1>3, <2>2, FrameTags DEF Crash, phoneVars
<1> QED BY <1>2, <1>3, PhoneTags, HandleTags DEF Next

------------------------------------------------------------------------------

\* PInv is inductive relative to TInv and SInv.
LEMMA NextPromises == TInv /\ TInv' /\ SInv /\ PInv /\ [Next]_vars => PInv'
BY OwnedNext, OpeningNext, KeysNext, TagsNext, DeletedNext DEF PInv

THEOREM Promises == Spec => [](TInv /\ SInv /\ PInv)
BY InitType, InitSafe, InitPromises, NextType, NextSafe, NextPromises, PTL DEF Spec

\* What a phone was told is stored is a row with that content, unless the head has been
\* removed since: through timeouts, crashes, pruning, purges and deletions.
THEOREM AcksStored == Spec => []AckedIsStored
<1>1. PInv => AckedIsStored
  BY DEF PInv, TagsKnown, ViewKnown, Known, AckedIsStored
<1> QED BY <1>1, Promises, PTL

\* Nothing of a deleted account is left, whatever request was in flight when it went.
THEOREM DeletionFinal == Spec => []DeletedAccountEmpty
<1>1. PInv => DeletedAccountEmpty
  BY DEF PInv
<1> QED BY <1>1, Promises, PTL

\* A key creates one version, and a second one only after its row has expired, however
\* often the request is sent again.
THEOREM RetriesOnce == Spec => ExactlyOnce
<1>1. ASSUME TInv, PInv, [Next]_vars, NEW k \in Keys, made'[k].n # made[k].n
      PROVE  made[k].n = 0 \/ made[k].at + IdemTTL <= now
  <2>1. PICK h \in Handlers : CommitAccept(h)
    BY <1>1, MadeSteps
  <2>2. k = job[h].key
    BY <1>1, <2>1 DEF CommitAccept, TInv, TypeOK
  <2>3. RowsOf(k) = {} /\ users[ClientUser[k[1]]] = "active"
    BY <1>1, <2>1, <2>2, NewRows DEF PInv
  <2>4. made[k].n \in Nat
    BY <1>1 DEF TInv, TypeOK
  <2> QED BY <1>1, <2>3, <2>4 DEF PInv, KeysRemembered
<1>2. TInv /\ PInv /\ [Next]_vars =>
        [\A k \in Keys : made'[k].n # made[k].n => made[k].n = 0 \/ made[k].at + IdemTTL <= now]_vars
  BY <1>1
<1> QED BY <1>2, Promises, PTL DEF Spec, ExactlyOnce

LEMMA CommitSteps ==
  ASSUME TInv, [Next]_vars, NEW h \in Handlers, pc[h] = "commit", pc'[h] = "reply" PROVE Commit(h)
<1>1. ASSUME NEW g \in Handlers, Handle(g) PROVE g = h /\ Commit(g)
  <2>1. CASE g = h
    BY <1>1, <2>1 DEF Handle, UploadLock, UploadPut, ReadContent, OpenBlob, Finish
  <2>2. CASE g # h
    BY <1>1, <2>2 DEF Handle, UploadLock, UploadPut, ReadContent, OpenBlob, Finish, Commit,
                      CommitKnownKey, CommitUnchanged, CommitConflict, CommitRefused, CommitFails,
                      CommitAborts, CommitAccept, Reply, TInv, TypeOK
  <2> QED BY <2>1, <2>2
<1>2. ASSUME NEW c \in Clients, Phone(c) PROVE FALSE
  BY <1>2 DEF Phone, NewUpload, NewRestore, NewDownload, Send, TimeOut, handlerVars, TInv, TypeOK
<1>3. ASSUME UserDelete \/ Maintain \/ Tick \/ UNCHANGED vars PROVE UNCHANGED pc
  BY <1>3 DEF UserDelete, DeleteHead, DeleteROM, DeleteHeads, RequestDeletion, Maintain,
              ProcessDeletion, PurgeDeletedHeads, PruneHistory, DeleteExpiredIdempotency, Collect,
              GcScan, GcLock, GcRecheck, GcUnlink, GcFails, GcForget, GcQuiet, Tick, Inside,
              vars, handlerVars
<1>4. ~Crash
  BY DEF Crash
<1> QED BY <1>1, <1>2, <1>3, <1>4 DEF Next

\* A commit replaces a visible save only if its phone had seen the content it replaces.
THEOREM NothingOverwritten == Spec => NoSilentOverwrite
<1>1. ASSUME TInv, SInv, PInv, [Next]_vars, NEW h \in Handlers, Overwrites(h),
             NEW v \in CurrentOf(job[h].save), job[h].seen.epoch = epoch[job[h].save]
      PROVE  job[h].seen = TagOf(v)
  <2>1. CommitAccept(h)
    BY <1>1, CommitSteps
       DEF Overwrites, Commit, CommitKnownKey, CommitUnchanged, CommitConflict, CommitRefused,
           CommitFails, CommitAborts, RollBack
  <2>2. v \in versions /\ v.save = job[h].save /\ v.rev = job[h].seen.rev /\ v.rev > 0
    BY <1>1, <2>1 DEF CommitAccept, Acceptable, OnBase, Creating, Overwrites, CurrentOf, Visible
  <2>3. Known(job[h].save, job[h].seen)
    BY <1>1 DEF PInv, TagsKnown, JobKnown, Overwrites
  <2>4. PICK w \in VersionsOf({job[h].save}) : TagOf(w) = job[h].seen
    BY <1>1, <2>2, <2>3 DEF Known
  <2>5. w \in versions /\ w.save = v.save /\ w.rev = v.rev
    BY <2>2, <2>4 DEF VersionsOf, TagOf
  <2>6. w = v
    BY <1>1, <2>2, <2>5 DEF SInv, HeadCurrent
  <2> QED BY <2>4, <2>6
<1>2. TInv /\ SInv /\ PInv /\ [Next]_vars =>
        [\A h \in Handlers : Overwrites(h) =>
           \A v \in CurrentOf(job[h].save) :
             job[h].seen.epoch = epoch[job[h].save] => job[h].seen = TagOf(v)]_vars
  BY <1>1
<1> QED BY <1>2, Promises, PTL DEF Spec, NoSilentOverwrite
=============================================================================
