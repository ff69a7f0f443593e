------------------------------ MODULE SaveStore ------------------------------
(***************************************************************************)
(* The cloud-save server of minigba-api: save heads and their versions,    *)
(* the content-addressed blobs behind them (a row in PostgreSQL and a file *)
(* on disk), idempotency keys, and the maintenance loop that prunes,       *)
(* purges and collects.  Each HTTP request is a handler that runs in       *)
(* steps; a database transaction is one step.  The phones that send the    *)
(* requests are modelled as far as the server's promises depend on them:   *)
(* one pending task per phone, retried with the same idempotency key.      *)
(*                                                                         *)
(* Abstractions.  Every content counts one unit of quota.  Time is a       *)
(* number of ticks; a tick never passes while a handler runs, because the  *)
(* HTTP timeouts (70 s) are far below the shortest lifetime (24 h).        *)
(***************************************************************************)
EXTENDS Integers, FiniteSets

CONSTANTS
  Users,        \* accounts
  Clients,      \* phones
  ClientUser,   \* [Clients -> Users]
  KnownDevices, \* phones whose X-Device-ID is the id of a row of devices
  Saves,        \* (user, rom, kind, slot) keys
  Owner,        \* [Saves -> Users]
  Rom,          \* [Saves -> the ROM of the save]
  Keep,         \* [Saves -> newest versions PruneHistory keeps]
  Age,          \* [Saves -> ticks before an old version may be pruned]
  Digests,      \* SHA-256 digests of contents
  Handlers,     \* requests the server works on at once
  Quota,        \* contents a user may store
  IdemTTL,      \* lifetime of an idempotency row (24 hours)
  HeadGrace,    \* ticks a deleted head is kept (7 days)
  BlobGrace,    \* ticks an unreferenced blob is kept (7 days)
  DueLimit,     \* digests one pass of the collector reads (100)
  Traffic,      \* bound: what the environment does (a subset of AllTraffic)
  MaxTasks,     \* bound: idempotency keys a phone uses
  MaxTime,      \* bound: last tick
  NoDigest, NoHandler, NoTask, Gc

AllTraffic == {"upload", "restore", "download", "timeout", "delete", "account", "crash", "iofail"}

ASSUME SaveStoreAssumption ==
  /\ Traffic \subseteq AllTraffic
  /\ ClientUser \in [Clients -> Users] /\ KnownDevices \subseteq Clients
  /\ Owner \in [Saves -> Users] /\ Keep \in [Saves -> Nat] /\ Age \in [Saves -> Nat]
  /\ Quota \in Nat /\ DueLimit \in Nat \ {0}
  /\ IdemTTL \in Nat /\ HeadGrace \in Nat /\ BlobGrace \in Nat \ {0}
  /\ MaxTasks \in Nat /\ MaxTime \in Nat
  /\ IsFiniteSet(Digests) /\ NoDigest \notin Digests
  /\ NoHandler \notin Handlers \cup {Gc} /\ Gc \notin Handlers

VARIABLES
  users,      \* users.status
  heads,      \* save_heads: current_revision and deleted_at
  versions,   \* save_versions, live meaning deleted_at IS NULL
  blobs,      \* blobs: reference_count and delete_after
  idem,       \* idempotency_keys
  files,      \* digests that have a file under the blob root
  locks,      \* FSStore.locks: the holder of each digest's mutex
  pc, job, answer,          \* what each handler does, for whom, with what result
  gcPhase, gcDue, gcDigest, \* the collector at the end of maintenanceLoop
  task, waits, issued,      \* each phone's pending task, request and key counter
  view,       \* the cloud revision each phone believes is current
  now,        \* now() of the database
  epoch,      \* history: how often a save's head row has been removed
  made        \* history: how many versions each key has created, and when last

serverVars == <<users, heads, versions, blobs, idem, files, locks>>
handlerVars == <<pc, job, answer>>
gcVars == <<gcPhase, gcDue, gcDigest>>
history == <<epoch, made>>
phoneVars == <<task, waits, issued, view>>
vars == <<serverVars, handlerVars, gcVars, phoneVars, now, history>>

Never == -1
Time == 0 .. MaxTime + IdemTTL + HeadGrace + BlobGrace
Keys == Clients \X (1 .. MaxTasks)
Tag == [rev : Nat, blob : Digests \cup {NoDigest}, epoch : Nat]
NoTag == [rev |-> 0, blob |-> NoDigest, epoch |-> 0]
NoHead == [rev |-> 0, deletedAt |-> Never]
NoRow == [refs |-> 0, due |-> Never]
Ops == {"upload", "restore", "download"}
Task == [op : Ops, save : Saves, src : Nat, blob : Digests \cup {NoDigest},
         key : Keys, seen : Tag]
Job == [client : Clients, op : Ops, save : Saves, src : Nat,
        blob : Digests \cup {NoDigest}, key : Keys, seen : Tag]
Version == [save : Saves, rev : Nat, blob : Digests, at : Time, live : BOOLEAN]
Hash == [op : Ops, save : Saves, base : Nat, src : Nat, blob : Digests \cup {NoDigest}]
IdemRow == [key : Keys, hash : Hash, tag : Tag, expires : Time]
Answer == [kind : {"none", "ok", "conflict", "reused", "refused", "missing", "error"},
           tag : Tag]
NoAnswer == [kind |-> "none", tag |-> NoTag]

------------------------------------------------------------------------------
(* The tables. *)

Deleted(s) == heads[s].deletedAt # Never
Visible(s) == heads[s].rev > 0 /\ ~Deleted(s)
VersionsOf(S) == {v \in versions : v.save \in S}
CurrentOf(s) == {v \in versions : Visible(s) /\ v.save = s /\ v.rev = heads[s].rev}
TagOf(v) == [rev |-> v.rev, blob |-> v.blob, epoch |-> epoch[v.save]]
LiveRefs(d) == {v \in versions : v.live /\ v.blob = d}
Used(u) == Cardinality({v \in versions : v.live /\ Owner[v.save] = u})
Due(d) == blobs[d].refs = 0 /\ blobs[d].due # Never /\ blobs[d].due <= now

\* Mutants of Released: no grace period; one reference per digest however many
\* versions go; rows already pruned counted again without a floor.
ReleasedNowM(S) ==
  [d \in Digests |->
     LET n == Cardinality({v \in S : v.live /\ v.blob = d}) IN
     IF n = 0 THEN blobs[d]
     ELSE [refs |-> IF blobs[d].refs > n THEN blobs[d].refs - n ELSE 0,
           due |-> IF blobs[d].refs <= n THEN now ELSE blobs[d].due]]
ReleasedOnceM(S) ==
  [d \in Digests |->
     LET n == IF \E v \in S : v.live /\ v.blob = d THEN 1 ELSE 0 IN
     IF n = 0 THEN blobs[d]
     ELSE [refs |-> IF blobs[d].refs > n THEN blobs[d].refs - n ELSE 0,
           due |-> IF blobs[d].refs <= n THEN now + BlobGrace ELSE blobs[d].due]]
ReleasedSignedM(S) ==
  [d \in Digests |->
     LET n == Cardinality({v \in S : v.blob = d}) IN
     IF n = 0 THEN blobs[d]
     ELSE [refs |-> blobs[d].refs - n,
           due |-> IF blobs[d].refs <= n THEN now + BlobGrace ELSE blobs[d].due]]

\* reference_count drops by what S held; at zero the grace period starts.
Released(S) ==
  [d \in Digests |->
     LET n == Cardinality({v \in S : v.live /\ v.blob = d}) IN
     IF n = 0 THEN blobs[d]
     ELSE [refs |-> IF blobs[d].refs > n THEN blobs[d].refs - n ELSE 0,
           due |-> IF blobs[d].refs <= n THEN now + BlobGrace ELSE blobs[d].due]]

Init ==
  /\ users = [u \in Users |-> "active"]
  /\ heads = [s \in Saves |-> NoHead]
  /\ versions = {}
  /\ blobs = [d \in Digests |-> NoRow]
  /\ idem = {}
  /\ files = {}
  /\ locks = [d \in Digests |-> NoHandler]
  /\ pc = [h \in Handlers |-> "idle"]
  /\ job = [h \in Handlers |-> NoTask]
  /\ answer = [h \in Handlers |-> NoAnswer]
  /\ gcPhase = "idle" /\ gcDue = {} /\ gcDigest = NoDigest
  /\ task = [c \in Clients |-> NoTask]
  /\ waits = [c \in Clients |-> NoHandler]
  /\ issued = [c \in Clients |-> 0]
  /\ view = [c \in Clients |-> [s \in Saves |-> NoTag]]
  /\ now = 0
  /\ epoch = [s \in Saves |-> 0]
  /\ made = [k \in Keys |-> [n |-> 0, at |-> Never]]

------------------------------------------------------------------------------
(* The phones. *)

MySaves(c) == {s \in Saves : Owner[s] = ClientUser[c]}
FreshTask(c, op, s, src, d, seen) ==
  /\ issued[c] < MaxTasks
  /\ issued' = [issued EXCEPT ![c] = @ + 1]
  /\ task' = [task EXCEPT ![c] = [op |-> op, save |-> s, src |-> src, blob |-> d,
                                  key |-> <<c, issued[c] + 1>>, seen |-> seen]]

\* A new local save is queued; it takes the place of an older one of its key.
NewUpload(c, s, d) ==
  /\ task[c] # NoTask => task[c].op = "upload" /\ task[c].save = s
  /\ FreshTask(c, "upload", s, 0, d, NoTag)
  /\ UNCHANGED <<serverVars, handlerVars, gcVars, waits, view, now, history>>

\* ListVersions: what the history page shows.
Listed(c) == {v \in VersionsOf(MySaves(c)) : v.live /\ Visible(v.save)}

\* The user picks version v from the list; the base is the current head.
NewRestore(c, v) ==
  /\ task[c] = NoTask
  /\ v \in Listed(c)
  /\ \E w \in CurrentOf(v.save) : FreshTask(c, "restore", v.save, v.rev, NoDigest, TagOf(w))
  /\ UNCHANGED <<serverVars, handlerVars, gcVars, waits, view, now, history>>

NewDownload(c, s) ==
  /\ task[c] = NoTask
  /\ FreshTask(c, "download", s, 0, NoDigest, NoTag)
  /\ UNCHANGED <<serverVars, handlerVars, gcVars, waits, view, now, history>>

\* A request passes authenticate: its session counts only while the user is active.
Admitted(c) == users[ClientUser[c]] = "active"

\* The phone sends its task; If-Match is the revision it holds at that moment.
Send(c, h) ==
  /\ task[c] # NoTask /\ waits[c] = NoHandler /\ pc[h] = "idle"
  /\ Admitted(c)
  /\ LET t == task[c]
         seen == IF t.op = "upload" THEN view[c][t.save] ELSE t.seen IN
       job' = [job EXCEPT ![h] = [client |-> c, op |-> t.op, save |-> t.save, src |-> t.src,
                                  blob |-> t.blob, key |-> t.key, seen |-> seen]]
  /\ pc' = [pc EXCEPT ![h] = IF task[c].op = "upload" THEN "lock" ELSE "read"]
  /\ waits' = [waits EXCEPT ![c] = h]
  /\ UNCHANGED <<serverVars, gcVars, answer, task, issued, view, now, history>>

\* The request fails on the phone (timeout, lost reply).  An upload stays queued
\* and is sent again with the same key; a restore or a download is given up.
TimeOut(c) ==
  /\ waits[c] # NoHandler
  /\ waits' = [waits EXCEPT ![c] = NoHandler]
  /\ task' = [task EXCEPT ![c] = IF @ # NoTask /\ @.op # "upload" THEN NoTask ELSE @]
  /\ UNCHANGED <<serverVars, handlerVars, gcVars, issued, view, now, history>>

\* The handler's answer arrives, or nobody waits for it any more.  After an upload the
\* phone takes the revision of the answer for the revision of its own content.
Finish(h) ==
  /\ pc[h] = "reply"
  /\ pc' = [pc EXCEPT ![h] = "idle"]
  /\ job' = [job EXCEPT ![h] = NoTask]
  /\ answer' = [answer EXCEPT ![h] = NoAnswer]
  /\ LET c == job[h].client
         s == job[h].save
         mine == task[c] # NoTask /\ task[c].key = job[h].key
         a == answer[h]
         Keeping == task' = task /\ issued' = issued
         Dropping == /\ task' = [task EXCEPT ![c] = IF mine THEN NoTask ELSE @]
                     /\ issued' = issued
         Adopting == view' = [view EXCEPT ![c][s] =
                       [a.tag EXCEPT !.blob = IF a.kind = "ok" /\ job[h].op = "upload"
                                              THEN job[h].blob ELSE @]]
     IN IF waits[c] # h THEN UNCHANGED phoneVars
        ELSE /\ waits' = [waits EXCEPT ![c] = NoHandler]
             /\ \/ a.kind = "ok" /\ Adopting /\ Dropping
                \/ a.kind # "ok" /\ job[h].op # "upload" /\ Dropping /\ view' = view
                \/ a.kind # "ok" /\ job[h].op = "upload" /\ Keeping /\ view' = view
                \* Conflict resolved: use the cloud's content, or keep the local one
                \* as a new upload on top of it.
                \/ /\ a.kind = "conflict" /\ job[h].op = "upload" /\ a.tag.rev > 0 /\ mine
                   /\ Adopting
                   /\ \/ Dropping
                      \/ FreshTask(c, "upload", s, 0, job[h].blob, NoTag)
  /\ UNCHANGED <<serverVars, gcVars, now, history>>

------------------------------------------------------------------------------
(* Handlers: save.Service and database.Store. *)

\* The deferred unlock of Upload: the mutex is free before the answer is on its way.
Unlocked(h) == [d \in Digests |-> IF locks[d] = h THEN NoHandler ELSE locks[d]]
Reply(h, kind, tag) ==
  /\ locks' = Unlocked(h)
  /\ pc' = [pc EXCEPT ![h] = "reply"]
  /\ answer' = [answer EXCEPT ![h] = [kind |-> kind, tag |-> tag]]
  /\ job' = job
StayingOut == UNCHANGED <<gcVars, phoneVars, now>>
RollBack == UNCHANGED <<users, heads, versions, blobs, idem, files, history>>

\* LockDigest: a mutex per digest, held until the upload returns.
UploadUnlockedM(h) ==
  /\ pc[h] = "lock"
  /\ pc' = [pc EXCEPT ![h] = "put"]
  /\ UNCHANGED <<serverVars, job, answer, history>> /\ StayingOut
UploadLock(h) ==
  /\ pc[h] = "lock"
  /\ locks[job[h].blob] = NoHandler
  /\ locks' = [locks EXCEPT ![job[h].blob] = h]
  /\ pc' = [pc EXCEPT ![h] = "put"]
  /\ UNCHANGED <<users, heads, versions, blobs, idem, files, job, answer, history>>
  /\ StayingOut

\* What may fail: the disk or the database, and every step of a request whose phone
\* has gone (its context is cancelled).
MayFail(h) == "iofail" \in Traffic \/ waits[job[h].client] # h

\* blobs.Put links the file into place (an existing one is reused).  It may fail before
\* that or, syncing the directory, after it.
UploadPut(h) ==
  /\ pc[h] = "put"
  /\ \/ /\ files' = files \cup {job[h].blob}
        /\ pc' = [pc EXCEPT ![h] = "commit"] /\ UNCHANGED <<job, answer, locks>>
     \/ MayFail(h) /\ files' \in {files, files \cup {job[h].blob}} /\ Reply(h, "error", NoTag)
  /\ UNCHANGED <<users, heads, versions, blobs, idem, history>> /\ StayingOut

\* GetContent, outside any transaction: the first half of a restore or a download.
ReadContent(h) ==
  /\ pc[h] = "read"
  /\ LET s == job[h].save
         found == {v \in VersionsOf({s}) : v.live /\ Visible(s)
                     /\ v.rev = IF job[h].src = 0 THEN heads[s].rev ELSE job[h].src} IN
     \/ \E v \in found :
          /\ job' = [job EXCEPT ![h].blob = v.blob,
                                ![h].seen = IF @.rev = 0 THEN TagOf(v) ELSE @]
          /\ pc' = [pc EXCEPT ![h] = IF job[h].op = "restore" THEN "commit" ELSE "open"]
          /\ UNCHANGED <<answer, locks>>
     \/ found = {} /\ Reply(h, "missing", NoTag)
  /\ RollBack /\ StayingOut

\* OpenBlob: the second half of a download.
OpenBlob(h) ==
  /\ pc[h] = "open"
  /\ IF job[h].blob \in files THEN Reply(h, "ok", job[h].seen) ELSE Reply(h, "error", NoTag)
  /\ RollBack /\ StayingOut

HashOf(h) == [op |-> job[h].op, save |-> job[h].save, base |-> job[h].seen.rev,
              src |-> job[h].src,
              blob |-> IF job[h].op = "upload" THEN job[h].blob ELSE NoDigest]
RowsOf(k) == {r \in idem : r.key = k}
ValidRows(h) == {r \in RowsOf(job[h].key) : r.expires > now}
Committing(h) == pc[h] = "commit"

\* The key was used before and its row is still valid.
CommitKnownKey(h) ==
  /\ Committing(h)
  /\ \E r \in ValidRows(h) :
       IF r.hash = HashOf(h) THEN Reply(h, "ok", r.tag) ELSE Reply(h, "reused", NoTag)
  /\ RollBack /\ StayingOut

StoreIdempotencyM(h, tag) == RowsOf(job[h].key) = {} /\ idem' = idem
\* storeIdempotency: a plain INSERT, refused while any row of the key is there.
StoreIdempotency(h, tag) ==
  /\ RowsOf(job[h].key) = {}
  /\ idem' = idem \cup {[key |-> job[h].key, hash |-> HashOf(h), tag |-> tag,
                         expires |-> now + IdemTTL]}
KeyClash(h) == RowsOf(job[h].key) # {}

NoBaseM(h) == Visible(job[h].save)
OnBase(h) == Visible(job[h].save) /\ heads[job[h].save].rev = job[h].seen.rev
CreatingM(h) == job[h].seen.rev = 0
Creating(h) == ~Visible(job[h].save) /\ job[h].seen.rev = 0
UnchangedM(h) == {v \in CurrentOf(job[h].save) : v.rev # job[h].seen.rev}
Unchanged(h) == {v \in CurrentOf(job[h].save) : v.rev # job[h].seen.rev /\ v.blob = job[h].blob}

\* Another revision is current, but it holds the same content.
CommitUnchanged(h) ==
  /\ Committing(h) /\ ValidRows(h) = {}
  /\ \E v \in Unchanged(h) :
       \/ /\ StoreIdempotency(h, TagOf(v)) /\ Reply(h, "ok", TagOf(v))
          /\ UNCHANGED <<users, heads, versions, blobs, files, history>>
       \/ KeyClash(h) /\ Reply(h, "error", NoTag) /\ RollBack
  /\ StayingOut

\* The base is not the current revision: 409 with the current head, if there is one.
CommitConflict(h) ==
  /\ Committing(h) /\ ValidRows(h) = {} /\ Unchanged(h) = {}
  /\ ~OnBase(h) /\ ~Creating(h)
  /\ \/ \E v \in CurrentOf(job[h].save) : Reply(h, "conflict", TagOf(v))
     \/ ~Visible(job[h].save) /\ Reply(h, "conflict", NoTag)
  /\ RollBack /\ StayingOut

Acceptable(h) == Committing(h) /\ ValidRows(h) = {} /\ (OnBase(h) \/ Creating(h))
OwnerActiveM(h) == TRUE
OwnerActive(h) == users[Owner[job[h].save]] = "active"
WithinQuota(h) == Used(Owner[job[h].save]) < Quota

\* The account is going, or the quota is used up.
CommitRefused(h) ==
  /\ Acceptable(h) /\ ~(OwnerActive(h) /\ WithinQuota(h))
  /\ Reply(h, "refused", NoTag) /\ RollBack /\ StayingOut

\* device_id is no row of devices, or an expired idempotency row is in the way: the
\* transaction fails and the handler answers 500.
CommitFails(h) ==
  /\ Acceptable(h) /\ OwnerActive(h) /\ WithinQuota(h)
  /\ job[h].client \notin KnownDevices \/ KeyClash(h)
  /\ Reply(h, "error", NoTag) /\ RollBack /\ StayingOut

\* The transaction is lost with its connection or its request, and rolled back.
CommitAborts(h) ==
  /\ Committing(h) /\ MayFail(h)
  /\ Reply(h, "error", NoTag) /\ RollBack /\ StayingOut

NextRevisionM(h) == job[h].seen.rev + 1
NextRevision(h) == heads[job[h].save].rev + 1

\* A new version on top of the base (or on a deleted or absent head).
CommitAccept(h) ==
  /\ Acceptable(h) /\ OwnerActive(h) /\ WithinQuota(h)
  /\ job[h].client \in KnownDevices
  /\ LET s == job[h].save
         d == job[h].blob
         n == NextRevision(h)
         tag == [rev |-> n, blob |-> d, epoch |-> epoch[s]] IN
     /\ StoreIdempotency(h, tag)
     /\ blobs' = [blobs EXCEPT ![d] = [refs |-> @.refs + 1, due |-> Never]]
     /\ versions' = versions \cup
          {[save |-> s, rev |-> n, blob |-> d, at |-> now, live |-> TRUE]}
     /\ heads' = [heads EXCEPT ![s] = [rev |-> n, deletedAt |-> Never]]
     /\ Reply(h, "ok", tag)
  /\ made' = [made EXCEPT ![job[h].key] = [n |-> @.n + 1, at |-> now]]
  /\ UNCHANGED <<users, files, epoch>> /\ StayingOut

Commit(h) == \/ CommitKnownKey(h) \/ CommitUnchanged(h) \/ CommitConflict(h)
             \/ CommitRefused(h) \/ CommitFails(h) \/ CommitAborts(h) \/ CommitAccept(h)

------------------------------------------------------------------------------
(* Deletions asked for by the user: one transaction each. *)

Inside == UNCHANGED <<handlerVars, gcVars, phoneVars, now>>

DeleteHeads(S) ==
  /\ {s \in S : Visible(s)} # {}
  /\ heads' = [s \in Saves |-> IF s \in S /\ Visible(s)
                               THEN [heads[s] EXCEPT !.deletedAt = now] ELSE heads[s]]
  /\ UNCHANGED <<users, versions, blobs, idem, files, locks, history>> /\ Inside

DeleteHead(s) == users[Owner[s]] # "deleted" /\ DeleteHeads({s})
DeleteROM(u, r) == users[u] # "deleted" /\ DeleteHeads({s \in Saves : Owner[s] = u /\ Rom[s] = r})

RequestDeletion(u) ==
  /\ users[u] = "active"
  /\ users' = [users EXCEPT ![u] = "deleting"]
  /\ UNCHANGED <<heads, versions, blobs, idem, files, locks, history>> /\ Inside

------------------------------------------------------------------------------
(* maintenanceLoop: one goroutine, so nothing here runs while the collector does. *)

RemoveHeads(S) ==
  /\ versions' = versions \ VersionsOf(S)
  /\ heads' = [s \in Saves |-> IF s \in S THEN NoHead ELSE heads[s]]
  /\ blobs' = Released(VersionsOf(S))
  /\ epoch' = [s \in Saves |-> IF s \in S /\ heads[s] # NoHead THEN epoch[s] + 1 ELSE epoch[s]]
  /\ made' = made

ProcessDeletion(u) ==
  /\ gcPhase = "idle" /\ users[u] = "deleting"
  /\ RemoveHeads({s \in Saves : Owner[s] = u})
  /\ idem' = {r \in idem : ClientUser[r.key[1]] # u}
  /\ users' = [users EXCEPT ![u] = "deleted"]
  /\ UNCHANGED <<files, locks>> /\ Inside

\* Old versions lose their reference but their rows stay.  LIMIT n of the oldest is
\* some nonempty part of the candidates.
Position(v) == Cardinality({w \in VersionsOf({v.save}) : w.live /\ w.rev >= v.rev})
Prunable == {v \in versions : /\ v.live /\ Visible(v.save) /\ v.rev # heads[v.save].rev
                              /\ Position(v) > Keep[v.save] /\ v.at + Age[v.save] < now}
PruneHistory(S) ==
  /\ gcPhase = "idle" /\ S # {} /\ S \subseteq Prunable
  /\ versions' = (versions \ S) \cup {[v EXCEPT !.live = FALSE] : v \in S}
  /\ blobs' = Released(S)
  /\ UNCHANGED <<users, heads, idem, files, locks, history>> /\ Inside

Purgeable == {s \in Saves : Deleted(s) /\ heads[s].deletedAt + HeadGrace < now}
PurgeDeletedHeads(S) ==
  /\ gcPhase = "idle" /\ S # {} /\ S \subseteq Purgeable
  /\ RemoveHeads(S)
  /\ UNCHANGED <<users, idem, files, locks>> /\ Inside

DeleteExpiredIdempotency(S) ==
  /\ gcPhase = "idle" /\ S # {} /\ S \subseteq {r \in idem : r.expires < now}
  /\ idem' = idem \ S
  /\ UNCHANGED <<users, heads, versions, blobs, files, locks, history>> /\ Inside

\* DueBlobDigests: the DueLimit digests that have been due longest.
GcScan(S) ==
  LET due == {d \in Digests : Due(d)} IN
  /\ gcPhase = "idle" /\ S # {} /\ S \subseteq due
  /\ Cardinality(S) = DueLimit \/ (S = due /\ Cardinality(S) < DueLimit)
  /\ \A d \in S, e \in due \ S : blobs[d].due <= blobs[e].due
  /\ gcDue' = S /\ gcPhase' = "lock"
  /\ UNCHANGED <<serverVars, handlerVars, phoneVars, gcDigest, now, history>>

GcNextM(rest) ==
  /\ gcDue' = rest
  /\ gcPhase' = IF rest = {} THEN "idle" ELSE "lock"
  /\ gcDigest' = NoDigest
  /\ locks' = locks
GcNext(rest) ==
  /\ gcDue' = rest
  /\ gcPhase' = IF rest = {} THEN "idle" ELSE "lock"
  /\ gcDigest' = NoDigest
  /\ locks' = [locks EXCEPT ![gcDigest] = NoHandler]
GcQuiet == UNCHANGED <<users, heads, versions, idem, handlerVars, phoneVars, now, history>>

GcLock(d) ==
  /\ gcPhase = "lock" /\ d \in gcDue /\ locks[d] = NoHandler
  /\ locks' = [locks EXCEPT ![d] = Gc]
  /\ gcPhase' = "check" /\ gcDigest' = d /\ gcDue' = gcDue \ {d}
  /\ UNCHANGED <<blobs, files>> /\ GcQuiet

GcRecheckM ==
  /\ gcPhase = "check"
  /\ gcPhase' = "unlink" /\ UNCHANGED <<gcDue, gcDigest, locks>>
  /\ UNCHANGED <<blobs, files>> /\ GcQuiet
GcRecheck ==
  /\ gcPhase = "check"
  /\ IF Due(gcDigest) THEN gcPhase' = "unlink" /\ UNCHANGED <<gcDue, gcDigest, locks>>
     ELSE GcNext(gcDue)
  /\ UNCHANGED <<blobs, files>> /\ GcQuiet

GcUnlinkM ==
  /\ gcPhase = "unlink"
  /\ files' \in {files, files \ {gcDigest}}
  /\ gcPhase' = "forget" /\ UNCHANGED <<gcDue, gcDigest, locks>>
  /\ UNCHANGED blobs /\ GcQuiet
GcUnlink ==
  /\ gcPhase = "unlink"
  /\ files' = files \ {gcDigest}
  /\ gcPhase' = "forget" /\ UNCHANGED <<gcDue, gcDigest, locks>>
  /\ UNCHANGED blobs /\ GcQuiet

\* The recheck, the unlink or the delete of the row fails: on to the next digest.
GcFails ==
  /\ "iofail" \in Traffic /\ gcPhase \in {"check", "unlink", "forget"} /\ GcNext(gcDue)
  /\ UNCHANGED <<blobs, files>> /\ GcQuiet

\* The row goes too, unless a version row (pruned ones included) still references it.
GcForget ==
  /\ gcPhase = "forget"
  /\ blobs' = IF Due(gcDigest) /\ ~\E v \in versions : v.blob = gcDigest
              THEN [blobs EXCEPT ![gcDigest] = NoRow] ELSE blobs
  /\ GcNext(gcDue) /\ UNCHANGED files /\ GcQuiet

------------------------------------------------------------------------------

\* The process dies: handlers, mutexes and the collector's position are lost.
Crash ==
  /\ pc' = [h \in Handlers |-> "idle"]
  /\ job' = [h \in Handlers |-> NoTask]
  /\ answer' = [h \in Handlers |-> NoAnswer]
  /\ locks' = [d \in Digests |-> NoHandler]
  /\ gcPhase' = "idle" /\ gcDue' = {} /\ gcDigest' = NoDigest
  /\ UNCHANGED <<users, heads, versions, blobs, idem, files, phoneVars, now, history>>

Tick ==
  /\ now < MaxTime /\ \A h \in Handlers : pc[h] = "idle"
  /\ now' = now + 1
  /\ UNCHANGED <<serverVars, handlerVars, gcVars, phoneVars, history>>

Phone(c) ==
  \/ "download" \in Traffic /\ \E s \in MySaves(c) : NewDownload(c, s)
  \/ "upload" \in Traffic /\ \E s \in MySaves(c), d \in Digests : NewUpload(c, s, d)
  \/ "restore" \in Traffic /\ \E v \in versions : NewRestore(c, v)
  \/ \E h \in Handlers : Send(c, h)
  \/ "timeout" \in Traffic /\ TimeOut(c)
Handle(h) == \/ UploadLock(h) \/ UploadPut(h) \/ ReadContent(h) \/ OpenBlob(h)
             \/ Commit(h) \/ Finish(h)
UserDelete == \/ "delete" \in Traffic /\ \E s \in Saves : DeleteHead(s) \/ DeleteROM(Owner[s], Rom[s])
              \/ "account" \in Traffic /\ \E u \in Users : RequestDeletion(u)
Collect == \/ \E S \in SUBSET Digests : GcScan(S)
           \/ \E d \in Digests : GcLock(d)
           \/ GcRecheck \/ GcUnlink \/ GcFails \/ GcForget
Maintain == \/ \E u \in Users : ProcessDeletion(u)
            \/ \E S \in SUBSET Prunable : PruneHistory(S)
            \/ \E S \in SUBSET Purgeable : PurgeDeletedHeads(S)
            \/ \E S \in SUBSET idem : DeleteExpiredIdempotency(S)
            \/ Collect

Next == \/ \E c \in Clients : Phone(c)
        \/ \E h \in Handlers : Handle(h)
        \/ UserDelete \/ Maintain \/ ("crash" \in Traffic /\ Crash) \/ Tick

Spec == Init /\ [][Next]_vars

\* The collector's goroutine and every handler keep running.  A mutex is handed to a
\* waiting goroutine in the end (sync.Mutex does not starve), and what the collector does
\* to one digest does not fail for ever.
Fairness ==
  /\ \A h \in Handlers : SF_vars(UploadLock(h)) /\ WF_vars(UploadPut(h)) /\ WF_vars(ReadContent(h))
                         /\ WF_vars(OpenBlob(h)) /\ WF_vars(Commit(h)) /\ WF_vars(Finish(h))
  /\ \A d \in Digests : SF_vars(GcLock(d))
  /\ WF_vars(\E S \in SUBSET Digests : GcScan(S))
  /\ SF_vars(GcRecheck) /\ SF_vars(GcUnlink) /\ SF_vars(GcForget)
FairSpec == Spec /\ Fairness

------------------------------------------------------------------------------
(* Invariants. *)

\* The shape of the state: tables, handlers, collector and phones.
TypeOK ==
  /\ users \in [Users -> {"active", "deleting", "deleted"}]
  /\ heads \in [Saves -> [rev : Nat, deletedAt : Time \cup {Never}]]
  /\ versions \subseteq Version
  /\ blobs \in [Digests -> [refs : Nat, due : Time \cup {Never}]]
  /\ idem \subseteq IdemRow
  /\ files \subseteq Digests
  /\ locks \in [Digests -> Handlers \cup {NoHandler, Gc}]
  /\ pc \in [Handlers -> {"idle", "lock", "put", "read", "open", "commit", "reply"}]
  /\ job \in [Handlers -> Job \cup {NoTask}]
  /\ answer \in [Handlers -> Answer]
  /\ gcPhase \in {"idle", "lock", "check", "unlink", "forget"}
  /\ gcDue \subseteq Digests /\ gcDigest \in Digests \cup {NoDigest}
  /\ task \in [Clients -> Task \cup {NoTask}]
  /\ waits \in [Clients -> Handlers \cup {NoHandler}]
  /\ issued \in [Clients -> 0 .. MaxTasks]
  /\ view \in [Clients -> [Saves -> Tag]]
  /\ now \in 0 .. MaxTime
  /\ epoch \in [Saves -> Nat]
  /\ made \in [Keys -> [n : Nat, at : Time \cup {Never}]]

\* Every version that is not deleted has its content on disk, whatever uploads, prunes,
\* purges, crashes and the collector do: the digest mutex and the collector's recheck.
ContentKept == \A v \in versions : v.live => v.blob \in files

\* reference_count is the number of versions not deleted, a blob with references has no
\* delete_after, and every version row has its blob row (the foreign key).
RefCountsExact ==
  /\ \A d \in Digests : /\ blobs[d].refs = Cardinality(LiveRefs(d))
                        /\ blobs[d].refs > 0 => blobs[d].due = Never
  /\ \A v \in versions : blobs[v.blob] # NoRow

Reading(h) == pc[h] = "open" \/ (pc[h] = "commit" /\ job[h].op = "restore")

\* A request that has read a row and has not used it yet (a restore reads outside the
\* transaction and takes no digest mutex) still finds its file.
InFlightReadable == \A h \in Handlers : Reading(h) => job[h].blob \in files

\* A visible head has exactly one current version, never pruned, and no version is newer;
\* a revision is given out once.
HeadCurrent ==
  /\ \A s \in Saves : Visible(s) => \E v \in CurrentOf(s) : v.live
  /\ \A v \in versions : v.rev \in 1 .. heads[v.save].rev
  /\ \A v, w \in versions : v.save = w.save /\ v.rev = w.rev => v = w

\* What a phone was told is stored (and may use as a base) is a row with that content,
\* unless the head has been removed since.
AckedIsStored ==
  \A c \in Clients, s \in Saves :
    LET t == view[c][s] IN
    t.rev > 0 /\ t.epoch = epoch[s] => \E v \in VersionsOf({s}) : TagOf(v) = t

\* Nothing of a deleted account is left, or comes back with a request still in flight.
DeletedAccountEmpty ==
  \A u \in Users : users[u] = "deleted" =>
    /\ \A s \in Saves : Owner[s] = u => heads[s] = NoHead /\ VersionsOf({s}) = {}
    /\ \A r \in idem : ClientUser[r.key[1]] # u

------------------------------------------------------------------------------
(* The inductive invariant behind ContentKept, RefCountsExact and InFlightReadable. *)

Storing(h) == pc[h] = "put" \/ (pc[h] = "commit" /\ job[h].op = "upload")

\* What a handler's step expects of its job, and a request of its task.
JobsFit ==
  /\ \A c \in Clients : task[c] # NoTask /\ task[c].op = "upload" => task[c].blob \in Digests
  /\ \A h \in Handlers : pc[h] # "idle" =>
       /\ job[h] \in Job
       /\ job[h].op = "upload" => job[h].blob \in Digests
       /\ pc[h] \in {"lock", "put"} => job[h].op = "upload"
       /\ pc[h] = "read" => job[h].op # "upload"
       /\ pc[h] = "commit" => job[h].op # "download"
       /\ pc[h] \in {"open", "commit"} => job[h].blob \in Digests

\* An upload holds its digest's mutex from before it writes the file until its
\* transaction has ended; the collector from before its recheck until the row is gone.
MutexHeld ==
  /\ \A h \in Handlers : Storing(h) => locks[job[h].blob] = h
  /\ gcPhase \in {"check", "unlink", "forget"} => gcDigest \in Digests /\ locks[gcDigest] = Gc

\* Nothing brings back a digest the collector has rechecked, and no version is due.
CollectorSure == gcPhase \in {"unlink", "forget"} => Due(gcDigest)

\* The file an upload has put is there when it commits, and what a request has read is
\* not due while the request lasts.
FilesInHand ==
  /\ \A h \in Handlers : Storing(h) /\ pc[h] = "commit" => job[h].blob \in files
  /\ \A h \in Handlers : Reading(h) => ~Due(job[h].blob)

TInv == TypeOK /\ IsFiniteSet(versions) /\ JobsFit
IInv == /\ TInv /\ MutexHeld /\ CollectorSure /\ FilesInHand
        /\ InFlightReadable /\ ContentKept /\ RefCountsExact /\ HeadCurrent

------------------------------------------------------------------------------
(* Action properties. *)

\* An idempotency key creates one version, and a second one only after its row has
\* expired (24 h), however often the phone times out and sends the request again.
ExactlyOnce ==
  [][\A k \in Keys : made'[k].n # made[k].n =>
       made[k].n = 0 \/ made[k].at + IdemTTL <= now]_vars

Overwrites(h) == /\ pc[h] = "commit" /\ pc'[h] = "reply"
                 /\ Visible(job[h].save) /\ heads'[job[h].save] # heads[job[h].save]

\* A commit replaces a visible save only if its phone had seen the very content that is
\* current, as long as the head row has existed since the phone saw it.
NoSilentOverwrite ==
  [][\A h \in Handlers : Overwrites(h) =>
       \A v \in CurrentOf(job[h].save) :
         job[h].seen.epoch = epoch[job[h].save] => job[h].seen = TagOf(v)]_vars

\* docs/02-technical-design.md:344, a device id only says where a version comes from: a
\* well-formed request on a healthy server is never answered with an internal error.
NeverServerError ==
  \A h \in Handlers : pc[h] = "reply" /\ waits[job[h].client] = h => answer[h].kind # "error"

------------------------------------------------------------------------------
(* Liveness. *)

\* A blob that is due loses its file, unless an upload or a restore references it again.
FilesCollected ==
  \A d \in Digests : (Due(d) /\ d \in files) ~> (d \notin files \/ blobs[d].refs > 0)

\* An upload waiting for a digest's mutex is answered (or lost in a crash).
UploadsAnswered == \A h \in Handlers : pc[h] = "lock" ~> pc[h] \in {"reply", "idle"}
=============================================================================
