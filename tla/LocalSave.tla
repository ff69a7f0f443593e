------------------------------ MODULE LocalSave ------------------------------
(***************************************************************************)
(* The files of one save on the phone: current.bin and manifest.json, each *)
(* with a .previous beside it, as SaveRepository and platform/fs write     *)
(* them.  An operation is a chain of file system calls with an await       *)
(* before each, so two operations interleave at every call, and the app    *)
(* may be killed between any two.  JavaScript runs one of them at a time.  *)
(*                                                                         *)
(* Abstractions.  A content is the number of its commit, and stands for    *)
(* its checksum.  A temporary file belongs to one operation and is never   *)
(* read again once its operation has ended, so it is part of the           *)
(* operation.  access is taken to tell the truth.                          *)
(***************************************************************************)
EXTENDS Integers

CONSTANTS
  Procs,      \* operations that can be under way at once
  Does,       \* [Procs -> what each does: a subset of Kinds]
  Faults,     \* "kill": the app is killed, "io": a call that writes fails, "read": one that reads
  MaxCommits, \* bound: commits begun
  MaxCloud,   \* bound: the highest cloud revision
  NoFile, NoOp

Kinds == {"commit", "update", "remove"}

ASSUME LocalSaveAssumption ==
  /\ Does \in [Procs -> SUBSET Kinds]
  /\ Faults \subseteq {"kill", "io", "read"}
  /\ MaxCommits \in Nat /\ MaxCloud \in Nat
  /\ NoFile \notin Nat /\ NoFile \notin [{"sum", "rev", "cloud"} -> Nat]

VARIABLES
  cur,     \* the file of each name
  prev,    \* the file of each name with .previous
  pc,      \* the next call of each operation
  op,      \* what it does, with what it has read
  file,    \* which file it replaces
  commits, \* commits begun: the content of the latest
  acks,    \* history: contents whose commit has returned, with their revision
  since,   \* history: replacements begun, of current.bin since the last commit returned and
           \* of manifest.json since it was last replaced, counted up to three
  mixed    \* history: two operations have been under way at once, or a read has failed

vars == <<cur, prev, pc, op, file, commits, acks, since, mixed>>
disk == <<cur, prev>>

Names == {"bin", "man"}
Keep == 0   \* commit without a cloud revision of its own
Manifest == [sum : 1 .. MaxCommits, rev : Nat, cloud : 0 .. MaxCloud]
NoManifest == [sum |-> 0, rev |-> 0, cloud |-> 0]
Op == [kind : Kinds, sum : 0 .. MaxCommits, cloud : 0 .. MaxCloud,
       source : {"cur", "prev"}, man : Manifest \cup {NoManifest}]

Init ==
  /\ cur = [f \in Names |-> NoFile] /\ prev = [f \in Names |-> NoFile]
  /\ pc = [p \in Procs |-> "idle"] /\ op = [p \in Procs |-> NoOp]
  /\ file = [p \in Procs |-> "bin"]
  /\ commits = 0 /\ acks = {} /\ since = [f \in Names |-> 0] /\ mixed = FALSE

------------------------------------------------------------------------------
(* Starting and ending. *)

\* commit, updateCloudRevision or remove of this save.
Begin(p, kind, cloud) ==
  /\ pc[p] = "idle" /\ kind \in Does[p]
  /\ kind = "commit" => commits < MaxCommits
  /\ commits' = IF kind = "commit" THEN commits + 1 ELSE commits
  /\ op' = [op EXCEPT ![p] = [kind |-> kind, sum |-> IF kind = "commit" THEN commits + 1 ELSE 0,
                              cloud |-> cloud, source |-> "cur", man |-> NoManifest]]
  /\ pc' = [pc EXCEPT ![p] = IF kind = "remove" THEN "drop" ELSE "look"]
  /\ file' = [file EXCEPT ![p] = "bin"]
  /\ acks' = IF kind = "remove" THEN {} ELSE acks
  /\ mixed' = (mixed \/ \E q \in Procs : pc[q] # "idle")
  /\ UNCHANGED <<disk, since>>

Goto(p, label) == pc' = [pc EXCEPT ![p] = label]
Return(p) == Goto(p, "idle") /\ op' = [op EXCEPT ![p] = NoOp] /\ file' = file
Failing(p) == Return(p) /\ UNCHANGED <<commits, acks>>
MayFail == "io" \in Faults

------------------------------------------------------------------------------
(* manifest(): manifest.json, or its .previous. *)

Stored(source, f) == IF source = "cur" THEN cur[f] ELSE prev[f]

\* The new manifest: the next revision of a commit, the same one for an update.
NextManifest(o, old) ==
  IF o.kind = "commit"
  THEN [sum |-> o.sum, rev |-> old.rev + 1, cloud |-> IF o.cloud = Keep THEN old.cloud ELSE o.cloud]
  ELSE [old EXCEPT !.cloud = o.cloud]
WithManifest(p, old) ==
  /\ Goto(p, "write")
  /\ op' = [op EXCEPT ![p].man = NextManifest(op[p], old)]
  /\ file' = [file EXCEPT ![p] = IF op[p].kind = "commit" THEN "bin" ELSE "man"]

Look(p) ==
  /\ pc[p] = "look"
  /\ Goto(p, IF cur["man"] # NoFile THEN "read" ELSE "lookprev")
  /\ UNCHANGED <<disk, op, file, commits, acks, since, mixed>>

LookPreviousM(p) == \* manifest.json alone is looked for
  /\ pc[p] \in {"lookprev", "again"}
  /\ IF op[p].kind = "commit" THEN WithManifest(p, NoManifest) ELSE Return(p)
  /\ UNCHANGED <<disk, commits, acks, since, mixed>>
LookPreviousMM(p) == \* an update without a manifest goes on
  /\ pc[p] \in {"lookprev", "again"}
  /\ WithManifest(p, IF prev["man"] # NoFile THEN prev["man"] ELSE NoManifest)
  /\ UNCHANGED <<disk, commits, acks, since, mixed>>
\* Without a .previous a commit starts from nothing (lookprev), and a failed read of
\* manifest.json, or an update, fails.
LookPrevious(p) ==
  /\ pc[p] \in {"lookprev", "again"}
  /\ \/ /\ prev["man"] # NoFile
        /\ Goto(p, "read") /\ op' = [op EXCEPT ![p].source = "prev"] /\ file' = file
     \/ /\ prev["man"] = NoFile
        /\ IF pc[p] = "lookprev" /\ op[p].kind = "commit"
           THEN WithManifest(p, NoManifest)
           ELSE Return(p)
  /\ UNCHANGED <<disk, commits, acks, since, mixed>>

\* The file may have been moved since it was looked for.
Read(p) ==
  /\ pc[p] = "read"
  /\ LET m == Stored(op[p].source, "man") IN
     \/ m # NoFile /\ WithManifest(p, m) /\ mixed' = mixed
     \/ /\ m = NoFile \/ "read" \in Faults
        /\ mixed' = TRUE
        /\ IF op[p].source = "cur"
           THEN Goto(p, "again") /\ UNCHANGED <<op, file>>
           ELSE Return(p)
  /\ UNCHANGED <<disk, commits, acks, since>>

------------------------------------------------------------------------------
(* writeBytesAtomic, writeTextAtomic: a temporary file, then replace. *)

Written(p) == IF file[p] = "bin" THEN op[p].sum ELSE op[p].man

WriteTemp(p) ==
  /\ pc[p] = "write"
  /\ \/ Goto(p, "unlink") /\ UNCHANGED <<op, file, commits, acks>>
     \/ MayFail /\ Failing(p)
  /\ UNCHANGED <<disk, since, mixed>>

UnlinkPrevious(p) ==
  /\ pc[p] = "unlink"
  /\ \/ /\ Goto(p, "exists")
        /\ prev' = [prev EXCEPT ![file[p]] = NoFile]
        /\ since' = [since EXCEPT ![file[p]] = IF @ = 3 THEN 3 ELSE @ + 1]
        /\ UNCHANGED <<op, file, commits, acks>>
     \/ MayFail /\ Failing(p) /\ UNCHANGED <<prev, since>>
  /\ UNCHANGED <<cur, mixed>>

ExistsM(p) == \* the file is never moved aside
  /\ pc[p] = "exists"
  /\ Goto(p, "place")
  /\ UNCHANGED <<disk, op, file, commits, acks, since, mixed>>
Exists(p) ==
  /\ pc[p] = "exists"
  /\ Goto(p, IF cur[file[p]] # NoFile THEN "aside" ELSE "place")
  /\ UNCHANGED <<disk, op, file, commits, acks, since, mixed>>

\* rename fails when another operation has moved the file meanwhile.
MoveAside(p) ==
  /\ pc[p] = "aside"
  /\ \/ /\ cur[file[p]] # NoFile
        /\ Goto(p, "place")
        /\ prev' = [prev EXCEPT ![file[p]] = cur[file[p]]]
        /\ cur' = [cur EXCEPT ![file[p]] = NoFile]
        /\ UNCHANGED <<op, file, commits, acks>>
     \/ /\ cur[file[p]] = NoFile \/ MayFail
        /\ Failing(p) /\ UNCHANGED disk
  /\ UNCHANGED <<since, mixed>>

\* The new file takes its name; after the manifest's the operation has succeeded.
Place(p) ==
  /\ pc[p] = "place"
  /\ cur' = [cur EXCEPT ![file[p]] = Written(p)]
  /\ IF file[p] = "bin"
     THEN Goto(p, "verify") /\ UNCHANGED <<op, file, acks, since>>
     ELSE /\ Return(p)
          /\ IF op[p].kind = "commit"
             THEN /\ acks' = acks \cup {[sum |-> op[p].sum, rev |-> op[p].man.rev]}
                  /\ since' = [f \in Names |-> 0]
             ELSE /\ acks' = acks
                  /\ since' = [since EXCEPT !["man"] = 0]
  /\ UNCHANGED <<prev, commits, mixed>>

\* The rename fails: the old file, if there is one, is put back.
PlaceFails(p) ==
  /\ pc[p] = "place" /\ MayFail
  /\ IF prev[file[p]] # NoFile
     THEN Goto(p, "restore") /\ UNCHANGED <<op, file>>
     ELSE Return(p)
  /\ UNCHANGED <<disk, commits, acks, since, mixed>>

Restore(p) ==
  /\ pc[p] = "restore"
  /\ \/ /\ prev[file[p]] # NoFile
        /\ cur' = [cur EXCEPT ![file[p]] = prev[file[p]]]
        /\ prev' = [prev EXCEPT ![file[p]] = NoFile]
     \/ UNCHANGED disk
  /\ Failing(p) /\ UNCHANGED <<since, mixed>>

\* commit reads current.bin again; another operation's content is a failure too.
Verify(p) ==
  /\ pc[p] = "verify"
  /\ \/ /\ cur["bin"] = op[p].sum
        /\ Goto(p, "write") /\ file' = [file EXCEPT ![p] = "man"]
        /\ UNCHANGED <<op, commits, acks>>
     \/ /\ cur["bin"] # op[p].sum \/ "read" \in Faults
        /\ Failing(p)
  /\ UNCHANGED <<disk, since, mixed>>

------------------------------------------------------------------------------
(* remove: the four files, one after the other. *)

Drop(p) ==
  /\ pc[p] = "drop"
  /\ \/ /\ cur[file[p]] # NoFile
        /\ cur' = [cur EXCEPT ![file[p]] = NoFile]
        /\ UNCHANGED <<prev, pc, op, file>>
     \/ /\ cur[file[p]] = NoFile
        /\ prev' = [prev EXCEPT ![file[p]] = NoFile]
        /\ cur' = cur
        /\ IF file[p] = "bin"
           THEN file' = [file EXCEPT ![p] = "man"] /\ UNCHANGED <<pc, op>>
           ELSE Return(p)
     \/ MayFail /\ Return(p) /\ UNCHANGED disk
  /\ UNCHANGED <<commits, acks, since, mixed>>

\* The app is killed: its operations end where they are.
Kill ==
  /\ "kill" \in Faults
  /\ pc' = [p \in Procs |-> "idle"] /\ op' = [p \in Procs |-> NoOp]
  /\ UNCHANGED <<disk, file, commits, acks, since, mixed>>

Step(p) ==
  \/ Look(p) \/ LookPrevious(p) \/ Read(p) \/ WriteTemp(p) \/ UnlinkPrevious(p) \/ Exists(p)
  \/ MoveAside(p) \/ Place(p) \/ PlaceFails(p) \/ Restore(p) \/ Verify(p) \/ Drop(p)
Start(p) ==
  \/ \E r \in {Keep} \cup 1 .. MaxCloud : Begin(p, "commit", r)
  \/ \E r \in 1 .. MaxCloud : Begin(p, "update", r)
  \/ Begin(p, "remove", Keep)
Next == (\E p \in Procs : Start(p) \/ Step(p)) \/ Kill
Spec == Init /\ [][Next]_vars

------------------------------------------------------------------------------
(* load(), when no other operation is under way. *)

Fits(bin, man) == man # NoFile /\ bin # NoFile /\ man.sum = bin
Found == IF cur["man"] # NoFile THEN cur["man"] ELSE prev["man"]
LoadedM == \* the previous content is not checked
  IF Fits(cur["bin"], Found) THEN Found ELSE prev["man"]
Loaded ==
  IF Found = NoFile THEN NoFile
  ELSE IF Fits(cur["bin"], Found) THEN Found
  ELSE IF Fits(prev["bin"], prev["man"]) THEN prev["man"]
  ELSE NoFile
AllIdle == \A p \in Procs : pc[p] = "idle"

------------------------------------------------------------------------------
(* Properties. *)

Latest(a) == \A b \in acks : b.sum <= a.sum

\* The shape of the files and of every operation.
TypeOK ==
  /\ cur["bin"] \in 1 .. MaxCommits \cup {NoFile} /\ cur["man"] \in Manifest \cup {NoFile}
  /\ prev["bin"] \in 1 .. MaxCommits \cup {NoFile} /\ prev["man"] \in Manifest \cup {NoFile}
  /\ pc \in [Procs -> {"idle", "look", "lookprev", "again", "read", "write", "unlink", "exists",
                       "aside", "place", "restore", "verify", "drop"}]
  /\ op \in [Procs -> Op \cup {NoOp}] /\ file \in [Procs -> Names]
  /\ commits \in 0 .. MaxCommits
  /\ acks \subseteq [sum : 1 .. MaxCommits, rev : Nat]
  /\ since \in [Names -> 0 .. 3]

\* A content whose commit has returned is on disk, under one name or the other, while at
\* most one later commit has touched current.bin, whatever was killed or failed.
KeptOnDisk ==
  since["bin"] <= 1 => \A a \in acks : Latest(a) => a.sum \in {cur["bin"], prev["bin"]}

\* Operations that follow one another: load never falls back to a save older than the last
\* one whose commit has returned: it finds that one or a newer one, or none at all.
LoadFresh ==
  ~mixed /\ AllIdle /\ Loaded # NoFile => \A a \in acks : a.sum <= Loaded.sum

\* One replacement of manifest.json that was cut short does not set localRevision back: a
\* commit returns a higher revision than the one before it, unless two were cut in a row,
\* two operations ran at once or a read failed.
RevisionsSurviveOneCut ==
  [][since["man"] <= 2 /\ ~mixed =>
       \A a \in acks' \ acks : \A b \in acks : Latest(b) => b.rev < a.rev]_vars
=============================================================================
