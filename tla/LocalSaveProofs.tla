---------------------------- MODULE LocalSaveProofs ----------------------------
(***************************************************************************)
(* Types, KeptOnDisk, LoadFresh and RevisionsSurviveOneCut of LocalSave,   *)
(* for every number of operations, commits and faults.                     *)
(***************************************************************************)
EXTENDS LocalSave, TLAPS

------------------------------------------------------------------------------
(* Types. *)

Reading == {"look", "lookprev", "again", "read"}
Writing == {"write", "unlink", "exists", "aside", "place", "restore", "verify"}

\* What a call expects of its operation.
OpFits(p) ==
  /\ pc[p] # "idle" => /\ op[p] \in Op /\ op[p].kind \in Does[p]
                       /\ op[p].kind = "commit" => op[p].sum > 0
  /\ pc[p] \in Reading \cup Writing => op[p].kind \in {"commit", "update"}
  /\ pc[p] \in Writing => /\ op[p].man \in Manifest
                          /\ file[p] = "bin" => op[p].kind = "commit"
  /\ pc[p] = "verify" => file[p] = "bin"
  /\ pc[p] = "drop" => op[p].kind = "remove"

TInv ==
  /\ TypeOK /\ DOMAIN cur = Names /\ DOMAIN prev = Names
  /\ cur = [f \in Names |-> cur[f]] /\ prev = [f \in Names |-> prev[f]]
  /\ \A p \in Procs : OpFits(p)

LEMMA InitTypes == Init => TInv
BY LocalSaveAssumption DEF Init, TInv, TypeOK, OpFits, Names, Reading, Writing

LEMMA BeginTypes ==
  ASSUME TInv, NEW p \in Procs, NEW kind \in Kinds, NEW c \in 0 .. MaxCloud, Begin(p, kind, c)
  PROVE  TInv'
BY LocalSaveAssumption
   DEF Begin, TInv, TypeOK, OpFits, Names, Reading, Writing, Op, NoManifest, Kinds, disk

\* The steps of an operation.
LEMMA StepTypes == ASSUME TInv, NEW p \in Procs, Step(p) PROVE TInv'
<1> USE DEF TInv, TypeOK, OpFits, Reading, Writing, Goto, disk
<1>1. CASE Look(p)
  BY <1>1 DEF Look
<1>2. CASE LookPrevious(p)
  <2>1. CASE WithManifest(p, NoManifest) /\ op[p].kind = "commit" /\ UNCHANGED <<disk, commits, acks, since, mixed>>
    <3>1. NextManifest(op[p], NoManifest) \in Manifest
      BY <1>2, <2>1, LocalSaveAssumption DEF LookPrevious, NextManifest, NoManifest, Manifest, Op
    <3> QED BY <1>2, <2>1, <3>1 DEF LookPrevious, WithManifest, Op, Names
  <2>2. CASE Return(p) /\ UNCHANGED <<disk, commits, acks, since, mixed>>
    BY <2>2 DEF Return
  <2>3. CASE Goto(p, "read") /\ op' = [op EXCEPT ![p].source = "prev"] /\ file' = file
             /\ UNCHANGED <<disk, commits, acks, since, mixed>>
    BY <1>2, <2>3 DEF LookPrevious, Op
  <2> QED BY <1>2, <2>1, <2>2, <2>3 DEF LookPrevious
<1>3. CASE Read(p)
  <2> DEFINE m == Stored(op[p].source, "man")
  <2>1. CASE m # NoFile /\ WithManifest(p, m)
    <3>1. m \in Manifest
      BY <1>3, <2>1 DEF Stored
    <3>2. NextManifest(op[p], m) \in Manifest
      BY <1>3, <3>1 DEF Read, NextManifest, Manifest, Op
    <3> HIDE DEF m
    <3> QED BY <1>3, <2>1, <3>2 DEF Read, WithManifest, Op, Names
  <2>2. CASE Goto(p, "again") /\ UNCHANGED <<op, file>>
    BY <1>3, <2>2 DEF Read
  <2>3. CASE Return(p)
    BY <1>3, <2>3 DEF Read, Return
  <2> QED BY <1>3, <2>1, <2>2, <2>3 DEF Read
<1>4. CASE WriteTemp(p)
  <2>1. CASE Goto(p, "unlink") /\ UNCHANGED <<op, file, commits, acks>>
    BY <1>4, <2>1 DEF WriteTemp
  <2>2. CASE Failing(p)
    BY <1>4, <2>2 DEF WriteTemp, Failing, Return
  <2> QED BY <1>4, <2>1, <2>2 DEF WriteTemp
<1>5. CASE UnlinkPrevious(p)
  BY <1>5 DEF UnlinkPrevious, Failing, Return, Names
<1>6. CASE Exists(p)
  BY <1>6 DEF Exists
<1>7. CASE MoveAside(p)
  <2>1. file[p] \in Names
    BY <1>7 DEF MoveAside
  <2>2. CASE cur[file[p]] # NoFile /\ prev' = [prev EXCEPT ![file[p]] = cur[file[p]]]
             /\ cur' = [cur EXCEPT ![file[p]] = NoFile] /\ UNCHANGED <<op, file, commits, acks>>
    <3>1. /\ cur'["bin"] \in 1 .. MaxCommits \cup {NoFile} /\ cur'["man"] \in Manifest \cup {NoFile}
          /\ prev'["bin"] \in 1 .. MaxCommits \cup {NoFile} /\ prev'["man"] \in Manifest \cup {NoFile}
          /\ cur' = [f \in Names |-> cur'[f]] /\ prev' = [f \in Names |-> prev'[f]]
      BY <2>1, <2>2 DEF Names
    <3> QED BY <1>7, <2>2, <3>1 DEF MoveAside
  <2>3. CASE Failing(p) /\ UNCHANGED disk
    BY <1>7, <2>3 DEF MoveAside, Failing, Return
  <2> QED BY <1>7, <2>2, <2>3 DEF MoveAside
<1>8. CASE Place(p)
  <2>1. file[p] \in Names /\ op[p].man \in Manifest
        /\ (file[p] = "bin" \/ op[p].kind = "commit" => op[p].sum \in 1 .. MaxCommits)
    BY <1>8, LocalSaveAssumption DEF Place, Op
  <2>2. /\ cur'["bin"] \in 1 .. MaxCommits \cup {NoFile} /\ cur'["man"] \in Manifest \cup {NoFile}
        /\ cur' = [f \in Names |-> cur'[f]] /\ prev' = prev
    BY <1>8, <2>1 DEF Place, Written, Names
  <2>3. acks' \subseteq [sum : 1 .. MaxCommits, rev : Nat] /\ since' \in [Names -> 0 .. 3]
    BY <1>8, <2>1 DEF Place, Manifest, Names
  <2> QED BY <1>8, <2>2, <2>3 DEF Place, Return
<1>9. CASE PlaceFails(p)
  BY <1>9 DEF PlaceFails, Return
<1>10. CASE Restore(p)
  <2>1. file[p] \in Names
    BY <1>10 DEF Restore
  <2> QED BY <1>10, <2>1 DEF Restore, Failing, Return, Names
<1>11. CASE Verify(p)
  BY <1>11 DEF Verify, Failing, Return, Names
<1>12. CASE Drop(p)
  BY <1>12 DEF Drop, Return, Names
<1> QED BY <1>1, <1>2, <1>3, <1>4, <1>5, <1>6, <1>7, <1>8, <1>9, <1>10, <1>11, <1>12 DEF Step

LEMMA NextTypes == ASSUME TInv, [Next]_vars PROVE TInv'
<1>1. ASSUME NEW p \in Procs, Start(p) PROVE TInv'
  BY <1>1, BeginTypes, LocalSaveAssumption DEF Start, Kinds, Keep
<1>2. CASE Kill
  BY <1>2 DEF Kill, TInv, TypeOK, OpFits, disk, Reading, Writing
<1>3. CASE UNCHANGED vars
  BY <1>3 DEF vars, TInv, TypeOK, OpFits
<1> QED BY <1>1, <1>2, <1>3, StepTypes DEF Next

LEMMA Types == Spec => []TInv
BY InitTypes, NextTypes, PTL DEF Spec

\* Files, operations and counters always have their shape.
THEOREM LocalSaveTypes == Spec => []TypeOK
BY Types, PTL DEF TInv

------------------------------------------------------------------------------
(* KeptOnDisk, when one operation at a time commits or removes. *)

\* The player alone commits and removes; whatever runs beside it updates the manifest.
Writes(p) == Does[p] \cap {"commit", "remove"} # {}
OneWriter == \A p, q \in Procs : Writes(p) /\ Writes(q) => p = q

Committing(p) == pc[p] # "idle" /\ op[p].kind = "commit"
\* Between the unlink of .previous and the end of the replacement of file f.
Replacing(p, f) == pc[p] \in {"exists", "aside", "place", "restore", "verify"} /\ file[p] = f

\* The content a of the last commit that returned, while one replacement of current.bin has
\* begun since: beside the file that is being replaced, and then under .previous.
KeptBeside(a, p) ==
  Committing(p) =>
    /\ Replacing(p, "bin") /\ pc[p] \in {"exists", "aside"} => cur["bin"] = a.sum
    /\ Replacing(p, "bin") /\ pc[p] \notin {"exists", "aside"} => prev["bin"] = a.sum

\* Contents are numbered by their commits; a commit whose content is in place has read it back.
CommitInv(p) ==
  /\ Committing(p) => op[p].sum = commits /\ \A a \in acks : a.sum < commits
  /\ Committing(p) /\ pc[p] \in Writing /\ file[p] = "man" => cur["bin"] = op[p].sum
  /\ pc[p] = "drop" => acks = {}
KInv ==
  /\ \A a \in acks : a.sum <= commits
  /\ \A p \in Procs : CommitInv(p)
  /\ \A a \in acks : Latest(a) =>
       /\ since["bin"] = 0 => cur["bin"] = a.sum
       /\ since["bin"] = 1 => a.sum \in {cur["bin"], prev["bin"]}
       /\ since["bin"] <= 1 => \A p \in Procs : KeptBeside(a, p)
  /\ \A p \in Procs : Committing(p) /\ Replacing(p, "bin") => since["bin"] > 0

LEMMA InitKept == Init => KInv
BY DEF Init, KInv, CommitInv, Committing, Replacing, KeptBeside

\* An operation that commits or removes is the only one that does.
LEMMA TheWriter ==
  ASSUME TInv, OneWriter, NEW p \in Procs, NEW q \in Procs,
         Committing(p) \/ pc[p] = "drop", Committing(q) \/ pc[q] = "drop"
  PROVE  p = q
BY DEF TInv, OpFits, OneWriter, Writes, Committing

LEMMA BeginKept ==
  ASSUME TInv, OneWriter, KInv, NEW p \in Procs, NEW kind \in Kinds, NEW c, Begin(p, kind, c)
  PROVE  KInv'
<1> USE DEF Begin, KInv, CommitInv, Committing, Replacing, KeptBeside, Latest, disk, Writing
<1>1. \A q \in Procs : q # p => pc'[q] = pc[q] /\ op'[q] = op[q] /\ file'[q] = file[q]
  BY DEF TInv, TypeOK
<1>2. op'[p].kind = kind /\ pc'[p] \in {"drop", "look"} /\ (pc'[p] = "drop" <=> kind = "remove")
      /\ (kind = "commit" => op'[p].sum = commits + 1 /\ commits' = commits + 1)
      /\ (kind # "commit" => commits' = commits)
      /\ commits \in Nat /\ (kind = "remove" => acks' = {}) /\ (kind # "remove" => acks' = acks)
      /\ cur' = cur /\ prev' = prev /\ since' = since
  BY LocalSaveAssumption DEF TInv, TypeOK
<1>3. \A a \in acks : a.sum \in Nat
  BY DEF TInv, TypeOK
<1>4. kind \in {"commit", "remove"} => \A q \in Procs : Committing(q) \/ pc[q] = "drop" => q = p
  BY DEF TInv, OpFits, OneWriter, Writes
<1> HIDE DEF Begin
<1>5. \A a \in acks' : a.sum <= commits'
  BY <1>2, <1>3
<1>6. \A q \in Procs : CommitInv(q)'
  BY <1>1, <1>2, <1>3, <1>4
<1>7. \A q \in Procs : (Committing(q) /\ Replacing(q, "bin"))' => Committing(q) /\ Replacing(q, "bin")
  BY <1>1, <1>2
<1>8. ASSUME NEW a \in acks', Latest(a)'
      PROVE  /\ (since["bin"] = 0 => cur["bin"] = a.sum)'
             /\ (since["bin"] = 1 => a.sum \in {cur["bin"], prev["bin"]})'
             /\ (since["bin"] <= 1)' => \A q \in Procs : KeptBeside(a, q)'
  <2>1. acks' = acks /\ Latest(a)
    BY <1>2, <1>8
  <2> QED BY <1>1, <1>2, <1>8, <2>1
<1> QED BY <1>2, <1>5, <1>6, <1>7, <1>8


\* A step of p that acknowledges nothing leaves the other operations as they were, unless it
\* touches current.bin, and then they do not.
Mine(p) == \A q \in Procs : q # p => pc'[q] = pc[q] /\ op'[q] = op[q] /\ file'[q] = file[q]
KeptFor(a, p) ==
  /\ since["bin"] = 0 => cur["bin"] = a.sum
  /\ since["bin"] = 1 => a.sum \in {cur["bin"], prev["bin"]}
  /\ since["bin"] <= 1 => KeptBeside(a, p)
LEMMA FrameKept ==
  ASSUME TInv, OneWriter, KInv, NEW p \in Procs, Mine(p), commits' = commits, acks' = acks,
         \/ cur'["bin"] = cur["bin"] /\ prev'["bin"] = prev["bin"] /\ since'["bin"] = since["bin"]
         \/ Committing(p) \/ pc[p] = "drop",
         CommitInv(p)', (Committing(p) /\ Replacing(p, "bin") => since["bin"] > 0)',
         \A a \in acks : Latest(a) => KeptFor(a, p)'
  PROVE  KInv'
<1> USE DEF Mine
<1>1. \A q \in Procs : q # p => (Committing(q) <=> Committing(q)') /\ (Replacing(q, "bin") <=> Replacing(q, "bin")')
  BY DEF Committing, Replacing
<1>2. \A q \in Procs : q # p => CommitInv(q)'
  BY TheWriter DEF KInv, CommitInv, Committing, Replacing
<1>3. \A q \in Procs : q # p => (Committing(q) /\ Replacing(q, "bin") => since["bin"] > 0)'
  BY TheWriter DEF KInv, Committing, Replacing
<1>4. ASSUME NEW a \in acks, Latest(a), NEW q \in Procs, q # p, since'["bin"] <= 1
      PROVE  KeptBeside(a, q)'
  BY <1>4, TheWriter DEF KInv, KeptBeside, Committing, Replacing
<1>5. \A a \in acks' : Latest(a)' => Latest(a)
  BY DEF Latest
<1> QED BY <1>2, <1>3, <1>4, <1>5 DEF KInv, KeptFor


LEMMA StepIsMine == ASSUME TInv, NEW p \in Procs, Step(p) PROVE Mine(p) /\ commits' = commits
BY DEF TInv, TypeOK, Mine, Step, Goto, Return, Failing, WithManifest, Look, LookPrevious, Read,
       WriteTemp, UnlinkPrevious, Exists, MoveAside, Place, PlaceFails, Restore, Verify, Drop, disk

\* An operation that returns without an acknowledgement has nothing to keep.
LEMMA ReturnKept ==
  ASSUME TInv, OneWriter, KInv, NEW p \in Procs, Step(p), Return(p), acks' = acks,
         \/ cur'["bin"] = cur["bin"] /\ prev'["bin"] = prev["bin"]
         \/ Committing(p) \/ pc[p] = "drop",
         since'["bin"] = since["bin"],
         \A a \in acks : Latest(a) =>
           /\ since["bin"] = 0 => cur'["bin"] = a.sum
           /\ since["bin"] = 1 => a.sum \in {cur'["bin"], prev'["bin"]}
  PROVE  KInv'
<1>1. pc'[p] = "idle"
  BY DEF TInv, TypeOK, Return, Goto
<1>2. CommitInv(p)' /\ (Committing(p) /\ Replacing(p, "bin") => since["bin"] > 0)'
  BY <1>1 DEF CommitInv, Committing, Writing
<1>3. \A a \in acks : Latest(a) => KeptFor(a, p)'
  BY <1>1 DEF KeptFor, KeptBeside, Committing
<1> QED BY <1>2, <1>3, StepIsMine, FrameKept

LEMMA StepKept == ASSUME TInv, OneWriter, KInv, NEW p \in Procs, Step(p) PROVE KInv'
<1>0. /\ pc = [q \in Procs |-> pc[q]] /\ op = [q \in Procs |-> op[q]] /\ OpFits(p)
      /\ file \in [Procs -> Names] /\ Mine(p) /\ commits' = commits
      /\ cur = [f \in Names |-> cur[f]] /\ prev = [f \in Names |-> prev[f]]
      /\ since \in [Names -> 0 .. 3] /\ commits \in Nat /\ \A a \in acks : a.sum \in Nat
  BY StepIsMine, LocalSaveAssumption DEF TInv, TypeOK
<1>1. \A a \in acks : Latest(a) => KeptFor(a, p)
  BY DEF KInv, KeptFor
<1>2. CommitInv(p) /\ (Committing(p) /\ Replacing(p, "bin") => since["bin"] > 0)
  BY DEF KInv
<1>3. CASE Look(p)
  <2>1. CommitInv(p)' /\ (Committing(p) /\ Replacing(p, "bin") => since["bin"] > 0)'
    BY <1>0, <1>2, <1>3 DEF Look, Goto, CommitInv, Committing, Replacing, Writing, OpFits, disk, Op
  <2>2. \A a \in acks : Latest(a) => KeptFor(a, p)'
    BY <1>0, <1>1, <1>2, <1>3 DEF Look, Goto, KeptFor, KeptBeside, Committing, Replacing, OpFits, disk, Op, Writing
  <2> QED BY <1>0, <1>3, <2>1, <2>2, FrameKept DEF Look, disk
<1>4. ASSUME pc[p] \in Reading, NEW m, WithManifest(p, m), UNCHANGED <<disk, acks, since>> PROVE KInv'
  <2>1. CommitInv(p)' /\ (Committing(p) /\ Replacing(p, "bin") => since["bin"] > 0)'
    BY <1>0, <1>2, <1>4 DEF WithManifest, Reading, Goto, CommitInv, Committing, Replacing, Writing, OpFits, disk, Op
  <2>2. \A a \in acks : Latest(a) => KeptFor(a, p)'
    BY <1>0, <1>1, <1>2, <1>4 DEF WithManifest, Reading, Goto, KeptFor, KeptBeside, Committing, Replacing, OpFits, disk, Op, Writing
  <2> QED BY <1>0, <1>4, <2>1, <2>2, FrameKept DEF disk
<1>5. ASSUME Return(p), UNCHANGED <<disk, acks, since>> PROVE KInv'
  BY <1>1, <1>5, ReturnKept DEF KeptFor, disk
<1>6. CASE LookPrevious(p)
  <2>1. CASE Goto(p, "read") /\ op' = [op EXCEPT ![p].source = "prev"] /\ file' = file
    <3>1. CommitInv(p)' /\ (Committing(p) /\ Replacing(p, "bin") => since["bin"] > 0)'
      BY <1>0, <1>2, <1>6, <2>1 DEF LookPrevious, Goto, CommitInv, Committing, Replacing, Writing, OpFits, disk, Op
    <3>2. \A a \in acks : Latest(a) => KeptFor(a, p)'
      BY <1>0, <1>1, <1>2, <1>6, <2>1 DEF LookPrevious, Goto, KeptFor, KeptBeside, Committing, Replacing, OpFits, disk, Op, Writing
    <3> QED BY <1>0, <1>6, <3>1, <3>2, FrameKept DEF LookPrevious, disk
  <2> QED BY <1>4, <1>5, <1>6, <2>1 DEF LookPrevious, Reading
<1>7. CASE Read(p)
  <2>1. CASE Goto(p, "again") /\ UNCHANGED <<op, file>>
    <3>1. CommitInv(p)' /\ (Committing(p) /\ Replacing(p, "bin") => since["bin"] > 0)'
      BY <1>0, <1>2, <1>7, <2>1 DEF Read, Goto, CommitInv, Committing, Replacing, Writing, OpFits, disk, Op
    <3>2. \A a \in acks : Latest(a) => KeptFor(a, p)'
      BY <1>0, <1>1, <1>2, <1>7, <2>1 DEF Read, Goto, KeptFor, KeptBeside, Committing, Replacing, OpFits, disk, Op, Writing
    <3> QED BY <1>0, <1>7, <3>1, <3>2, FrameKept DEF Read, disk
  <2> QED BY <1>4, <1>5, <1>7, <2>1 DEF Read, Reading
<1>8. CASE WriteTemp(p)
  <2>0. CASE Goto(p, "unlink") /\ UNCHANGED <<op, file, commits, acks>>
    <3>1. CommitInv(p)' /\ (Committing(p) /\ Replacing(p, "bin") => since["bin"] > 0)'
      BY <1>0, <1>2, <1>8, <2>0 DEF WriteTemp, Goto, CommitInv, Committing, Replacing, Writing, OpFits, disk, Op
    <3>2. \A a \in acks : Latest(a) => KeptFor(a, p)'
      BY <1>0, <1>1, <1>2, <1>8, <2>0 DEF WriteTemp, Goto, KeptFor, KeptBeside, Committing, Replacing, OpFits, disk, Op, Writing
    <3> QED BY <1>0, <1>8, <2>0, <3>1, <3>2, FrameKept DEF WriteTemp, disk
  <2> QED BY <1>5, <1>8, <2>0 DEF WriteTemp, Failing
<1>9. CASE UnlinkPrevious(p)
  <2>0. CASE Goto(p, "exists") /\ UNCHANGED <<op, file, acks>> /\ prev' = [prev EXCEPT ![file[p]] = NoFile]
             /\ since' = [since EXCEPT ![file[p]] = IF @ = 3 THEN 3 ELSE @ + 1]
    <3>1. CommitInv(p)' /\ (Committing(p) /\ Replacing(p, "bin") => since["bin"] > 0)'
      BY <1>0, <1>2, <1>9, <2>0 DEF UnlinkPrevious, Goto, CommitInv, Committing, Replacing, Writing, OpFits, disk, Op, Names
    <3>2. \A a \in acks : Latest(a) => KeptFor(a, p)'
      BY <1>0, <1>1, <1>2, <1>9, <2>0, LocalSaveAssumption DEF UnlinkPrevious, Goto, KeptFor, KeptBeside, Committing, Replacing, OpFits, disk, Op, Writing, Names
    <3> QED BY <1>0, <1>9, <2>0, <3>1, <3>2, FrameKept DEF UnlinkPrevious, CommitInv, Committing, Replacing, Writing, OpFits, disk, Op, Names
  <2> QED BY <1>5, <1>9, <2>0 DEF UnlinkPrevious, Failing, disk
<1>10. CASE Exists(p)
  <2>1. CommitInv(p)' /\ (Committing(p) /\ Replacing(p, "bin") => since["bin"] > 0)'
    BY <1>0, <1>2, <1>10 DEF Exists, Goto, CommitInv, Committing, Replacing, Writing, OpFits, disk, Op, Names
  <2>2. \A a \in acks : Latest(a) => KeptFor(a, p)'
    BY <1>0, <1>1, <1>2, <1>10, LocalSaveAssumption DEF Exists, Goto, KeptFor, KeptBeside, Committing, Replacing, OpFits, disk, Op, Writing, Names
  <2> QED BY <1>0, <1>10, <2>1, <2>2, FrameKept DEF Exists, CommitInv, Committing, Replacing, Writing, OpFits, disk, Op, Names
<1>11. CASE MoveAside(p)
  <2>0. CASE Goto(p, "place") /\ UNCHANGED <<op, file, acks>> /\ cur[file[p]] # NoFile
             /\ prev' = [prev EXCEPT ![file[p]] = cur[file[p]]]
             /\ cur' = [cur EXCEPT ![file[p]] = NoFile]
    <3>1. CommitInv(p)' /\ (Committing(p) /\ Replacing(p, "bin") => since["bin"] > 0)'
      BY <1>0, <1>2, <1>11, <2>0 DEF MoveAside, Goto, CommitInv, Committing, Replacing, Writing, OpFits, disk, Op, Names
    <3>2. ASSUME NEW a \in acks, Latest(a) PROVE KeptFor(a, p)'
      <4>1. CASE file[p] = "bin"
        <5>1. since["bin"] > 0 /\ (since["bin"] <= 1 => cur["bin"] = a.sum)
          BY <1>0, <1>1, <1>2, <1>11, <3>2, <4>1
             DEF MoveAside, KeptFor, KeptBeside, Committing, Replacing, OpFits, Writing
        <5> QED BY <1>0, <1>11, <2>0, <4>1, <5>1
                DEF MoveAside, Goto, KeptFor, KeptBeside, Committing, Replacing, Names
      <4>2. CASE file[p] = "man"
        BY <1>0, <1>1, <1>11, <2>0, <3>2, <4>2
           DEF MoveAside, Goto, KeptFor, KeptBeside, Committing, Replacing, Names
      <4> QED BY <1>0, <4>1, <4>2 DEF Names
    <3>3. (cur'["bin"] = cur["bin"] /\ prev'["bin"] = prev["bin"]) \/ Committing(p)
      BY <1>0, <1>11, <2>0 DEF MoveAside, Committing, OpFits, Writing, Names
    <3> QED BY <1>0, <1>11, <2>0, <3>1, <3>2, <3>3, FrameKept DEF MoveAside
  <2> QED BY <1>5, <1>11, <2>0 DEF MoveAside, Failing
<1>12. CASE Place(p)
  <2>0. CASE file[p] = "bin"
    <3>1. CommitInv(p)' /\ (Committing(p) /\ Replacing(p, "bin") => since["bin"] > 0)'
      BY <1>0, <1>2, <1>12, <2>0 DEF Place, Goto, CommitInv, Committing, Replacing, Writing, OpFits, disk, Op, Names
    <3>2. \A a \in acks : Latest(a) => KeptFor(a, p)'
      BY <1>0, <1>1, <1>2, <1>12, <2>0, LocalSaveAssumption DEF Place, Goto, KeptFor, KeptBeside, Committing, Replacing, OpFits, disk, Op, Writing, Names
    <3> QED BY <1>0, <1>12, <2>0, <3>1, <3>2, FrameKept DEF Place, CommitInv, Committing, Replacing, Writing, OpFits, disk, Op, Names
  <2>1. CASE file[p] = "man" /\ op[p].kind # "commit"
    <3>1. CommitInv(p)' /\ (Committing(p) /\ Replacing(p, "bin") => since["bin"] > 0)'
      BY <1>0, <1>2, <1>12, <2>1 DEF Place, Return, Goto, CommitInv, Committing, Replacing, Writing, OpFits, disk, Op, Names
    <3>2. \A a \in acks : Latest(a) => KeptFor(a, p)'
      BY <1>0, <1>1, <1>2, <1>12, <2>1 DEF Place, Return, Goto, KeptFor, KeptBeside, Committing, Replacing, OpFits, disk, Op, Writing, Names
    <3> QED BY <1>0, <1>12, <2>1, <3>1, <3>2, FrameKept DEF Place, Names
  <2>2. CASE file[p] = "man" /\ op[p].kind = "commit"
    <3>1. cur'["bin"] = op[p].sum /\ op[p].sum = commits /\ \A a \in acks : a.sum < commits
      BY <1>0, <1>2, <1>12, <2>2 DEF Place, CommitInv, Committing, Writing, OpFits
    <3>2. pc'[p] = "idle" /\ since'["bin"] = 0
          /\ acks' = acks \cup {[sum |-> commits, rev |-> op[p].man.rev]}
      BY <1>0, <1>12, <2>2, <3>1 DEF Place, Return, Goto, Names
    <3>3. \A q \in Procs : Committing(q)' => FALSE
      BY <1>0, <1>12, <2>2, <3>2, TheWriter DEF Place, Committing, Mine
    <3>4. \A q \in Procs : pc'[q] # "drop"
      BY <1>0, <1>12, <2>2, <3>2, TheWriter DEF Place, Committing, Mine
    <3>5. \A a \in acks' : a.sum <= commits /\ (Latest(a)' => a.sum = commits)
      <4>1. [sum |-> commits, rev |-> op[p].man.rev] \in acks'
        BY <3>2
      <4>2. \A a \in acks' : a \in acks \/ a.sum = commits
        BY <3>2
      <4>3. ASSUME NEW a \in acks', Latest(a)' PROVE commits <= a.sum
        BY <4>1, <4>3 DEF Latest
      <4> QED BY <1>0, <3>1, <4>2, <4>3
    <3> QED BY <1>0, <3>1, <3>2, <3>3, <3>4, <3>5 DEF KInv, CommitInv, KeptBeside
  <2> QED BY <1>0, <2>0, <2>1, <2>2 DEF Names
<1>13. CASE PlaceFails(p)
  <2>0. CASE Goto(p, "restore") /\ UNCHANGED <<op, file>> /\ prev[file[p]] # NoFile
    <3>1. CommitInv(p)' /\ (Committing(p) /\ Replacing(p, "bin") => since["bin"] > 0)'
      BY <1>0, <1>2, <1>13, <2>0 DEF PlaceFails, Goto, CommitInv, Committing, Replacing, Writing, OpFits, disk, Op, Names
    <3>2. \A a \in acks : Latest(a) => KeptFor(a, p)'
      BY <1>0, <1>1, <1>2, <1>13, <2>0, LocalSaveAssumption DEF PlaceFails, Goto, KeptFor, KeptBeside, Committing, Replacing, OpFits, disk, Op, Writing, Names
    <3> QED BY <1>0, <1>13, <2>0, <3>1, <3>2, FrameKept DEF PlaceFails, CommitInv, Committing, Replacing, Writing, OpFits, disk, Op, Names
  <2> QED BY <1>5, <1>13, <2>0 DEF PlaceFails
<1>14. CASE Restore(p)
  <2>1. CASE file[p] = "bin"
    <3>1. \A a \in acks : Latest(a) =>
            /\ since["bin"] = 0 => cur'["bin"] = a.sum
            /\ since["bin"] = 1 => a.sum \in {cur'["bin"], prev'["bin"]}
      BY <1>0, <1>1, <1>2, <1>14, <2>1 DEF Restore, KeptFor, KeptBeside, Committing, Replacing, OpFits, Writing, Names, disk
    <3>2. Committing(p)
      BY <1>0, <1>14, <2>1 DEF Restore, Committing, OpFits, Writing
    <3>3. Return(p) /\ acks' = acks /\ since' = since
      BY <1>14 DEF Restore, Failing
    <3> QED BY <3>1, <3>2, <3>3, ReturnKept
  <2>2. CASE file[p] # "bin"
    <3>1. cur'["bin"] = cur["bin"] /\ prev'["bin"] = prev["bin"] /\ since' = since
      BY <1>0, <1>14, <2>2 DEF Restore, Names, disk
    <3> QED BY <1>1, <1>14, <3>1, ReturnKept DEF Restore, Failing, KeptFor, Step
  <2> QED BY <2>1, <2>2
<1>15. CASE Verify(p)
  <2>0. CASE Goto(p, "write") /\ file' = [file EXCEPT ![p] = "man"] /\ cur["bin"] = op[p].sum
             /\ UNCHANGED <<op, acks>>
    <3>1. CommitInv(p)' /\ (Committing(p) /\ Replacing(p, "bin") => since["bin"] > 0)'
      BY <1>0, <1>2, <1>15, <2>0 DEF Verify, Goto, CommitInv, Committing, Replacing, Writing, OpFits, disk, Op, Names
    <3>2. \A a \in acks : Latest(a) => KeptFor(a, p)'
      BY <1>0, <1>1, <1>2, <1>15, <2>0, LocalSaveAssumption DEF Verify, Goto, KeptFor, KeptBeside, Committing, Replacing, OpFits, disk, Op, Writing, Names
    <3> QED BY <1>0, <1>15, <2>0, <3>1, <3>2, FrameKept DEF Verify, CommitInv, Committing, Replacing, Writing, OpFits, disk, Op, Names
  <2> QED BY <1>5, <1>15, <2>0 DEF Verify, Failing
<1>16. CASE Drop(p)
  <2>1. acks = {} /\ acks' = acks
    BY <1>2, <1>16 DEF Drop, CommitInv
  <2>2. CommitInv(p)' /\ (Committing(p) /\ Replacing(p, "bin") => since["bin"] > 0)'
    BY <1>0, <1>2, <1>16, <2>1 DEF Drop, Return, Goto, CommitInv, Committing, Replacing, Writing, OpFits, disk, Op, Names
  <2> QED BY <1>0, <1>16, <2>1, <2>2, FrameKept DEF Drop
<1> QED BY <1>3, <1>6, <1>7, <1>8, <1>9, <1>10, <1>11, <1>12, <1>13, <1>14, <1>15, <1>16 DEF Step

LEMMA NextKept == ASSUME TInv, OneWriter, KInv, [Next]_vars PROVE KInv'
<1>1. ASSUME NEW p \in Procs, Start(p) PROVE KInv'
  BY <1>1, BeginKept DEF Start, Kinds
<1>2. CASE Kill
  BY <1>2 DEF Kill, KInv, CommitInv, Committing, KeptBeside, Latest, disk
<1>3. CASE UNCHANGED vars
  BY <1>3 DEF vars, KInv, CommitInv, Committing, Replacing, KeptBeside, Latest, Writing
<1> QED BY <1>1, <1>2, <1>3, StepKept DEF Next

\* With one operation at a time that commits or removes, a content whose commit has returned
\* stays on disk through the next commit, whatever is killed or fails in between.
THEOREM LocalSaveKept == ASSUME OneWriter PROVE Spec => []KeptOnDisk
<1>1. KInv /\ TInv => KeptOnDisk
  <2> SUFFICES ASSUME KInv, TInv, since["bin"] <= 1, NEW a \in acks, Latest(a)
               PROVE  a.sum \in {cur["bin"], prev["bin"]}
    BY DEF KeptOnDisk
  <2>1. since["bin"] \in {0, 1}
    BY DEF TInv, TypeOK, Names
  <2> QED BY <2>1 DEF KInv
<1>2. TInv /\ KInv /\ [Next]_vars => KInv'
  BY NextKept
<1> QED BY <1>1, <1>2, InitKept, Types, PTL DEF Spec

------------------------------------------------------------------------------
(* One operation after the other: LoadFresh and RevisionsSurviveOneCut. *)

Alone == \A p, q \in Procs : pc[p] # "idle" /\ pc[q] # "idle" => p = q

\* What a running operation knows of the files when it is alone: what it has looked for or
\* moved; a commit writes a manifest of its own content.
Begun(p) == pc[p] \in {"exists", "aside", "place", "restore"} /\ file[p] = "man"
Sees(p) ==
  /\ pc[p] # "again"
  /\ pc[p] = "look" => op[p].source = "cur"
  /\ pc[p] = "lookprev" => cur["man"] = NoFile
  /\ pc[p] = "read" => IF op[p].source = "cur" THEN cur["man"] # NoFile
                       ELSE cur["man"] = NoFile /\ prev["man"] # NoFile
  /\ pc[p] \in {"place", "restore"} => cur[file[p]] = NoFile
  /\ Begun(p) => since["man"] > 0
  /\ Committing(p) /\ pc[p] \in Writing => op[p].man.sum = op[p].sum
Follows(b, p) ==
  pc[p] \in Writing =>
    /\ op[p].kind = "update" => op[p].man.sum = b.sum /\ op[p].man.rev = b.rev
    /\ op[p].kind = "commit" /\ (since["man"] <= 1 \/ (since["man"] <= 2 /\ Begun(p)))
       => b.rev < op[p].man.rev

\* The manifest that is found is that of the last commit that has returned, and is there
\* unless two replacements in a row were cut short.  A content older than that of the last
\* commit is left under .previous alone, and only until the next replacement begins.
OnDisk(b) ==
  /\ Found # NoFile => Found.sum = b.sum /\ Found.rev = b.rev
  /\ since["man"] = 0 => cur["man"] # NoFile
  /\ since["man"] = 1 => Found # NoFile
  /\ cur["bin"] # NoFile => b.sum <= cur["bin"]
  /\ prev["bin"] # NoFile /\ prev["bin"] < b.sum => cur["bin"] = b.sum
InHand(b, p) ==
  /\ Follows(b, p)
  /\ Committing(p) /\ pc[p] \in Writing /\ (file[p] = "man" \/ Replacing(p, "bin"))
     => prev["bin"] = NoFile \/ b.sum <= prev["bin"]
HasLatest == acks = {} \/ \E b \in acks : Latest(b)
Sequential ==
  /\ Alone
  /\ \A a \in acks : a.sum <= commits
  /\ HasLatest
  /\ \A p \in Procs : CommitInv(p) /\ Sees(p)
  /\ \A b \in acks : Latest(b) => OnDisk(b) /\ \A p \in Procs : InHand(b, p)
SInv == ~mixed => Sequential

LEMMA InitSequential == Init => SInv
BY DEF Init, SInv, Sequential, HasLatest, Alone, CommitInv, Sees, Committing, Begun

LEMMA NothingInHand ==
  ASSUME NEW p \in Procs, pc'[p] = "idle" PROVE CommitInv(p)' /\ Sees(p)' /\ \A b : InHand(b, p)'
BY DEF CommitInv, Sees, InHand, Follows, Committing, Begun, Writing

\* What is to be shown of a step of p: the others are idle.
LEMMA FrameSequential ==
  ASSUME NEW p \in Procs, Mine(p), \A q \in Procs : q # p => pc[q] = "idle",
         (\A a \in acks : a.sum <= commits)', HasLatest', CommitInv(p)', Sees(p)',
         \A b \in acks' : Latest(b)' => OnDisk(b)' /\ InHand(b, p)'
  PROVE  Sequential'
<1>1. \A q \in Procs : q # p => pc'[q] = "idle"
  BY DEF Mine
<1>2. \A q \in Procs : q # p => CommitInv(q)' /\ Sees(q)' /\ \A b : InHand(b, q)'
  BY <1>1, NothingInHand
<1> QED BY <1>1, <1>2 DEF Sequential, Alone

LEMMA BeginSequential ==
  ASSUME TInv, SInv, ~mixed', NEW p \in Procs, NEW kind \in Kinds, NEW c, Begin(p, kind, c)
  PROVE  Sequential'
<1>1. Sequential /\ \A q \in Procs : pc[q] = "idle"
  BY DEF Begin, SInv
<1>2. Mine(p)
  BY DEF Begin, Mine, TInv, TypeOK
<1>3. /\ op'[p].kind = kind /\ pc'[p] \in {"drop", "look"} /\ (pc'[p] = "drop" <=> kind = "remove")
      /\ (kind = "commit" => op'[p].sum = commits + 1 /\ commits' = commits + 1)
      /\ (kind # "commit" => commits' = commits) /\ commits \in Nat
      /\ (kind = "remove" => acks' = {}) /\ (kind # "remove" => acks' = acks)
      /\ cur' = cur /\ prev' = prev /\ since' = since /\ file'[p] = "bin" /\ op'[p].source = "cur"
  BY LocalSaveAssumption DEF Begin, TInv, TypeOK, disk
<1>4. \A a \in acks : a.sum \in Nat
  BY LocalSaveAssumption DEF TInv, TypeOK
<1>5. (\A a \in acks : a.sum <= commits)' /\ HasLatest'
  BY <1>1, <1>3, <1>4 DEF Sequential, HasLatest, Latest
<1>6. CommitInv(p)' /\ Sees(p)'
  BY <1>1, <1>3, <1>4 DEF Sequential, CommitInv, Committing, Sees, Begun, Writing
<1>7. ASSUME NEW b \in acks', Latest(b)' PROVE OnDisk(b)' /\ InHand(b, p)'
  <2>1. acks' = acks /\ Latest(b)
    BY <1>3, <1>7 DEF Latest
  <2> QED BY <1>1, <1>3, <1>7, <2>1
          DEF Sequential, OnDisk, InHand, Follows, Found, Writing
<1> QED BY <1>1, <1>2, <1>5, <1>6, <1>7, FrameSequential

LEMMA StepSequential ==
  ASSUME TInv, SInv, ~mixed', NEW p \in Procs, Step(p) PROVE Sequential'
<1>0. /\ pc = [q \in Procs |-> pc[q]] /\ op = [q \in Procs |-> op[q]] /\ OpFits(p)
      /\ file \in [Procs -> Names] /\ Mine(p) /\ commits' = commits
      /\ cur = [f \in Names |-> cur[f]] /\ prev = [f \in Names |-> prev[f]]
      /\ since \in [Names -> 0 .. 3] /\ commits \in Nat /\ \A a \in acks : a.sum \in Nat
  BY StepIsMine, LocalSaveAssumption DEF TInv, TypeOK
<1>1. /\ ~mixed /\ pc[p] # "idle" /\ HasLatest /\ \A a \in acks : a.sum <= commits
      /\ CommitInv(p) /\ Sees(p) /\ \A q \in Procs : q # p => pc[q] = "idle"
      /\ \A b \in acks : Latest(b) => OnDisk(b) /\ InHand(b, p)
  <2>1. pc[p] # "idle"
    BY DEF Step, Look, LookPrevious, Read, WriteTemp, UnlinkPrevious, Exists, MoveAside, Place,
           PlaceFails, Restore, Verify, Drop
  <2>2. ~mixed
    BY DEF Step, Look, LookPrevious, Read, WriteTemp, UnlinkPrevious, Exists, MoveAside, Place,
           PlaceFails, Restore, Verify, Drop
  <2> QED BY <2>1, <2>2 DEF SInv, Sequential, Alone
\* A step that acknowledges nothing.
<1>2. ASSUME acks' = acks, CommitInv(p)', Sees(p)',
             \A b \in acks : Latest(b) => OnDisk(b)' /\ InHand(b, p)'
      PROVE  Sequential'
  BY <1>0, <1>1, <1>2, FrameSequential DEF Latest, HasLatest
<1>3. ASSUME acks' = acks, Return(p), \A b \in acks : Latest(b) => OnDisk(b)'
      PROVE  Sequential'
  <2>1. pc'[p] = "idle"
    BY <1>0, <1>3 DEF Return, Goto
  <2>2. CommitInv(p)' /\ Sees(p)' /\ \A b \in acks : InHand(b, p)'
    BY <2>1, NothingInHand
  <2> QED BY <1>2, <1>3, <2>2
<1>4. ASSUME Return(p), UNCHANGED <<disk, acks, since>> PROVE Sequential'
  BY <1>1, <1>3, <1>4 DEF OnDisk, Found, disk
<1>5. CASE Look(p)
  <2>0. /\ pc[p] = "look" /\ op' = op /\ file' = file /\ op[p].source = "cur" /\ cur' = cur
        /\ pc'[p] \in {"read", "lookprev"} /\ (pc'[p] = "read" <=> cur["man"] # NoFile)
    BY <1>0, <1>1, <1>5 DEF Look, Goto, Sees, OpFits, Op, disk
  <2>1. CommitInv(p)' /\ Sees(p)'
    BY <1>1, <1>5, <2>0 DEF Look, CommitInv, Committing, Sees, Begun, Writing
  <2>2. ASSUME NEW b \in acks, Latest(b) PROVE OnDisk(b)' /\ InHand(b, p)'
    BY <1>0, <1>1, <1>5, <2>2 DEF Look, Goto, OnDisk, Found, InHand, Follows, Committing, Writing, disk
  <2> QED BY <1>2, <1>5, <2>1, <2>2 DEF Look
\* The new manifest goes on from the one that was found.
<1>6. ASSUME pc[p] \in Reading, NEW m, WithManifest(p, m), UNCHANGED <<disk, acks, since>>,
             \/ m = Found /\ m # NoFile /\ m \in Manifest
             \/ m = NoManifest /\ Found = NoFile /\ op[p].kind = "commit"
      PROVE  Sequential'
  <2>0. /\ pc'[p] = "write" /\ op'[p].kind = op[p].kind /\ op'[p].sum = op[p].sum
        /\ op'[p].man = NextManifest(op[p], m) /\ op[p] \in Op
        /\ file'[p] \in Names /\ (file'[p] = "bin" <=> op[p].kind = "commit")
    BY <1>0, <1>6 DEF WithManifest, Goto, OpFits, Reading, Op, Names
  <2>1. CommitInv(p)' /\ Sees(p)'
    BY <1>0, <1>1, <1>6, <2>0 DEF CommitInv, Committing, Sees, Begun, Writing, OpFits, Reading, disk, NextManifest, Op
  <2>2. ASSUME NEW b \in acks, Latest(b) PROVE OnDisk(b)' /\ InHand(b, p)'
    <3>1. OnDisk(b)'
      BY <1>1, <1>6, <2>2 DEF OnDisk, Found, disk
    <3>2. Follows(b, p)'
      BY <1>0, <1>1, <1>6, <2>0, <2>2
         DEF Follows, OnDisk, Found, NextManifest, Begun, Manifest, NoManifest, Names, disk
    <3>3. InHand(b, p)'
      BY <2>0, <3>2 DEF InHand, Committing, Replacing, Names
    <3> QED BY <3>1, <3>3
  <2> QED BY <1>2, <1>6, <2>1, <2>2
<1>7. CASE LookPrevious(p)
  <2>0. pc[p] = "lookprev" /\ cur["man"] = NoFile
    BY <1>1, <1>7 DEF LookPrevious, Sees
  <2>1. CASE Goto(p, "read") /\ op' = [op EXCEPT ![p].source = "prev"] /\ file' = file
             /\ prev["man"] # NoFile
    <3>1. CommitInv(p)' /\ Sees(p)'
      BY <1>0, <1>1, <1>7, <2>0, <2>1 DEF LookPrevious, Goto, CommitInv, Committing, Sees, Begun, Writing, OpFits, Reading, disk, Op
    <3>2. ASSUME NEW b \in acks, Latest(b) PROVE OnDisk(b)' /\ InHand(b, p)'
      BY <1>0, <1>1, <1>7, <2>1, <3>2 DEF LookPrevious, Goto, OnDisk, Found, InHand, Follows, Committing, Writing, disk
    <3> QED BY <1>2, <1>7, <3>1, <3>2 DEF LookPrevious
  <2>2. CASE prev["man"] = NoFile /\ op[p].kind = "commit" /\ WithManifest(p, NoManifest)
    BY <1>6, <1>7, <2>0, <2>2 DEF LookPrevious, Reading, Found
  <2>3. CASE Return(p)
    BY <1>4, <1>7, <2>3 DEF LookPrevious
  <2> QED BY <1>7, <2>1, <2>2, <2>3 DEF LookPrevious
<1>8. CASE Read(p)
  <2> DEFINE m == Stored(op[p].source, "man")
  <2>1. m # NoFile /\ WithManifest(p, m)
    BY <1>8 DEF Read
  <2>2. m = Found /\ m \in Manifest
    BY <1>1, <1>8, <2>1 DEF Read, Stored, Sees, Found, TInv, TypeOK
  <2> HIDE DEF m
  <2> QED BY <1>6, <1>8, <2>1, <2>2 DEF Read, Reading
<1>9. CASE WriteTemp(p)
  <2>0. CASE Goto(p, "unlink") /\ UNCHANGED <<op, file, commits, acks>>
    <3>1. CommitInv(p)' /\ Sees(p)'
      BY <1>0, <1>1, <1>9, <2>0 DEF WriteTemp, Goto, CommitInv, Committing, Sees, Begun, Writing, disk
    <3>2. ASSUME NEW b \in acks, Latest(b) PROVE OnDisk(b)' /\ InHand(b, p)'
      BY <1>0, <1>1, <1>9, <2>0, <3>2
         DEF WriteTemp, Goto, OnDisk, Found, InHand, Follows, Begun, Committing, Replacing, Writing, disk
    <3> QED BY <1>2, <2>0, <3>1, <3>2
  <2> QED BY <1>4, <1>9, <2>0 DEF WriteTemp, Failing
<1>10. CASE UnlinkPrevious(p)
  <2>0. CASE Goto(p, "exists") /\ UNCHANGED <<op, file, acks>> /\ prev' = [prev EXCEPT ![file[p]] = NoFile]
             /\ since' = [since EXCEPT ![file[p]] = IF @ = 3 THEN 3 ELSE @ + 1]
    <3>0. /\ pc'[p] = "exists" /\ cur' = cur /\ file[p] \in Names /\ pc[p] = "unlink"
          /\ file[p] = "man" => since'["bin"] = since["bin"] /\ prev'["bin"] = prev["bin"] /\ prev'["man"] = NoFile
          /\ file[p] = "man" => since'["man"] = (IF since["man"] = 3 THEN 3 ELSE since["man"] + 1)
          /\ file[p] = "bin" => since'["man"] = since["man"] /\ prev'["man"] = prev["man"] /\ prev'["bin"] = NoFile
          /\ since["man"] \in 0 .. 3
      BY <1>0, <1>10, <2>0 DEF UnlinkPrevious, Goto, Names
    <3>1. CommitInv(p)' /\ Sees(p)'
      BY <1>0, <1>1, <2>0, <3>0 DEF CommitInv, Committing, Sees, Begun, Writing
    <3>2. ASSUME NEW b \in acks, Latest(b) PROVE OnDisk(b)' /\ InHand(b, p)'
      <4>1. OnDisk(b) /\ InHand(b, p)
        BY <1>1, <3>2
      <4>2. OnDisk(b)'
        BY <2>0, <3>0, <4>1 DEF OnDisk, Found, Names
      <4>3. InHand(b, p)'
        BY <2>0, <3>0, <4>1 DEF InHand, Follows, Begun, Committing, Replacing, Writing, Names
      <4> QED BY <4>2, <4>3
    <3> QED BY <1>2, <2>0, <3>1, <3>2
  <2> QED BY <1>4, <1>10, <2>0 DEF UnlinkPrevious, Failing, disk
<1>11. CASE Exists(p)
  <2>1. CommitInv(p)' /\ Sees(p)'
    BY <1>0, <1>1, <1>11 DEF Exists, Goto, CommitInv, Committing, Sees, Begun, Writing, disk
  <2>2. ASSUME NEW b \in acks, Latest(b) PROVE OnDisk(b)' /\ InHand(b, p)'
    BY <1>0, <1>1, <1>11, <2>2
       DEF Exists, Goto, OnDisk, Found, InHand, Follows, Begun, Committing, Replacing, Writing, disk
  <2> QED BY <1>2, <1>11, <2>1, <2>2 DEF Exists
<1>12. CASE MoveAside(p)
  <2>0. CASE Goto(p, "place") /\ UNCHANGED <<op, file, acks, since>> /\ cur[file[p]] # NoFile
             /\ prev' = [prev EXCEPT ![file[p]] = cur[file[p]]]
             /\ cur' = [cur EXCEPT ![file[p]] = NoFile]
    <3>0. /\ pc'[p] = "place" /\ file[p] \in Names /\ pc[p] = "aside"
          /\ file[p] = "man" => /\ cur'["bin"] = cur["bin"] /\ prev'["bin"] = prev["bin"]
                                /\ prev'["man"] = cur["man"] /\ cur'["man"] = NoFile
          /\ file[p] = "bin" => /\ cur'["man"] = cur["man"] /\ prev'["man"] = prev["man"]
                                /\ prev'["bin"] = cur["bin"] /\ cur'["bin"] = NoFile
          /\ since["man"] \in 0 .. 3
      BY <1>0, <1>12, <2>0 DEF MoveAside, Goto, Names
    <3>1. CommitInv(p)' /\ Sees(p)'
      BY <1>0, <1>1, <2>0, <3>0 DEF CommitInv, Committing, Sees, Begun, Writing, Names
    <3>2. ASSUME NEW b \in acks, Latest(b) PROVE OnDisk(b)' /\ InHand(b, p)'
      <4>1. OnDisk(b) /\ InHand(b, p) /\ Sees(p) /\ OpFits(p) /\ b.sum \in Nat
        BY <1>0, <1>1, <3>2
      <4>2. OnDisk(b)'
        <5>1. CASE file[p] = "bin"
          <6>1. cur["bin"] # NoFile /\ cur["bin"] \in Nat
            BY <2>0, <5>1, LocalSaveAssumption DEF TInv, TypeOK
          <6> QED BY <2>0, <3>0, <4>1, <5>1, <6>1 DEF OnDisk, Found
        <5>2. CASE file[p] = "man"
          <6>1. since["man"] > 0 /\ cur["man"] # NoFile
            BY <2>0, <3>0, <4>1, <5>2 DEF Sees, Begun
          <6> QED BY <2>0, <3>0, <4>1, <5>2, <6>1 DEF OnDisk, Found
        <5> QED BY <3>0, <5>1, <5>2 DEF Names
      <4>3. InHand(b, p)'
        BY <2>0, <3>0, <4>1 DEF OnDisk, InHand, Follows, Begun, Committing, Replacing, Writing, Names
      <4> QED BY <4>2, <4>3
    <3> QED BY <1>2, <2>0, <3>1, <3>2
  <2> QED BY <1>4, <1>12, <2>0 DEF MoveAside, Failing
<1>13. CASE PlaceFails(p)
  <2>0. CASE Goto(p, "restore") /\ UNCHANGED <<op, file>> /\ prev[file[p]] # NoFile
    <3>1. CommitInv(p)' /\ Sees(p)'
      BY <1>0, <1>1, <1>13, <2>0 DEF PlaceFails, Goto, CommitInv, Committing, Sees, Begun, Writing, disk
    <3>2. ASSUME NEW b \in acks, Latest(b) PROVE OnDisk(b)' /\ InHand(b, p)'
      BY <1>0, <1>1, <1>13, <2>0, <3>2
         DEF PlaceFails, Goto, OnDisk, Found, InHand, Follows, Begun, Committing, Replacing, Writing, disk
    <3> QED BY <1>2, <1>13, <3>1, <3>2 DEF PlaceFails
  <2> QED BY <1>4, <1>13, <2>0 DEF PlaceFails
<1>14. CASE Place(p)
  <2>0. /\ file[p] \in Names /\ pc[p] = "place" /\ op[p].man \in Manifest /\ prev' = prev
        /\ cur' = [cur EXCEPT ![file[p]] = Written(p)] /\ op[p].kind \in {"commit", "update"}
    BY <1>0, <1>14 DEF Place, OpFits, Reading, Writing
  <2>1. CASE file[p] = "bin"
    <3>0. /\ pc'[p] = "verify" /\ op' = op /\ file' = file /\ acks' = acks /\ since' = since
          /\ cur'["bin"] = op[p].sum /\ cur'["man"] = cur["man"] /\ Committing(p)
      BY <1>0, <1>14, <2>0, <2>1 DEF Place, Goto, Written, Names, Committing, OpFits, Writing
    <3>1. CommitInv(p)' /\ Sees(p)'
      BY <1>0, <1>1, <2>0, <2>1, <3>0 DEF CommitInv, Committing, Sees, Begun, Writing
    <3>2. ASSUME NEW b \in acks, Latest(b) PROVE OnDisk(b)' /\ InHand(b, p)'
      <4>1. /\ OnDisk(b) /\ InHand(b, p) /\ Sees(p) /\ OpFits(p)
            /\ b.sum \in Nat /\ op[p].sum \in Nat /\ b.sum < op[p].sum
        BY <1>0, <1>1, <3>0, <3>2 DEF CommitInv
      <4>2. OnDisk(b)'
        BY <2>0, <2>1, <3>0, <4>1, LocalSaveAssumption
           DEF OnDisk, InHand, Found, Names, Replacing, Writing, TInv, TypeOK
      <4>3. InHand(b, p)'
        BY <2>0, <2>1, <3>0, <4>1 DEF InHand, Follows, Begun, Committing, Replacing, Writing, Names
      <4> QED BY <4>2, <4>3
    <3> QED BY <1>2, <3>0, <3>1, <3>2
  <2>2. CASE file[p] = "man" /\ op[p].kind = "update"
    <3>0. /\ Return(p) /\ acks' = acks /\ since' = [since EXCEPT !["man"] = 0]
          /\ cur'["bin"] = cur["bin"] /\ cur'["man"] = op[p].man
      BY <1>0, <1>14, <2>0, <2>2 DEF Place, Goto, Written, Names
    <3>1. op[p].man # NoFile
      BY <2>0, LocalSaveAssumption DEF Manifest
    <3>2. ASSUME NEW b \in acks, Latest(b) PROVE OnDisk(b)'
      <4>1. OnDisk(b) /\ op[p].man.sum = b.sum /\ op[p].man.rev = b.rev
        BY <1>1, <2>0, <2>2, <3>2 DEF InHand, Follows, Writing
      <4> QED BY <1>0, <2>0, <3>0, <3>1, <4>1 DEF OnDisk, Found, Names
    <3> QED BY <1>3, <3>0, <3>2
  <2>3. CASE file[p] = "man" /\ op[p].kind = "commit"
    <3> DEFINE new == [sum |-> op[p].sum, rev |-> op[p].man.rev]
    <3>0. /\ Return(p) /\ acks' = acks \cup {new} /\ since'["man"] = 0
          /\ cur'["bin"] = cur["bin"] /\ cur'["man"] = op[p].man
      BY <1>0, <1>14, <2>0, <2>3 DEF Place, Goto, Written, Names
    <3>1. op[p].man # NoFile
      BY <2>0, LocalSaveAssumption DEF Manifest
    <3>2. /\ cur["bin"] = op[p].sum /\ op[p].sum = commits /\ op[p].man.sum = commits
          /\ \A a \in acks : a.sum < commits
      BY <1>1, <2>0, <2>3 DEF CommitInv, Sees, Committing, Writing
    <3>3. pc'[p] = "idle"
      BY <1>0, <3>0 DEF Return, Goto
    <3>4. CommitInv(p)' /\ Sees(p)'
      BY <3>3, NothingInHand
    <3>5. (\A a \in acks : a.sum <= commits)' /\ HasLatest'
      <4>1. new \in acks' /\ new.sum = commits
        BY <3>0, <3>2
      <4>2. \A a \in acks' : a.sum <= commits
        BY <1>0, <3>0, <3>2
      <4>3. ASSUME NEW x, x = new PROVE x \in acks' /\ Latest(x)'
        BY <4>1, <4>2, <4>3 DEF Latest
      <4> QED BY <1>0, <3>2, <4>2, <4>3 DEF HasLatest
    <3>6. ASSUME NEW b \in acks', Latest(b)' PROVE OnDisk(b)' /\ InHand(b, p)'
      <4>1. new \in acks' /\ new.sum = commits
        BY <3>0, <3>2
      <4>2. commits <= b.sum
        BY <3>6, <4>1 DEF Latest
      <4>3. b = new
        BY <1>0, <3>0, <3>2, <4>2
      <4>4. OnDisk(b)'
        <5>1. b.sum = commits /\ b.rev = op[p].man.rev
          BY <3>2, <4>3
        <5> HIDE DEF new
        <5> QED BY <1>0, <2>0, <3>0, <3>1, <3>2, <5>1 DEF OnDisk, Found
      <4>5. InHand(b, p)'
        BY <3>3, NothingInHand
      <4> QED BY <4>4, <4>5
    <3> QED BY <1>0, <1>1, <3>4, <3>5, <3>6, FrameSequential
  <2> QED BY <2>0, <2>1, <2>2, <2>3 DEF Names
<1>15. CASE Restore(p)
  <2>0. Return(p) /\ acks' = acks /\ since' = since /\ pc[p] = "restore" /\ file[p] \in Names
    BY <1>0, <1>15 DEF Restore, Failing
  <2>1. ASSUME NEW b \in acks, Latest(b) PROVE OnDisk(b)'
    <3>1. OnDisk(b) /\ InHand(b, p) /\ Sees(p) /\ OpFits(p)
      BY <1>0, <1>1, <2>1
    <3>2. CASE file[p] = "bin"
      BY <1>0, <1>15, <2>0, <3>1, <3>2
         DEF Restore, OnDisk, InHand, Found, Names, Replacing, Committing, Writing, OpFits, disk
    <3>3. CASE file[p] = "man"
      BY <1>0, <1>15, <2>0, <3>1, <3>3 DEF Restore, OnDisk, Found, Names, Sees, disk
    <3> QED BY <2>0, <3>2, <3>3 DEF Names
  <2> QED BY <1>3, <2>0, <2>1
<1>16. CASE Verify(p)
  <2>0. CASE Goto(p, "write") /\ file' = [file EXCEPT ![p] = "man"] /\ cur["bin"] = op[p].sum
             /\ UNCHANGED <<op, acks>>
    <3>0. /\ pc'[p] = "write" /\ file'[p] = "man" /\ pc[p] = "verify" /\ file[p] = "bin"
          /\ cur' = cur /\ prev' = prev /\ since' = since
      BY <1>0, <1>16, <2>0 DEF Verify, Goto, OpFits, disk
    <3>1. CommitInv(p)' /\ Sees(p)'
      BY <1>0, <1>1, <2>0, <3>0 DEF CommitInv, Committing, Sees, Begun, Writing, OpFits
    <3>2. ASSUME NEW b \in acks, Latest(b) PROVE OnDisk(b)' /\ InHand(b, p)'
      BY <1>1, <2>0, <3>0, <3>2
         DEF OnDisk, Found, InHand, Follows, Begun, Committing, Replacing, Writing
    <3> QED BY <1>2, <2>0, <3>1, <3>2
  <2> QED BY <1>4, <1>16, <2>0 DEF Verify, Failing
<1>17. CASE Drop(p)
  <2>1. acks = {} /\ acks' = acks
    BY <1>1, <1>17 DEF Drop, CommitInv
  <2>2. CommitInv(p)' /\ Sees(p)'
    BY <1>0, <1>1, <1>17, <2>1 DEF Drop, Return, Goto, CommitInv, Committing, Sees, Begun, Writing
  <2> QED BY <1>2, <2>1, <2>2
<1> QED BY <1>5, <1>7, <1>8, <1>9, <1>10, <1>11, <1>12, <1>13, <1>14, <1>15, <1>16, <1>17 DEF Step

LEMMA NextSequential == ASSUME TInv, SInv, [Next]_vars PROVE SInv'
<1> SUFFICES ASSUME ~mixed' PROVE Sequential'
  BY DEF SInv
<1>1. ASSUME NEW p \in Procs, Start(p) PROVE Sequential'
  BY <1>1, BeginSequential DEF Start, Kinds
<1>2. ASSUME NEW p \in Procs, Step(p) PROVE Sequential'
  BY <1>2, StepSequential
<1>3. CASE Kill
  <2>1. Sequential
    BY <1>3 DEF Kill, SInv
  <2>2. \A q \in Procs : pc'[q] = "idle"
    BY <1>3 DEF Kill
  <2> QED BY <1>3, <2>1, <2>2
          DEF Kill, Sequential, HasLatest, Alone, CommitInv, Sees, Begun, OnDisk, Found, InHand, Follows, Committing,
              Writing, Latest, disk
<1>4. CASE UNCHANGED vars
  BY <1>4 DEF vars, SInv, Sequential, HasLatest, Alone, CommitInv, Sees, Begun, OnDisk, Found, InHand, Follows,
              Committing, Replacing, Writing, Latest
<1> QED BY <1>1, <1>2, <1>3, <1>4 DEF Next

LEMMA InSequence == Spec => [](TInv /\ SInv)
BY Types, InitSequential, NextSequential, PTL DEF Spec

\* Operations that follow one another, any of them cut short by a kill or a failed write: load
\* finds the last content whose commit has returned or a newer one, or nothing at all.
THEOREM LocalSaveFresh == Spec => []LoadFresh
<1>1. TInv /\ SInv => LoadFresh
  <2> SUFFICES ASSUME TInv, Sequential, Loaded # NoFile, NEW a \in acks PROVE a.sum <= Loaded.sum
    BY DEF LoadFresh, SInv
  <2>1. PICK b \in acks : Latest(b)
    BY DEF Sequential, HasLatest
  <2>2. OnDisk(b) /\ a.sum <= b.sum /\ a.sum \in Nat /\ b.sum \in Nat
    BY <2>1, LocalSaveAssumption DEF Sequential, Latest, TInv, TypeOK
  <2>3. Found # NoFile /\ Found.sum = b.sum
    BY <2>2 DEF Loaded, OnDisk
  <2>4. CASE Fits(cur["bin"], Found)
    BY <2>2, <2>3, <2>4 DEF Loaded
  <2>5. CASE ~Fits(cur["bin"], Found)
    <3>1. Loaded = prev["man"] /\ Fits(prev["bin"], prev["man"])
      BY <2>3, <2>5 DEF Loaded
    <3>2. cur["bin"] # b.sum
      BY <2>2, <2>3, <2>5, LocalSaveAssumption DEF Fits
    <3>3. prev["bin"] \in Nat /\ ~(prev["bin"] < b.sum)
      BY <2>2, <3>1, <3>2, LocalSaveAssumption DEF Fits, OnDisk, TInv, TypeOK
    <3> QED BY <2>2, <3>1, <3>3 DEF Fits
  <2> QED BY <2>4, <2>5
<1> QED BY <1>1, InSequence, PTL

\* One replacement of manifest.json that was cut short never makes a later commit return a
\* revision that is not higher than that of the commit before it.
THEOREM LocalSaveRevisions == Spec => RevisionsSurviveOneCut
<1>1. ASSUME TInv, SInv, [Next]_vars, since["man"] <= 2, ~mixed, NEW a \in acks' \ acks,
             NEW b \in acks, Latest(b)
      PROVE  b.rev < a.rev
  <2>1. PICK p \in Procs : Start(p) \/ Step(p)
    BY <1>1 DEF Next, Kill, vars
  <2>2. Place(p) /\ file[p] = "man" /\ op[p].kind = "commit" /\ a.rev = op[p].man.rev
    <3>1. ~Start(p)
      BY <1>1 DEF Start, Begin
    <3>2. Place(p)
      BY <1>1, <2>1, <3>1
         DEF Step, Failing, Look, LookPrevious, Read, WriteTemp, UnlinkPrevious, Exists, MoveAside,
             PlaceFails, Restore, Verify, Drop
    <3> QED BY <1>1, <3>2 DEF Place, TInv, TypeOK, Names
  <2>3. InHand(b, p)
    BY <1>1 DEF SInv, Sequential
  <2> QED BY <1>1, <2>2, <2>3 DEF Place, InHand, Follows, Begun, Writing
<1>2. TInv /\ SInv /\ [Next]_vars =>
        [since["man"] <= 2 /\ ~mixed =>
           \A a \in acks' \ acks : \A b \in acks : Latest(b) => b.rev < a.rev]_vars
  BY <1>1
<1> QED BY <1>2, InSequence, PTL DEF Spec, RevisionsSurviveOneCut
=============================================================================
