------------------------------- MODULE Library -------------------------------
(***************************************************************************)
(* The library of the phone: ROM files, library.json and                   *)
(* play-history.json, as LibraryRepository and PlayHistoryRepository keep  *)
(* them, and the catalogue items are installed from.  An operation reads a *)
(* whole file, waits, and writes it back; several are under way at once    *)
(* (the pages, the player, the sync service) and the app may be killed     *)
(* between any two calls.                                                  *)
(*                                                                         *)
(* Abstractions.  A read of a file is one step, and replacing one is       *)
(* three: .previous is removed, the file is renamed to it, the new file    *)
(* takes its name.  Writing a temporary file is no step: nobody reads it.  *)
(* Both files are readable when they exist.  Of an entry the model keeps   *)
(* the play time and whether it is linked to the catalogue; of a session,  *)
(* when it ended.                                                          *)
(***************************************************************************)
EXTENDS RomImport, Catalog, FiniteSets, Functions

CONSTANTS
  Roms,         \* contents a ROM file may have, each with its digest
  Sessions,     \* ids of play sessions
  Procs, Does,  \* operations that can be under way at once, and what each does
  Offers,       \* files the user may choose or a download may bring
  Faults,       \* "kill": the app is killed; "rot": a ROM file is damaged
  MaxOps,       \* bound: operations begun
  MaxSessions,  \* maxSessions, 500 in the code
  NoFile, NoOp

HistoryKinds == {"upsert", "forget"}
Edits == {"played", "mark", "remove", "repair"} \cup HistoryKinds
ASSUME LibraryAssumption ==
  /\ Does \in [Procs -> SUBSET (Edits \cup {"import", "install", "list"})]
  /\ Faults \subseteq {"kill", "rot"}
  /\ MaxOps \in Nat /\ MaxSessions \in Nat \ {0}
  /\ \A f \in Offers : f.id \in Roms
  /\ \A D \in SUBSET Roms : NoFile \notin [D -> [played : Nat, cat : BOOLEAN]]
  /\ \A D \in SUBSET Sessions : NoFile \notin [D -> Nat]

VARIABLES
  roms,       \* the file of each ROM: "none", "good", "bad", or "gone" to the quarantine
  cur, prev,  \* library.json and play-history.json, and their .previous
  pc, op,     \* the next call of each operation, and what it has read
  begun,      \* operations begun
  owned,      \* history: ROMs whose import has returned and that were not removed since
  credit,     \* history: the play time of each whose markPlayed has returned
  linked,     \* history: owned ROMs whose installation from the catalogue has returned
  acked,      \* history: sessions whose upsert has returned, with the time they ended
  cuts,       \* history: replacements of each file cut short in a row; two may lose it for good
  hurt        \* history: the files that two operations have damaged together

files == <<roms, cur, prev>>
promises == <<owned, credit, linked, acked>>
faults == <<cuts, hurt>>
vars == <<files, pc, op, begun, promises, faults, catalogVars>>

Names == {"index", "history"}
Empty == <<>>
Put(x, k, v) == [j \in DOMAIN x \cup {k} |-> IF j = k THEN v ELSE x[j]]
FileOf(kind) == IF kind \in HistoryKinds THEN "history" ELSE "index"
NewEntry == [played |-> 0, cat |-> FALSE]

Init ==
  /\ roms = [r \in Roms |-> "none"]
  /\ cur = [f \in Names |-> NoFile] /\ prev = [f \in Names |-> NoFile]
  /\ pc = [p \in Procs |-> "idle"] /\ op = [p \in Procs |-> NoOp] /\ begun = 0
  /\ owned = {} /\ credit = [r \in Roms |-> 0] /\ linked = {} /\ acked = Empty
  /\ cuts = [f \in Names |-> 0] /\ hurt = {}
  /\ CatalogInit

Goto(p, label) == pc' = [pc EXCEPT ![p] = label]
Return(p) == Goto(p, "idle") /\ op' = [op EXCEPT ![p] = NoOp]

------------------------------------------------------------------------------
(* Beginning. *)

Starts(p, kind, id, label) ==
  /\ pc[p] = "idle" /\ kind \in Does[p] /\ begun < MaxOps
  /\ begun' = begun + 1
  /\ op' = [op EXCEPT ![p] = [kind |-> kind, id |-> id, at |-> begun', next |-> Empty, stale |-> FALSE]]
  /\ Goto(p, label)

\* chooseAndImport and importAuthorizedDownload, or importCatalogItem of an item the page
\* shows.  A file that is refused leaves everything as it is.
Import(p, kind, f) ==
  /\ CASE kind = "import" -> Accepts(f, NotDeclared)
       [] kind = "install" ->
            /\ shown # NoCatalog
            /\ \E i \in DOMAIN shown.data.items :
                 shown.data.items[i].key = f.key /\ Accepts(f, shown.data.items[i].size)
  /\ Starts(p, kind, f.id, IF HeaderRisk(f) THEN "confirm" ELSE "exists")
  /\ UNCHANGED <<files, promises, faults, catalogVars>>

\* The others read their file first.
Begin(p, kind, id) ==
  /\ kind \in Edits /\ id \in (IF kind \in HistoryKinds THEN Sessions ELSE Roms)
  /\ Starts(p, kind, id, "load")
  /\ owned' = IF kind = "remove" THEN owned \ {id} ELSE owned
  /\ linked' = IF kind = "remove" THEN linked \ {id} ELSE linked
  /\ acked' = IF kind = "forget" THEN Restrict(acked, DOMAIN acked \ {id}) ELSE acked
  /\ UNCHANGED <<files, credit, faults, catalogVars>>

------------------------------------------------------------------------------
(* storeBytes: the ROM file, before the index. *)

Confirm(p) ==
  /\ pc[p] = "confirm"
  /\ \/ Goto(p, "exists") /\ op' = op
     \/ Return(p)
  /\ UNCHANGED <<files, begun, promises, faults, catalogVars>>

LookForRomM(p) == \* the index alone is written
  /\ pc[p] = "exists" /\ Goto(p, "load")
  /\ UNCHANGED <<files, op, begun, promises, faults, catalogVars>>
\* A file that is there is left as it is, damaged or not.
LookForRom(p) ==
  /\ pc[p] = "exists"
  /\ Goto(p, IF roms[op[p].id] \in {"good", "bad"} THEN "load" ELSE "store")
  /\ UNCHANGED <<files, op, begun, promises, faults, catalogVars>>
StoreRom(p) ==
  /\ pc[p] = "store" /\ Goto(p, "load")
  /\ roms' = [roms EXCEPT ![op[p].id] = "good"]
  /\ UNCHANGED <<cur, prev, op, begun, promises, faults, catalogVars>>

------------------------------------------------------------------------------
(* loadIndex, PlayHistoryRepository.load, and what is made of what they read. *)

\* f is being replaced.
Cut(f) == \E p \in Procs : pc[p] \in {"aside", "place"} /\ FileOf(op[p].kind) = f
Candidate(f) == IF cur[f] # NoFile THEN cur[f] ELSE IF prev[f] # NoFile THEN prev[f] ELSE Empty
CurrentOnly(f) == IF cur[f] # NoFile THEN cur[f] ELSE Empty
LoadedM(kind) == CurrentOnly(FileOf(kind)) \* the history too
\* loadIndex takes a missing library.json for an empty library; repairLibrary and the
\* history fall back to .previous.
Loaded(kind) ==
  IF kind \in HistoryKinds \cup {"repair"} THEN Candidate(FileOf(kind)) ELSE CurrentOnly("index")
\* The file is missing, and .previous is not read or is gone: a replacement was cut short, or
\* is under way.
Misses(kind) ==
  LET f == FileOf(kind) IN
  /\ cur[f] = NoFile
  /\ IF prev[f] = NoFile THEN Cut(f) ELSE f = "index" /\ kind # "repair"

\* The MaxSessions sessions that ended last.
NewestM(h) == \* one too many
  Restrict(h, {s \in DOMAIN h : Cardinality({t \in DOMAIN h : h[t] > h[s]}) <= MaxSessions})
Newest(h) == Restrict(h, {s \in DOMAIN h : Cardinality({t \in DOMAIN h : h[t] > h[s]}) < MaxSessions})

\* The sessions of h that are among the last MaxSessions of x.
Uncrowded(h, x) ==
  Restrict(h, {s \in DOMAIN h : Cardinality({t \in DOMAIN x : x[t] > h[s]}) < MaxSessions})

Imports == {"import", "install"}
Applies(o, x) ==
  CASE o.kind \in Imports -> o.id \notin DOMAIN x
    [] o.kind \in HistoryKinds -> TRUE
    [] OTHER -> o.id \in DOMAIN x
Edited(o, x) ==
  CASE o.kind \in Imports -> Put(x, o.id, NewEntry)
    [] o.kind = "link" -> [x EXCEPT ![o.id].cat = TRUE]
    [] o.kind = "played" -> [x EXCEPT ![o.id].played = @ + 1]
    [] o.kind = "mark" -> x
    [] o.kind = "upsert" -> Newest(Put(x, o.id, o.at))
    [] o.kind \in {"remove", "forget"} -> Restrict(x, DOMAIN x \ {o.id})

\* What the caller may rely on once the operation has returned, with x in the file.
Returned(o, x) ==
  /\ owned' = CASE o.kind \in {"import", "link"} -> owned \cup {o.id}
                [] o.kind = "remove" -> owned \ {o.id}
                [] OTHER -> owned
  /\ credit' = CASE o.kind \in {"import", "link"} /\ o.id \notin owned ->
                      [credit EXCEPT ![o.id] = x[o.id].played]
                 [] o.kind = "played" -> [credit EXCEPT ![o.id] = @ + 1]
                 [] OTHER -> credit
  /\ linked' = CASE o.kind = "link" -> linked \cup {o.id}
                 [] o.kind = "remove" -> linked \ {o.id}
                 [] OTHER -> linked
  /\ acked' = CASE o.kind = "upsert" -> Uncrowded(Put(acked, o.id, o.at), x)
                [] o.kind = "forget" -> Restrict(acked, DOMAIN acked \ {o.id})
                [] OTHER -> acked

\* A repair has left r out of the index it is about to write.
Dropping(r) ==
  \E q \in Procs : /\ pc[q] \in {"unlink", "aside", "place"}
                  /\ op[q].kind = "repair" /\ r \notin DOMAIN op[q].next

\* An import that finds the ROM listed returns its entry; the others return, or fail.  The
\* second half of an installation begins with a read of its own.
Link(p) == Goto(p, "load") /\ op' = [op EXCEPT ![p].kind = "link", ![p].next = Empty, ![p].stale = FALSE]
Load(p) ==
  /\ pc[p] = "load"
  /\ LET o == op[p]  x == Loaded(o.kind) IN
     /\ \/ /\ o.kind # "repair" /\ Applies(o, x)
           /\ Goto(p, "unlink") /\ op' = [op EXCEPT ![p].next = Edited(o, x), ![p].stale = Misses(o.kind)]
           /\ UNCHANGED <<promises, hurt>>
        \/ /\ o.kind = "repair"
           /\ Goto(p, "scan") /\ op' = [op EXCEPT ![p].next = x, ![p].stale = Misses(o.kind)]
           /\ UNCHANGED <<promises, hurt>>
        \/ /\ o.kind # "repair" /\ ~Applies(o, x)
           /\ IF o.kind = "install" THEN Link(p) ELSE Return(p)
           /\ IF o.kind = "import" THEN Returned(o, x) ELSE UNCHANGED promises
           /\ hurt' = IF o.kind \in Imports /\ Dropping(o.id) THEN hurt \cup {"index"} ELSE hurt
  /\ UNCHANGED <<files, begun, cuts, catalogVars>>

Damaged == {r \in Roms : roms[r] = "bad"}
SoundRoms == {r \in Roms : roms[r] = "good"}
RebuiltM(old) == [r \in SoundRoms |-> NewEntry] \* the old entries are not looked up
RebuiltFromIndexM(old) == Restrict(old, SoundRoms \cap DOMAIN old) \* only what was listed
\* An import or an installation of r has found its file, or written it.
Relied(r) ==
  \E q \in Procs : /\ pc[q] \in {"load", "unlink", "aside", "place"}
                  /\ op[q].kind \in Imports \cup {"link"} /\ op[q].id = r
\* scanRomFiles: one entry for each sound file; the others go to the quarantine.
Rebuilt(old) == [r \in SoundRoms |-> IF r \in DOMAIN old THEN old[r] ELSE NewEntry]
ScanRomFiles(p) ==
  /\ pc[p] = "scan" /\ Goto(p, "unlink")
  /\ op' = [op EXCEPT ![p].next = Rebuilt(op[p].next)]
  /\ roms' = [r \in Roms |-> IF r \in Damaged THEN "gone" ELSE roms[r]]
  /\ owned' = owned \ Damaged /\ linked' = linked \ Damaged
  /\ hurt' = IF \E r \in Damaged : Relied(r) THEN hurt \cup {"index"} ELSE hurt
  /\ UNCHANGED <<cur, prev, begun, credit, acked, cuts, catalogVars>>

------------------------------------------------------------------------------
(* writeTextAtomic. *)

\* Another operation has moved f aside: .previous is then the only copy.
Replacing(f) == \E q \in Procs : pc[q] = "place" /\ FileOf(op[q].kind) = f
UnlinkPrevious(p) ==
  /\ pc[p] = "unlink" /\ Goto(p, "aside")
  /\ LET f == FileOf(op[p].kind) IN
     /\ prev' = [prev EXCEPT ![f] = NoFile]
     /\ hurt' = IF Replacing(f) THEN hurt \cup {f} ELSE hurt
  /\ UNCHANGED <<roms, cur, op, begun, promises, cuts, catalogVars>>
MoveAside(p) ==
  /\ pc[p] = "aside" /\ Goto(p, "place")
  /\ LET f == FileOf(op[p].kind) IN
     IF cur[f] # NoFile
     THEN prev' = [prev EXCEPT ![f] = cur[f]] /\ cur' = [cur EXCEPT ![f] = NoFile]
     ELSE UNCHANGED <<cur, prev>>
  /\ UNCHANGED <<roms, op, begun, promises, faults, catalogVars>>

\* The operations that have read f and not yet written it hold an outdated copy from now on.
Holds(q, f) == pc[q] \in {"scan", "unlink", "aside", "place"} /\ FileOf(op[q].kind) = f
Outdated(f, o) == [q \in Procs |-> IF Holds(q, f) THEN [o[q] EXCEPT !.stale = TRUE] ELSE o[q]]
Place(p) ==
  /\ pc[p] = "place"
  /\ LET o == op[p]  f == FileOf(o.kind) IN
     /\ cur' = [cur EXCEPT ![f] = o.next]
     /\ cuts' = [cuts EXCEPT ![f] = IF @ < 2 THEN 0 ELSE 2]
     /\ hurt' = IF o.stale THEN hurt \cup {f} ELSE hurt
     /\ Goto(p, CASE o.kind = "install" -> "load" [] o.kind = "remove" -> "drop" [] OTHER -> "idle")
     /\ op' = [Outdated(f, op) EXCEPT
                 ![p] = CASE o.kind = "install" -> [o EXCEPT !.kind = "link", !.next = Empty, !.stale = FALSE]
                          [] o.kind = "remove" -> [o EXCEPT !.next = Empty]
                          [] OTHER -> NoOp]
     /\ Returned(o, o.next)
  /\ UNCHANGED <<roms, prev, begun, catalogVars>>

\* removeRom ends with the ROM file.  Another operation may be about to list it again.
Relisted(p, r) ==
  \/ r \in DOMAIN Candidate("index")
  \/ \E q \in Procs \ {p} :
       \/ Holds(q, "index") /\ r \in DOMAIN op[q].next
       \/ pc[q] = "load" /\ op[q].kind \in Imports /\ op[q].id = r
DropRom(p) ==
  /\ pc[p] = "drop" /\ Return(p)
  /\ roms' = [roms EXCEPT ![op[p].id] = "none"]
  /\ hurt' = IF Relisted(p, op[p].id) THEN hurt \cup {"index"} ELSE hurt
  /\ UNCHANGED <<cur, prev, begun, promises, cuts, catalogVars>>

------------------------------------------------------------------------------
(* The catalogue, and what happens to the phone. *)

List(p, force) ==
  /\ pc[p] = "idle" /\ "list" \in Does[p]
  /\ \/ ListAtOnce(force) /\ UNCHANGED <<pc, op, begun>>
     \/ /\ MustAsk(force) /\ begun < MaxOps /\ begun' = begun + 1
        /\ op' = [op EXCEPT ![p] = [kind |-> "list", old |-> cached]]
        /\ Goto(p, "reply") /\ UNCHANGED catalogVars
  /\ UNCHANGED <<files, promises, faults>>
Answered(p) ==
  /\ pc[p] = "reply" /\ Return(p)
  /\ (\E c \in Replies : Reply(op[p].old, c)) \/ Fallback(op[p].old)
  /\ UNCHANGED <<files, begun, promises, faults>>
Expire == Age /\ UNCHANGED <<files, pc, op, begun, promises, faults>>

\* The app is killed: its operations end where they are, and a file being replaced has been cut.
Kill ==
  /\ "kill" \in Faults /\ \E p \in Procs : pc[p] # "idle"
  /\ pc' = [p \in Procs |-> "idle"] /\ op' = [p \in Procs |-> NoOp] /\ shown' = NoCatalog
  /\ cuts' = [f \in Names |-> IF Cut(f) /\ cuts[f] < 2 THEN cuts[f] + 1 ELSE cuts[f]]
  /\ UNCHANGED <<files, begun, promises, hurt, cache>>
Rot(r) ==
  /\ "rot" \in Faults /\ roms[r] = "good" /\ roms' = [roms EXCEPT ![r] = "bad"]
  /\ UNCHANGED <<cur, prev, pc, op, begun, promises, faults, catalogVars>>

Step(p) ==
  \/ Confirm(p) \/ LookForRom(p) \/ StoreRom(p) \/ Load(p) \/ ScanRomFiles(p)
  \/ UnlinkPrevious(p) \/ MoveAside(p) \/ Place(p) \/ DropRom(p) \/ Answered(p)
Start(p) ==
  \/ \E f \in Offers, kind \in Imports : Import(p, kind, f)
  \/ \E kind \in Edits, id \in Roms \cup Sessions : Begin(p, kind, id)
  \/ \E force \in BOOLEAN : List(p, force)
Next ==
  \/ \E p \in Procs : Start(p) \/ Step(p)
  \/ Expire \/ Kill \/ \E r \in Roms : Rot(r)
Spec == Init /\ [][Next]_vars

------------------------------------------------------------------------------
(* Properties. *)

Index == Candidate("index")
History == Candidate("history")
Sound(f) == f \notin hurt /\ cuts[f] <= 1
Settled(f) == Sound(f) /\ ~Cut(f)

\* The shape of the files and of the operations.
TypeOK ==
  /\ roms \in [Roms -> {"none", "good", "bad", "gone"}]
  /\ \A x \in {cur["index"], prev["index"]} \ {NoFile} :
       DOMAIN x \subseteq Roms /\ \A r \in DOMAIN x : x[r].played \in Nat /\ x[r].cat \in BOOLEAN
  /\ \A x \in {cur["history"], prev["history"]} \ {NoFile} :
       /\ DOMAIN x \subseteq Sessions /\ Cardinality(DOMAIN x) <= MaxSessions
       /\ \A s \in DOMAIN x : x[s] \in 1 .. MaxOps
  /\ pc \in [Procs -> {"idle", "confirm", "exists", "store", "load", "scan", "unlink", "aside",
                       "place", "drop", "reply"}]
  /\ owned \subseteq Roms /\ linked \subseteq Roms /\ credit \in [Roms -> Nat]

\* A game in library.json has its ROM file, unless a repair has found that file damaged,
\* wherever the app is killed: importing writes the file first, removing deletes it last.
EntryHasRom == Sound("index") => \A r \in DOMAIN Index : roms[r] # "none"

\* Until it is removed, an imported game is in the library with all of its play time and its
\* link to the catalogue, through later imports, repairs and one replacement cut short,
\* provided no operation has written the index from an outdated copy.
ImportKept ==
  Settled("index") => \A r \in owned :
    r \in DOMAIN Index /\ Index[r].played = credit[r] /\ (r \in linked => Index[r].cat)

\* docs/01-product-requirements.md:232: the last MaxSessions sessions are in the history, and
\* one replacement that was cut short loses none of them.
HistoryKept ==
  Settled("history") =>
    \A s \in DOMAIN acked : s \in DOMAIN History /\ History[s] = acked[s]

\* A repair with nothing else under way leaves one entry for each ROM file that passes the
\* checks, and none without a file.
RepairComplete ==
  [][\A p \in Procs :
       /\ pc[p] = "place" /\ op[p].kind = "repair" /\ cur'["index"] # cur["index"]
       /\ \A q \in Procs \ {p} : pc[q] = "idle"
       /\ ~op[p].stale /\ "index" \notin hurt
       => /\ \A r \in Roms : roms[r] = "good" => r \in DOMAIN cur'["index"]
          /\ \A r \in DOMAIN cur'["index"] : roms[r] \in {"good", "bad"}]_vars
=============================================================================
