------------------------------ MODULE MCLibrary ------------------------------
(* Small instances of Library: a page and the player beside it. *)
EXTENDS Library

CONSTANTS a, b, page, player
PageAndPlayer == [p \in Procs |->
  IF p = page THEN {"import", "install", "list", "remove", "repair", "forget"}
  ELSE {"played", "mark", "upsert"}]

\* Header bytes whose sum is 1; the checksum byte as the app computes it, and as the core does.
Header == [i \in 1 .. 29 |-> IF i = 29 THEN 1 ELSE 0]
Rom(check) == [size |-> 1024, fixed |-> TRUE, logo |-> TRUE, header |-> Header, check |-> check]
AsApp == (0 - 30) % 256
AsCore == (0 - 26) % 256
Loose(id, rom) == [id |-> id, key |-> id, zip |-> FALSE, size |-> rom.size, rom |-> rom]
Entry(isGba, ratio) == [gba |-> isGba, safe |-> TRUE, size |-> 1024, packed |-> 1024 \div ratio]
Zipped(id, rom, entries) ==
  [id |-> id, key |-> id, zip |-> TRUE, size |-> 2048, rom |-> rom, entries |-> entries]
SomeOffers ==
  { Loose(a, Rom(AsApp)), Loose(b, Rom(AsCore)),
    Zipped(b, Rom(AsCore), <<Entry(TRUE, 2), Entry(FALSE, 4)>>),
    Zipped(a, Rom(AsApp), <<Entry(TRUE, 1), Entry(TRUE, 1)>>) }

Item(id, key, size) == [id |-> id, key |-> key, size |-> size, sound |-> TRUE]
Catalogue(items) == [frame |-> TRUE, items |-> items]
OldCatalogue == Catalogue(<<Item("x", a, 1024)>>)
NewCatalogue == Catalogue(<<Item("x", b, 1024)>>)
BadCatalogue == Catalogue(<<Item("x", a, 1024), Item("x", b, 1024)>>)
SomeReplies == {NewCatalogue, BadCatalogue}
=============================================================================
