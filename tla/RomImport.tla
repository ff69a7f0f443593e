------------------------------ MODULE RomImport ------------------------------
(***************************************************************************)
(* What the app takes for a ROM: the checks of library-repository.ts on a  *)
(* file the user has chosen or the app has downloaded, before anything is  *)
(* written.  A file is a record of what the checks look at: its size in    *)
(* bytes, whether the two fixed header bytes and the logo are right, the   *)
(* header's bytes 0xA0 to 0xBC with the checksum byte at 0xBD, and for an  *)
(* archive its entries, of which one may hold the ROM.                     *)
(***************************************************************************)
EXTENDS Integers, Sequences, Folds

MinRomBytes == 192
MAX_ROM_BYTES == 32 * 1024 * 1024
MAX_ZIP_BYTES == 32 * 1024 * 1024
MAX_ZIP_ENTRIES == 64
MAX_COMPRESSION_RATIO == 100

SumOver(f, S) == MapThenFoldSet(+, 0, LAMBDA i : f[i], LAMBDA T : CHOOSE i \in T : TRUE, S)

\* validateGba: the size and the fixed bytes.
validateGba(b) == b.size \in MinRomBytes .. MAX_ROM_BYTES /\ b.fixed

\* headerChecksumValid: every byte is subtracted, and one more with each.
headerChecksumValid(b) ==
  b.check = (0 - SumOver(b.header, DOMAIN b.header) - Len(b.header)) % 256

\* extractSingleGbaZip: bounded, no path out of the archive, no bomb, one .gba.
SafeEntry(e) ==
  e.safe /\ (e.size > 0 => e.packed > 0 /\ e.size <= MAX_COMPRESSION_RATIO * e.packed)
extractSingleGbaZip(z) ==
  LET at == DOMAIN z.entries IN
  /\ z.size \in 1 .. MAX_ZIP_BYTES
  /\ Len(z.entries) <= MAX_ZIP_ENTRIES
  /\ \A i \in at : SafeEntry(z.entries[i])
  /\ SumOver([i \in at |-> z.entries[i].size], at) <= MAX_ROM_BYTES
  /\ \E i \in at : z.entries[i].gba /\ \A j \in at : z.entries[j].gba => j = i

\* chooseAndImport, importAuthorizedDownload, importCatalogItem: what is not refused.  A
\* download has a declared size, and is never an archive.
NotDeclared == 0
Accepts(f, declared) ==
  /\ f.zip => declared = NotDeclared /\ extractSingleGbaZip(f)
  /\ declared # NotDeclared => declared \in MinRomBytes .. MAX_ROM_BYTES /\ f.size = declared
  /\ validateGba(f.rom)

\* confirmHeaderRisk: the user is asked.
HeaderRisk(f) == ~f.rom.logo \/ ~headerChecksumValid(f.rom)
=============================================================================
