------------------------------- MODULE Catalog -------------------------------
(***************************************************************************)
(* The ROM catalogue of the home page: RomCatalogClient's cache, its       *)
(* request and what the page shows of it.  A catalogue is a sequence of    *)
(* items and one flag for its frame (schema version, date, bucket, number  *)
(* of items); an item has an id, an object key, a size and one flag for    *)
(* the rest of parseItem (texts, tags, licence, an https address of an     *)
(* allowed host whose path is the object key).                             *)
(***************************************************************************)
EXTENDS Integers, Sequences

CONSTANTS
  Replies,   \* catalogues the remote address may answer with
  Bundled,   \* the catalogue in the package
  Remote,    \* TRUE: the build asks the remote address
  NoCatalog

VARIABLES
  cache,  \* the stored catalogue with its age: NoCatalog, or [data, fresh]
  shown   \* what the page shows: NoCatalog, or [data, stale]

catalogVars == <<cache, shown>>

\* parseRomCatalog, parseItem: the whole catalogue or nothing.
parseRomCatalog(c) ==
  /\ c.frame
  /\ \A i \in DOMAIN c.items : c.items[i].sound
  /\ \A i, j \in DOMAIN c.items :
       c.items[i].id = c.items[j].id \/ c.items[i].key = c.items[j].key => i = j

\* The cache may hold what an earlier release has stored.
CatalogInit ==
  /\ cache \in {NoCatalog} \cup [data : Replies, fresh : BOOLEAN]
  /\ shown = NoCatalog

cachedM == cache \* what is stored is taken as it is
cached == IF cache # NoCatalog /\ parseRomCatalog(cache.data) THEN cache ELSE NoCatalog

FreshCache == cached # NoCatalog /\ cached.fresh
Show(data, stale) == shown' = [data |-> data, stale |-> stale]

\* list(): a fresh cache, or the bundled catalogue, is shown at once.
ListAtOnce(force) ==
  /\ IF ~force /\ FreshCache
     THEN Show(cached.data, FALSE)
     ELSE ~Remote /\ parseRomCatalog(Bundled) /\ Show(Bundled, FALSE)
  /\ UNCHANGED cache
MustAsk(force) == Remote /\ (force \/ ~FreshCache)

\* The answer; old is what was cached when the request was made.
ReplyM(old, c) == \* cached before it is parsed
  /\ cache' = [data |-> c, fresh |-> TRUE] /\ Show(c, FALSE)
Reply(old, c) ==
  /\ parseRomCatalog(c)
  /\ cache' = [data |-> c, fresh |-> TRUE] /\ Show(c, FALSE)
\* No answer, or one that does not parse.  The bundled catalogue is parsed like any other.
Fallback(old) ==
  /\ CASE old # NoCatalog -> Show(old.data, TRUE)
       [] old = NoCatalog /\ parseRomCatalog(Bundled) -> Show(Bundled, TRUE)
       [] OTHER -> UNCHANGED shown
  /\ UNCHANGED cache

\* Fifteen minutes pass.
Age == cache # NoCatalog /\ cache.fresh /\ cache' = [cache EXCEPT !.fresh = FALSE] /\ UNCHANGED shown

\* docs/04-storage-and-cloud-sync.md:147, "only a remote catalogue that has passed every check
\* is cached": what the page shows, and what this release stores, has been parsed whole.
CatalogChecked == shown # NoCatalog => parseRomCatalog(shown.data)
=============================================================================
