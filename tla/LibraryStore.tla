---------------------------- MODULE LibraryStore ----------------------------
(***************************************************************************)
(* The durable state behind the service: the albums, media and users       *)
(* tables of PostgreSQL and the object store that holds the originals.     *)
(* One operator per statement the service issues; each statement (or       *)
(* transaction) commits atomically, and everything between two of them is  *)
(* a place where other requests run.                                       *)
(*                                                                         *)
(* A media row and its original share the media id: the storage key is     *)
(* "originals/<owner>/<media id><suffix>", so an object is named by the    *)
(* media it was stored for.  The one registered account owns the albums of *)
(* Owned; the other albums are anonymous.                                  *)
(***************************************************************************)
EXTENDS Integers, FiniteSets

CONSTANTS
  Albums,    \* album ids the generator may hand out
  Owned,     \* those handed out to the registered account
  Media,     \* media ids the generator may hand out
  NoAlbum,   \* "this media id never had a row"
  Never,     \* expires_at IS NULL
  MaxTime,   \* the clock stops here (bound)
  Ttl        \* ANON_EXPIRY_HOURS, in clock ticks

ASSUME StoreAssumption ==
  /\ Owned \subseteq Albums
  /\ NoAlbum \notin Albums
  /\ Albums \cap Media = {}
  /\ Never \notin Int
  /\ MaxTime \in Nat
  /\ Ttl \in Nat \ {0}

VARIABLES
  albums,    \* ids with a row in the albums table
  expires,   \* albums.expires_at
  rows,      \* ids with a row in the media table
  home,      \* media.album_id, kept after the row is gone
  blobs,     \* originals present in the object store
  account,   \* the users row exists
  minted,    \* ids ever handed out
  now,       \* the wall clock
  lapsed     \* history: albums that were expired at some moment

store == <<albums, expires, rows, home, blobs, account, minted, now, lapsed>>

Expiry == (0 .. MaxTime + Ttl) \cup {Never}

StoreTypeOK ==
  /\ albums \subseteq Albums
  /\ expires \in [Albums -> Expiry]
  /\ rows \subseteq Media
  /\ home \in [Media -> Albums \cup {NoAlbum}]
  /\ blobs \subseteq Media
  /\ account \in BOOLEAN
  /\ minted \subseteq Albums \cup Media
  /\ now \in 0 .. MaxTime
  /\ lapsed \subseteq Albums

-----------------------------------------------------------------------------
(* Reads.                                                                  *)

\* SELECT ... WHERE expires_at IS NOT NULL AND expires_at <= now.
OverdueBy(e, t) == {a \in Albums : e[a] # Never /\ e[a] <= t}

Expired(a) == a \in OverdueBy(expires, now)

\* list_album_media
Items(a) == {m \in rows : home[m] = a}

\* list_user_media: an upload takes its owner from the album it joins.
OwnedItems == {m \in rows : home[m] \in Owned}

-----------------------------------------------------------------------------
(* Statements.  Each says what it writes and leaves the rest alone.        *)

\* Mutant: the hours are added to a deadline that already holds them.
CreateAlbumTwiceTtl(a) ==
  /\ albums' = albums \cup {a}
  /\ minted' = minted \cup {a}
  /\ expires' = [expires EXCEPT ![a] = IF a \in Owned THEN Never ELSE now + Ttl + Ttl]
  /\ UNCHANGED <<rows, home, blobs, account, now, lapsed>>

\* INSERT INTO albums; user_id references users.
CreateAlbum(a) ==
  /\ albums' = albums \cup {a}
  /\ minted' = minted \cup {a}
  /\ expires' = [expires EXCEPT ![a] = IF a \in Owned THEN Never ELSE now + Ttl]
  /\ UNCHANGED <<rows, home, blobs, account, now, lapsed>>

\* update_album with a row read earlier: only expires_at can differ.
WriteAlbum(a, expiry) ==
  /\ expires' = [expires EXCEPT ![a] = expiry]
  /\ lapsed' = lapsed \cup (albums \cap OverdueBy(expires', now))
  /\ UNCHANGED <<albums, rows, home, blobs, account, minted, now>>

\* create_media_with_next_position: the album row is locked, then the INSERT.
InsertMedia(m, a) ==
  /\ rows' = rows \cup {m}
  /\ home' = [home EXCEPT ![m] = a]
  /\ UNCHANGED <<albums, expires, blobs, account, minted, now, lapsed>>

DropMedia(m) ==
  /\ rows' = rows \ {m}
  /\ UNCHANGED <<albums, expires, home, blobs, account, minted, now, lapsed>>

\* Mutant: the foreign key does not cascade.
DropAlbumNoCascade(a) ==
  /\ albums' = albums \ {a}
  /\ UNCHANGED <<rows, expires, home, blobs, account, minted, now, lapsed>>

\* DELETE FROM albums; media.album_id is ON DELETE CASCADE.
DropAlbum(a) ==
  /\ albums' = albums \ {a}
  /\ rows' = rows \ Items(a)
  /\ UNCHANGED <<expires, home, blobs, account, minted, now, lapsed>>

\* DELETE FROM users; albums.user_id cascades to albums, and they to media.
DropAccount ==
  /\ account' = FALSE
  /\ albums' = albums \ Owned
  /\ rows' = rows \ OwnedItems
  /\ UNCHANGED <<expires, home, blobs, minted, now, lapsed>>

PutOriginal(m) ==
  /\ blobs' = blobs \cup {m}
  /\ minted' = minted \cup {m}
  /\ UNCHANGED <<albums, expires, rows, home, account, now, lapsed>>

DropOriginal(m) ==
  /\ blobs' = blobs \ {m}
  /\ UNCHANGED <<albums, expires, rows, home, account, minted, now, lapsed>>

-----------------------------------------------------------------------------
\* Time passes; an album may expire under a request that already looked.
Tick ==
  /\ now < MaxTime
  /\ now' = now + 1
  /\ lapsed' = lapsed \cup (albums \cap OverdueBy(expires, now + 1))
  /\ UNCHANGED <<albums, expires, rows, home, blobs, account, minted>>

\* A library left behind by earlier, completed requests: every album row of
\* it holds media, every media row its original, nothing else is stored.
StoreInit ==
  /\ rows \in SUBSET Media
  /\ home \in {h \in [Media -> Albums \cup {NoAlbum}] :
                 \A m \in Media : m \in rows <=> h[m] # NoAlbum}
  /\ albums = {home[m] : m \in rows}
  /\ expires \in {e \in [Albums -> {0, Never}] : \A a \in Albums \ albums : e[a] = Never}
  /\ blobs = rows
  /\ account = TRUE
  /\ minted = albums \cup rows
  /\ now = 0
  /\ lapsed = albums \cap OverdueBy(expires, now)
=============================================================================
