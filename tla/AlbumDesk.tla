------------------------------ MODULE AlbumDesk ------------------------------
(***************************************************************************)
(* One album and everything requests do to it together: uploads that give  *)
(* out positions and ShareX links, reordering, deletion by its owner or    *)
(* through a link, archive downloads, and next to them the administrator   *)
(* who suspends the owner or patches the settings, and the clean-up of old *)
(* links.  A request is a coroutine: pc names the await it stands at.      *)
(***************************************************************************)
EXTENDS AlbumRows, ZipBridge

CONSTANTS
  MaxBegun,    \* requests in all (bound)
  MaxFiles,    \* files of one upload (bound)
  MaxRaises,   \* listeners and sinks that fail (bound)
  MaxItems,    \* MAX_ALBUM_ITEMS
  Begins,      \* items of the album at first (bound)
  Places,      \* positions a client may ask for
  Patches,     \* settings patches: sequences of <<key, value>>
  Locked,      \* settings locked by the environment
  Default      \* a setting without a row counts as this

ASSUME DeskAssumption ==
  /\ Objects = Items
  /\ MaxBegun \in Nat /\ MaxFiles \in Nat /\ MaxRaises \in Nat /\ MaxItems \in Nat \ {0}
  /\ Begins \in 0 .. Cardinality(Items) /\ Begins <= MaxItems /\ Locked \subseteq Keys
  /\ Places \subseteq Nat /\ Default \in [Keys -> Values]
  /\ \A p \in Patches : /\ p \in Seq(Keys \X Values)
                        /\ \A m, n \in DOMAIN p : m # n => p[m][1] # p[n][1]

VARIABLES
  used,      \* item ids given out
  cookies,   \* links whose confirmation cookie is younger than five minutes
  pc, loc, begun, raises,
  spent,     \* history: how often each link was consumed
  moved,     \* history: items that a reordering has placed
  told       \* history: which listeners were offered the upload of which item

deskVars == <<used, cookies, pc, loc, begun, raises, spent, moved, told>>
vars == <<rowVars, zipVars, deskVars>>

Blank == [item |-> Album, link |-> Album, key |-> FALSE, files |-> 0, todo |-> <<>>, list |-> <<>>,
          again |-> FALSE, seen |-> NoRows, events |-> 0, heard |-> 0, next |-> "idle"]

first == CHOOSE s \in SetToSeqs(Items) : TRUE

\* An album of a few items, with a link that has just been visited.
Init ==
  /\ album = "open"
  /\ pos = [i \in {first[k] : k \in 1 .. Begins} |-> Gap * (CHOOSE k \in 1 .. Begins : first[k] = i)]
  /\ \E l \in Links :
       /\ links = [x \in Links |-> [state |-> IF x = l THEN "live" ELSE "unused", expired |-> FALSE, old |-> FALSE]]
       /\ cookies = {l}
  /\ suspended = FALSE
  /\ config = [k \in Keys |-> Unset]
  /\ tx = [r \in Requests |-> NoRows]
  /\ stored = DOMAIN pos
  /\ ZipInit
  /\ used = DOMAIN pos
  /\ pc = [r \in Requests |-> "idle"]
  /\ loc = [r \in Requests |-> Blank]
  /\ begun = 0 /\ raises = 0
  /\ spent = [l \in Links |-> 0]
  /\ moved = {}
  /\ told = {1, 2, 3} \X DOMAIN pos

-----------------------------------------------------------------------------
(* Shorthand: what a step leaves alone, by part.                           *)

Go(r, label, l) ==
  /\ pc' = [pc EXCEPT ![r] = label]
  /\ loc' = [loc EXCEPT ![r] = l]

To(r, label) == Go(r, label, loc[r])
Done(r) == Go(r, "idle", Blank)

sameZip == UNCHANGED zipVars
sameRows == UNCHANGED rowVars
sameDesk == UNCHANGED <<used, cookies, begun, raises, spent, moved, told>>

Reads == sameRows /\ sameZip /\ sameDesk

\* The request announces n events, one after the other, and goes on at label.
Announce(r, n, label) == Go(r, "emit", [loc[r] EXCEPT !.events = n, !.heard = 0, !.next = label])

Begin(r, label, l) ==
  /\ pc[r] = "idle" /\ begun < MaxBegun
  /\ begun' = begun + 1
  /\ Go(r, label, l)
  /\ UNCHANGED <<rowVars, zipVars, used, cookies, raises, spent, moved, told>>

-----------------------------------------------------------------------------
(* Events: EventBus.emit, TelemetryService.emit                            *)

\* Who hears of an event, in the order of subscription: the Postgres sink and
\* the log sink of the audit trail, and of an upload the thumbnail queue.
Listeners(r) == IF loc[r].next = "up_touch" THEN 3 ELSE 2

Offer(r) == told' = IF loc[r].next = "up_touch" THEN told \cup {<<loc[r].heard + 1, loc[r].item>>} ELSE told

\* Mutant: a listener that fails ends the announcement.
HearOnce(r, raised) ==
  /\ pc[r] = "emit" /\ loc[r].events > 0 /\ loc[r].heard < Listeners(r)
  /\ raised => raises < MaxRaises
  /\ raises' = IF raised THEN raises + 1 ELSE raises
  /\ Offer(r)
  /\ Go(r, "emit", [loc[r] EXCEPT !.heard = IF raised THEN Listeners(r) ELSE @ + 1])
  /\ UNCHANGED <<rowVars, zipVars, used, cookies, begun, spent, moved>>

\* The next one; what it raises is logged and forgotten.
Hear(r, raised) ==
  /\ pc[r] = "emit" /\ loc[r].events > 0 /\ loc[r].heard < Listeners(r)
  /\ raised => raises < MaxRaises
  /\ raises' = IF raised THEN raises + 1 ELSE raises
  /\ Offer(r)
  /\ Go(r, "emit", [loc[r] EXCEPT !.heard = @ + 1])
  /\ UNCHANGED <<rowVars, zipVars, used, cookies, begun, spent, moved>>

Heard(r) ==
  /\ pc[r] = "emit" /\ loc[r].events > 0 /\ loc[r].heard = Listeners(r)
  /\ Go(r, "emit", [loc[r] EXCEPT !.events = @ - 1, !.heard = 0])
  /\ Reads

Announced(r) ==
  /\ pc[r] = "emit" /\ loc[r].events = 0
  /\ IF loc[r].next = "idle" THEN Done(r) ELSE To(r, loc[r].next)
  /\ Reads

-----------------------------------------------------------------------------
(* Upload of files to the album, with a session or with an API key         *)

BeginUpload(r, key, files) ==
  /\ ~suspended
  /\ Begin(r, "up_find", [Blank EXCEPT !.key = key, !.files = files])

\* The next file of the request, if there is one; a refusal ends it instead.
NextFile(r) ==
  IF loc[r].files = 1 THEN Done(r)
  ELSE Go(r, "up_find", [Blank EXCEPT !.key = loc[r].key, !.files = loc[r].files - 1])

\* _get_or_create_album
FindToUpload(r) ==
  /\ pc[r] = "up_find"
  /\ IF album = "open" THEN To(r, "up_count") ELSE Done(r)
  /\ Reads

\* Mutant: an album that is full takes one more.
CountTooFew(r) ==
  /\ pc[r] = "up_count"
  /\ IF Cardinality(DOMAIN pos) > MaxItems THEN Done(r) ELSE To(r, "up_put")
  /\ Reads

CountItems(r) ==
  /\ pc[r] = "up_count"
  /\ IF Cardinality(DOMAIN pos) >= MaxItems THEN Done(r) ELSE To(r, "up_put")
  /\ Reads

PutObject(r) ==
  /\ pc[r] = "up_put" /\ Items \ used # {}
  /\ LET i == CHOOSE i \in Items \ used : TRUE IN
       /\ used' = used \cup {i}
       /\ stored' = stored \cup {i}
       /\ Go(r, "up_lock", [loc[r] EXCEPT !.item = i])
  /\ UNCHANGED <<listing, at, client, thread, reads, last, fifo, stopped, got>>
  /\ UNCHANGED <<rowVars, cookies, begun, raises, spent, moved, told>>

\* Mutant: the album row is not locked while the position is worked out.
PlaceUnlocked(r) ==
  /\ pc[r] = "up_lock"
  /\ IF album = "gone" THEN To(r, "up_undo") /\ UNCHANGED tx
     ELSE To(r, "up_insert") /\ tx' = [tx EXCEPT ![r] = With(@, Album, NextPosition)]
  /\ UNCHANGED <<album, pos, links, suspended, config, zipVars>> /\ sameDesk

\* create_media_with_next_position: FOR UPDATE, then MAX(position).  The
\* INSERT of an item fails when its album is gone.
Place(r) ==
  /\ pc[r] = "up_lock" /\ Free(r, Album)
  /\ IF album = "gone" THEN To(r, "up_undo") /\ UNCHANGED tx
     ELSE To(r, "up_insert") /\ Write(r, Album, NextPosition)
  /\ UNCHANGED <<album, pos, links, suspended, config, zipVars>> /\ sameDesk

UndoObject(r) ==
  /\ pc[r] = "up_undo"
  /\ stored' = stored \ {loc[r].item}
  /\ Done(r)
  /\ UNCHANGED <<listing, at, client, thread, reads, last, fifo, stopped, got>>
  /\ sameRows /\ sameDesk

Insert(r) ==
  /\ pc[r] = "up_insert"
  /\ InsertItem(r, loc[r].item)
  /\ Announce(r, 1, "up_touch")
  /\ UNCHANGED <<album, links, suspended, config, zipVars>> /\ sameDesk

\* update_album at the end; the link is for uploads with an API key.
TouchAlbum(r) ==
  /\ pc[r] = "up_touch" /\ Free(r, Album)
  /\ CASE album = "gone" -> Done(r)
       [] album # "gone" /\ loc[r].key -> To(r, "up_link")
       [] OTHER -> NextFile(r)
  /\ Reads

GiveLink(r) ==
  /\ pc[r] = "up_link" /\ Free(r, Album)
  /\ IF album = "gone" THEN Done(r) /\ UNCHANGED links
     ELSE NextFile(r) /\ \E l \in Links : links[l].state = "unused" /\ IssueLink(l)
  /\ UNCHANGED <<album, pos, suspended, config, tx, zipVars>> /\ sameDesk

-----------------------------------------------------------------------------
(* reorder_album                                                           *)

FindToReorder(r) ==
  /\ pc[r] = "ro_find"
  /\ IF album = "open" THEN To(r, "ro_list") ELSE Done(r)
  /\ Reads

\* The client asks for places of any items the album lists, in any order.
ListToReorder(r) ==
  /\ pc[r] = "ro_list"
  /\ \/ DOMAIN pos = {} /\ Done(r)
     \/ \E some \in SUBSET DOMAIN pos \ {{}} : \E f \in [some -> Places] :
          \E s \in SetToSeqs(some) :
            Go(r, "ro_write", [loc[r] EXCEPT !.todo = [k \in DOMAIN s |-> <<s[k], f[s[k]]>>]])
  /\ Reads

\* update_media_positions: an item that is gone is no row to update.
Move(r) ==
  /\ pc[r] = "ro_write" /\ loc[r].todo # <<>>
  /\ LET i == Head(loc[r].todo)[1] IN
       IF i \in DOMAIN pos THEN Write(r, i, Head(loc[r].todo)[2]) ELSE UNCHANGED tx
  /\ Go(r, "ro_write", [loc[r] EXCEPT !.todo = Tail(@)])
  /\ UNCHANGED <<album, pos, links, suspended, config, zipVars>> /\ sameDesk

ReadBack(r) ==
  /\ pc[r] = "ro_write" /\ loc[r].todo = <<>>
  /\ \E s \in Ordered(Seen(r, pos)) :
       Go(r, "ro_commit", [loc[r] EXCEPT !.list = [k \in DOMAIN s |-> <<s[k], Seen(r, pos)[s[k]]>>]])
  /\ Reads

\* _needs_rebalance
Crowded(list) == \E k \in 1 .. Len(list) - 1 : list[k + 1][2] - list[k][2] < 2

CommitMoves(r) ==
  /\ pc[r] = "ro_commit"
  /\ Commit(r)
  /\ IF Crowded(loc[r].list) /\ ~loc[r].again
     THEN Go(r, "ro_write", [loc[r] EXCEPT !.again = TRUE,
            !.todo = [k \in DOMAIN loc[r].list |-> <<loc[r].list[k][1], k * Gap>>]])
     ELSE To(r, "ro_save")
  /\ moved' = moved \cup DOMAIN tx[r]
  /\ UNCHANGED <<album, links, suspended, zipVars, used, cookies, begun, raises, spent, told>>

SaveAlbum(r) ==
  /\ pc[r] = "ro_save" /\ Free(r, Album)
  /\ IF album = "gone" THEN Done(r) ELSE Announce(r, 1, "idle")
  /\ Reads

-----------------------------------------------------------------------------
(* delete_album, by the owner or for a link                                *)

\* Only an administrator deletes an expired album.
FindToDelete(r) ==
  /\ pc[r] = "del_find"
  /\ \/ album # "gone" /\ To(r, "del_list")
     \/ album # "open" /\ Done(r)
  /\ Reads

\* The SELECT of the transaction, then its DELETE.
ListToDelete(r) ==
  /\ pc[r] = "del_list"
  /\ Go(r, "del_row", [loc[r] EXCEPT !.todo = SetToSeq(DOMAIN pos)])
  /\ Reads

DeleteRows(r) ==
  /\ pc[r] = "del_row"
  /\ IF album = "gone" THEN Done(r) /\ UNCHANGED <<album, pos, links>>
     ELSE DropAlbum(r) /\ To(r, "del_keys")
  /\ UNCHANGED <<suspended, config, tx, zipVars>> /\ sameDesk

DeleteKey(r) ==
  /\ pc[r] = "del_keys"
  /\ IF loc[r].todo = <<>> THEN Announce(r, 1, "idle") /\ UNCHANGED stored
     ELSE /\ stored' = stored \ {Head(loc[r].todo)}
          /\ Go(r, "del_keys", [loc[r] EXCEPT !.todo = Tail(@)])
  /\ UNCHANGED <<listing, at, client, thread, reads, last, fifo, stopped, got>>
  /\ sameRows /\ sameDesk

-----------------------------------------------------------------------------
(* ShareX deletion links                                                   *)

\* sharex_delete_entry with the right secret.
CheckLink(r) ==
  /\ pc[r] = "vi_link"
  /\ IF Live(loc[r].link) THEN To(r, "vi_album") ELSE Done(r)
  /\ Reads

SetCookie(r) ==
  /\ pc[r] = "vi_album"
  /\ cookies' = IF album = "gone" THEN cookies ELSE cookies \cup {loc[r].link}
  /\ Done(r)
  /\ sameRows /\ sameZip /\ UNCHANGED <<used, begun, raises, spent, moved, told>>

\* sharex_delete_confirm_submit
BeginSubmit(r, l) ==
  /\ l \in cookies
  /\ Begin(r, "su_consume", [Blank EXCEPT !.link = l])

ConsumeLink(r) ==
  /\ pc[r] = "su_consume"
  /\ LET l == loc[r].link IN
       IF Consumable(l) THEN Consume(l) /\ spent' = [spent EXCEPT ![l] = @ + 1] /\ To(r, "del_find")
       ELSE Done(r) /\ UNCHANGED <<links, spent>>
  /\ UNCHANGED <<album, pos, suspended, config, tx, zipVars, used, cookies, begun, raises, moved, told>>

-----------------------------------------------------------------------------
(* The administrator                                                       *)

\* update_user: the links are revoked and the change is announced before the
\* row is written.
ReadUser(r) ==
  /\ pc[r] = "sp_read"
  /\ IF suspended THEN Announce(r, 1, "sp_lift") ELSE To(r, "sp_revoke")
  /\ Reads

Revoke(r) ==
  /\ pc[r] = "sp_revoke"
  /\ RevokeLinks
  /\ Announce(r, 1, "sp_write")
  /\ UNCHANGED <<album, pos, suspended, config, tx, zipVars>> /\ sameDesk

WriteUser(r) ==
  /\ pc[r] \in {"sp_write", "sp_lift"}
  /\ suspended' = (pc[r] = "sp_write")
  /\ Done(r)
  /\ UNCHANGED <<album, pos, links, config, tx, zipVars>> /\ sameDesk

\* RUNTIME_CONFIG_SPECS
Specs == [k \in Keys |-> [default |-> Default[k], locked |-> k \in Locked]]

\* PostgresRuntimeConfig._resolve_value: the value, and whether it is a row's.
Effective(k) ==
  IF Specs[k].locked \/ config[k] = Unset THEN <<Specs[k].default, FALSE>> ELSE <<config[k], TRUE>>

\* update_values begins with list_effective.
ReadSettings(r) ==
  /\ pc[r] = "cf_read"
  /\ Go(r, "cf_set", [loc[r] EXCEPT !.list = loc[r].todo, !.seen = [k \in Keys |-> Effective(k)]])
  /\ Reads

\* Mutant: every setting is stored at once, without the transaction.
SetAtOnce(r) ==
  /\ pc[r] = "cf_set" /\ loc[r].todo # <<>>
  /\ LET k == Head(loc[r].todo)[1]
         v == Head(loc[r].todo)[2]
         next == [loc[r] EXCEPT !.todo = Tail(@)] IN
       CASE Specs[k].locked -> Done(r) /\ UNCHANGED config
         [] ~Specs[k].locked /\ loc[r].seen[k] = <<v, TRUE>> -> Go(r, "cf_set", next) /\ UNCHANGED config
         [] OTHER -> config' = [config EXCEPT ![k] = v] /\ Go(r, "cf_set", [next EXCEPT !.events = @ + 1])
  /\ UNCHANGED <<album, pos, links, suspended, tx, zipVars>> /\ sameDesk

\* A locked setting refuses the whole patch; one that had the value when the
\* settings were read is skipped.
SetOne(r) ==
  /\ pc[r] = "cf_set" /\ loc[r].todo # <<>>
  /\ LET k == Head(loc[r].todo)[1]
         v == Head(loc[r].todo)[2]
         next == [loc[r] EXCEPT !.todo = Tail(@)] IN
       CASE Specs[k].locked -> Rollback(r) /\ Done(r)
         [] ~Specs[k].locked /\ loc[r].seen[k] = <<v, TRUE>> -> Go(r, "cf_set", next) /\ UNCHANGED tx
         [] OTHER -> Write(r, k, v) /\ Go(r, "cf_set", [next EXCEPT !.events = @ + 1])
  /\ UNCHANGED <<album, pos, links, suspended, config, zipVars>> /\ sameDesk

CommitSettings(r) ==
  /\ pc[r] = "cf_set" /\ loc[r].todo = <<>>
  /\ Commit(r)
  /\ Announce(r, loc[r].events, "idle")
  /\ UNCHANGED <<album, links, suspended, zipVars>> /\ sameDesk

\* The end of prune_expired_albums.
PruneLinks(r) ==
  /\ pc[r] = "pr_links"
  /\ IF loc[r].todo = <<>> THEN Done(r) /\ UNCHANGED links
     ELSE ForgetLinks(Head(loc[r].todo)) /\ Go(r, "pr_links", [loc[r] EXCEPT !.todo = Tail(@)])
  /\ UNCHANGED <<album, pos, suspended, config, tx, zipVars>> /\ sameDesk

-----------------------------------------------------------------------------
(* stream_album_zip, deadlocks, time                                       *)

StartZip ==
  /\ album = "open" /\ begun < MaxBegun
  /\ begun' = begun + 1
  /\ \E s \in Ordered(pos) : StartArchive(s)
  /\ sameRows /\ UNCHANGED <<used, cookies, pc, loc, raises, spent, moved, told>>

\* The row a request waits for.
Wants(r) == CASE pc[r] \in {"ro_write", "cf_set"} /\ loc[r].todo # <<>> -> {Head(loc[r].todo)[1]}
              [] pc[r] \in {"up_touch", "up_link", "ro_save", "up_lock"} -> {Album}
              [] OTHER -> {}

\* Postgres ends one of two transactions that wait for each other.
Deadlock(r) ==
  /\ \E s \in Requests \ {r} : /\ Wants(r) \cap DOMAIN tx[s] # {}
                               /\ Wants(s) \cap DOMAIN tx[r] # {}
  /\ Rollback(r)
  /\ Done(r)
  /\ UNCHANGED <<album, pos, links, suspended, config, zipVars>> /\ sameDesk

LinkExpires(l) ==
  /\ links[l].state \in {"live", "consumed", "revoked"} /\ ~links[l].expired
  /\ links' = [links EXCEPT ![l].expired = TRUE]
  /\ UNCHANGED <<album, pos, suspended, config, tx, zipVars, deskVars>>

LinkAges(l) ==
  /\ links[l].state \in {"consumed", "revoked"} /\ ~links[l].old
  /\ links' = [links EXCEPT ![l].old = TRUE]
  /\ UNCHANGED <<album, pos, suspended, config, tx, zipVars, deskVars>>

CookieExpires(l) ==
  /\ l \in cookies
  /\ cookies' = cookies \ {l}
  /\ UNCHANGED <<rowVars, zipVars, used, pc, loc, begun, raises, spent, moved, told>>

AlbumExpires ==
  /\ album = "open"
  /\ album' = "expired"
  /\ UNCHANGED <<pos, links, suspended, config, tx, zipVars, deskVars>>

BeginAny(r) ==
  \/ \E key \in BOOLEAN, files \in 1 .. MaxFiles : BeginUpload(r, key, files)
  \/ Begin(r, "ro_find", Blank)
  \/ Begin(r, "del_find", Blank)
  \/ Begin(r, "sp_read", Blank)
  \/ Begin(r, "pr_links", [Blank EXCEPT !.todo = <<"expired", "revoked", "consumed">>])
  \/ \E l \in Links : Begin(r, "vi_link", [Blank EXCEPT !.link = l]) \/ BeginSubmit(r, l)
  \/ \E p \in Patches : Begin(r, "cf_read", [Blank EXCEPT !.todo = p])

Step(r) ==
  \/ FindToUpload(r) \/ CountItems(r) \/ PutObject(r) \/ Place(r) \/ UndoObject(r)
  \/ Insert(r) \/ TouchAlbum(r) \/ GiveLink(r)
  \/ FindToReorder(r) \/ ListToReorder(r) \/ Move(r) \/ ReadBack(r) \/ CommitMoves(r) \/ SaveAlbum(r)
  \/ FindToDelete(r) \/ ListToDelete(r) \/ DeleteRows(r) \/ DeleteKey(r)
  \/ CheckLink(r) \/ SetCookie(r) \/ ConsumeLink(r)
  \/ ReadUser(r) \/ Revoke(r) \/ WriteUser(r)
  \/ ReadSettings(r) \/ SetOne(r) \/ CommitSettings(r) \/ PruneLinks(r)
  \/ (\E raised \in BOOLEAN : Hear(r, raised))
  \/ Heard(r) \/ Announced(r) \/ Deadlock(r)

Next ==
  \/ \E r \in Requests : BeginAny(r) \/ Step(r)
  \/ StartZip
  \/ (ZipStep \/ Break \/ Leave) /\ sameRows /\ UNCHANGED deskVars
  \/ \E l \in Links : LinkExpires(l) \/ LinkAges(l) \/ CookieExpires(l)
  \/ AlbumExpires

Spec == Init /\ [][Next]_vars

-----------------------------------------------------------------------------
(* Properties                                                              *)

TypeOK ==
  /\ RowsTypeOK
  /\ ZipTypeOK
  /\ used \subseteq Items /\ DOMAIN pos \subseteq used
  /\ cookies \subseteq Links
  /\ begun \in 0 .. MaxBegun /\ raises \in 0 .. MaxRaises
  /\ \A r \in Requests : pc[r] = "idle" => loc[r] = Blank /\ tx[r] = NoRows

\* The item limit is checked against a count that other uploads make stale,
\* but only those running at the same time can pass it together.
ItemsBounded == Cardinality(DOMAIN pos) <= MaxItems + Cardinality(Requests) - 1

\* However uploads, reorderings and deletions interleave, items that nobody
\* reordered stay a whole gap apart: two uploads never get the same place.
UploadsSpread ==
  \A i, j \in DOMAIN pos \ moved : i # j /\ pos[i] <= pos[j] => pos[j] - pos[i] >= Gap

\* A link that was used, revoked or cleaned away never deletes anything again,
\* whichever cookies still confirm it and whoever submits them together.
SpentOnce ==
  [][\A l \in Links : links[l].state \in {"consumed", "revoked", "deleted"} =>
        spent'[l] = spent[l] /\ links'[l].state \in {links[l].state, "deleted"}]_vars

\* An item of the album was offered to both audit trails and to the thumbnail
\* queue, or its upload is still at it: a listener that fails stops no other.
EveryListenerTold ==
  \A i \in DOMAIN pos :
    {1, 2, 3} \X {i} \subseteq told \/ \E r \in Requests : pc[r] = "emit" /\ loc[r].item = i

\* Settings change only by a whole patch: every key of it has its new value or
\* had it when the patch began, no key of it is locked, and no other changes.
SettingsWhole ==
  [][config' # config =>
       \E r \in {r \in Requests : pc[r] = "cf_set"} :
         LET patch == loc[r].list IN
           /\ \A n \in DOMAIN patch : LET k == patch[n][1] IN
                ~Specs[k].locked /\ (config'[k] = patch[n][2] \/ loc[r].seen[k] = <<patch[n][2], TRUE>>)
           /\ \A k \in Keys : config'[k] # config[k] => \E n \in DOMAIN patch : patch[n] = <<k, config'[k]>>]_vars
=============================================================================
