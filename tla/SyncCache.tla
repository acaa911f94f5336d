------------------------------ MODULE SyncCache ------------------------------
(***************************************************************************)
(* The sync responses that the extension (MXBackgroundSyncService) caches  *)
(* for the session: two processes that share files without a lock.         *)
(*                                                                         *)
(* The cache is a file per response and a metadata file with their ids,    *)
(* live and outdated.  Ids are numbered as they are made and only appended, *)
(* so a list of them is a set.  Either process changes the metadata by a    *)
(* read and a later write, which first empties the file; what cannot be     *)
(* decoded is read as no metadata.                                          *)
(*                                                                         *)
(* The node's stream is a sequence of positions, each with events for      *)
(* rooms and a message to the device; the node keeps the latter until it   *)
(* is asked to sync from their position or a later one (external).         *)
(***************************************************************************)
EXTENDS Naturals, FiniteSetsExt

CONSTANTS
    None,
    Careful,        \* is the extension not killed between caching a response
                    \* and giving it to its crypto module?
    MaxStream,      \* bound: positions of the stream
    MaxChunks,      \* bound: files of the cache
    MaxSyncs,       \* bound: requests of the extension
    MaxKills        \* bound: kills of either process

ASSUME Bounds == /\ Careful \in BOOLEAN
                 /\ {MaxStream, MaxChunks, MaxSyncs, MaxKills} \subseteq Nat

VARIABLES
    sent,           \* the last position of the node's stream
    acked,          \* the messages to the device up to here are deleted there
    handled,        \* the messages the crypto store has (shared, external)
    file, meta, made,
    saved,          \* the session's store on disk
    token, have,    \* its token in memory, and the events it applied
    stage, matches, ids, drop, response,
    writing, read, gone, clearing,  \* the session's write of the metadata
    xstage, xtoken, xids, xresponse, xid, xchunk, xread, syncs,
    kills,
    lost,           \* has metadata been replaced that the writer had not read,
                    \* or looked at again before a write of the same process?
    torn            \* has metadata been read, or left, half written?

node == <<sent, acked>>
cache == <<file, meta, made>>
store == <<saved, token, have>>
session == <<stage, matches, ids, drop, response>>
write == <<writing, read, gone, clearing>>
extension == <<xstage, xtoken, xids, xresponse, xid, xchunk, xread, syncs>>
history == <<lost, torn>>
vars == <<node, handled, cache, store, session, write, extension, kills, history>>

Id == 1..MaxChunks
Chunk == [from : Nat, to : Nat, events : SUBSET Nat, keys : SUBSET Nat]
ASSUME NoneAssumption == None \notin Chunk

NoMeta == [live |-> {}, outdated |-> {}]
Later(a, b) == IF a > b THEN a ELSE b

\* A response: its positions, and the messages that were left for it.
Response(since) == [from |-> since, to |-> sent, events |-> since + 1 .. sent,
                    keys |-> Later(acked, since) + 1 .. sent]
Merged(new, old) == [from |-> old.from, to |-> new.to,
                     events |-> old.events \cup new.events, keys |-> old.keys \cup new.keys]

First(m) == IF m.live = {} THEN None ELSE file[Min(m.live)]
Last(m) == IF m.live = {} THEN None ELSE file[Max(m.live)]
Readable(S) == {id \in S : file[id] # None}

\* The session is to write the metadata; one of the processes has emptied it
\* to write it.  The history only observes: it bounds no step.
Rewrites == writing # "no" \/ clearing
XCut == xstage \in {"marking", "appending", "settingData"}
Cut == writing = "cut" \/ XCut
Reads == torn' = (torn \/ Cut)
Replaces(known, cut) == lost' = (lost \/ meta # known \/ cut)

Init == /\ sent = 1 /\ acked = 0 /\ handled = {}
        /\ file = [id \in Id |-> None] /\ meta = NoMeta /\ made = 0
        /\ saved = [token |-> 0, have |-> {}] /\ token = 0 /\ have = {}
        /\ stage = "look" /\ matches = FALSE /\ ids = {} /\ drop = {}
        /\ response = None /\ writing = "no" /\ read = NoMeta /\ gone = {}
        /\ clearing = FALSE
        /\ xstage = "idle" /\ xtoken = 0 /\ xids = {} /\ xresponse = None
        /\ xid = 0 /\ xchunk = None /\ xread = NoMeta /\ syncs = 0
        /\ kills = 0 /\ lost = FALSE /\ torn = FALSE

-----------------------------------------------------------------------------
(* The session: handleBackgroundSyncCacheIfRequired.                       *)

\* Mutant of Look: a first response that cannot be read does not matter.
LookLenient ==
    /\ stage = "look" /\ Reads
    /\ lost' = (lost \/ Rewrites)
    /\ \/ /\ meta = NoMeta
          /\ stage' = "running"
          /\ UNCHANGED matches
       \/ /\ meta # NoMeta
          /\ stage' = "ids"
          /\ matches' = (First(meta) # None => First(meta).from = token)
    /\ UNCHANGED <<node, handled, cache, store, ids, drop, response, write, extension, kills>>

Look == /\ stage = "look" /\ Reads
        /\ lost' = (lost \/ Rewrites)
        /\ \/ /\ meta = NoMeta
              /\ stage' = "running"
              /\ UNCHANGED matches
           \/ /\ meta # NoMeta
              /\ stage' = "ids"
              /\ matches' = (First(meta) # None /\ First(meta).from = token)
        /\ UNCHANGED <<node, handled, cache, store, ids, drop, response, write, extension, kills>>

ReadIds == /\ stage = "ids" /\ Reads
           /\ ids' = IF matches THEN meta.live ELSE {}
           /\ drop' = meta.live
           /\ stage' = "outdated" /\ matches' = FALSE
           /\ UNCHANGED <<node, handled, cache, store, response, write, extension, kills, lost>>

ReadOutdated == /\ stage = "outdated" /\ Reads
                /\ drop' = meta.outdated \cup drop
                /\ stage' = "merge"
                /\ UNCHANGED <<node, handled, cache, store, matches, ids, response, write,
                               extension, kills, lost>>

\* mergedSyncResponse, one onto the other: what cannot be read is left out.
MergedFiles(S) ==
    IF Readable(S) = {} THEN None
    ELSE [from |-> file[Min(Readable(S))].from, to |-> file[Max(Readable(S))].to,
          events |-> UNION {file[id].events : id \in Readable(S)},
          keys |-> UNION {file[id].keys : id \in Readable(S)}]
Merge == /\ stage = "merge"
         /\ response' = MergedFiles(ids)
         /\ stage' = "apply"
         /\ UNCHANGED <<node, handled, cache, store, matches, ids, drop, write, extension, kills,
                        history>>

\* handleSyncResponse: the messages, the rooms, then the token.
Apply(r) == /\ handled' = handled \cup r.keys
            /\ have' = have \cup r.events
            /\ token' = r.to
ApplyCache == /\ stage = "apply"
              /\ IF response = None THEN UNCHANGED <<handled, have, token>> ELSE Apply(response)
              /\ response' = None
              /\ stage' = "delete"
              /\ UNCHANGED <<node, cache, saved, matches, ids, drop, write, extension, kills,
                             history>>

\* deleteSyncResponses: the files one by one, oldest first ...
Delete == /\ stage = "delete" /\ drop \ gone # {} /\ ~Rewrites
          /\ LET id == Min(drop \ gone)
             IN file' = [file EXCEPT ![id] = None] /\ gone' = gone \cup {id}
          /\ UNCHANGED <<node, handled, meta, made, store, session, writing, read, clearing,
                         extension, kills, history>>

\* ... then the ids: the metadata is read, ...
ReadDropped == /\ stage = "delete" /\ drop \subseteq gone /\ ~Rewrites /\ Reads
               /\ writing' = "read" /\ read' = meta
               /\ stage' = "again"
               /\ UNCHANGED <<node, handled, cache, store, matches, ids, drop, response, gone,
                              clearing, extension, kills, lost>>

\* ... and written later, by a queue of this instance of the store.
Truncate == /\ writing = "read" /\ Replaces(read, XCut)
            /\ meta' = NoMeta
            /\ writing' = "cut"
            /\ UNCHANGED <<node, handled, file, made, store, session, read, gone, clearing,
                           extension, kills, torn>>

\* Mutant of Forget: outdated ids stay.
ForgetLive == /\ writing = "cut"
              /\ meta' = [read EXCEPT !.live = @ \ gone]
              /\ writing' = "no" /\ read' = NoMeta /\ gone' = {}
              /\ UNCHANGED <<node, handled, file, made, store, session, clearing, extension,
                             kills, history>>

Forget == /\ writing = "cut"
          /\ meta' = [live |-> read.live \ gone, outdated |-> read.outdated \ gone]
          /\ writing' = "no" /\ read' = NoMeta /\ gone' = {}
          /\ UNCHANGED <<node, handled, file, made, store, session, clearing, extension, kills,
                         history>>

\* hasAnyBackgroundCachedSyncResponses, by another instance: what came
\* meanwhile is processed too; deleteData cleans up otherwise.
Again == /\ stage = "again" /\ Reads
         /\ lost' = (lost \/ Rewrites)
         /\ ids' = {} /\ drop' = {}
         /\ stage' = IF meta # NoMeta THEN "look" ELSE "clear"
         /\ UNCHANGED <<node, handled, cache, store, matches, response, write, extension, kills>>

\* deleteData: id by id, the file, ...
ReadData == /\ stage = "clear" /\ ~Rewrites /\ Reads
            /\ drop' = meta.outdated \cup meta.live
            /\ stage' = "data"
            /\ UNCHANGED <<node, handled, cache, store, matches, ids, response, write,
                           extension, kills, lost>>
DeleteOne == /\ stage = "data" /\ drop # {} /\ ~Rewrites
             /\ LET id == Min(drop)
                IN /\ file' = [file EXCEPT ![id] = None]
                   /\ gone' = {id} /\ drop' = drop \ {id}
             /\ stage' = "entry"
             /\ UNCHANGED <<node, handled, meta, made, store, matches, ids, response, writing,
                            read, clearing, extension, kills, history>>
\* ... and the metadata without it, ...
ReadEntry == /\ stage = "entry" /\ Reads
             /\ writing' = "read" /\ read' = meta
             /\ stage' = "data"
             /\ UNCHANGED <<node, handled, cache, store, matches, ids, drop, response, gone,
                            clearing, extension, kills, lost>>
\* ... then the file of the metadata, while the session goes on.
DeleteData == /\ stage = "data" /\ drop = {}
              /\ clearing' = TRUE
              /\ stage' = "running"
              /\ UNCHANGED <<node, handled, cache, store, matches, ids, drop, response, writing,
                             read, gone, extension, kills, history>>
RemoveMeta == /\ clearing /\ writing = "no" /\ Replaces(NoMeta, XCut)
              /\ meta' = NoMeta
              /\ clearing' = FALSE
              /\ UNCHANGED <<node, handled, file, made, store, session, writing, read, gone,
                             extension, kills, torn>>

-----------------------------------------------------------------------------
(* The session: its own sync, its store, pause and resume.                 *)

Sync == /\ stage = "running"
        /\ response' = Response(token)
        /\ acked' = Later(acked, token)
        /\ stage' = "answered"
        /\ UNCHANGED <<sent, handled, cache, store, matches, ids, drop, write, extension, kills,
                       history>>
Synced == /\ stage = "answered"
          /\ Apply(response)
          /\ response' = None
          /\ stage' = "running"
          /\ UNCHANGED <<node, cache, saved, matches, ids, drop, write, extension, kills, history>>
Commit == /\ saved.token # token
          /\ saved' = [token |-> token, have |-> have]
          /\ UNCHANGED <<node, handled, cache, token, have, session, write, extension, kills,
                         history>>
PauseAndResume == /\ stage = "running"
                  /\ stage' = "look"
                  /\ UNCHANGED <<node, handled, cache, store, matches, ids, drop, response, write,
                                 extension, kills, history>>

-----------------------------------------------------------------------------
(* The extension.                                                          *)

\* event, updateBackgroundServiceStoresIfNeeded
Event == /\ xstage = "idle" /\ syncs < MaxSyncs /\ Reads
         /\ xtoken' = saved.token
         /\ xstage' = IF First(meta) # None /\ (xtoken # saved.token
                                                \/ First(meta).from # saved.token)
                      THEN "outdate" ELSE "sync"
         /\ UNCHANGED <<node, handled, cache, store, session, write, xids, xresponse, xid, xchunk,
                        xread, syncs, kills, lost>>

\* markDataOutdated reads the ids, markOutdated the metadata to change.
OutdatedIds == /\ xstage = "outdate" /\ Reads
               /\ xids' = meta.live
               /\ xstage' = IF meta.live = {} THEN "sync" ELSE "outdateIds"
               /\ UNCHANGED <<node, handled, cache, store, session, write, xtoken, xresponse, xid,
                              xchunk, xread, syncs, kills, lost>>
Mark == /\ xstage = "marking"
        /\ meta' = [live |-> xread.live \ xids,
                    outdated |-> xread.outdated \cup (xids \cap xread.live)]
        /\ xids' = {} /\ xread' = NoMeta
        /\ xstage' = "sync"
        /\ UNCHANGED <<node, handled, file, made, store, session, write, xtoken, xresponse, xid,
                       xchunk, syncs, kills, history>>

\* Mutant of Launch: it goes on from the store's token.
LaunchFromStore ==
    /\ xstage = "sync" /\ syncs < MaxSyncs /\ Reads
    /\ syncs' = syncs + 1
    /\ acked' = Later(acked, xtoken)
    /\ \/ xresponse' = Response(xtoken) /\ xstage' = "store"
       \/ xstage' = "idle" /\ UNCHANGED xresponse
    /\ UNCHANGED <<sent, handled, cache, store, session, write, xtoken, xids, xid, xchunk, xread,
                   kills, lost>>

\* launchBackgroundSync: the answer may be lost.
Launch == /\ xstage = "sync" /\ syncs < MaxSyncs /\ Reads
          /\ syncs' = syncs + 1
          /\ LET since == IF Last(meta) # None THEN Last(meta).to ELSE xtoken
             IN /\ acked' = Later(acked, since)
                /\ \/ xresponse' = Response(since) /\ xstage' = "store"
                   \/ xstage' = "idle" /\ UNCHANGED xresponse
          /\ UNCHANGED <<sent, handled, cache, store, session, write, xtoken, xids, xid, xchunk,
                         xread, kills, lost>>

\* updateStore: into the last file unless that is too large, or a new one
Store == /\ xstage = "store" /\ Reads
         /\ \/ /\ Last(meta) # None
               /\ xid' = Max(meta.live)
               /\ xchunk' = Merged(xresponse, Last(meta))
               /\ xstage' = "update"
               /\ UNCHANGED made
            \/ /\ made < MaxChunks
               /\ made' = made + 1
               /\ xid' = made + 1
               /\ xchunk' = xresponse
               /\ xstage' = "add"
         /\ UNCHANGED <<node, handled, file, meta, store, session, write, xtoken, xids, xresponse,
                        xread, syncs, kills, lost>>
WriteFile == /\ xstage \in {"update", "add"}
             /\ file' = [file EXCEPT ![xid] = xchunk]
             /\ xchunk' = None
             /\ xstage' = IF xstage = "update" THEN "account" ELSE "added"
             /\ UNCHANGED <<node, handled, meta, made, store, session, write, xtoken, xids,
                            xresponse, xid, xread, syncs, kills, history>>

\* The metadata is read to add the id, to set account data or to mark ids ...
ReadMeta == /\ xstage \in {"added", "account", "outdateIds"}
            /\ \/ /\ Reads
                  /\ xread' = meta
                  /\ xstage' = CASE xstage = "added" -> "append"
                                 [] xstage = "account" -> "accountData"
                                 [] xstage = "outdateIds" -> "mark"
               \/ /\ xstage = "account"
                  /\ xstage' = "crypto"
                  /\ UNCHANGED <<xread, torn>>
            /\ UNCHANGED <<node, handled, cache, store, session, write, xtoken, xids, xresponse,
                           xid, xchunk, syncs, kills, lost>>
\* ... and written.
TruncateMeta ==
    /\ \/ xstage = "mark" /\ xstage' = "marking"
       \/ xstage = "append" /\ xstage' = "appending"
       \/ xstage = "accountData" /\ xstage' = "settingData"
    /\ Replaces(xread, writing = "cut")
    /\ meta' = NoMeta
    /\ UNCHANGED <<node, handled, file, made, store, session, write, xtoken, xids, xresponse, xid,
                   xchunk, xread, syncs, kills, torn>>
WriteMeta == /\ \/ /\ xstage = "appending"
                   /\ meta' = [xread EXCEPT !.live = @ \cup {xid}]
                   /\ xstage' = "account"
                \/ /\ xstage = "settingData"
                   /\ meta' = xread
                   /\ xstage' = "crypto"
             /\ xread' = NoMeta
             /\ UNCHANGED <<node, handled, file, made, store, session, write, xtoken, xids,
                            xresponse, xid, xchunk, syncs, kills, history>>

\* Mutant of Crypto: the messages are left to the session.
CryptoLeft ==
    /\ xstage = "crypto"
    /\ xresponse' = None /\ xid' = 0
    /\ xstage' \in {"sync", "idle"}
    /\ UNCHANGED <<node, handled, cache, store, session, write, xtoken, xids, xchunk, xread, syncs,
                   kills, history>>

\* Then the event is there, or its key is not and it syncs again.
Crypto == /\ xstage = "crypto"
          /\ handled' = handled \cup xresponse.keys
          /\ xresponse' = None /\ xid' = 0
          /\ xstage' \in {"sync", "idle"}
          /\ UNCHANGED <<node, cache, store, session, write, xtoken, xids, xchunk, xread, syncs,
                         kills, history>>

-----------------------------------------------------------------------------
(* The node, and kills.                                                    *)

Send == /\ sent < MaxStream
        /\ sent' = sent + 1
        /\ UNCHANGED <<acked, handled, cache, store, session, write, extension, kills, history>>

KillSession == /\ kills < MaxKills
               /\ kills' = kills + 1
               /\ token' = saved.token /\ have' = saved.have
               /\ stage' = "look" /\ ids' = {} /\ drop' = {}
               /\ matches' = FALSE /\ response' = None
               /\ writing' = "no" /\ read' = NoMeta /\ gone' = {} /\ clearing' = FALSE
               /\ torn' = (torn \/ writing = "cut")
               /\ UNCHANGED <<node, handled, cache, saved, extension, lost>>

KillExtension == /\ kills < MaxKills
                 /\ xstage # "idle"
                 /\ Careful => xstage \notin {"account", "accountData", "settingData", "crypto"}
                 /\ kills' = kills + 1
                 /\ xstage' = "idle" /\ xtoken' = saved.token
                 /\ xids' = {} /\ xresponse' = None /\ xread' = NoMeta
                 /\ xid' = 0 /\ xchunk' = None
                 /\ torn' = (torn \/ XCut)
                 /\ UNCHANGED <<node, handled, cache, store, session, write, syncs, lost>>

-----------------------------------------------------------------------------
CacheStep == \/ Look \/ ReadIds \/ ReadOutdated \/ Merge \/ ApplyCache \/ Delete
             \/ ReadDropped \/ Truncate \/ Forget \/ Again
             \/ ReadData \/ DeleteOne \/ ReadEntry \/ DeleteData \/ RemoveMeta
ExtensionStep == \/ OutdatedIds \/ Mark \/ Launch \/ Store \/ WriteFile
                 \/ ReadMeta \/ TruncateMeta \/ WriteMeta \/ Crypto

Next == \/ CacheStep \/ Sync \/ Synced \/ Commit \/ PauseAndResume
        \/ Event \/ ExtensionStep
        \/ Send \/ KillSession \/ KillExtension

\* The queues of the session run.
Spec == Init /\ [][Next]_vars
FairSpec == Spec /\ WF_vars(CacheStep)

-----------------------------------------------------------------------------
\* "The sync token that is the origin of the stored sync response": as long as
\* no update of the metadata is lost, the session has no token beyond an event
\* it has not applied, in memory or on disk, even if metadata is torn.
NoGap == ~lost => have = 1..token /\ saved.have = 1..saved.token

\* "All valid cached sync responses, chronologically ordered": as long as no
\* metadata is lost or torn, the responses of it continue each other, unless
\* the first one is gone and the session will drop them all.
Chained == ~lost /\ ~torn /\ First(meta) # None =>
               \A i, j \in meta.live :
                   i < j /\ (\A k \in meta.live : k <= i \/ j <= k) =>
                       file[j] # None /\ file[i].to = file[j].from

\* "There is no need to handle outdatedCachedSyncResponse manually anymore":
\* a message to the device that the node has deleted was given to the crypto
\* module of either process; what is outdated may be thrown away.
KeysKept == 1..acked \subseteq handled

\* The session gets through the cache and back to its sync.
Served == stage = "look" ~> stage = "running"
=============================================================================
