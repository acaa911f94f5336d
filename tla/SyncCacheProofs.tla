--------------------------- MODULE SyncCacheProofs ---------------------------
(***************************************************************************)
(* What holds of the cache of the extension for every stream, number of    *)
(* files, of requests and of kills: no message to the device is lost, the  *)
(* session never jumps over an event, cached responses continue each other.*)
(***************************************************************************)
EXTENDS SyncCache, FiniteSetTheorems, TLAPS

Meta == [live : SUBSET Id, outdated : SUBSET Id]

\* Stages of the extension: it makes a new file; it has cached a response that
\* its crypto module does not have; it has one to cache in a new file, or may.
Adding == {"add", "added", "append", "appending"}
InHand == {"account", "accountData", "settingData", "crypto"}
ToCache == {"store"} \cup Adding

(***************************************************************************)
(* Types.                                                                  *)
(***************************************************************************)
NodeOK == sent \in Nat /\ acked \in Nat /\ handled \subseteq Nat /\ kills \in Nat
CacheOK == /\ file \in [Id -> Chunk \cup {None}]
           /\ meta \in Meta
           /\ made \in 0..MaxChunks
StoreOK == /\ saved \in [token : Nat, have : SUBSET Nat]
           /\ token \in Nat /\ have \subseteq Nat
SessionOK == /\ stage \in {"look", "ids", "outdated", "merge", "apply", "delete", "again",
                           "clear", "data", "entry", "running", "answered"}
             /\ matches \in BOOLEAN
             /\ ids \subseteq Id /\ drop \subseteq Id
             /\ response \in Chunk \cup {None}
             /\ stage = "answered" => response # None
WriteOK == /\ writing \in {"no", "read", "cut"}
           /\ read \in Meta
           /\ gone \subseteq Id /\ clearing \in BOOLEAN
           /\ lost \in BOOLEAN /\ torn \in BOOLEAN
ExtensionOK ==
    /\ xstage \in {"idle", "outdate", "outdateIds", "mark", "marking", "sync", "update"} \cup ToCache \cup InHand
    /\ xtoken \in Nat /\ xids \subseteq Id /\ xread \in Meta /\ syncs \in Nat
    /\ xresponse \in Chunk \cup {None} /\ xchunk \in Chunk \cup {None}
    /\ xstage \in {"update"} \cup ToCache \cup InHand <=> xresponse # None
    /\ xstage \in {"update", "add"} <=> xchunk # None
    /\ xid \in 0..MaxChunks
    /\ xstage \in {"update"} \cup Adding \cup InHand => xid \in Id
    /\ xstage \in Adding => xid = made
TypeInv == NodeOK /\ CacheOK /\ StoreOK /\ SessionOK /\ WriteOK /\ ExtensionOK

(***************************************************************************)
(* No message is lost: everything up to what the node was told is handled; *)
(* what a response spans is handled or left in it.                         *)
(***************************************************************************)
Seen == meta.live \cup read.live \cup xread.live
Left(c) == c # None => 1..c.to \subseteq handled \cup c.keys
Deleted == /\ 1..acked \subseteq handled
           /\ 1..token \subseteq handled
           /\ 1..saved.token \subseteq handled
           /\ 1..xtoken \subseteq handled
Held == /\ \A i \in Id : Left(file[i])
        /\ Left(response) /\ Left(xresponse) /\ Left(xchunk)
Numbered == \A i \in Seen : i <= made /\ (xstage \in Adding => i # xid)
Written == /\ xstage \in {"update", "add"} => xchunk.to = xresponse.to
           /\ xstage \in InHand /\ file[xid] # None => file[xid].to = xresponse.to
           /\ xstage \in Adding \ {"add"} /\ file[xid] # None => file[xid].to = xresponse.to
Done == \A i \in Seen : /\ file[i] # None
                        /\ xstage \in InHand => i # xid
                        => 1..file[i].to \subseteq handled
KeysInv == Deleted /\ Held /\ Numbered /\ Written /\ Done

(***************************************************************************)
(* No event is jumped over.  View is the metadata as it would be if nobody *)
(* were writing it.  What is said of files is said of a function f of      *)
(* files, for a token t that the session has on disk.                      *)
(***************************************************************************)
View == IF writing = "cut" THEN read ELSE IF XCut THEN xread ELSE meta
Old(S) == \A i \in S : i <= made /\ (xstage \in Adding => i # xid)
Views == /\ ~(writing = "cut" /\ XCut)
         /\ Cut => meta = NoMeta
         /\ xstage \in {"outdateIds", "mark", "marking"} => View.live \subseteq xids
         /\ View.live \cap View.outdated = {}
         /\ Old(View.live) /\ Old(View.outdated)

\* A response spans its events, but for what the session had on disk.
Sound(c, t) == c # None =>
                   /\ c.from <= c.to
                   /\ c.events \subseteq 1..c.to
                   /\ \A p \in c.from + 1 .. c.to : p > t => p \in c.events
Files == /\ \A i \in Id : Sound(file[i], saved.token)
         /\ Sound(xresponse, saved.token) /\ Sound(xchunk, saved.token)
         /\ \A i \in Id : file[i] # None =>
                /\ file[i].to <= sent
                /\ xresponse # None => file[i].to <= xresponse.to
         /\ xresponse # None => xresponse.to <= sent
         /\ xchunk # None => xchunk.to = xresponse.to

\* Of a list of ids the first files may be gone; the rest spans its events.
On(f, S) == {i \in S : f[i] # None}
Upward(f, S) == \A i, j \in S : i < j /\ f[i] # None => f[j] # None
Growing(f, S) == \A i, j \in On(f, S) : i < j => f[i].to <= f[j].to
Covered(f, t, S) == \A i, j \in On(f, S) : \A p \in f[i].from + 1 .. f[j].to :
                        p > t => \E k \in On(f, S) : p \in f[k].events
Whole(f, t, S) == Upward(f, S) /\ Growing(f, S) /\ Covered(f, t, S)
Linked(f, S) == \A i, j \in S : /\ i < j /\ (\A k \in S : k <= i \/ j <= k)
                                /\ f[i] # None
                                => f[i].to = f[j].from
Meets(f, k, S) == \E i \in On(f, S) : f[i].from <= k /\ k <= f[i].to
Above(S) == xstage = "update" /\ xid \in S => \A i \in S : i <= xid
Chain == /\ Whole(file, saved.token, View.live)
         /\ Above(View.live)
         /\ ~torn => Linked(file, View.live)

\* What the extension has goes on from the last file, or is in a new one.
Goes(l) == file[l] # None =>
               /\ xresponse.from <= file[l].to \/ xresponse.from <= saved.token
               /\ ~torn => xresponse.from = file[l].to
Caching ==
    /\ xstage \in ToCache => \A l \in View.live : (\A i \in View.live : i <= l) => Goes(l)
    /\ xstage = "add" => xchunk = xresponse
    /\ xstage \in Adding \ {"add"} => file[xid] = xresponse
    /\ xstage = "update" => /\ xresponse.events \subseteq xchunk.events
                            /\ file[xid] # None => /\ xchunk.from = file[xid].from
                                                   /\ file[xid].events \subseteq xchunk.events
                                                   /\ \/ xresponse.from <= file[xid].to
                                                      \/ xresponse.from <= saved.token

\* What the session deletes is the beginning of the list, what it reads and
\* applies goes on from its token.
Dropping == /\ Rewrites => stage \in {"again", "data", "running", "answered", "look"}
            /\ Old(drop) /\ Old(ids) /\ Old(gone)
            /\ writing = "no" /\ stage \notin {"delete", "entry"} => gone = {}
            /\ stage = "delete" =>
                   /\ gone \subseteq drop /\ \A i \in gone, j \in drop \ gone : i < j
                   /\ \A i, j \in View.live : i < j /\ i \in gone /\ j \in drop => file[i] = None
            /\ \A i, j \in View.live : i < j /\ j \in gone => i \in gone
            /\ \A i, j \in View.live : i < j /\ j \in drop => i \in drop \cup gone
Reading ==
    /\ stage = "ids" /\ matches =>
           /\ View.live = {} \/ Meets(file, token, View.live)
           /\ View.live = {} /\ xstage \in ToCache =>
                  xresponse.from <= token /\ token <= xresponse.to
    /\ stage \in {"outdated", "merge"} /\ ids # {} =>
           /\ Meets(file, token, ids) /\ Whole(file, saved.token, ids) /\ Above(ids)
           /\ ids \subseteq View.live \/ ids \cap View.live = {}
Applying == stage \in {"apply", "answered"} /\ response # None =>
                /\ token <= response.to /\ response.to <= sent
                /\ response.events \subseteq 1..response.to
                /\ token + 1 .. response.to \subseteq response.events
Tokens == saved.token <= token /\ token <= sent /\ xtoken <= saved.token
Gapless == have = 1..token /\ saved.have = 1..saved.token
Cached == Views /\ Files /\ Chain /\ Caching
GapInv == Cached /\ Dropping /\ Reading /\ Applying /\ Tokens /\ Gapless

(***************************************************************************)
(* The first and the last id of a set.                                     *)
(***************************************************************************)
\* A set of ids has a least one: what is up to it has no smaller part of its kind.
LEMMA HasMin ==
    ASSUME NEW S, S \subseteq Id, S # {}
    PROVE  \E x \in S : \A y \in S : x <= y
<1> DEFINE Upto(x) == {y \in S : y <= x}
<1> DEFINE T == {Upto(x) : x \in S}
<1> DEFINE O == StrictSubsetOrdering(Id)
<1>1. IsFiniteSet(Id)
  BY FS_Interval, Bounds DEF Id
<1>2. IsWellFoundedOn(O, FiniteSubsetsOf(Id))
  BY <1>1, FS_StrictSubsetOrderingWellFounded
<1>3. T \subseteq FiniteSubsetsOf(Id)
  <2>1. \A x \in S : Upto(x) \subseteq Id
    OBVIOUS
  <2>2. \A x \in S : IsFiniteSet(Upto(x))
    BY <1>1, <2>1, FS_Subset
  <2> QED
    BY <2>1, <2>2 DEF FiniteSubsetsOf
<1>4. T # {}
  OBVIOUS
<1>5. \E t \in T : \A u \in T : <<u, t>> \notin O
  <2> HIDE DEF T, O
  <2> QED
    BY <1>2, <1>3, <1>4, WFMin
<1>6. PICK x \in S : \A u \in T : <<u, Upto(x)>> \notin O
  BY <1>5
<1>7. ASSUME NEW y \in S, ~(x <= y)
      PROVE  FALSE
  <2>1. x \in Int /\ y \in Int /\ y < x
    BY <1>7 DEF Id
  <2>2. Upto(y) \subseteq Upto(x) /\ x \in Upto(x) /\ x \notin Upto(y)
    <3>1. \A z \in S : z \in Int
      BY DEF Id
    <3>2. \A z \in S : z <= y => z <= x
      BY <2>1, <3>1
    <3>3. Upto(y) \subseteq Upto(x)
      BY <3>2
    <3>4. x <= x
      BY <2>1
    <3> QED
      BY <1>7, <3>3, <3>4
  <2>3. Upto(y) \in T /\ Upto(y) \subseteq Id /\ Upto(x) \subseteq Id
    OBVIOUS
  <2>4. <<Upto(y), Upto(x)>> \in O
    <3> HIDE DEF Upto
    <3> QED
      BY <2>2, <2>3 DEF StrictSubsetOrdering
  <2> QED
    BY <1>6, <2>3, <2>4
<1> QED
  BY <1>7

\* The least id is what Min chooses.
LEMMA MinOf ==
    ASSUME NEW S, S \subseteq Id, S # {}
    PROVE  Min(S) \in S /\ \A y \in S : Min(S) <= y
<1>1. PICK x \in S : \A y \in S : x <= y
  BY HasMin
<1> QED
  BY <1>1 DEF Min

\* There is a greatest one too, as the least of the mirrored ids, and Max
\* chooses it.
LEMMA MaxOf ==
    ASSUME NEW S, S \subseteq Id, S # {}
    PROVE  Max(S) \in S /\ \A y \in S : y <= Max(S)
<1> DEFINE T == {MaxChunks + 1 - y : y \in S}
<1>1. MaxChunks \in Nat /\ \A y \in S : y \in 1..MaxChunks
  BY Bounds DEF Id
<1>2. T \subseteq Id /\ T # {}
  <2>1. \A y \in S : MaxChunks + 1 - y \in 1..MaxChunks
    BY <1>1
  <2> QED
    BY <2>1 DEF Id
<1>3. PICK t \in T : \A u \in T : t <= u
  <2> HIDE DEF T
  <2> QED
    BY <1>2, HasMin
<1>4. PICK x \in S : t = MaxChunks + 1 - x
  OBVIOUS
<1>5. \A y \in S : x >= y
  <2>1. \A y \in S : MaxChunks + 1 - x <= MaxChunks + 1 - y
    BY <1>3, <1>4
  <2> QED
    BY <1>1, <2>1
<1>6. Max(S) \in S /\ \A y \in S : Max(S) >= y
  BY <1>5 DEF Max
<1> QED
  BY <1>1, <1>6

-----------------------------------------------------------------------------
(***************************************************************************)
(* Types.                                                                  *)
(***************************************************************************)
\* A response of the node, from any token.
LEMMA ResponseType ==
    ASSUME NodeOK, NEW since \in Nat
    PROVE  Response(since) \in Chunk /\ Later(acked, since) \in Nat
<1>1. Later(acked, since) \in Nat
  BY DEF NodeOK, Later
<1>2. since + 1 .. sent \subseteq Nat /\ Later(acked, since) + 1 .. sent \subseteq Nat
  BY <1>1 DEF NodeOK
<1> QED
  BY <1>1, <1>2 DEF NodeOK, Response, Chunk

\* The files of a list of ids: its first, its last, and all of them merged.
LEMMA FilesType ==
    ASSUME CacheOK, NEW S, S \subseteq Id
    PROVE  MergedFiles(S) \in Chunk \cup {None}
<1>1. CASE Readable(S) = {}
  BY <1>1 DEF MergedFiles
<1>2. CASE Readable(S) # {}
  <2>1. Readable(S) \subseteq Id /\ \A i \in Readable(S) : file[i] \in Chunk
    BY DEF Readable, CacheOK
  <2>2. Min(Readable(S)) \in Readable(S) /\ Max(Readable(S)) \in Readable(S)
    BY <1>2, <2>1, MinOf, MaxOf
  <2>3. /\ file[Min(Readable(S))].from \in Nat /\ file[Max(Readable(S))].to \in Nat
        /\ UNION {file[id].events : id \in Readable(S)} \subseteq Nat
        /\ UNION {file[id].keys : id \in Readable(S)} \subseteq Nat
    BY <2>1, <2>2 DEF Chunk
  <2> QED
    BY <1>2, <2>3 DEF MergedFiles, Chunk
<1> QED
  BY <1>1, <1>2

LEMMA LastType ==
    ASSUME CacheOK, NEW m \in Meta
    PROVE  /\ First(m) \in Chunk \cup {None} /\ Last(m) \in Chunk \cup {None}
           /\ First(m) # None => /\ Min(m.live) \in m.live /\ First(m) = file[Min(m.live)]
                                 /\ \A i \in m.live : Min(m.live) <= i
           /\ Last(m) # None => /\ Max(m.live) \in m.live /\ Last(m) = file[Max(m.live)]
                                /\ \A i \in m.live : i <= Max(m.live)
<1>1. m.live \subseteq Id
  BY DEF Meta
<1> QED
  BY <1>1, MinOf, MaxOf DEF First, Last, CacheOK

LEMMA MergedType ==
    ASSUME NEW new \in Chunk, NEW old \in Chunk
    PROVE  Merged(new, old) \in Chunk
BY DEF Merged, Chunk

LEMMA InitTypes == Init => TypeInv
<1> SUFFICES ASSUME Init
             PROVE  TypeInv
  OBVIOUS
<1>1. NoMeta \in Meta
  BY DEF Meta, NoMeta
<1>2. NodeOK /\ StoreOK
  BY DEF Init, NodeOK, StoreOK
<1>3. CacheOK
  BY <1>1, Bounds DEF Init, CacheOK
<1>4. SessionOK /\ WriteOK
  BY <1>1 DEF Init, SessionOK, WriteOK
<1>5. ExtensionOK
  BY <1>1, Bounds DEF Init, ExtensionOK, ToCache, Adding, InHand
<1> QED
  BY <1>2, <1>3, <1>4, <1>5 DEF TypeInv

\* The processing of the cache.
LEMMA CacheTypes ==
    ASSUME TypeInv, CacheStep
    PROVE  TypeInv'
<1> USE DEF TypeInv, node, cache, store, session, write, extension, history, Reads, Replaces
<1>1. ASSUME CacheOK, file' \in [Id -> Chunk \cup {None}], meta' \in Meta, made' = made
      PROVE  CacheOK'
  BY <1>1 DEF CacheOK
<1>0. ASSUME NEW S, S \subseteq Id, S # {}
      PROVE  Min(S) \in Id
  BY <1>0, MinOf
<1>2. NoMeta \in Meta /\ \A m \in Meta : m.live \subseteq Id /\ m.outdated \subseteq Id
  BY DEF NoMeta, Meta
<1>3. CASE Look
  <2>1. SessionOK' /\ WriteOK'
    BY <1>3 DEF Look, SessionOK, WriteOK
  <2> QED
    BY <1>3, <2>1 DEF Look, NodeOK, CacheOK, StoreOK, ExtensionOK
<1>4. CASE ReadIds
  <2>1. SessionOK' /\ WriteOK'
    BY <1>2, <1>4 DEF ReadIds, SessionOK, WriteOK, CacheOK
  <2> QED
    BY <1>4, <2>1 DEF ReadIds, NodeOK, CacheOK, StoreOK, ExtensionOK
<1>5. CASE ReadOutdated
  BY <1>2, <1>5 DEF ReadOutdated, NodeOK, CacheOK, StoreOK, SessionOK, WriteOK, ExtensionOK
<1>6. CASE Merge
  <2>1. MergedFiles(ids) \in Chunk \cup {None}
    BY FilesType DEF SessionOK
  <2> QED
    BY <1>6, <2>1 DEF Merge, NodeOK, CacheOK, StoreOK, SessionOK, WriteOK, ExtensionOK
<1>7. CASE ApplyCache
  <2>1. /\ handled' \subseteq Nat /\ have' \subseteq Nat /\ token' \in Nat
    BY <1>7 DEF ApplyCache, Apply, NodeOK, StoreOK, SessionOK, Chunk
  <2> QED
    BY <1>7, <2>1 DEF ApplyCache, NodeOK, CacheOK, StoreOK, SessionOK, WriteOK, ExtensionOK
<1>8. CASE Delete
  <2>1. file' \in [Id -> Chunk \cup {None}] /\ gone' \subseteq Id
    <3>1. Min(drop \ gone) \in Id
      BY <1>0, <1>8 DEF Delete, SessionOK
    <3> QED
      BY <1>8, <3>1 DEF Delete, CacheOK, WriteOK
  <2>2. CacheOK' /\ SessionOK' /\ WriteOK'
    BY <1>8, <2>1 DEF Delete, CacheOK, SessionOK, WriteOK
  <2> QED
    BY <1>8, <2>2 DEF Delete, NodeOK, StoreOK, ExtensionOK
<1>9. CASE ReadDropped
  BY <1>9 DEF ReadDropped, NodeOK, CacheOK, StoreOK, SessionOK, WriteOK, ExtensionOK
<1>10. CASE Truncate
  BY <1>2, <1>10 DEF Truncate, NodeOK, CacheOK, StoreOK, SessionOK, WriteOK, ExtensionOK
<1>11. CASE Forget
  <2>1. [live |-> read.live \ gone, outdated |-> read.outdated \ gone] \in Meta
    BY DEF WriteOK, Meta
  <2> QED
    BY <1>2, <1>11, <2>1 DEF Forget, NodeOK, CacheOK, StoreOK, SessionOK, WriteOK, ExtensionOK
<1>12. CASE Again
  BY <1>12 DEF Again, NodeOK, CacheOK, StoreOK, SessionOK, WriteOK, ExtensionOK
<1>13. CASE ReadData
  BY <1>2, <1>13 DEF ReadData, NodeOK, CacheOK, StoreOK, SessionOK, WriteOK, ExtensionOK
<1>14. CASE DeleteOne
  <2>1. file' \in [Id -> Chunk \cup {None}] /\ gone' \subseteq Id
    <3>1. Min(drop) \in Id
      BY <1>0, <1>14 DEF DeleteOne, SessionOK
    <3> QED
      BY <1>14, <3>1 DEF DeleteOne, CacheOK
  <2> QED
    BY <1>14, <2>1 DEF DeleteOne, NodeOK, CacheOK, StoreOK, SessionOK, WriteOK, ExtensionOK
<1>15. CASE ReadEntry
  BY <1>15 DEF ReadEntry, NodeOK, CacheOK, StoreOK, SessionOK, WriteOK, ExtensionOK
<1>16. CASE DeleteData
  BY <1>16 DEF DeleteData, NodeOK, CacheOK, StoreOK, SessionOK, WriteOK, ExtensionOK
<1>17. CASE RemoveMeta
  <2>1. CacheOK' /\ WriteOK'
    BY <1>2, <1>17 DEF RemoveMeta, CacheOK, WriteOK
  <2> QED
    BY <1>17, <2>1 DEF RemoveMeta, NodeOK, StoreOK, SessionOK, ExtensionOK
<1> QED
  BY <1>3, <1>4, <1>5, <1>6, <1>7, <1>8, <1>9, <1>10, <1>11, <1>12, <1>13, <1>14, <1>15, <1>16,
     <1>17 DEF CacheStep

\* The extension.
LEMMA ExtensionTypes ==
    ASSUME TypeInv, Event \/ ExtensionStep
    PROVE  TypeInv'
<1> USE DEF TypeInv, node, cache, store, session, write, history, Reads, Replaces, ToCache,
            Adding, InHand
<1>1. meta \in Meta /\ meta.live \subseteq Id /\ NoMeta \in Meta
  BY DEF CacheOK, Meta, NoMeta
<1>2. ASSUME UNCHANGED <<node, handled, cache, store, session, write, kills>>,
             lost' \in BOOLEAN, torn' \in BOOLEAN
      PROVE  NodeOK' /\ CacheOK' /\ StoreOK' /\ SessionOK' /\ WriteOK'
  BY <1>2 DEF NodeOK, CacheOK, StoreOK, SessionOK, WriteOK
<1>3. ASSUME UNCHANGED <<node, handled, store, session, write, kills>>,
             lost' \in BOOLEAN, torn' \in BOOLEAN
      PROVE  NodeOK' /\ StoreOK' /\ SessionOK' /\ WriteOK'
  BY <1>3 DEF NodeOK, StoreOK, SessionOK, WriteOK
<1>4. CASE Event
  <2>1. ExtensionOK'
    BY <1>1, <1>4 DEF Event, StoreOK, ExtensionOK
  <2> QED
    BY <1>2, <1>4, <2>1 DEF Event, WriteOK
<1>13. CASE OutdatedIds
  <2>1. ExtensionOK'
    BY <1>1, <1>13 DEF OutdatedIds, ExtensionOK
  <2> QED
    BY <1>2, <1>13, <2>1 DEF OutdatedIds, WriteOK
<1>5. CASE Mark
  <2>1. meta' \in Meta
    BY <1>5 DEF Mark, ExtensionOK, Meta
  <2>2. CacheOK' /\ ExtensionOK'
    BY <1>1, <1>5, <2>1 DEF Mark, CacheOK, ExtensionOK
  <2> QED
    BY <1>3, <1>5, <2>2 DEF Mark, WriteOK
<1>6. CASE Launch
  <2> DEFINE since == IF Last(meta) # None THEN Last(meta).to ELSE xtoken
  <2>1. since \in Nat
    BY <1>1, LastType DEF ExtensionOK, Chunk
  <2>2. Response(since) \in Chunk /\ Response(since) # None /\ Later(acked, since) \in Nat
    BY <2>1, ResponseType, NoneAssumption
  <2> HIDE DEF since
  <2>3. /\ xstage = "sync" /\ syncs' = syncs + 1
        /\ acked' = Later(acked, since)
        /\ \/ xresponse' = Response(since) /\ xstage' = "store"
           \/ xstage' = "idle" /\ UNCHANGED xresponse
        /\ lost' \in BOOLEAN /\ torn' \in BOOLEAN
        /\ UNCHANGED <<sent, handled, cache, store, session, write, xtoken, xids, xid, xchunk,
                       xread, kills>>
    BY <1>6 DEF Launch, since, WriteOK
  <2>4. ExtensionOK'
    BY <2>2, <2>3 DEF ExtensionOK
  <2>5. NodeOK' /\ CacheOK' /\ StoreOK' /\ SessionOK' /\ WriteOK'
    BY <2>2, <2>3 DEF NodeOK, CacheOK, StoreOK, SessionOK, WriteOK
  <2> QED
    BY <2>4, <2>5
<1>7. CASE Store
  <2>1. /\ xstage = "store" /\ xresponse \in Chunk
        /\ lost' \in BOOLEAN /\ torn' \in BOOLEAN
        /\ UNCHANGED <<node, handled, file, meta, store, session, write, xtoken, xids, xresponse,
                       xread, syncs, kills>>
    BY <1>7 DEF Store, ExtensionOK, WriteOK
  <2>2. NodeOK' /\ StoreOK' /\ SessionOK' /\ WriteOK'
    BY <1>3, <2>1
  <2>3. CASE /\ Last(meta) # None
             /\ xid' = Max(meta.live)
             /\ xchunk' = Merged(xresponse, Last(meta))
             /\ xstage' = "update"
             /\ UNCHANGED made
    <3>1. Last(meta) \in Chunk /\ xid' \in Id
      BY <1>1, <2>3, LastType
    <3>2. xchunk' \in Chunk /\ xchunk' # None
      BY <2>1, <2>3, <3>1, MergedType, NoneAssumption
    <3>3. xid' \in 0..MaxChunks
      BY <3>1, Bounds DEF Id
    <3>4. CacheOK' /\ ExtensionOK'
      BY <2>1, <2>3, <3>1, <3>2, <3>3, NoneAssumption DEF CacheOK, ExtensionOK
    <3> QED
      BY <2>2, <3>4
  <2>4. CASE /\ made < MaxChunks
             /\ made' = made + 1
             /\ xid' = made + 1
             /\ xchunk' = xresponse
             /\ xstage' = "add"
    <3>1. made + 1 \in 0..MaxChunks /\ made + 1 \in Id
      BY <2>4, Bounds DEF CacheOK, Id
    <3>2. CacheOK' /\ ExtensionOK'
      BY <2>1, <2>4, <3>1, NoneAssumption DEF CacheOK, ExtensionOK
    <3> QED
      BY <2>2, <3>2
  <2> QED
    BY <1>7, <2>3, <2>4 DEF Store
<1>8. CASE WriteFile
  <2>1. file' \in [Id -> Chunk \cup {None}]
    BY <1>8 DEF WriteFile, CacheOK, ExtensionOK
  <2>2. CacheOK' /\ ExtensionOK'
    BY <1>8, <2>1 DEF WriteFile, CacheOK, ExtensionOK
  <2> QED
    BY <1>3, <1>8, <2>2 DEF WriteFile, WriteOK
<1>9. CASE ReadMeta
  <2>1. /\ xread' \in Meta
        /\ \/ xstage = "added" /\ xstage' = "append"
           \/ xstage = "account" /\ xstage' \in {"accountData", "crypto"}
           \/ xstage = "outdateIds" /\ xstage' = "mark"
        /\ lost' \in BOOLEAN /\ torn' \in BOOLEAN
        /\ UNCHANGED <<node, handled, cache, store, session, write, xtoken, xids, xresponse, xid,
                       xchunk, syncs, kills>>
    BY <1>1, <1>9, Zenon DEF ReadMeta, ExtensionOK, WriteOK
  <2>2. ExtensionOK'
    BY <2>1 DEF ExtensionOK
  <2> QED
    BY <1>2, <2>1, <2>2
<1>10. CASE TruncateMeta
  <2>1. CacheOK' /\ ExtensionOK'
    BY <1>1, <1>10 DEF TruncateMeta, CacheOK, ExtensionOK
  <2> QED
    BY <1>3, <1>10, <2>1 DEF TruncateMeta, WriteOK
<1>11. CASE WriteMeta
  <2>1. meta' \in Meta
    BY <1>11 DEF WriteMeta, ExtensionOK, Meta
  <2>2. CacheOK' /\ ExtensionOK'
    BY <1>1, <1>11, <2>1 DEF WriteMeta, CacheOK, ExtensionOK
  <2> QED
    BY <1>3, <1>11, <2>2 DEF WriteMeta, WriteOK
<1>12. CASE Crypto
  <2>1. handled' \subseteq Nat /\ xresponse' = None
    BY <1>12 DEF Crypto, NodeOK, ExtensionOK, Chunk
  <2>2. NodeOK' /\ CacheOK' /\ StoreOK' /\ SessionOK' /\ WriteOK'
    BY <1>12, <2>1 DEF Crypto, NodeOK, CacheOK, StoreOK, SessionOK, WriteOK
  <2>3. ExtensionOK'
    BY <1>12, Bounds DEF Crypto, ExtensionOK
  <2> QED
    BY <2>2, <2>3
<1> QED
  BY <1>4, <1>5, <1>6, <1>7, <1>8, <1>9, <1>10, <1>11, <1>12, <1>13 DEF ExtensionStep

\* The session's own sync, the node, and kills.
LEMMA OtherTypes ==
    ASSUME TypeInv,
           Sync \/ Synced \/ Commit \/ PauseAndResume \/ Send \/ KillSession \/ KillExtension
    PROVE  TypeInv'
<1> USE DEF TypeInv, node, cache, store, session, write, extension, history
<1>1. NoMeta \in Meta
  BY DEF NoMeta, Meta
<1>2. CASE Sync
  <2>1. Response(token) \in Chunk /\ Response(token) # None /\ Later(acked, token) \in Nat
    BY ResponseType, NoneAssumption DEF StoreOK
  <2> QED
    BY <1>2, <2>1 DEF Sync, NodeOK, CacheOK, StoreOK, SessionOK, WriteOK, ExtensionOK
<1>3. CASE Synced
  <2>1. handled' \subseteq Nat /\ have' \subseteq Nat /\ token' \in Nat
    BY <1>3 DEF Synced, Apply, NodeOK, StoreOK, SessionOK, Chunk
  <2> QED
    BY <1>3, <2>1 DEF Synced, NodeOK, CacheOK, StoreOK, SessionOK, WriteOK, ExtensionOK
<1>4. CASE Commit
  BY <1>4 DEF Commit, NodeOK, CacheOK, StoreOK, SessionOK, WriteOK, ExtensionOK
<1>5. CASE PauseAndResume
  BY <1>5 DEF PauseAndResume, NodeOK, CacheOK, StoreOK, SessionOK, WriteOK, ExtensionOK
<1>6. CASE Send
  BY <1>6 DEF Send, NodeOK, CacheOK, StoreOK, SessionOK, WriteOK, ExtensionOK
<1>7. CASE KillSession
  <2>1. NodeOK' /\ CacheOK' /\ ExtensionOK'
    BY <1>7 DEF KillSession, NodeOK, CacheOK, ExtensionOK
  <2>2. StoreOK' /\ SessionOK' /\ WriteOK'
    BY <1>1, <1>7 DEF KillSession, StoreOK, SessionOK, WriteOK
  <2> QED
    BY <2>1, <2>2
<1>8. CASE KillExtension
  <2>1. NodeOK' /\ CacheOK' /\ StoreOK' /\ SessionOK' /\ WriteOK'
    BY <1>8 DEF KillExtension, NodeOK, CacheOK, StoreOK, SessionOK, WriteOK
  <2>2. ExtensionOK'
    BY <1>1, <1>8, Bounds DEF KillExtension, StoreOK, ExtensionOK, ToCache, Adding, InHand
  <2> QED
    BY <2>1, <2>2
<1> QED
  BY <1>2, <1>3, <1>4, <1>5, <1>6, <1>7, <1>8

LEMMA TypesStep ==
    ASSUME TypeInv, [Next]_vars
    PROVE  TypeInv'
<1>1. CASE Next
  BY <1>1, CacheTypes, ExtensionTypes, OtherTypes DEF Next
<1>2. CASE UNCHANGED vars
  BY <1>2 DEF vars, node, cache, store, session, write, extension, history, TypeInv, NodeOK, CacheOK,
      StoreOK, SessionOK, WriteOK, ExtensionOK
<1> QED
  BY <1>1, <1>2

LEMMA Types == Spec => []TypeInv
<1>1. TypeInv /\ [Next]_vars => TypeInv'
  BY TypesStep
<1> QED
  BY <1>1, InitTypes, PTL DEF Spec

-----------------------------------------------------------------------------
(***************************************************************************)
(* No message to the device is lost.                                       *)
(***************************************************************************)
\* What the node answers to a request from a token whose messages are handled.
LEMMA ResponseLeft ==
    ASSUME NodeOK, NEW since \in Nat, 1..acked \subseteq handled, 1..since \subseteq handled
    PROVE  /\ Left(Response(since))
           /\ 1..Later(acked, since) \subseteq handled
<1>1. 1..Later(acked, since) \subseteq handled /\ Later(acked, since) \in Nat
  BY DEF Later, NodeOK
<1>2. 1..sent \subseteq handled \cup (Later(acked, since) + 1 .. sent)
  BY <1>1 DEF NodeOK
<1> QED
  BY <1>1, <1>2 DEF Response, Left

LEMMA MergedLeft ==
    ASSUME TypeInv, Held, NEW S, S \subseteq Id
    PROVE  Left(MergedFiles(S))
<1>1. CASE Readable(S) = {}
  BY <1>1 DEF MergedFiles, Left
<1>2. CASE Readable(S) # {}
  <2> DEFINE last == Max(Readable(S))
  <2>1. Readable(S) \subseteq Id /\ \A i \in Readable(S) : file[i] # None
    BY DEF Readable
  <2>2. last \in Readable(S)
    BY <1>2, <2>1, MaxOf
  <2> HIDE DEF last
  <2>3. 1..file[last].to \subseteq handled \cup file[last].keys
    BY <2>1, <2>2 DEF Held, Left
  <2>4. file[last].keys \subseteq UNION {file[id].keys : id \in Readable(S)}
    BY <2>2
  <2>5. /\ MergedFiles(S).to = file[last].to
        /\ MergedFiles(S).keys = UNION {file[id].keys : id \in Readable(S)}
    BY <1>2 DEF MergedFiles, last
  <2> QED
    BY <2>3, <2>4, <2>5 DEF Left
<1> QED
  BY <1>1, <1>2

LEMMA InitKeys == Init => KeysInv
BY DEF Init, KeysInv, Deleted, Held, Numbered, Written, Done, Left, Seen, NoMeta, Adding, InHand

\* What only forgets ids, or files, or makes more handled.
LEMMA KeysFewer ==
    ASSUME TypeInv, KeysInv,
           handled \subseteq handled', Seen' \subseteq Seen,
           \A i \in Id : file'[i] # None => file'[i] = file[i],
           UNCHANGED <<made, xstage, xid, xchunk, xresponse>>
    PROVE  /\ \A i \in Id : Left(file[i])'
           /\ Left(xresponse)' /\ Left(xchunk)'
           /\ Numbered' /\ Written' /\ Done'
<1>1. Seen \subseteq Id
  BY DEF TypeInv, CacheOK, WriteOK, ExtensionOK, Meta, Seen
<1>2. \A i \in Id : Left(file[i])'
  BY DEF KeysInv, Held, Left
<1>3. Left(xresponse)' /\ Left(xchunk)'
  BY DEF KeysInv, Held, Left
<1>4. Numbered'
  BY DEF KeysInv, Numbered
<1>5. Written'
  BY DEF TypeInv, ExtensionOK, KeysInv, Written, Adding, InHand
<1>6. Done'
  BY <1>1 DEF KeysInv, Done
<1> QED
  BY <1>2, <1>3, <1>4, <1>5, <1>6

\* Applying a response takes the token to what it spans.
LEMMA ApplyLeft ==
    ASSUME TypeInv, KeysInv, response # None, Apply(response), UNCHANGED <<acked, saved, xtoken>>
    PROVE  Deleted' /\ handled \subseteq handled'
<1>1. 1..response.to \subseteq handled \cup response.keys
  BY DEF KeysInv, Held, Left
<1> QED
  BY <1>1 DEF Apply, KeysInv, Deleted

LEMMA CacheKeys ==
    ASSUME TypeInv, KeysInv, CacheStep
    PROVE  KeysInv'
<1> USE DEF node, cache, store, session, write, extension
<1>1. ASSUME UNCHANGED <<file, handled, acked, saved, token, response, extension, made>>,
             Seen' \subseteq Seen
      PROVE  KeysInv'
  <2>1. Deleted' /\ Left(response)'
    BY <1>1 DEF KeysInv, Deleted, Held, Left
  <2> QED
    BY <1>1, <2>1, KeysFewer DEF KeysInv, Held
<1>2. CASE Look
  BY <1>1, <1>2 DEF Look, Seen
<1>3. CASE ReadIds
  BY <1>1, <1>3 DEF ReadIds, Seen
<1>4. CASE ReadOutdated
  BY <1>1, <1>4 DEF ReadOutdated, Seen
<1>5. CASE Merge
  <2>1. Seen' = Seen /\ UNCHANGED <<file, handled, acked, saved, token, extension, made>>
        /\ response' = MergedFiles(ids)
    BY <1>5 DEF Merge, Seen
  <2>2. Left(response)'
    BY <2>1, MergedLeft DEF TypeInv, SessionOK, KeysInv, Left
  <2>3. Deleted'
    BY <2>1 DEF KeysInv, Deleted
  <2> QED
    BY <2>1, <2>2, <2>3, KeysFewer DEF KeysInv, Held
<1>6. CASE ApplyCache
  <2>1. Seen' = Seen /\ UNCHANGED <<file, acked, saved, extension, made>> /\ response' = None
    BY <1>6 DEF ApplyCache, Seen
  <2>2. Deleted' /\ handled \subseteq handled'
    <3>1. CASE response = None
      BY <1>6, <3>1 DEF ApplyCache, KeysInv, Deleted
    <3>2. CASE response # None
      BY <1>6, <2>1, <3>2, ApplyLeft DEF ApplyCache
    <3> QED
      BY <3>1, <3>2
  <2>3. Left(response)'
    BY <2>1 DEF Left
  <2> QED
    BY <2>1, <2>2, <2>3, KeysFewer DEF KeysInv, Held
<1>7. CASE Delete
  <2>1. /\ Seen' = Seen /\ UNCHANGED <<handled, acked, saved, token, response, extension, made>>
        /\ \A i \in Id : file'[i] # None => file'[i] = file[i]
    BY <1>7 DEF Delete, Seen, TypeInv, CacheOK
  <2>2. Deleted' /\ Left(response)'
    BY <2>1 DEF KeysInv, Deleted, Held, Left
  <2> QED
    BY <2>1, <2>2, KeysFewer DEF KeysInv, Held
<1>8. CASE ReadDropped
  BY <1>1, <1>8 DEF ReadDropped, Seen
<1>9. CASE Truncate
  BY <1>1, <1>9 DEF Truncate, Seen, NoMeta
<1>10. CASE Forget
  BY <1>1, <1>10 DEF Forget, Seen, NoMeta
<1>11. CASE Again
  BY <1>1, <1>11 DEF Again, Seen
<1>12. CASE ReadData
  BY <1>1, <1>12 DEF ReadData, Seen
<1>13. CASE DeleteOne
  <2>1. /\ Seen' = Seen /\ UNCHANGED <<handled, acked, saved, token, response, extension, made>>
        /\ \A i \in Id : file'[i] # None => file'[i] = file[i]
    BY <1>13 DEF DeleteOne, Seen, TypeInv, CacheOK
  <2>2. Deleted' /\ Left(response)'
    BY <2>1 DEF KeysInv, Deleted, Held, Left
  <2> QED
    BY <2>1, <2>2, KeysFewer DEF KeysInv, Held
<1>14. CASE ReadEntry
  BY <1>1, <1>14 DEF ReadEntry, Seen
<1>15. CASE DeleteData
  BY <1>1, <1>15 DEF DeleteData, Seen
<1>16. CASE RemoveMeta
  BY <1>1, <1>16 DEF RemoveMeta, Seen, NoMeta
<1> QED
  BY <1>2, <1>3, <1>4, <1>5, <1>6, <1>7, <1>8, <1>9, <1>10, <1>11, <1>12, <1>13, <1>14, <1>15,
     <1>16 DEF CacheStep

LEMMA OtherKeys ==
    ASSUME Careful, TypeInv, KeysInv,
           Sync \/ Synced \/ Commit \/ PauseAndResume \/ Send \/ KillSession \/ KillExtension
    PROVE  KeysInv'
<1> USE DEF node, cache, store, session, write, extension
<1>1. ASSUME UNCHANGED <<file, handled, extension, made>>, Seen' \subseteq Seen,
             Deleted', Left(response)'
      PROVE  KeysInv'
  BY <1>1, KeysFewer DEF KeysInv, Held
<1>2. CASE Sync
  <2>1. Left(Response(token)) /\ 1..Later(acked, token) \subseteq handled
    BY ResponseLeft DEF TypeInv, StoreOK, KeysInv, Deleted
  <2>2. Left(response)'
    BY <1>2, <2>1 DEF Sync, Left
  <2>3. Deleted'
    BY <1>2, <2>1 DEF Sync, KeysInv, Deleted
  <2> QED
    BY <1>1, <1>2, <2>2, <2>3 DEF Sync, Seen
<1>3. CASE Synced
  <2>1. /\ Seen' = Seen /\ UNCHANGED <<file, acked, saved, extension, made>> /\ response' = None
        /\ response # None
    BY <1>3 DEF Synced, Seen, TypeInv, SessionOK
  <2>2. Deleted' /\ handled \subseteq handled'
    BY <1>3, <2>1, ApplyLeft DEF Synced
  <2>3. Left(response)'
    BY <2>1 DEF Left
  <2> QED
    BY <2>1, <2>2, <2>3, KeysFewer DEF KeysInv, Held
<1>4. CASE Commit
  <2>1. Deleted' /\ Left(response)'
    BY <1>4 DEF Commit, KeysInv, Deleted, Held, Left
  <2> QED
    BY <1>1, <1>4, <2>1 DEF Commit, Seen
<1>5. CASE PauseAndResume
  <2>1. Deleted' /\ Left(response)'
    BY <1>5 DEF PauseAndResume, KeysInv, Deleted, Held, Left
  <2> QED
    BY <1>1, <1>5, <2>1 DEF PauseAndResume, Seen
<1>6. CASE Send
  <2>1. Deleted' /\ Left(response)'
    BY <1>6 DEF Send, KeysInv, Deleted, Held, Left
  <2> QED
    BY <1>1, <1>6, <2>1 DEF Send, Seen
<1>7. CASE KillSession
  <2>1. Deleted' /\ Left(response)'
    BY <1>7 DEF KillSession, KeysInv, Deleted, Held, Left
  <2> QED
    BY <1>1, <1>7, <2>1 DEF KillSession, Seen, NoMeta
<1>8. CASE KillExtension
  <2>1. /\ UNCHANGED <<node, handled, cache, store, session, write>>
        /\ xtoken' = saved.token /\ xstage' = "idle" /\ xresponse' = None /\ xchunk' = None
        /\ xread' = NoMeta /\ xstage \notin InHand
    BY <1>8 DEF KillExtension, InHand
  <2>2. Deleted' /\ Held'
    BY <2>1 DEF KeysInv, Deleted, Held, Left
  <2>3. Seen' \subseteq Seen
    BY <2>1 DEF Seen, NoMeta
  <2>4. Numbered' /\ Written'
    BY <2>1, <2>3 DEF KeysInv, Numbered, Written, Adding, InHand
  <2>5. Done'
    BY <2>1, <2>3 DEF KeysInv, Done
  <2> QED
    BY <2>2, <2>4, <2>5 DEF KeysInv
<1> QED
  BY <1>2, <1>3, <1>4, <1>5, <1>6, <1>7, <1>8

LEMMA ExtensionKeys ==
    ASSUME Careful, TypeInv, TypeInv', KeysInv, Event \/ ExtensionStep
    PROVE  KeysInv'
<1> USE DEF node, cache, store, session, write
<1>1. Seen \subseteq Id
  BY DEF TypeInv, CacheOK, WriteOK, ExtensionOK, Meta, Seen
<1>2. ASSUME UNCHANGED <<acked, token, saved, xtoken, handled>>
      PROVE  Deleted'
  BY <1>2 DEF KeysInv, Deleted
<1>3. ASSUME UNCHANGED <<file, response, xresponse, xchunk, handled>>
      PROVE  Held'
  BY <1>3 DEF KeysInv, Held, Left
<1>4. CASE Event
  <2>1. /\ UNCHANGED <<node, handled, cache, store, session, write, xresponse, xid, xchunk>>
        /\ xtoken' = saved.token /\ xstage = "idle" /\ xstage' \in {"outdate", "sync"}
        /\ Seen' \subseteq Seen
    BY <1>4 DEF Event, Seen
  <2>2. Deleted'
    BY <2>1 DEF KeysInv, Deleted
  <2>3. Numbered' /\ Written'
    BY <2>1 DEF KeysInv, Numbered, Written, Adding, InHand
  <2>4. Done'
    BY <2>1 DEF KeysInv, Done, InHand
  <2> QED
    BY <1>3, <2>1, <2>2, <2>3, <2>4 DEF KeysInv
<1>13. CASE OutdatedIds
  <2>1. /\ UNCHANGED <<node, handled, cache, store, session, write, xtoken, xresponse, xid, xchunk>>
        /\ xstage = "outdate" /\ xstage' \in {"outdateIds", "sync"}
        /\ Seen' \subseteq Seen
    BY <1>13 DEF OutdatedIds, Seen
  <2>2. Numbered' /\ Written'
    BY <2>1 DEF KeysInv, Numbered, Written, Adding, InHand
  <2>3. Done'
    BY <2>1 DEF KeysInv, Done, InHand
  <2> QED
    BY <1>2, <1>3, <2>1, <2>2, <2>3 DEF KeysInv
<1>5. CASE Mark
  <2>1. /\ UNCHANGED <<node, handled, file, made, store, session, write, xtoken, xresponse, xid,
                       xchunk>>
        /\ Seen' \subseteq Seen /\ xstage = "marking" /\ xstage' = "sync"
    BY <1>5 DEF Mark, Seen, NoMeta
  <2>2. Numbered' /\ Written'
    BY <2>1 DEF KeysInv, Numbered, Written, Adding, InHand
  <2>3. Done'
    BY <2>1 DEF KeysInv, Done, InHand
  <2> QED
    BY <1>2, <1>3, <2>1, <2>2, <2>3 DEF KeysInv
<1>6. CASE Launch
  <2> DEFINE since == IF Last(meta) # None THEN Last(meta).to ELSE xtoken
  <2>1. xstage = "sync"
    BY <1>6 DEF Launch
  <2>2. since \in Nat /\ 1..since \subseteq handled
    <3>1. CASE Last(meta) # None
      <4>1. Max(meta.live) \in Seen /\ Last(meta) = file[Max(meta.live)] /\ Last(meta) \in Chunk
        BY <3>1, LastType DEF TypeInv, CacheOK, Seen
      <4>2. 1..Last(meta).to \subseteq handled
        BY <2>1, <3>1, <4>1 DEF KeysInv, Done, InHand
      <4> QED
        BY <3>1, <4>1, <4>2 DEF Chunk
    <3>2. CASE Last(meta) = None
      BY <3>2 DEF TypeInv, ExtensionOK, KeysInv, Deleted
    <3> QED
      BY <3>1, <3>2
  <2> HIDE DEF since
  <2>3. Left(Response(since)) /\ 1..Later(acked, since) \subseteq handled
    BY <2>2, ResponseLeft DEF TypeInv, KeysInv, Deleted
  <2>4. /\ acked' = Later(acked, since)
        /\ xresponse' \in {Response(since), xresponse} /\ xstage' \in {"store", "idle"}
        /\ UNCHANGED <<sent, handled, cache, store, session, write, xtoken, xid, xchunk, xread>>
    BY <1>6 DEF Launch, since
  <2>5. Deleted'
    BY <2>3, <2>4 DEF KeysInv, Deleted
  <2>6. Held'
    BY <2>3, <2>4 DEF KeysInv, Held, Left
  <2>7. Seen' = Seen
    BY <2>4 DEF Seen
  <2>8. Numbered' /\ Written'
    BY <2>1, <2>4, <2>7 DEF KeysInv, Numbered, Written, Adding, InHand
  <2>9. Done'
    BY <2>1, <2>4, <2>7 DEF KeysInv, Done, InHand
  <2> QED
    BY <2>5, <2>6, <2>8, <2>9 DEF KeysInv
<1>7. CASE Store
  <2>1. /\ xstage = "store" /\ xresponse \in Chunk /\ xresponse # None
        /\ UNCHANGED <<node, handled, file, meta, store, session, write, xtoken, xids, xresponse,
                       xread>>
        /\ Seen' = Seen
    BY <1>7, NoneAssumption DEF Store, TypeInv, ExtensionOK, ToCache, Seen
  <2>2. CASE /\ Last(meta) # None
             /\ xid' = Max(meta.live)
             /\ xchunk' = Merged(xresponse, Last(meta))
             /\ xstage' = "update"
             /\ UNCHANGED made
    <3>1. Last(meta) \in Chunk
      BY <2>2, LastType DEF TypeInv, CacheOK
    <3>2. xchunk'.to = xresponse.to /\ xresponse.keys \subseteq xchunk'.keys
      BY <2>2 DEF Merged
    <3>3. Left(xchunk)'
      BY <2>1, <3>2 DEF KeysInv, Held, Left
    <3>4. Held'
      BY <2>1, <3>3 DEF KeysInv, Held, Left
    <3>5. Numbered' /\ Written'
      BY <2>1, <2>2, <3>2 DEF KeysInv, Numbered, Written, Adding, InHand
    <3>6. Done'
      BY <2>1, <2>2 DEF KeysInv, Done, InHand
    <3> QED
      BY <1>2, <2>1, <3>4, <3>5, <3>6 DEF KeysInv
  <2>3. CASE /\ made < MaxChunks
             /\ made' = made + 1
             /\ xid' = made + 1
             /\ xchunk' = xresponse
             /\ xstage' = "add"
    <3>1. Held'
      BY <2>1, <2>3 DEF KeysInv, Held, Left
    <3>2. Written'
      BY <2>1, <2>3 DEF Written, Adding, InHand
    <3>3. \A i \in Seen : i \in Nat /\ made \in Nat /\ i <= made
      BY <1>1 DEF TypeInv, CacheOK, KeysInv, Numbered, Id
    <3>4. Numbered'
      BY <2>1, <2>3, <3>3 DEF Numbered
    <3>5. Done'
      BY <2>1, <2>3 DEF KeysInv, Done, InHand
    <3> QED
      BY <1>2, <2>1, <3>1, <3>2, <3>4, <3>5 DEF KeysInv
  <2> QED
    BY <1>7, <2>2, <2>3 DEF Store
<1>8. CASE WriteFile
  <2>1. /\ UNCHANGED <<node, handled, meta, made, store, session, write, xtoken, xids, xresponse,
                       xid, xread>>
        /\ xstage \in {"update", "add"} /\ xid \in Id /\ xchunk # None
        /\ file' = [file EXCEPT ![xid] = xchunk] /\ xchunk' = None
        /\ xstage' = IF xstage = "update" THEN "account" ELSE "added"
        /\ Seen' = Seen
    BY <1>8 DEF WriteFile, TypeInv, ExtensionOK, Adding, Seen
  <2>2. file'[xid] = xchunk /\ \A i \in Id : i # xid => file'[i] = file[i]
    BY <2>1 DEF TypeInv, CacheOK
  <2>3. Held'
    BY <2>1, <2>2 DEF KeysInv, Held, Left
  <2>4. xchunk.to = xresponse.to
    BY <2>1 DEF KeysInv, Written
  <2>5. Numbered' /\ Written'
    BY <2>1, <2>2, <2>4 DEF KeysInv, Numbered, Written, Adding, InHand
  <2>6. Done'
    <3>1. \A i \in Seen : i # xid => (file[i] # None => 1..file[i].to \subseteq handled)
      BY <2>1 DEF KeysInv, Done, InHand
    <3>2. xstage = "add" => xid \notin Seen
      BY DEF KeysInv, Numbered, Adding
    <3>3. xstage = "update" => xstage' \in InHand
      BY <2>1 DEF InHand
    <3> QED
      BY <1>1, <2>1, <2>2, <3>1, <3>2, <3>3 DEF Done
  <2> QED
    BY <1>2, <2>1, <2>3, <2>5, <2>6 DEF KeysInv
<1>9. CASE ReadMeta
  <2>1. /\ UNCHANGED <<node, handled, cache, store, session, write, xtoken, xresponse, xid, xchunk>>
        /\ Seen' \subseteq Seen
        /\ \/ xstage = "added" /\ xstage' = "append"
           \/ xstage = "account" /\ xstage' \in {"accountData", "crypto"}
           \/ xstage = "outdateIds" /\ xstage' = "mark"
    <3>1. Seen' \subseteq Seen
      BY <1>9 DEF ReadMeta, Seen
    <3> QED
      BY <1>9, <3>1, Zenon DEF ReadMeta
  <2>2. Numbered' /\ Written'
    BY <2>1 DEF KeysInv, Numbered, Written, Adding, InHand
  <2>3. Done'
    BY <2>1 DEF KeysInv, Done, InHand
  <2> QED
    BY <1>2, <1>3, <2>1, <2>2, <2>3 DEF KeysInv
<1>10. CASE TruncateMeta
  <2>1. /\ UNCHANGED <<node, handled, file, made, store, session, write, xtoken, xresponse, xid,
                       xchunk>>
        /\ Seen' \subseteq Seen
        /\ \/ xstage = "mark" /\ xstage' = "marking"
           \/ xstage = "append" /\ xstage' = "appending"
           \/ xstage = "accountData" /\ xstage' = "settingData"
    BY <1>10 DEF TruncateMeta, Seen, NoMeta
  <2>2. Numbered' /\ Written'
    BY <2>1 DEF KeysInv, Numbered, Written, Adding, InHand
  <2>3. Done'
    BY <2>1 DEF KeysInv, Done, InHand
  <2> QED
    BY <1>2, <1>3, <2>1, <2>2, <2>3 DEF KeysInv
<1>11. CASE WriteMeta
  <2>1. UNCHANGED <<node, handled, file, made, store, session, write, xtoken, xresponse, xid, xchunk>>
    BY <1>11 DEF WriteMeta
  <2>2. CASE xstage = "appending"
    <3>0. xread \in Meta /\ xid = made
      BY <2>2 DEF TypeInv, ExtensionOK, Adding
    <3>1. xstage' = "account" /\ Seen' \subseteq Seen \cup {xid} /\ xid = made
      <4>1. xstage' = "account" /\ meta'.live = xread.live \cup {xid} /\ xread'.live = {}
        BY <1>11, <2>2, <3>0 DEF WriteMeta, NoMeta, Meta
      <4> QED
        BY <2>1, <3>0, <4>1 DEF Seen
    <3>2. Numbered'
      BY <2>1, <3>1 DEF KeysInv, Numbered, Adding, TypeInv, CacheOK
    <3>3. Written'
      BY <2>1, <2>2, <3>1 DEF KeysInv, Written, Adding, InHand
    <3>4. Done'
      BY <2>1, <2>2, <3>1 DEF KeysInv, Done, InHand
    <3> QED
      BY <1>2, <1>3, <2>1, <3>2, <3>3, <3>4 DEF KeysInv
  <2>3. CASE xstage = "settingData"
    <3>1. xstage' = "crypto" /\ Seen' \subseteq Seen
      BY <1>11, <2>3 DEF WriteMeta, Seen, NoMeta
    <3>2. Numbered' /\ Written'
      BY <2>1, <2>3, <3>1 DEF KeysInv, Numbered, Written, Adding, InHand
    <3>3. Done'
      BY <2>1, <2>3, <3>1 DEF KeysInv, Done, InHand
    <3> QED
      BY <1>2, <1>3, <2>1, <3>2, <3>3 DEF KeysInv
  <2> QED
    BY <1>11, <2>2, <2>3 DEF WriteMeta
<1>12. CASE Crypto
  <2>1. /\ UNCHANGED <<node, cache, store, session, write, xtoken, xchunk, xread>>
        /\ handled' = handled \cup xresponse.keys /\ xresponse' = None
        /\ xstage = "crypto" /\ xstage' \in {"sync", "idle"} /\ xresponse # None
        /\ Seen' = Seen
    BY <1>12 DEF Crypto, TypeInv, ExtensionOK, InHand, Seen
  <2>2. Deleted' /\ Held'
    BY <2>1 DEF KeysInv, Deleted, Held, Left
  <2>3. Numbered' /\ Written'
    BY <2>1 DEF KeysInv, Numbered, Written, TypeInv, ExtensionOK, Adding, InHand
  <2>4. file[xid] # None => 1..file[xid].to \subseteq handled'
    BY <2>1 DEF KeysInv, Held, Left, Written, InHand
  <2>5. Done'
    BY <2>1, <2>4 DEF KeysInv, Done
  <2> QED
    BY <2>2, <2>3, <2>5 DEF KeysInv
<1> QED
  BY <1>4, <1>5, <1>6, <1>7, <1>8, <1>9, <1>10, <1>11, <1>12, <1>13 DEF ExtensionStep

\* A message to the device that the node has deleted was given to the crypto
\* module of one of the processes, whatever updates of the metadata are lost
\* and whatever is killed, as long as the extension is not killed while it has
\* a response in hand.
THEOREM MessagesKept == Careful /\ Spec => []KeysKept
<1> SUFFICES ASSUME Careful PROVE Spec => []KeysKept
  OBVIOUS
<1>1. TypeInv /\ TypeInv' /\ KeysInv /\ [Next]_vars => KeysInv'
  <2> SUFFICES ASSUME TypeInv, TypeInv', KeysInv, [Next]_vars PROVE KeysInv'
    OBVIOUS
  <2>1. CASE Next
    BY <2>1, CacheKeys, ExtensionKeys, OtherKeys DEF Next
  <2>2. CASE UNCHANGED vars
    BY <2>2 DEF vars, node, cache, store, session, write, extension, KeysInv, Deleted, Held,
        Numbered, Written, Done, Left, Seen
  <2> QED
    BY <2>1, <2>2
<1>2. KeysInv => KeysKept
  BY DEF KeysInv, Deleted, KeysKept
<1> QED
  BY <1>1, <1>2, InitKeys, Types, PTL DEF Spec

-----------------------------------------------------------------------------
(***************************************************************************)
(* Lists of ids: what keeps them whole.                                    *)
(***************************************************************************)
ListFiles == [Id -> Chunk \cup {None}]

\* A file that is there.
LEMMA FileOf ==
    ASSUME NEW f \in ListFiles, NEW S, S \subseteq Id, NEW i \in On(f, S)
    PROVE  /\ i \in S /\ i \in Int /\ f[i] # None /\ f[i] \in Chunk
           /\ f[i].from \in Nat /\ f[i].to \in Nat
BY DEF ListFiles, On, Chunk, Id

LEMMA NoList ==
    ASSUME NEW f, NEW t
    PROVE  Whole(f, t, {}) /\ Linked(f, {})
BY DEF Whole, Upward, Growing, Covered, Linked, On

\* The same files, for a later token on disk.
LEMMA SameList ==
    ASSUME NEW f \in ListFiles, NEW g \in ListFiles, NEW t \in Nat, NEW u \in Nat, t <= u,
           NEW S, S \subseteq Id, \A i \in S : g[i] = f[i]
    PROVE  /\ Whole(f, t, S) => Whole(g, u, S)
           /\ Linked(f, S) => Linked(g, S)
<1>1. On(g, S) = On(f, S)
  BY DEF On
<1>2. Upward(f, S) => Upward(g, S)
  BY DEF Upward
<1>3. Growing(f, S) => Growing(g, S)
  BY <1>1 DEF Growing, On
<1>4. Covered(f, t, S) => Covered(g, u, S)
  <2> SUFFICES ASSUME Covered(f, t, S), NEW i \in On(f, S), NEW j \in On(f, S),
                      NEW p \in f[i].from + 1 .. f[j].to, p > u
               PROVE  \E k \in On(f, S) : p \in f[k].events
    BY <1>1 DEF Covered, On
  <2>1. p > t
    BY FileOf
  <2> QED
    BY <2>1 DEF Covered
<1>5. Linked(f, S) => Linked(g, S)
  BY DEF Linked
<1> QED
  BY <1>2, <1>3, <1>4, <1>5 DEF Whole

\* The beginning of the list is taken out, or its files are removed.
LEMMA RestOfList ==
    ASSUME NEW f \in ListFiles, NEW g \in ListFiles, NEW t \in Nat, NEW S, S \subseteq Id, NEW R, R \subseteq S,
           \A i \in Id : Sound(f[i], t),
           \A i \in R : g[i] = f[i] \/ g[i] = None,
           \A i, j \in S : i < j /\ i \in On(g, R) => j \in On(g, R) \/ f[j] = None,
           \A i, j \in S : i < j /\ i \in On(g, R) => j \in R
    PROVE  /\ Whole(f, t, S) => Whole(g, t, R)
           /\ Linked(f, S) => Linked(g, R)
<1>1. On(g, R) \subseteq On(f, S) /\ \A i \in On(g, R) : g[i] = f[i] /\ i \in R
  BY DEF On
<1>2. Upward(f, S) => Upward(g, R)
  <2> SUFFICES ASSUME Upward(f, S), NEW i \in R, NEW j \in R, i < j, g[i] # None
               PROVE  g[j] # None
    BY DEF Upward
  <2>1. i \in On(g, R) /\ f[i] # None
    BY DEF On
  <2>2. f[j] # None
    BY <2>1 DEF Upward
  <2> QED
    BY <2>1, <2>2 DEF On
<1>3. Growing(f, S) => Growing(g, R)
  BY <1>1 DEF Growing
<1>4. Growing(f, S) /\ Covered(f, t, S) => Covered(g, t, R)
  <2> SUFFICES ASSUME Growing(f, S), Covered(f, t, S), NEW i \in On(g, R), NEW j \in On(g, R),
                      NEW p \in g[i].from + 1 .. g[j].to, p > t
               PROVE  \E k \in On(g, R) : p \in g[k].events
    BY DEF Covered
  <2>1. i \in On(f, S) /\ j \in On(f, S) /\ p \in f[i].from + 1 .. f[j].to
    BY <1>1
  <2>2. PICK k \in On(f, S) : p \in f[k].events
    BY <2>1 DEF Covered
  <2>3. CASE k \in On(g, R)
    BY <1>1, <2>2, <2>3
  <2>4. CASE k \notin On(g, R)
    <3>1. ~(i < k)
      BY <1>1, <2>4 DEF On
    <3>2. k < i
      BY <1>1, <2>1, <2>4, <3>1, FileOf
    <3>3. f[k].to <= f[i].to
      BY <2>1, <3>2 DEF Growing
    <3>4. p \in 1..f[k].to
      BY <2>2 DEF Sound, On
    <3>5. p \in f[i].from + 1 .. f[i].to
      <4>1. /\ f[i].from \in Nat /\ f[i].to \in Nat /\ f[k].to \in Nat /\ f[j].to \in Nat
        BY <2>1, FileOf
      <4> QED
        BY <2>1, <3>3, <3>4, <4>1
    <3>6. p \in f[i].events
      BY <2>1, <3>5 DEF Sound, On
    <3> QED
      BY <1>1, <3>6
  <2> QED
    BY <2>3, <2>4
<1>5. Linked(f, S) => Linked(g, R)
  <2> SUFFICES ASSUME Linked(f, S), NEW i \in R, NEW j \in R, i < j,
                      \A k \in R : k <= i \/ j <= k, g[i] # None
               PROVE  g[i].to = g[j].from
    BY DEF Linked
  <2>1. i \in On(g, R) /\ g[i] = f[i]
    BY DEF On
  <2>2. g[j] = f[j]
    BY <2>1 DEF On
  <2>3. \A k \in S : k <= i \/ j <= k
    <3> SUFFICES ASSUME NEW k \in S PROVE k <= i \/ j <= k
      OBVIOUS
    <3>1. i \in Int /\ k \in Int
      BY DEF Id
    <3>2. CASE i < k
      BY <2>1, <3>2
    <3> QED
      BY <3>1, <3>2
  <2> QED
    BY <2>1, <2>2, <2>3 DEF Linked
<1> QED
  BY <1>2, <1>3, <1>4, <1>5 DEF Whole

\* The last file of the list, or a file outside it, is replaced by a larger one.
LEMMA GrownList ==
    ASSUME NEW f \in ListFiles, NEW g \in ListFiles, NEW t \in Nat, NEW S, S \subseteq Id,
           NEW x \in Id, \A i \in S : i <= x,
           \A i \in S : i # x => g[i] = f[i],
           g[x] # None, Sound(f[x], t), Sound(g[x], t),
           f[x] # None => /\ g[x].from = f[x].from /\ f[x].to <= g[x].to
                          /\ f[x].events \subseteq g[x].events,
           x \in S, Whole(f, t, S)
    PROVE  /\ Whole(g, t, S)
           /\ Linked(f, S) => Linked(g, S)
<1>1. Upward(f, S) /\ Growing(f, S) /\ Covered(f, t, S)
  BY DEF Whole
<1>2. g[x] \in Chunk /\ g[x].from \in Nat /\ g[x].to \in Nat
  BY DEF ListFiles, Chunk
<1>3. \A i \in S : i \in Int /\ x \in Int /\ (i = x \/ i < x)
  BY DEF Id
<1>4. CASE f[x] = None
  <2>1. On(g, S) = {x}
    BY <1>1, <1>3, <1>4 DEF Upward, On
  <2>2. Upward(g, S) /\ Growing(g, S)
    <3>1. Upward(g, S)
      BY <1>3, <2>1 DEF Upward, On
    <3>2. Growing(g, S)
      BY <1>3, <2>1 DEF Growing
    <3> QED
      BY <3>1, <3>2
  <2>3. Covered(g, t, S)
    BY <2>1 DEF Covered, Sound
  <2>4. Linked(g, S)
    <3> SUFFICES ASSUME NEW i \in S, NEW j \in S, i < j, g[i] # None PROVE FALSE
      BY DEF Linked
    <3>1. i = x
      BY <2>1 DEF On
    <3> QED
      BY <1>3, <3>1
  <2> QED
    BY <2>2, <2>3, <2>4 DEF Whole
<1>5. CASE f[x] # None
  <2>1. On(g, S) = On(f, S) /\ x \in On(f, S)
    BY <1>5 DEF On
  <2>2. /\ f[x] \in Chunk /\ f[x].from \in Nat /\ f[x].to \in Nat
        /\ f[x].from <= f[x].to /\ f[x].to <= g[x].to /\ g[x].from = f[x].from
    BY <1>5, <2>1, FileOf DEF Sound
  <2>3. \A i \in On(f, S) : g[i].from = f[i].from /\ f[i].events \subseteq g[i].events
    BY <2>2 DEF On
  <2>4. Upward(g, S)
    BY <1>1, <1>3 DEF Upward
  <2>5. Growing(g, S)
    <3> SUFFICES ASSUME NEW i \in On(f, S), NEW j \in On(f, S), i < j
                 PROVE  g[i].to <= g[j].to
      BY <2>1 DEF Growing
    <3>1. f[i].to <= f[j].to /\ g[i] = f[i] /\ f[i].to \in Nat /\ f[j].to \in Nat
      BY <1>1, <1>3, FileOf DEF Growing, On
    <3> QED
      BY <1>2, <2>2, <3>1 DEF On
  <2>6. Covered(g, t, S)
    <3> SUFFICES ASSUME NEW i \in On(f, S), NEW j \in On(f, S),
                        NEW p \in f[i].from + 1 .. g[j].to, p > t
                 PROVE  \E k \in On(f, S) : p \in g[k].events
      BY <2>1, <2>3 DEF Covered
    <3>1. f[i].from \in Nat /\ f[j].to \in Nat
      BY FileOf
    <3>2. CASE p \in f[i].from + 1 .. f[j].to
      BY <1>1, <2>3, <3>2 DEF Covered
    <3>3. CASE p \notin f[i].from + 1 .. f[j].to
      <4>1. j = x
        BY <3>3 DEF On
      <4>2. p \in g[x].from + 1 .. g[x].to
        BY <1>2, <2>2, <3>1, <3>3, <4>1
      <4>3. p \in g[x].events
        BY <4>2 DEF Sound
      <4> QED
        BY <2>1, <4>3
    <3> QED
      BY <3>2, <3>3
  <2>7. Linked(f, S) => Linked(g, S)
    <3> SUFFICES ASSUME Linked(f, S), NEW i \in S, NEW j \in S, i < j,
                        \A k \in S : k <= i \/ j <= k, g[i] # None
                 PROVE  g[i].to = g[j].from
      BY DEF Linked
    <3>1. i # x /\ g[i] = f[i]
      BY <1>3
    <3>2. f[i].to = f[j].from
      BY <3>1 DEF Linked
    <3>3. CASE j = x
      BY <2>2, <3>1, <3>2, <3>3
    <3>4. CASE j # x
      BY <3>1, <3>2, <3>4
    <3> QED
      BY <3>3, <3>4
  <2> QED
    BY <2>4, <2>5, <2>6, <2>7 DEF Whole
<1> QED
  BY <1>4, <1>5

\* A new file is listed, which goes on from the last one.
LEMMA AppendedList ==
    ASSUME NEW f \in ListFiles, NEW t \in Nat, NEW S, S \subseteq Id,
           NEW x \in Id, \A i \in S : i < x, f[x] # None, Sound(f[x], t),
           \A i \in On(f, S) : f[i].to <= f[x].to,
           \A l \in On(f, S) : (\A i \in S : i <= l) => f[x].from <= f[l].to \/ f[x].from <= t,
           Whole(f, t, S)
    PROVE  /\ Whole(f, t, S \cup {x})
           /\ /\ Linked(f, S)
              /\ \A l \in On(f, S) : (\A i \in S : i <= l) => f[x].from = f[l].to
              => Linked(f, S \cup {x})
<1> DEFINE R == S \cup {x}
<1>1. Upward(f, S) /\ Growing(f, S) /\ Covered(f, t, S)
  BY DEF Whole
<1>2. f[x] \in Chunk /\ f[x].from \in Nat /\ f[x].to \in Nat
  BY DEF ListFiles, Chunk
<1>3. /\ \A i \in R : i \in Int /\ x \in Int
      /\ \A i, j \in R : i < j => i \in S
      /\ x \notin S
  <2>1. \A i \in R : i \in Int /\ x \in Int
    BY DEF Id
  <2>2. ASSUME NEW j \in R, x < j
        PROVE  FALSE
    <3>1. j = x \/ j < x
      OBVIOUS
    <3> QED
      BY <2>1, <2>2, <3>1
  <2>3. x \notin S
    <3>1. ~(x < x)
      BY <2>1
    <3> QED
      BY <3>1
  <2> QED
    BY <2>1, <2>2, <2>3
<1>4. On(f, R) = On(f, S) \cup {x}
  BY DEF On
<1>5. Upward(f, R)
  BY <1>1, <1>3 DEF Upward
<1>6. Growing(f, R)
  BY <1>1, <1>3, <1>4 DEF Growing, On
<1>7. ASSUME NEW i \in On(f, S)
      PROVE  \E l \in On(f, S) : \A k \in S : k <= l
  <2>1. i \in S /\ f[i] # None
    BY <1>7 DEF On
  <2>2. PICK l \in S : \A k \in S : k <= l
    BY <2>1, MaxOf
  <2>3. i = l \/ i < l
    BY <1>3, <2>1, <2>2
  <2>4. f[l] # None
    BY <1>1, <2>1, <2>3 DEF Upward
  <2> QED
    BY <2>2, <2>4 DEF On
<1>8. Covered(f, t, R)
  <2> SUFFICES ASSUME NEW i \in On(f, R), NEW j \in On(f, R),
                      NEW p \in f[i].from + 1 .. f[j].to, p > t
               PROVE  \E k \in On(f, R) : p \in f[k].events
    BY DEF Covered
  <2>0. f[i].from \in Nat /\ f[j].to \in Nat
    BY <1>2, <1>4, FileOf
  <2>1. CASE p \in f[x].from + 1 .. f[x].to
    BY <1>4, <2>1 DEF Sound
  <2>2. CASE i \in On(f, S) /\ j \in On(f, S)
    BY <1>1, <1>4, <2>2 DEF Covered
  <2>3. CASE i = x
    <3>1. f[j].to <= f[x].to
      BY <1>2, <1>4
    <3>2. p \in f[x].from + 1 .. f[x].to
      BY <1>2, <2>0, <2>3, <3>1
    <3> QED
      BY <2>1, <3>2
  <2>4. CASE i \in On(f, S) /\ j = x
    <3>1. PICK l \in On(f, S) : \A k \in S : k <= l
      BY <1>7, <2>4
    <3>2. f[l].to \in Nat /\ (f[x].from <= f[l].to \/ f[x].from <= t)
      BY <3>1, FileOf
    <3>3. CASE p <= f[l].to
      <4>1. p \in f[i].from + 1 .. f[l].to
        BY <2>0, <3>2, <3>3
      <4> QED
        BY <1>1, <1>4, <2>4, <4>1 DEF Covered
    <3>4. CASE ~(p <= f[l].to)
      <4>1. p \in f[x].from + 1 .. f[x].to
        BY <1>2, <2>0, <2>4, <3>2, <3>4
      <4> QED
        BY <2>1, <4>1
    <3> QED
      BY <3>3, <3>4
  <2> QED
    BY <1>4, <2>2, <2>3, <2>4
<1>9. ASSUME Linked(f, S),
             \A l \in On(f, S) : (\A i \in S : i <= l) => f[x].from = f[l].to
      PROVE  Linked(f, R)
  <2> SUFFICES ASSUME NEW i \in R, NEW j \in R, i < j,
                      \A k \in R : k <= i \/ j <= k, f[i] # None
               PROVE  f[i].to = f[j].from
    BY DEF Linked
  <2>1. i \in S
    BY <1>3
  <2>2. CASE j \in S
    BY <1>9, <2>1, <2>2 DEF Linked
  <2>3. CASE j = x
    <3>1. \A k \in S : k <= i
      BY <1>3, <2>3
    <3> QED
      BY <1>9, <2>1, <2>3, <3>1 DEF On
  <2> QED
    BY <2>2, <2>3
<1> QED
  BY <1>5, <1>6, <1>8, <1>9 DEF Whole

-----------------------------------------------------------------------------
(***************************************************************************)
(* No event is jumped over.                                                *)
(***************************************************************************)
LEMMA ViewType ==
    ASSUME TypeInv
    PROVE  /\ View \in Meta /\ View.live \subseteq Id /\ View.outdated \subseteq Id
           /\ NoMeta \in Meta /\ NoMeta.live = {} /\ NoMeta.outdated = {}
           /\ file \in ListFiles
           /\ saved.token \in Nat /\ token \in Nat /\ sent \in Nat /\ xtoken \in Nat
BY DEF View, Meta, NoMeta, ListFiles, TypeInv, NodeOK, CacheOK, StoreOK, WriteOK, ExtensionOK

LEMMA InitGap == Init => GapInv
<1> SUFFICES ASSUME Init PROVE GapInv
  OBVIOUS
<1>1. TypeInv
  BY InitTypes
<1>2. View = NoMeta /\ ~Rewrites /\ ~Cut /\ ~XCut
  BY DEF Init, View, Rewrites, Cut, XCut
<1>3. View.live = {} /\ View.outdated = {}
  BY <1>2 DEF NoMeta
<1>4. Views
  BY <1>2, <1>3 DEF Init, Views, Old
<1>5. Files
  BY DEF Init, Files, Sound
<1>6. Chain
  BY <1>3, NoList DEF Init, Chain, Above
<1>7. Caching /\ Dropping /\ Reading /\ Applying
  BY <1>2, <1>3 DEF Init, Caching, ToCache, Adding, Dropping, Old, Reading, Applying
<1>8. Tokens /\ Gapless
  BY DEF Init, Tokens, Gapless
<1> QED
  BY <1>4, <1>5, <1>6, <1>7, <1>8 DEF GapInv, Cached

\* A response is sound for a later token on disk.
LEMMA SoundLater ==
    ASSUME NEW c \in Chunk \cup {None}, NEW t \in Nat, NEW u \in Nat, t <= u, Sound(c, t)
    PROVE  Sound(c, u)
<1>1. c # None => c.from \in Nat /\ c.to \in Nat
  BY DEF Chunk
<1> QED
  BY <1>1 DEF Sound

\* Files that are as sound, for what the extension has in hand.
LEMMA SoundFiles ==
    ASSUME TypeInv, Files, NEW t \in Nat, saved.token <= t
    PROVE  /\ \A i \in Id : Sound(file[i], t)
           /\ Sound(xresponse, t) /\ Sound(xchunk, t)
BY SoundLater DEF Files, TypeInv, CacheOK, StoreOK, ExtensionOK

\* The stream and the token on disk go on, and the cache is left alone.
LEMMA QuietGap ==
    ASSUME TypeInv, TypeInv', Cached,
           UNCHANGED <<cache, extension, write>>, torn => torn',
           saved.token <= saved'.token, sent <= sent'
    PROVE  View' = View /\ Cached'
<1>0. /\ UNCHANGED <<file, meta, made, writing, read, gone, clearing>>
      /\ UNCHANGED <<xstage, xtoken, xids, xresponse, xid, xchunk, xread, syncs>>
  BY DEF cache, extension, write
<1>1. View' = View /\ XCut' = XCut /\ Cut' = Cut
  BY <1>0 DEF View, Cut, XCut
<1>2. Views'
  BY <1>0, <1>1 DEF Cached, Views, Old
<1>3. saved.token \in Nat /\ saved'.token \in Nat /\ sent \in Nat /\ sent' \in Nat
  BY DEF TypeInv, StoreOK, NodeOK
<1>4. Files'
  <2>1. \A i \in Id : file[i] # None => file[i].to \in Nat
    BY DEF TypeInv, CacheOK, Chunk
  <2>2. xresponse # None => xresponse.to \in Nat
    BY DEF TypeInv, ExtensionOK, Chunk
  <2>3. /\ \A i \in Id : Sound(file[i], saved'.token)
        /\ Sound(xresponse, saved'.token) /\ Sound(xchunk, saved'.token)
    BY <1>3, SoundFiles DEF Cached
  <2> QED
    BY <1>0, <1>3, <2>1, <2>2, <2>3 DEF Cached, Files
<1>5. Chain'
  <2>1. /\ View.live \subseteq Id /\ file \in ListFiles
        /\ Whole(file, saved.token, View.live) /\ (~torn => Linked(file, View.live))
    BY ViewType DEF Cached, Chain
  <2>2. Whole(file, saved'.token, View.live) /\ (~torn' => Linked(file, View.live))
    BY <1>3, <2>1, SameList
  <2>3. Above(View.live)'
    BY <1>0, <1>1 DEF Cached, Chain, Above
  <2> QED
    BY <1>0, <1>1, <2>2, <2>3 DEF Chain
<1>6. Caching'
  <2>1. xresponse # None => xresponse.from \in Nat
    BY DEF TypeInv, ExtensionOK, Chunk
  <2>2. xstage \in {"update"} \cup ToCache => xresponse # None
    BY DEF TypeInv, ExtensionOK
  <2>3. \A l \in Id : xresponse # None /\ Goes(l) => Goes(l)'
    BY <1>0, <1>3, <2>1 DEF Goes
  <2>4. View.live \subseteq Id
    BY ViewType
  <2>5. xstage \in ToCache => \A l \in View.live : (\A i \in View.live : i <= l) => Goes(l)'
    BY <2>2, <2>3, <2>4 DEF Cached, Caching
  <2>6. xstage = "update" /\ file[xid] # None => xresponse.from <= file[xid].to \/ xresponse.from <= saved'.token
    BY <1>3, <2>1, <2>2 DEF Cached, Caching
  <2> QED
    BY <1>0, <1>1, <2>5, <2>6 DEF Cached, Caching
<1> QED
  BY <1>1, <1>2, <1>4, <1>5, <1>6 DEF Cached

\* What the session merges goes on from its token.
LEMMA MergedSpan ==
    ASSUME TypeInv, Files, saved.token <= token, Meets(file, token, ids),
           Whole(file, saved.token, ids), MergedFiles(ids) # None
    PROVE  LET r == MergedFiles(ids)
           IN  /\ token <= r.to /\ r.to <= sent
               /\ r.events \subseteq 1..r.to
               /\ token + 1 .. r.to \subseteq r.events
<1> DEFINE r == MergedFiles(ids)
<1> DEFINE l == Max(Readable(ids))
<1>0. /\ ids \subseteq Id /\ file \in ListFiles
      /\ saved.token \in Nat /\ token \in Nat /\ sent \in Nat
  BY ViewType DEF TypeInv, SessionOK
<1>1. /\ Readable(ids) = On(file, ids) /\ Readable(ids) # {} /\ Readable(ids) \subseteq Id
      /\ r.to = file[l].to /\ r.events = UNION {file[id].events : id \in Readable(ids)}
  BY <1>0 DEF MergedFiles, Readable, On
<1>2. l \in On(file, ids) /\ \A i \in On(file, ids) : i <= l
  BY <1>1, MaxOf
<1> HIDE DEF r, l
<1>3. PICK i \in On(file, ids) : file[i].from <= token /\ token <= file[i].to
  BY DEF Meets
<1>4. \A j \in On(file, ids) : file[j].to <= file[l].to
  <2> SUFFICES ASSUME NEW j \in On(file, ids) PROVE file[j].to <= file[l].to
    OBVIOUS
  <2>1. j \in Int /\ l \in Int /\ file[j].to \in Nat /\ j <= l
    BY <1>0, <1>2, FileOf
  <2>2. CASE j < l
    BY <1>2, <2>2 DEF Whole, Growing
  <2>3. CASE j = l
    BY <2>1, <2>3
  <2> QED
    BY <2>1, <2>2, <2>3
<1>5. file[i].from \in Nat /\ file[i].to \in Nat /\ file[l].to \in Nat
  BY <1>0, <1>2, FileOf
<1>6. token <= r.to
  BY <1>0, <1>1, <1>3, <1>4, <1>5
<1>7. r.to <= sent
  BY <1>0, <1>1, <1>2 DEF Files, On
<1>8. r.events \subseteq 1..r.to
  <2> SUFFICES ASSUME NEW j \in On(file, ids), NEW p \in file[j].events
               PROVE  p \in 1..file[l].to
    BY <1>1
  <2>1. p \in 1..file[j].to
    BY <1>0 DEF Files, Sound, On
  <2>2. file[j].to \in Nat
    BY <1>0, FileOf
  <2> QED
    BY <1>4, <1>5, <2>1, <2>2
<1>9. token + 1 .. r.to \subseteq r.events
  <2> SUFFICES ASSUME NEW p \in token + 1 .. file[l].to
               PROVE  \E k \in On(file, ids) : p \in file[k].events
    BY <1>1
  <2>1. p \in file[i].from + 1 .. file[l].to /\ p > saved.token
    BY <1>0, <1>3, <1>5
  <2> QED
    BY <1>2, <2>1 DEF Whole, Covered
<1> QED
  BY <1>6, <1>7, <1>8, <1>9 DEF r

\* The session looks into the cache, applies it, syncs and commits; the stream
\* goes on.
LEMMA SessionGap ==
    ASSUME TypeInv, TypeInv', GapInv, ~lost',
           \/ Look \/ ReadIds \/ ReadOutdated \/ Merge \/ ApplyCache \/ Again
           \/ ReadData \/ Sync \/ Synced \/ Commit \/ PauseAndResume \/ Send
    PROVE  GapInv'
<1> USE DEF node, store, session, history
<1>0. /\ View.live \subseteq Id /\ file \in ListFiles
      /\ saved.token \in Nat /\ token \in Nat /\ sent \in Nat
  BY ViewType
<1>1. /\ View.live \cap View.outdated = {} /\ Old(View.live) /\ Old(View.outdated)
      /\ meta \in {View, NoMeta} /\ NoMeta.live = {} /\ NoMeta.outdated = {}
  BY ViewType DEF GapInv, Cached, Views, View, Cut
<1>d. /\ Rewrites => stage \in {"again", "data", "running", "answered", "look"}
      /\ Old(drop) /\ Old(ids) /\ Old(gone)
      /\ writing = "no" /\ stage \notin {"delete", "entry"} => gone = {}
      /\ \A i, j \in View.live : i < j /\ j \in gone => i \in gone
      /\ \A i, j \in View.live : i < j /\ j \in drop => i \in drop \cup gone
  BY DEF GapInv, Dropping
<1>2. ASSUME UNCHANGED <<cache, extension, write>>, torn => torn', saved.token <= saved'.token, sent <= sent'
      PROVE  /\ View' = View /\ Cached' /\ UNCHANGED <<file, made, xstage, xid, xresponse, xtoken>>
             /\ Rewrites' = Rewrites /\ gone' = gone /\ writing' = writing
             /\ writing # "no" => Rewrites
             /\ \A S : Old(S)' <=> Old(S)
  <2>1. View' = View /\ Cached'
    BY <1>2, QuietGap DEF GapInv
  <2> QED
    BY <1>2, <2>1 DEF cache, extension, write, Old, Rewrites
<1>3. CASE Look
  <2>1. /\ UNCHANGED <<cache, extension, write>> /\ (torn => torn') /\ UNCHANGED <<saved, sent, token, have, ids, drop, response>>
        /\ stage = "look" /\ stage' \in {"running", "ids"}
        /\ stage' = "ids" /\ matches' => First(meta) # None /\ First(meta).from = token
        /\ ~Rewrites
    BY <1>3 DEF Look, Reads
  <2>2. /\ View' = View /\ Cached' /\ UNCHANGED <<file, made, xstage, xid, xresponse, xtoken>>
        /\ Rewrites' = Rewrites /\ gone' = gone /\ writing' = writing
        /\ writing # "no" => Rewrites
        /\ \A S : Old(S)' <=> Old(S)
    BY <1>0, <1>2, <2>1
  <2>3. Dropping'
    BY <1>d, <2>1, <2>2 DEF Dropping
  <2>4. Reading'
    <3>1. stage' = "ids" /\ matches' => View.live # {} /\ Meets(file, token, View.live)
      <4> SUFFICES ASSUME First(meta) # None, First(meta).from = token
                   PROVE  View.live # {} /\ Meets(file, token, View.live)
        BY <2>1
      <4>1. Min(meta.live) \in meta.live /\ First(meta) = file[Min(meta.live)]
        BY LastType DEF TypeInv, CacheOK
      <4>2. meta = View
        BY <1>1, <4>1
      <4>3. Sound(First(meta), saved.token)
        BY <1>0, <4>1, <4>2 DEF GapInv, Cached, Files
      <4> QED
        BY <1>0, <4>1, <4>2, <4>3 DEF Meets, On, Sound
    <3> QED
      BY <2>1, <2>2, <3>1 DEF Reading
  <2>5. Applying' /\ Tokens' /\ Gapless'
    BY <2>1, <2>2 DEF GapInv, Applying, Tokens, Gapless
  <2> QED
    BY <2>2, <2>3, <2>4, <2>5 DEF GapInv
<1>4. CASE ReadIds
  <2>1. /\ UNCHANGED <<cache, extension, write>> /\ (torn => torn') /\ UNCHANGED <<saved, sent, token, have, response>>
        /\ stage = "ids" /\ stage' = "outdated" /\ drop' = meta.live
        /\ ids' = IF matches THEN meta.live ELSE {}
    BY <1>4 DEF ReadIds, Reads
  <2>2. /\ View' = View /\ Cached' /\ UNCHANGED <<file, made, xstage, xid, xresponse, xtoken>>
        /\ Rewrites' = Rewrites /\ gone' = gone /\ writing' = writing
        /\ writing # "no" => Rewrites
        /\ \A S : Old(S)' <=> Old(S)
    BY <1>0, <1>2, <2>1
  <2>3. meta.live \in {View.live, {}}
    BY <1>1
  <2>4. Dropping'
    <3>1. Old(meta.live)
      BY <1>1, <2>3 DEF Old
    <3>2. ~Rewrites /\ gone = {}
      BY <1>d, <2>1, <2>2
    <3>3. \A i, j \in View.live : j \in drop' => i \in drop'
      BY <2>1, <2>3
    <3>4. Old(drop)' /\ Old(ids)' /\ Old(gone)'
      BY <1>d, <2>1, <2>2, <3>1 DEF Old
    <3> QED
      BY <2>1, <2>2, <3>2, <3>3, <3>4 DEF Dropping
  <2>5. Reading'
    <3>1. ids' # {} => matches /\ ids' = View.live
      BY <2>1, <2>3
    <3>2. ids' # {} => Meets(file, token, ids') /\ Whole(file, saved.token, ids') /\ Above(ids')
      BY <2>1, <3>1 DEF GapInv, Reading, Cached, Chain
    <3>3. Above(ids') <=> Above(ids)'
      BY <2>2 DEF Above
    <3> QED
      BY <2>1, <2>2, <3>1, <3>2, <3>3 DEF Reading
  <2>6. Applying' /\ Tokens' /\ Gapless'
    BY <2>1, <2>2 DEF GapInv, Applying, Tokens, Gapless
  <2> QED
    BY <2>2, <2>4, <2>5, <2>6 DEF GapInv
<1>5. CASE ReadOutdated
  <2>1. /\ UNCHANGED <<cache, extension, write>> /\ (torn => torn') /\ UNCHANGED <<saved, sent, token, have, ids, response>>
        /\ stage = "outdated" /\ stage' = "merge" /\ drop' = meta.outdated \cup drop
    BY <1>5 DEF ReadOutdated, Reads
  <2>2. /\ View' = View /\ Cached' /\ UNCHANGED <<file, made, xstage, xid, xresponse, xtoken>>
        /\ Rewrites' = Rewrites /\ gone' = gone /\ writing' = writing
        /\ writing # "no" => Rewrites
        /\ \A S : Old(S)' <=> Old(S)
    BY <1>0, <1>2, <2>1
  <2>3. Dropping'
    <3>1. meta.outdated \cap View.live = {} /\ Old(meta.outdated)
      BY <1>1 DEF Old
    <3>2. ~Rewrites /\ gone = {}
      BY <1>d, <2>1, <2>2
    <3>3. Old(drop)' /\ Old(ids)' /\ Old(gone)'
      BY <1>d, <2>1, <2>2, <3>1 DEF Old
    <3>4. \A i, j \in View.live : i < j /\ j \in drop' => i \in drop'
      BY <1>d, <2>1, <3>1, <3>2
    <3> QED
      BY <2>1, <2>2, <3>2, <3>3, <3>4 DEF Dropping
  <2>4. Reading'
    <3>1. Above(ids)' <=> Above(ids)
      BY <2>1, <2>2 DEF Above
    <3> QED
      BY <2>1, <2>2, <3>1 DEF GapInv, Reading
  <2>5. Applying' /\ Tokens' /\ Gapless'
    BY <2>1, <2>2 DEF GapInv, Applying, Tokens, Gapless
  <2> QED
    BY <2>2, <2>3, <2>4, <2>5 DEF GapInv
<1>6. CASE Merge
  <2>1. /\ UNCHANGED <<cache, extension, write>> /\ (torn => torn') /\ UNCHANGED <<saved, sent, token, have, ids, drop>>
        /\ stage = "merge" /\ stage' = "apply" /\ response' = MergedFiles(ids)
    BY <1>6 DEF Merge
  <2>2. /\ View' = View /\ Cached' /\ UNCHANGED <<file, made, xstage, xid, xresponse, xtoken>>
        /\ Rewrites' = Rewrites /\ gone' = gone /\ writing' = writing
        /\ writing # "no" => Rewrites
        /\ \A S : Old(S)' <=> Old(S)
    BY <1>0, <1>2, <2>1
  <2>3. Dropping' /\ Reading'
    BY <1>d, <2>1, <2>2 DEF Dropping, Reading
  <2>4. Applying'
    <3>1. response' # None => ids # {}
      BY <2>1 DEF MergedFiles, Readable
    <3>2. response' # None => Meets(file, token, ids) /\ Whole(file, saved.token, ids)
      BY <2>1, <3>1 DEF GapInv, Reading
    <3>3. Files /\ saved.token <= token
      BY DEF GapInv, Cached, Tokens
    <3>4. response' # None => /\ token <= response'.to /\ response'.to <= sent
                              /\ response'.events \subseteq 1..response'.to
                              /\ token + 1 .. response'.to \subseteq response'.events
      BY <2>1, <3>2, <3>3, MergedSpan
    <3> QED
      BY <2>1, <3>4 DEF Applying
  <2>5. Tokens' /\ Gapless'
    BY <2>1, <2>2 DEF GapInv, Tokens, Gapless
  <2> QED
    BY <2>2, <2>3, <2>4, <2>5 DEF GapInv
<1>7. ASSUME stage \in {"apply", "answered"}, response # None, Apply(response)
      PROVE  have' = 1..token' /\ token' \in Nat /\ token <= token' /\ token' <= sent
  <2>1. response.to \in Nat /\ token' = response.to /\ have' = have \cup response.events
    BY <1>7 DEF TypeInv, SessionOK, Chunk, Apply
  <2>2. /\ token <= response.to /\ response.to <= sent /\ response.events \subseteq 1..response.to
        /\ token + 1 .. response.to \subseteq response.events /\ have = 1..token
    BY <1>7 DEF GapInv, Applying, Gapless
  <2>3. 1..token \cup (token + 1 .. response.to) = 1..response.to
    BY <1>0, <2>1, <2>2
  <2> QED
    BY <2>1, <2>2, <2>3
<1>8. ASSUME ApplyCache \/ Synced
      PROVE  GapInv'
  <2>1. /\ UNCHANGED <<cache, extension, write>> /\ (torn => torn') /\ UNCHANGED <<saved, sent, ids, drop>>
        /\ \/ UNCHANGED <<token, have>>
           \/ stage \in {"apply", "answered"} /\ response # None /\ Apply(response)
        /\ response' = None
        /\ (stage = "apply" /\ stage' = "delete") \/ (stage = "answered" /\ stage' = "running")
    BY <1>8 DEF ApplyCache, Synced, TypeInv, SessionOK
  <2>2. /\ View' = View /\ Cached' /\ UNCHANGED <<file, made, xstage, xid, xresponse, xtoken>>
        /\ Rewrites' = Rewrites /\ gone' = gone /\ writing' = writing
        /\ writing # "no" => Rewrites
        /\ \A S : Old(S)' <=> Old(S)
    BY <1>0, <1>2, <2>1
  <2>3. Dropping'
    <3>1. stage = "apply" => ~Rewrites /\ gone = {}
      BY <1>d, <2>2
    <3> QED
      BY <1>d, <2>1, <2>2, <3>1 DEF Dropping
  <2>6. Reading' /\ Applying'
    BY <2>1, <2>2 DEF Reading, Applying
  <2>4. have' = 1..token' /\ token' \in Nat /\ token <= token' /\ token' <= sent
    BY <1>0, <1>7, <2>1 DEF GapInv, Tokens, Gapless
  <2>5. Tokens' /\ Gapless'
    BY <1>0, <2>1, <2>2, <2>4 DEF GapInv, Tokens, Gapless
  <2> QED
    BY <2>2, <2>3, <2>5, <2>6 DEF GapInv
<1>9. ASSUME Again \/ ReadData
      PROVE  GapInv'
  <2>1. /\ UNCHANGED <<cache, extension, write>> /\ (torn => torn') /\ UNCHANGED <<saved, sent, token, have, response>>
        /\ ~Rewrites /\ ids' \subseteq ids /\ drop' \in {{}, meta.outdated \cup meta.live}
        /\ stage \in {"again", "clear"} /\ stage' \in {"look", "clear", "data"}
    BY <1>9 DEF Again, ReadData, Reads
  <2>2. /\ View' = View /\ Cached' /\ UNCHANGED <<file, made, xstage, xid, xresponse, xtoken>>
        /\ Rewrites' = Rewrites /\ gone' = gone /\ writing' = writing
        /\ writing # "no" => Rewrites
        /\ \A S : Old(S)' <=> Old(S)
    BY <1>0, <1>2, <2>1
  <2>3. Dropping'
    <3>1. meta.outdated \cup meta.live \in {{}, View.outdated \cup View.live}
      BY <1>1
    <3>2. Old(drop')
      BY <1>1, <2>1, <3>1 DEF Old
    <3>3. ~Rewrites /\ gone = {}
      BY <1>d, <2>1, <2>2
    <3>4. Old(drop)' /\ Old(ids)' /\ Old(gone)'
      BY <1>d, <2>1, <2>2, <3>2 DEF Old
    <3>5. \A i, j \in View.live : j \in drop' => i \in drop'
      BY <2>1, <3>1
    <3> QED
      BY <2>1, <2>2, <3>3, <3>4, <3>5 DEF Dropping
  <2>4. Reading' /\ Applying' /\ Tokens' /\ Gapless'
    BY <2>1, <2>2 DEF GapInv, Reading, Applying, Tokens, Gapless
  <2> QED
    BY <2>2, <2>3, <2>4 DEF GapInv
<1>10. CASE Sync
  <2>1. /\ UNCHANGED <<cache, extension, write>> /\ (torn => torn') /\ UNCHANGED <<saved, sent, token, have, ids, drop>>
        /\ stage = "running" /\ stage' = "answered"
        /\ response' = Response(token)
    BY <1>10 DEF Sync
  <2>2. /\ View' = View /\ Cached' /\ UNCHANGED <<file, made, xstage, xid, xresponse, xtoken>>
        /\ Rewrites' = Rewrites /\ gone' = gone /\ writing' = writing
        /\ writing # "no" => Rewrites
        /\ \A S : Old(S)' <=> Old(S)
    BY <1>0, <1>2, <2>1
  <2>3. Dropping' /\ Reading'
    BY <1>d, <2>1, <2>2 DEF Dropping, Reading
  <2>4. Applying'
    <3>1. token <= sent
      BY DEF GapInv, Tokens
    <3>2. response'.to = sent /\ response'.events = token + 1 .. sent
      BY <2>1 DEF Response
    <3> QED
      BY <1>0, <2>1, <3>1, <3>2 DEF Applying
  <2>5. Tokens' /\ Gapless'
    BY <2>1, <2>2 DEF GapInv, Tokens, Gapless
  <2> QED
    BY <2>2, <2>3, <2>4, <2>5 DEF GapInv
<1>11. ASSUME Commit \/ PauseAndResume \/ Send
       PROVE  GapInv'
  <2>1. /\ UNCHANGED <<cache, extension, write>> /\ (torn => torn') /\ UNCHANGED <<token, have, ids, drop, response>>
        /\ sent <= sent' /\ saved'.token \in {saved.token, token} /\ saved.token <= saved'.token
        /\ saved' = saved \/ (saved'.token = token /\ saved'.have = have)
        /\ stage' = stage \/ (stage = "running" /\ stage' = "look")
        /\ matches' = matches
    <3>1. saved.token <= token
      BY DEF GapInv, Tokens
    <3>2. CASE Commit
      BY <1>0, <3>1, <3>2 DEF Commit
    <3>3. CASE PauseAndResume \/ Send
      BY <1>0, <3>3 DEF PauseAndResume, Send
    <3> QED
      BY <1>11, <3>2, <3>3
  <2>2. /\ View' = View /\ Cached' /\ UNCHANGED <<file, made, xstage, xid, xresponse, xtoken>>
        /\ Rewrites' = Rewrites /\ gone' = gone /\ writing' = writing
        /\ writing # "no" => Rewrites
        /\ \A S : Old(S)' <=> Old(S)
    BY <1>2, <2>1
  <2>3. Dropping'
    BY <2>1, <2>2 DEF GapInv, Dropping
  <2>4. Reading'
    <3>1. Above(ids)' <=> Above(ids)
      BY <2>1, <2>2 DEF Above
    <3>2. saved'.token \in Nat /\ ids \subseteq Id
      BY DEF TypeInv, StoreOK, SessionOK
    <3>3. Whole(file, saved.token, ids) => Whole(file, saved'.token, ids)
      BY <1>0, <2>1, <3>2, SameList
    <3> QED
      BY <2>1, <2>2, <3>1, <3>3 DEF GapInv, Reading
  <2>5. Applying'
    <3>1. stage' \in {"apply", "answered"} => stage' = stage
      BY <2>1
    <3>2. response # None => response.to \in Nat
      BY DEF TypeInv, SessionOK, Chunk
    <3>3. sent' \in Nat
      BY DEF TypeInv, NodeOK
    <3> QED
      BY <1>0, <2>1, <3>1, <3>2, <3>3 DEF GapInv, Applying
  <2>6. Tokens' /\ Gapless'
    <3>1. saved'.token \in Nat /\ sent' \in Nat /\ xtoken \in Nat
      BY ViewType DEF TypeInv, StoreOK, NodeOK
    <3> QED
      BY <1>0, <2>1, <2>2, <3>1 DEF GapInv, Tokens, Gapless
  <2> QED
    BY <2>2, <2>3, <2>4, <2>5, <2>6 DEF GapInv
<1> QED
  BY <1>3, <1>4, <1>5, <1>6, <1>8, <1>9, <1>10, <1>11

\* Files are removed, and the list is empty.
LEMMA EmptyGap ==
    ASSUME TypeInv, Files, Caching, View' = NoMeta,
           UNCHANGED <<sent, saved, xstage, xresponse, xchunk, xid>>,
           \A i \in Id : file'[i] \in {file[i], None},
           xstage \in Adding \ {"add"} => file'[xid] = file[xid]
    PROVE  Files' /\ Chain' /\ Caching'
<1>1. View'.live = {}
  BY DEF NoMeta
<1>2. Files'
  BY DEF Files, Sound
<1>3. Chain'
  BY <1>1, NoList DEF Chain, Above
<1>4. Caching'
  <2>1. xstage = "update" => xid \in Id
    BY DEF TypeInv, ExtensionOK
  <2> QED
    BY <1>1, <2>1 DEF Caching
<1> QED
  BY <1>2, <1>3, <1>4

\* The session removes a file: of the list, those before it are gone already.
LEMMA RemovedGap ==
    ASSUME TypeInv, TypeInv', Cached, NEW h \in Id, file' = [file EXCEPT ![h] = None],
           UNCHANGED <<meta, made, sent, saved, writing, read, torn, extension>>,
           xstage \in Adding => xid # h,
           \A i, j \in View.live : i < j /\ j = h => file[i] = None
    PROVE  View' = View /\ Cached'
<1> USE DEF extension
<1>0. View.live \subseteq Id /\ file \in ListFiles /\ file' \in ListFiles /\ saved.token \in Nat
  BY ViewType DEF TypeInv, CacheOK, ListFiles
<1>1. UNCHANGED <<xstage, xtoken, xids, xresponse, xid, xchunk, xread>>
  OBVIOUS
<1>3. file'[h] = None /\ \A i \in Id : i # h => file'[i] = file[i]
  BY DEF TypeInv, CacheOK
<1>4. View' = View /\ Cut' = Cut /\ XCut' = XCut
  BY <1>1 DEF View, Cut, XCut
<1>5. Views'
  BY <1>1, <1>4 DEF Cached, Views, Old
<1>6. Files'
  BY <1>1, <1>3 DEF Cached, Files, Sound
<1>7. Chain'
  <2>1. \A i, j \in View.live : i < j /\ i \in On(file', View.live) =>
            j \in On(file', View.live) \/ file[j] = None
    <3> SUFFICES ASSUME NEW i \in View.live, NEW j \in View.live, i < j, file'[i] # None,
                        file[j] # None
                 PROVE  file'[j] # None
      BY DEF On
    <3>1. j # h
      BY <1>0, <1>3
    <3> QED
      BY <1>0, <1>3, <3>1
  <2>2. \A i, j \in View.live : i < j /\ i \in On(file', View.live) => j \in View.live
    OBVIOUS
  <2>3. \A i \in Id : Sound(file[i], saved.token)
    BY DEF Cached, Files
  <2>4. \A i \in View.live : file'[i] = file[i] \/ file'[i] = None
    BY <1>0, <1>3
  <2>5. Whole(file, saved.token, View.live) /\ (~torn => Linked(file, View.live))
    BY DEF Cached, Chain
  <2>6. Whole(file', saved.token, View.live) /\ (~torn => Linked(file', View.live))
    BY <1>0, <2>1, <2>2, <2>3, <2>4, <2>5, RestOfList
  <2>7. Above(View.live)'
    BY <1>1, <1>4 DEF Cached, Chain, Above
  <2> QED
    BY <1>1, <1>4, <2>6, <2>7 DEF Chain
<1>8. Caching'
  <2>1. \A l \in Id : Goes(l) => Goes(l)'
    BY <1>1, <1>3 DEF Goes
  <2>2. xstage \in Adding \cup {"update"} => xid \in Id
    BY DEF TypeInv, ExtensionOK
  <2>3. xstage \in Adding \ {"add"} => file'[xid] = file[xid]
    BY <1>3, <2>2
  <2>4. xstage = "update" => file'[xid] \in {file[xid], None}
    BY <1>3, <2>2
  <2>5. xstage' \in ToCache => \A l \in View'.live : (\A i \in View'.live : i <= l) => Goes(l)'
    BY <1>0, <1>1, <1>4, <2>1 DEF Cached, Caching
  <2> QED
    BY <1>1, <2>3, <2>4, <2>5 DEF Cached, Caching
<1> QED
  BY <1>4, <1>5, <1>6, <1>7, <1>8 DEF Cached

\* The session deletes a file: of the list of what it applied, or of all data.
LEMMA DeleteGap ==
    ASSUME TypeInv, TypeInv', GapInv, Delete \/ DeleteOne
    PROVE  GapInv'
<1> USE DEF node, store, session
<1>0. View.live \subseteq Id /\ drop \subseteq Id /\ gone \subseteq Id /\ file \in [Id -> Chunk \cup {None}]
  BY ViewType DEF TypeInv, SessionOK, CacheOK, WriteOK
<1>d. /\ Rewrites => stage \in {"again", "data", "running", "answered", "look"}
      /\ Old(drop) /\ Old(ids) /\ Old(gone)
      /\ writing = "no" /\ stage \notin {"delete", "entry"} => gone = {}
      /\ stage = "delete" =>
             /\ gone \subseteq drop /\ \A i \in gone, j \in drop \ gone : i < j
             /\ \A i, j \in View.live : i < j /\ i \in gone /\ j \in drop => file[i] = None
      /\ \A i, j \in View.live : i < j /\ j \in gone => i \in gone
      /\ \A i, j \in View.live : i < j /\ j \in drop => i \in drop \cup gone
  BY DEF GapInv, Dropping
<1>1. CASE Delete
  <2> DEFINE h == Min(drop \ gone)
  <2>1. /\ UNCHANGED <<meta, made, sent, saved, token, have, stage, matches, ids, drop, response,
                       writing, read, clearing, torn, extension>>
        /\ stage = "delete" /\ drop \ gone # {} /\ ~Rewrites
        /\ file' = [file EXCEPT ![h] = None] /\ gone' = gone \cup {h}
    BY <1>1 DEF Delete, history
  <2>2. h \in drop /\ h \notin gone /\ h \in Id /\ \A i \in drop \ gone : h <= i
    BY <1>0, <2>1, MinOf
  <2> HIDE DEF h
  <2>3. \A i, j \in View.live : i < j /\ j \in drop /\ i \notin gone => i \in drop \ gone
    BY <1>d
  <2>4. \A i \in View.live : i < h /\ h \in View.live => i \in gone
    <3> SUFFICES ASSUME NEW i \in View.live, i < h, h \in View.live, i \notin gone PROVE FALSE
      OBVIOUS
    <3>1. h <= i
      BY <2>2, <2>3
    <3>2. h \in Int /\ i \in Int
      BY <1>0, <2>2 DEF Id
    <3> QED
      BY <3>1, <3>2
  <2>5. xstage \in Adding => xid # h
    BY <1>d, <2>2 DEF Old
  <2>6. \A i, j \in View.live : i < j /\ j = h => file[i] = None
    BY <1>d, <2>1, <2>2, <2>4
  <2>7. View' = View /\ Cached'
    BY <2>1, <2>2, <2>5, <2>6, RemovedGap DEF GapInv
  <2>8. Dropping'
    <3>1. Rewrites' = Rewrites /\ UNCHANGED <<xstage, xid>>
      BY <2>1 DEF Rewrites, extension
    <3>2. Old(drop)' /\ Old(ids)' /\ Old(gone)'
      BY <1>d, <2>1, <2>2, <3>1 DEF Old
    <3>3. gone' \subseteq drop /\ \A i \in gone', j \in drop \ gone' : i < j
      <4>1. \A i \in gone, j \in drop \ gone' : i < j
        BY <1>d, <2>1
      <4>2. \A j \in drop \ gone' : h < j
        <5> SUFFICES ASSUME NEW j \in drop \ gone' PROVE h < j
          OBVIOUS
        <5>1. h <= j /\ h # j /\ h \in Int /\ j \in Int
          BY <1>0, <2>1, <2>2 DEF Id
        <5> QED
          BY <5>1
      <4> QED
        BY <1>d, <2>1, <2>2, <4>1, <4>2
    <3>4. \A i, j \in View.live : i < j /\ i \in gone' /\ j \in drop => file'[i] = None
      <4>1. file'[h] = None /\ \A i \in Id : i # h => file'[i] = file[i]
        BY <1>0, <2>1, <2>2
      <4> QED
        BY <1>0, <1>d, <2>1, <4>1
    <3>5. \A i, j \in View.live : i < j /\ j \in gone' => i \in gone'
      BY <1>d, <2>1, <2>4
    <3>6. \A i, j \in View.live : i < j /\ j \in drop => i \in drop \cup gone'
      BY <1>d, <2>1
    <3> QED
      BY <1>d, <2>1, <2>7, <3>1, <3>2, <3>3, <3>4, <3>5, <3>6 DEF Dropping
  <2>9. Reading' /\ Applying' /\ Tokens' /\ Gapless'
    BY <2>1 DEF GapInv, Reading, Applying, Tokens, Gapless, extension
  <2> QED
    BY <2>7, <2>8, <2>9 DEF GapInv
<1>2. CASE DeleteOne
  <2> DEFINE h == Min(drop)
  <2>1. /\ UNCHANGED <<meta, made, sent, saved, token, have, matches, ids, response,
                       writing, read, clearing, torn, extension>>
        /\ stage = "data" /\ stage' = "entry" /\ drop # {} /\ ~Rewrites
        /\ file' = [file EXCEPT ![h] = None] /\ gone' = {h} /\ drop' = drop \ {h}
    BY <1>2 DEF DeleteOne, history
  <2>2. h \in drop /\ h \in Id /\ \A i \in drop : h <= i
    BY <1>0, <2>1, MinOf
  <2> HIDE DEF h
  <2>3. gone = {}
    BY <1>d, <2>1 DEF Rewrites
  <2>4. \A i \in View.live : ~(i < h /\ h \in View.live)
    <3> SUFFICES ASSUME NEW i \in View.live, i < h, h \in View.live PROVE FALSE
      OBVIOUS
    <3>1. h <= i
      BY <1>d, <2>2, <2>3
    <3>2. h \in Int /\ i \in Int
      BY <1>0, <2>2 DEF Id
    <3> QED
      BY <3>1, <3>2
  <2>5. xstage \in Adding => xid # h
    BY <1>d, <2>2 DEF Old
  <2>6. \A i, j \in View.live : i < j /\ j = h => file[i] = None
    BY <2>4
  <2>7. View' = View /\ Cached'
    BY <2>1, <2>2, <2>5, <2>6, RemovedGap DEF GapInv
  <2>8. Dropping'
    <3>1. ~Rewrites' /\ UNCHANGED <<xstage, xid>>
      BY <2>1 DEF Rewrites, extension
    <3>2. Old(drop)' /\ Old(ids)' /\ Old(gone)'
      BY <1>d, <2>1, <2>2, <3>1 DEF Old
    <3>3. \A i, j \in View.live : i < j /\ j \in gone' => i \in gone'
      BY <2>1, <2>4
    <3>4. \A i, j \in View.live : i < j /\ j \in drop' => i \in drop' \cup gone'
      BY <1>d, <2>1, <2>3
    <3> QED
      BY <2>1, <2>7, <3>1, <3>2, <3>3, <3>4 DEF Dropping
  <2>9. Reading' /\ Applying' /\ Tokens' /\ Gapless'
    BY <2>1 DEF GapInv, Reading, Applying, Tokens, Gapless, extension
  <2> QED
    BY <2>7, <2>8, <2>9 DEF GapInv
<1> QED
  BY <1>1, <1>2

\* The list is as it was, whoever is about to write it.
LEMMA SameGap ==
    ASSUME TypeInv, TypeInv', Cached, View' = View, ~(writing = "cut" /\ XCut)', Cut' => meta' = NoMeta,
           torn => torn', UNCHANGED <<file, made, sent, saved, extension>>
    PROVE  Cached'
<1>1. UNCHANGED <<xstage, xtoken, xids, xresponse, xid, xchunk, xread>>
  BY DEF extension
<1>2. Views'
  BY <1>1 DEF Cached, Views, Old
<1>3. Files' /\ Chain'
  BY <1>1 DEF Cached, Files, Chain, Above
<1>4. Caching'
  <2>1. \A l : Goes(l) => Goes(l)'
    BY <1>1 DEF Goes
  <2> QED
    BY <1>1, <2>1 DEF Cached, Caching
<1> QED
  BY <1>2, <1>3, <1>4 DEF Cached

\* The session rewrites the metadata.
LEMMA RewriteGap ==
    ASSUME TypeInv, TypeInv', GapInv, ~lost',
           ReadDropped \/ Truncate \/ Forget \/ ReadEntry \/ DeleteData \/ RemoveMeta
    PROVE  GapInv'
<1> USE DEF node, store, session, history
<1>0. /\ View.live \subseteq Id /\ file \in ListFiles /\ file' \in ListFiles
      /\ saved.token \in Nat /\ drop \subseteq Id
      /\ NoMeta \in Meta /\ NoMeta.live = {} /\ NoMeta.outdated = {}
  BY ViewType DEF TypeInv, SessionOK, CacheOK, ListFiles
<1>1. /\ Views /\ Files /\ Chain /\ Caching /\ Cached
      /\ View.live \cap View.outdated = {} /\ Old(View.live) /\ Old(View.outdated)
      /\ ~(writing = "cut" /\ XCut) /\ (Cut => meta = NoMeta)
  BY DEF GapInv, Cached, Views
<1>d. /\ Rewrites => stage \in {"again", "data", "running", "answered", "look"}
      /\ Old(drop) /\ Old(ids) /\ Old(gone)
      /\ writing = "no" /\ stage \notin {"delete", "entry"} => gone = {}
      /\ \A i, j \in View.live : i < j /\ j \in gone => i \in gone
      /\ \A i, j \in View.live : i < j /\ j \in drop => i \in drop \cup gone
  BY DEF GapInv, Dropping
<1>2. ASSUME ReadDropped \/ ReadEntry
      PROVE  GapInv'
  <2>1. /\ UNCHANGED <<file, meta, made, sent, saved, token, have, matches, ids, drop, response,
                       gone, clearing, extension>>
        /\ writing = "no" /\ writing' = "read" /\ (torn => torn')
        /\ stage \in {"delete", "entry"} /\ stage' \in {"again", "data"}
    <3>1. writing = "no"
      BY <1>2, <1>d DEF ReadDropped, ReadEntry, Rewrites
    <3> QED
      BY <1>2, <3>1 DEF ReadDropped, ReadEntry, Reads, cache
  <2>2. View' = View /\ Cut' = Cut /\ XCut' = XCut /\ UNCHANGED <<xstage, xid>>
    BY <2>1 DEF View, Cut, XCut, extension
  <2>3. Cached'
    BY <1>1, <2>1, <2>2, SameGap
  <2>4. Dropping'
    <3>1. Old(drop)' /\ Old(ids)' /\ Old(gone)'
      BY <1>d, <2>1, <2>2 DEF Old
    <3> QED
      BY <1>d, <2>1, <2>2, <3>1 DEF Dropping
  <2>5. Reading' /\ Applying' /\ Tokens' /\ Gapless'
    BY <2>1 DEF GapInv, Reading, Applying, Tokens, Gapless, extension
  <2> QED
    BY <2>3, <2>4, <2>5 DEF GapInv
<1>3. CASE Truncate
  <2>1. /\ UNCHANGED <<file, made, sent, saved, token, have, stage, matches, ids, drop, response,
                       read, gone, clearing, torn, extension>>
        /\ writing = "read" /\ writing' = "cut" /\ meta = read /\ meta' = NoMeta /\ ~XCut
    BY <1>3 DEF Truncate, Replaces
  <2>2. View' = View /\ XCut' = XCut /\ Rewrites' = Rewrites /\ UNCHANGED <<xstage, xid>>
    BY <2>1 DEF View, XCut, Rewrites, extension
  <2>3. Cached'
    BY <1>1, <2>1, <2>2, SameGap
  <2>4. Dropping'
    <3>1. Old(drop)' /\ Old(ids)' /\ Old(gone)'
      BY <1>d, <2>1, <2>2 DEF Old
    <3> QED
      BY <2>1, <2>2, <3>1 DEF GapInv, Dropping
  <2>5. Reading' /\ Applying' /\ Tokens' /\ Gapless'
    BY <2>1, <2>2 DEF GapInv, Reading, Above, Applying, Tokens, Gapless, extension
  <2> QED
    BY <2>3, <2>4, <2>5 DEF GapInv
<1>4. CASE Forget
  <2> DEFINE R == View.live \ gone
  <2>1. /\ UNCHANGED <<file, made, sent, saved, token, have, stage, matches, ids, drop, response>>
        /\ UNCHANGED <<xstage, xtoken, xids, xresponse, xid, xchunk, xread, torn, clearing>>
        /\ writing = "cut" /\ writing' = "no" /\ gone' = {}
        /\ meta' = [live |-> read.live \ gone, outdated |-> read.outdated \ gone]
    BY <1>4 DEF Forget, extension
  <2>2. View = read /\ Rewrites /\ ~XCut /\ ~XCut' /\ ~Cut' /\ View' = meta'
    BY <1>1, <2>1 DEF View, Rewrites, Cut, XCut
  <2>3. View'.live = R /\ View'.outdated \subseteq View.outdated /\ R \subseteq View.live
    BY <2>1, <2>2
  <2>4. /\ stage \in {"again", "data", "running", "answered", "look"}
        /\ \A i, j \in View.live : i < j /\ j \in gone => i \in gone
    BY <1>d, <2>2
  <2>5. Views'
    BY <1>1, <2>1, <2>2, <2>3 DEF Views, Old
  <2>6. Files'
    BY <1>1, <2>1 DEF Files
  <2>7. \A i, j \in View.live : i < j /\ i \in R => j \in R
    BY <2>4
  <2>8. Chain'
    <3>1. \A i, j \in View.live : i < j /\ i \in On(file, R) => j \in On(file, R) \/ file[j] = None
      BY <2>7 DEF On
    <3>2. \A i, j \in View.live : i < j /\ i \in On(file, R) => j \in R
      BY <2>7 DEF On
    <3>3. \A i \in Id : Sound(file[i], saved.token)
      BY <1>1 DEF Files
    <3>4. Whole(file, saved.token, View.live) /\ (~torn => Linked(file, View.live))
      BY <1>1 DEF Chain
    <3>5. Whole(file, saved.token, R) /\ (~torn => Linked(file, R))
      <4> HIDE DEF R
      <4> QED
        BY <1>0, <2>3, <3>1, <3>2, <3>3, <3>4, RestOfList
    <3>6. Above(View.live)'
      BY <1>1, <2>1, <2>3 DEF Chain, Above
    <3> QED
      BY <2>1, <2>3, <3>5, <3>6 DEF Chain
  <2>9. Caching'
    <3>1. \A l : Goes(l)' <=> Goes(l)
      BY <2>1 DEF Goes
    <3>2. ASSUME xstage \in ToCache, NEW l \in R, \A i \in R : i <= l
          PROVE  Goes(l)
      <4>1. \A i \in View.live : i <= l
        <5> SUFFICES ASSUME NEW i \in View.live PROVE i <= l
          OBVIOUS
        <5>1. CASE i \in R
          BY <3>2, <5>1
        <5>2. CASE i \notin R
          <6>1. ~(l < i)
            BY <2>7, <3>2, <5>2
          <6> QED
            BY <1>0, <6>1 DEF Id
        <5> QED
          BY <5>1, <5>2
      <4> QED
        BY <1>1, <3>2, <4>1 DEF Caching
    <3> HIDE DEF R
    <3> QED
      BY <1>1, <2>1, <2>3, <3>1, <3>2 DEF Caching
  <2>10. Dropping'
    <3>1. Old(drop)' /\ Old(ids)' /\ Old(gone)'
      BY <1>d, <2>1 DEF Old
    <3>2. \A i, j \in R : i < j /\ j \in drop => i \in drop
      BY <1>d
    <3> HIDE DEF R
    <3> QED
      BY <2>1, <2>3, <2>4, <3>1, <3>2 DEF Dropping
  <2>11. Reading' /\ Applying' /\ Tokens' /\ Gapless'
    BY <2>1, <2>4 DEF GapInv, Reading, Applying, Tokens, Gapless
  <2> QED
    BY <2>5, <2>6, <2>8, <2>9, <2>10, <2>11 DEF GapInv, Cached
<1>5. CASE DeleteData
  <2>1. /\ UNCHANGED <<file, meta, made, sent, saved, token, have, matches, ids, drop, response,
                       writing, read, gone, torn, extension>>
        /\ stage = "data" /\ stage' = "running"
    BY <1>5 DEF DeleteData, cache
  <2>2. View' = View /\ Cut' = Cut /\ XCut' = XCut /\ UNCHANGED <<xstage, xid>>
    BY <2>1 DEF View, Cut, XCut, extension
  <2>3. Cached'
    BY <1>1, <2>1, <2>2, SameGap
  <2>4. Dropping'
    <3>1. Old(drop)' /\ Old(ids)' /\ Old(gone)'
      BY <1>d, <2>1, <2>2 DEF Old
    <3> QED
      BY <1>d, <2>1, <2>2, <3>1 DEF Dropping
  <2>5. Reading' /\ Applying' /\ Tokens' /\ Gapless'
    BY <2>1 DEF GapInv, Reading, Applying, Tokens, Gapless, extension
  <2> QED
    BY <2>3, <2>4, <2>5 DEF GapInv
<1>6. CASE RemoveMeta
  <2>1. /\ UNCHANGED <<file, made, sent, saved, token, have, stage, matches, ids, drop, response,
                       writing, read, gone, torn, extension>>
        /\ writing = "no" /\ meta = NoMeta /\ meta' = NoMeta /\ clearing
    BY <1>6 DEF RemoveMeta, Replaces
  <2>2. View' = View /\ XCut' = XCut /\ Rewrites /\ UNCHANGED <<xstage, xid>>
    BY <2>1 DEF View, XCut, Rewrites, extension
  <2>3. Cached'
    BY <1>1, <2>1, <2>2, SameGap
  <2>4. Dropping'
    <3>1. Old(drop)' /\ Old(ids)' /\ Old(gone)'
      BY <1>d, <2>1, <2>2 DEF Old
    <3> QED
      BY <1>d, <2>1, <2>2, <3>1 DEF Dropping
  <2>5. Reading' /\ Applying' /\ Tokens' /\ Gapless'
    BY <2>1, <2>2 DEF GapInv, Reading, Above, Applying, Tokens, Gapless, extension
  <2> QED
    BY <2>3, <2>4, <2>5 DEF GapInv
<1> QED
  BY <1>2, <1>3, <1>4, <1>5, <1>6

\* Either process is killed: a list that was being written may be empty.
LEMMA KillGap ==
    ASSUME TypeInv, TypeInv', GapInv, KillSession \/ KillExtension
    PROVE  GapInv'
<1> USE DEF node, cache
<1>0. /\ View.live \subseteq Id /\ file \in ListFiles
      /\ saved.token \in Nat /\ token \in Nat /\ sent \in Nat
      /\ NoMeta \in Meta /\ NoMeta.live = {} /\ NoMeta.outdated = {}
  BY ViewType
<1>1. /\ Views /\ Files /\ Chain /\ Caching
      /\ View.live \cap View.outdated = {} /\ Old(View.live) /\ Old(View.outdated)
      /\ ~(writing = "cut" /\ XCut) /\ (Cut => meta = NoMeta)
      /\ (xstage \in {"outdateIds", "mark", "marking"} => View.live \subseteq xids)
  BY DEF GapInv, Cached, Views
<1>2. CASE KillSession
  <2>1. /\ UNCHANGED <<sent, file, meta, made, saved>>
        /\ UNCHANGED <<xstage, xtoken, xids, xresponse, xid, xchunk, xread>>
        /\ token' = saved.token /\ have' = saved.have
        /\ stage' = "look" /\ ids' = {} /\ drop' = {}
        /\ response' = None /\ writing' = "no" /\ gone' = {} /\ ~clearing'
        /\ torn' = (torn \/ writing = "cut")
    BY <1>2 DEF KillSession, extension
  <2>2. ~Rewrites' /\ XCut' = XCut /\ (Cut' <=> XCut)
    BY <2>1 DEF Rewrites, Cut, XCut
  <2>3. \/ writing # "cut" /\ View' = View
        \/ View' = NoMeta /\ torn'
    BY <1>1, <2>1, <2>2 DEF View, Cut
  <2>4. View'.live \subseteq View.live /\ View'.outdated \subseteq View.outdated
    BY <1>0, <2>3
  <2>5. Views'
    <3>1. Old(View.live)' /\ Old(View.outdated)'
      BY <1>1, <2>1, <2>4 DEF Old
    <3>2. View'.live \cap View'.outdated = {}
      BY <1>1, <2>4
    <3>3. Cut' => meta' = NoMeta
      BY <1>1, <2>1, <2>2 DEF Cut
    <3> QED
      BY <1>1, <2>1, <2>4, <3>1, <3>2, <3>3 DEF Views
  <2>6. Files' /\ Chain' /\ Caching'
    <3>1. CASE View' = View
      <4>1. Files'
        BY <1>1, <2>1 DEF Files
      <4>2. Chain' /\ Caching'
        BY <1>1, <2>1, <3>1 DEF Chain, Above, Caching, Goes
      <4> QED
        BY <4>1, <4>2
    <3>2. CASE View' = NoMeta
      BY <1>1, <2>1, <3>2, EmptyGap
    <3> QED
      BY <2>3, <3>1, <3>2
  <2>7. Dropping' /\ Reading' /\ Applying'
    BY <2>1, <2>2 DEF Dropping, Old, Reading, Applying
  <2>8. Tokens' /\ Gapless'
    BY <1>0, <2>1 DEF GapInv, Tokens, Gapless
  <2> QED
    BY <2>5, <2>6, <2>7, <2>8 DEF GapInv, Cached
<1>3. CASE KillExtension
  <2>1. /\ UNCHANGED <<sent, file, meta, made, saved, token, have>>
        /\ UNCHANGED <<stage, matches, ids, drop, response, writing, read, gone, clearing>>
        /\ xstage' = "idle" /\ xtoken' = saved.token /\ xresponse' = None /\ xread' = NoMeta
        /\ xchunk' = None /\ torn' = (torn \/ XCut)
    BY <1>3 DEF KillExtension, store, session, write
  <2>2. Rewrites' = Rewrites /\ ~XCut' /\ (Cut' <=> writing = "cut")
    BY <2>1 DEF Rewrites, Cut, XCut
  <2>3. \/ ~XCut /\ View' = View
        \/ View' = NoMeta /\ torn'
    BY <1>1, <2>1, <2>2 DEF View, Cut
  <2>5. View'.live \subseteq View.live /\ View'.outdated \subseteq View.outdated
    BY <1>0, <2>3
  <2>6. Views'
    <3>1. UNCHANGED made
      BY <1>3 DEF KillExtension
    <3>2. Old(View.live)' /\ Old(View.outdated)'
      BY <1>1, <2>1, <2>5, <3>1 DEF Old, Adding
    <3>3. View'.live \cap View'.outdated = {}
      BY <1>1, <2>5
    <3> QED
      BY <1>1, <2>1, <2>2, <3>2, <3>3 DEF Views, Cut
  <2>7. Files'
    BY <1>1, <2>1 DEF Files, Sound
  <2>8. Chain'
    <3>1. Whole(file, saved.token, View'.live) /\ (~torn' => Linked(file, View'.live))
      BY <1>0, <1>1, <2>1, <2>3, NoList DEF Chain
    <3> QED
      BY <2>1, <3>1 DEF Chain, Above
  <2>9. Caching'
    BY <2>1 DEF Caching, ToCache, Adding
  <2>10. Dropping'
    <3>1. Old(drop)' /\ Old(ids)' /\ Old(gone)'
      <4>1. UNCHANGED made
        BY <1>3 DEF KillExtension
      <4> QED
        BY <2>1, <4>1 DEF GapInv, Dropping, Old, Adding
    <3> QED
      BY <2>1, <2>2, <2>5, <3>1 DEF GapInv, Dropping
  <2>11. Reading'
    <3>1. View'.live \in {View.live, {}}
      BY <1>0, <2>3
    <3> QED
      BY <2>1, <3>1 DEF GapInv, Reading, Above, ToCache, Adding
  <2>12. Applying' /\ Tokens' /\ Gapless'
    BY <1>0, <2>1 DEF GapInv, Applying, Tokens, Gapless
  <2> QED
    BY <2>6, <2>7, <2>8, <2>9, <2>10, <2>11, <2>12 DEF GapInv, Cached
<1> QED
  BY <1>2, <1>3

\* The extension does nothing to the session.
LEMMA SessionLeft ==
    ASSUME GapInv, UNCHANGED <<sent, store, session>>, xtoken' \in {xtoken, saved.token}, TypeInv
    PROVE  /\ Applying' /\ Tokens' /\ Gapless'
           /\ UNCHANGED <<saved, token, have, stage, matches, ids, drop, response>>
<1>1. UNCHANGED <<saved, token, have, stage, matches, ids, drop, response>>
  BY DEF store, session
<1>2. Applying' /\ Gapless'
  BY <1>1 DEF GapInv, Applying, Gapless
<1>3. Tokens'
  BY <1>1, ViewType DEF GapInv, Tokens
<1> QED
  BY <1>1, <1>2, <1>3

\* An event, the list is marked, the messages are given to the crypto module.
LEMMA EventGap ==
    ASSUME TypeInv, TypeInv', GapInv, Event \/ OutdatedIds \/ Mark \/ Crypto
    PROVE  GapInv'
<1> USE DEF node, write, cache, history
<1>0. /\ View \in Meta /\ View.live \subseteq Id /\ file \in ListFiles
      /\ NoMeta \in Meta /\ NoMeta.live = {} /\ NoMeta.outdated = {}
  BY ViewType
<1>1. /\ Views /\ Files /\ Chain /\ Caching
      /\ View.live \cap View.outdated = {} /\ Old(View.live) /\ Old(View.outdated)
      /\ ~(writing = "cut" /\ XCut) /\ (Cut => meta = NoMeta)
      /\ (xstage \in {"outdateIds", "mark", "marking"} => View.live \subseteq xids)
  BY DEF GapInv, Cached, Views
<1>2. ASSUME Event \/ OutdatedIds
      PROVE  GapInv'
  <2>1. /\ UNCHANGED <<sent, file, meta, made, store, session, writing, read, gone, clearing>>
        /\ UNCHANGED <<xresponse, xid, xchunk, xread>> /\ xresponse = None /\ (torn => torn')
        /\ \/ /\ xstage = "idle" /\ xstage' \in {"outdate", "sync"}
              /\ xtoken' = saved.token /\ UNCHANGED xids
           \/ /\ xstage = "outdate" /\ xstage' \in {"sync", "outdateIds"}
              /\ xids' = meta.live /\ UNCHANGED xtoken
              /\ xstage' = "outdateIds" => meta # NoMeta
    <3>1. CASE Event
      BY <3>1 DEF Event, Reads, TypeInv, ExtensionOK, ToCache, Adding, InHand
    <3>2. CASE OutdatedIds
      BY <1>0, <3>2 DEF OutdatedIds, Reads, TypeInv, ExtensionOK, ToCache, Adding, InHand
    <3> QED
      BY <1>2, <3>1, <3>2
  <2>2. /\ Applying' /\ Tokens' /\ Gapless'
        /\ UNCHANGED <<saved, token, have, stage, matches, ids, drop, response>>
    BY <2>1, SessionLeft
  <2>3. View' = View /\ Cut' = Cut /\ ~XCut /\ ~XCut' /\ Rewrites' = Rewrites
    BY <2>1 DEF View, Cut, XCut, Rewrites
  <2>4. Views'
    <3>1. xstage' = "outdateIds" => View.live \subseteq xids'
      BY <1>1, <2>1, <2>3 DEF View, Cut
    <3> QED
      BY <1>1, <2>1, <2>3, <3>1 DEF Views, Old, Adding
  <2>5. Files' /\ Chain'
    BY <1>1, <2>1, <2>2, <2>3 DEF Files, Chain, Above
  <2>6. Caching'
    BY <2>1 DEF Caching, ToCache, Adding
  <2>7. Dropping'
    BY <2>1, <2>2, <2>3 DEF GapInv, Dropping, Old, Adding
  <2>8. Reading'
    BY <2>1, <2>2, <2>3 DEF GapInv, Reading, Above, ToCache, Adding
  <2> QED
    BY <2>2, <2>4, <2>5, <2>6, <2>7, <2>8 DEF GapInv, Cached
<1>3. CASE Mark
  <2>1. /\ UNCHANGED <<sent, file, made, store, session, writing, read, gone, clearing>>
        /\ UNCHANGED <<xtoken, xresponse, xid, xchunk>>
        /\ xstage = "marking" /\ xstage' = "sync" /\ UNCHANGED torn
        /\ meta' = [live |-> xread.live \ xids,
                    outdated |-> xread.outdated \cup (xids \cap xread.live)]
    BY <1>3 DEF Mark
  <2>2. /\ Applying' /\ Tokens' /\ Gapless'
        /\ UNCHANGED <<saved, token, have, stage, matches, ids, drop, response>>
    BY <2>1, SessionLeft
  <2>3. writing # "cut" /\ View = xread /\ View.live \subseteq xids
    BY <1>1, <2>1 DEF View, XCut
  <2>4. View' = meta' /\ ~Cut' /\ ~XCut' /\ Rewrites' = Rewrites
    BY <2>1, <2>3 DEF View, Cut, XCut, Rewrites
  <2>5. View'.live = {} /\ View'.outdated = View.outdated \cup View.live
    BY <2>1, <2>3, <2>4
  <2>6. Views'
    BY <1>1, <2>1, <2>4, <2>5 DEF Views, Old, Adding
  <2>7. Files'
    BY <1>1, <2>1, <2>2 DEF Files
  <2>8. Chain'
    BY <2>1, <2>5, NoList DEF Chain, Above
  <2>9. Caching'
    BY <2>1 DEF Caching, ToCache, Adding
  <2>10. Dropping'
    BY <2>1, <2>2, <2>4, <2>5 DEF GapInv, Dropping, Old, Adding
  <2>11. Reading'
    BY <2>1, <2>2, <2>5 DEF GapInv, Reading, Above, ToCache, Adding
  <2> QED
    BY <2>2, <2>6, <2>7, <2>8, <2>9, <2>10, <2>11 DEF GapInv, Cached
<1>4. CASE Crypto
  <2>1. /\ UNCHANGED <<sent, file, meta, made, store, session, writing, read, gone, clearing>>
        /\ UNCHANGED <<xtoken, xids, xread, xchunk>>
        /\ xresponse' = None
        /\ xstage = "crypto" /\ xstage' \in {"sync", "idle"} /\ UNCHANGED torn
    BY <1>4 DEF Crypto
  <2>2. /\ Applying' /\ Tokens' /\ Gapless'
        /\ UNCHANGED <<saved, token, have, stage, matches, ids, drop, response>>
    BY <2>1, SessionLeft
  <2>3. View' = View /\ Rewrites' = Rewrites /\ Cut' = Cut /\ XCut' = XCut
    BY <2>1 DEF View, Rewrites, Cut, XCut
  <2>4. Views'
    BY <1>1, <2>1, <2>3 DEF Views, Old, Adding
  <2>5. xchunk = None
    BY <2>1 DEF TypeInv, ExtensionOK
  <2>6. Files' /\ Chain'
    BY <1>1, <2>1, <2>2, <2>3, <2>5 DEF Files, Sound, Chain, Above
  <2>7. Caching'
    BY <2>1 DEF Caching, ToCache, Adding
  <2>8. Dropping'
    BY <2>1, <2>2, <2>3 DEF GapInv, Dropping, Old, Adding
  <2>9. Reading'
    BY <2>1, <2>2, <2>3 DEF GapInv, Reading, Above, ToCache, Adding
  <2> QED
    BY <2>2, <2>4, <2>6, <2>7, <2>8, <2>9 DEF GapInv, Cached
<1> QED
  BY <1>2, <1>3, <1>4

\* The extension reads or empties the metadata, or writes what it read.
LEMMA MetaGap ==
    ASSUME TypeInv, TypeInv', GapInv, ~lost',
           ReadMeta \/ TruncateMeta \/ (WriteMeta /\ xstage = "settingData")
    PROVE  GapInv'
<1> USE DEF node, write, cache, history
<1>0. /\ View \in Meta /\ View.live \subseteq Id /\ file \in ListFiles
      /\ NoMeta \in Meta /\ NoMeta.live = {} /\ NoMeta.outdated = {}
  BY ViewType
<1>1. /\ Views /\ Files /\ Chain /\ Caching
      /\ View.live \cap View.outdated = {} /\ Old(View.live) /\ Old(View.outdated)
      /\ ~(writing = "cut" /\ XCut) /\ (Cut => meta = NoMeta)
  BY DEF GapInv, Cached, Views
<1>2. /\ UNCHANGED <<sent, file, made, store, session, writing, read, gone, clearing>>
      /\ UNCHANGED <<xtoken, xids, xresponse, xid, xchunk>>
  BY DEF ReadMeta, TruncateMeta, WriteMeta
<1>t. torn => torn'
  BY DEF ReadMeta, TruncateMeta, WriteMeta, Reads
<1>3. /\ xstage' \in ToCache <=> xstage \in ToCache
      /\ xstage' \in Adding <=> xstage \in Adding
      /\ xstage' \in Adding \ {"add"} <=> xstage \in Adding \ {"add"}
      /\ xstage # "update" /\ xstage' # "update" /\ xstage' # "add"
      /\ xstage' \in {"outdateIds", "mark", "marking"} => xstage \in {"outdateIds", "mark", "marking"}
  BY DEF ReadMeta, TruncateMeta, WriteMeta, ToCache, Adding
<1>4. /\ Applying' /\ Tokens' /\ Gapless'
      /\ UNCHANGED <<saved, token, have, stage, matches, ids, drop, response>>
  BY <1>2, SessionLeft
<1>5. Rewrites' = Rewrites
  BY <1>2 DEF Rewrites
<1>6. View' = View /\ ~(writing = "cut" /\ XCut)' /\ (Cut' => meta' = NoMeta)
  <2>1. CASE ReadMeta
    <3>1. UNCHANGED meta /\ ~XCut /\ ~XCut'
      BY <2>1 DEF ReadMeta, XCut
    <3> QED
      BY <1>1, <1>2, <3>1 DEF View, Cut
  <2>2. CASE TruncateMeta
    <3>1. ~XCut /\ XCut' /\ UNCHANGED xread /\ meta = xread /\ meta' = NoMeta /\ writing # "cut"
      BY <2>2 DEF TruncateMeta, XCut, Replaces
    <3> QED
      BY <1>2, <3>1 DEF View
  <2>3. CASE WriteMeta /\ xstage = "settingData"
    <3>1. XCut /\ ~XCut' /\ meta' = xread
      BY <2>3 DEF WriteMeta, XCut
    <3> QED
      BY <1>1, <1>2, <3>1 DEF View, Cut
  <2> QED
    BY <2>1, <2>2, <2>3
<1>7. Views'
  BY <1>2, <1>3, <1>6 DEF GapInv, Cached, Views, Old
<1>8. Files' /\ Chain'
  BY <1>1, <1>2, <1>3, <1>4, <1>6, <1>t DEF Files, Chain, Above
<1>9. Caching'
  <2>1. \A l : Goes(l) => Goes(l)'
    BY <1>2, <1>4, <1>t DEF Goes
  <2> QED
    BY <1>1, <1>2, <1>3, <1>4, <1>6, <2>1 DEF Caching
<1>10. Dropping'
  BY <1>2, <1>3, <1>4, <1>5, <1>6 DEF GapInv, Dropping, Old
<1>11. Reading'
  BY <1>2, <1>3, <1>4, <1>6 DEF GapInv, Reading, Above
<1> QED
  BY <1>4, <1>7, <1>8, <1>9, <1>10, <1>11 DEF GapInv, Cached

\* The extension syncs from the last response, and prepares what to write.
LEMMA LaunchGap ==
    ASSUME TypeInv, TypeInv', GapInv, Launch
    PROVE  GapInv'
<1> USE DEF node, write, cache, history
<1> DEFINE since == IF Last(meta) # None THEN Last(meta).to ELSE xtoken
<1>0. /\ View.live \subseteq Id /\ file \in ListFiles /\ NoMeta.live = {}
      /\ saved.token \in Nat /\ token \in Nat /\ sent \in Nat /\ xtoken \in Nat
  BY ViewType
<1>1. /\ Views /\ Files /\ Chain /\ Caching
      /\ meta = View \/ (meta = NoMeta /\ torn')
  BY DEF GapInv, Cached, Views, Launch, Reads, View, Cut
<1>2. /\ UNCHANGED <<sent, file, meta, made, store, session, writing, read, gone, clearing>>
      /\ UNCHANGED <<xtoken, xids, xid, xchunk, xread>>
      /\ xstage = "sync" /\ xresponse = None
      /\ \/ xresponse' = Response(since) /\ xstage' = "store"
         \/ xstage' = "idle" /\ UNCHANGED xresponse
      /\ torn => torn'
  BY DEF Launch, Reads, TypeInv, ExtensionOK, ToCache, Adding, InHand
<1> HIDE DEF since
<1>3. /\ Applying' /\ Tokens' /\ Gapless'
      /\ UNCHANGED <<saved, token, have, stage, matches, ids, drop, response>>
  BY <1>2, SessionLeft
<1>4. View' = View /\ Rewrites' = Rewrites /\ XCut' = XCut /\ Cut' = Cut
  BY <1>2 DEF View, Rewrites, XCut, Cut
<1>5. xtoken <= saved.token /\ saved.token <= token /\ token <= sent
  BY DEF GapInv, Tokens
<1>6. since \in Nat /\ since <= sent
  <2>1. CASE Last(meta) # None
    <3>1. Max(meta.live) \in meta.live /\ Last(meta) = file[Max(meta.live)] /\ meta.live \subseteq Id
      BY <2>1, LastType DEF TypeInv, CacheOK, Meta
    <3>2. file[Max(meta.live)].to <= sent /\ file[Max(meta.live)] \in Chunk
      BY <1>1, <2>1, <3>1 DEF Files, TypeInv, CacheOK
    <3> QED
      BY <2>1, <3>1, <3>2 DEF since, Chunk
  <2>2. CASE Last(meta) = None
    BY <1>0, <1>5, <2>2 DEF since
  <2> QED
    BY <2>1, <2>2
<1>7. Views'
  BY <1>1, <1>2, <1>4 DEF Views, Old, Adding
<1>8. Files'
  <2>1. /\ Response(since).from = since /\ Response(since).to = sent
        /\ Response(since).events = since + 1 .. sent
    BY DEF Response
  <2>2. Sound(Response(since), saved.token)
    BY <1>0, <1>6, <2>1 DEF Sound
  <2>3. xchunk = None
    BY <1>2 DEF TypeInv, ExtensionOK
  <2> QED
    BY <1>0, <1>1, <1>2, <1>3, <2>1, <2>2, <2>3 DEF Files
<1>9. Chain'
  BY <1>1, <1>2, <1>3, <1>4 DEF Chain, Above
<1>10. Caching'
  <2>1. ASSUME xstage' = "store", NEW l \in View.live, \A i \in View.live : i <= l
        PROVE  Goes(l)'
    <3>1. xresponse'.from = since
      BY <1>2, <2>1 DEF Response
    <3>2. CASE meta = View
      <4>1. Last(meta) = file[l]
        <5>1. Max(meta.live) \in meta.live /\ \A i \in meta.live : i <= Max(meta.live)
          BY <1>0, <2>1, <3>2, MaxOf
        <5>2. Max(meta.live) = l
          <6>1. Max(meta.live) <= l /\ l <= Max(meta.live)
            BY <2>1, <3>2, <5>1
          <6>2. Max(meta.live) \in Int /\ l \in Int
            BY <1>0, <2>1, <3>2, <5>1 DEF Id
          <6> QED
            BY <6>1, <6>2
        <5> QED
          BY <2>1, <3>2, <5>2 DEF Last
      <4>2. file[l] # None => since = file[l].to
        BY <4>1 DEF since
      <4>3. file[l] # None => since <= file[l].to
        BY <1>6, <4>2
      <4> QED
        BY <1>2, <3>1, <4>2, <4>3 DEF Goes
    <3>3. CASE meta # View
      <4>1. meta.live = {} /\ torn'
        BY <1>0, <1>1, <3>3
      <4>2. since = xtoken
        BY <4>1 DEF since, Last
      <4> QED
        BY <1>3, <1>5, <3>1, <4>1, <4>2 DEF Goes
    <3> QED
      BY <3>2, <3>3
  <2> QED
    BY <1>2, <1>4, <2>1 DEF Caching, ToCache, Adding
<1>11. Dropping'
  BY <1>2, <1>3, <1>4 DEF GapInv, Dropping, Old, Adding
<1>12. Reading'
  <2>1. ASSUME View.live = {}, xstage' = "store"
        PROVE  xresponse'.from <= token /\ token <= xresponse'.to
    <3>1. meta.live = {}
      BY <1>0, <1>1, <2>1
    <3>2. since = xtoken
      BY <3>1 DEF since, Last
    <3>3. xresponse'.from = xtoken /\ xresponse'.to = sent
      BY <1>2, <2>1, <3>2 DEF Response
    <3> QED
      BY <1>0, <1>5, <3>3
  <2> QED
    BY <1>2, <1>3, <1>4, <2>1 DEF GapInv, Reading, Above, ToCache, Adding
<1> QED
  BY <1>3, <1>7, <1>8, <1>9, <1>10, <1>11, <1>12 DEF GapInv, Cached

LEMMA StoreGap ==
    ASSUME TypeInv, TypeInv', GapInv, Store
    PROVE  GapInv'
<1> USE DEF node, write, history
<1>0. /\ View.live \subseteq Id /\ file \in ListFiles /\ NoMeta.live = {}
      /\ saved.token \in Nat /\ token \in Nat /\ sent \in Nat /\ xtoken \in Nat
  BY ViewType
<1>1. /\ Views /\ Files /\ Chain /\ Caching /\ meta \in {View, NoMeta}
      /\ Old(View.live) /\ Old(View.outdated) /\ View.outdated \subseteq Id
  BY ViewType DEF GapInv, Cached, Views, View, Cut
<1>2. /\ UNCHANGED <<sent, file, meta, store, session, writing, read, gone, clearing>>
      /\ UNCHANGED <<xtoken, xids, xresponse, xread>>
      /\ xstage = "store" /\ xresponse # None /\ xresponse \in Chunk /\ (torn => torn')
  BY NoneAssumption DEF Store, Reads, TypeInv, ExtensionOK, ToCache
<1>3. /\ Applying' /\ Tokens' /\ Gapless'
      /\ UNCHANGED <<saved, token, have, stage, matches, ids, drop, response>>
  BY <1>2, SessionLeft
<1>4. /\ Sound(xresponse, saved.token) /\ xresponse.from \in Nat /\ xresponse.to \in Nat
      /\ xresponse.from <= xresponse.to
  BY <1>1, <1>2 DEF Files, Sound, Chunk
<1>5. CASE /\ Last(meta) # None
           /\ xid' = Max(meta.live)
           /\ xchunk' = Merged(xresponse, Last(meta))
           /\ xstage' = "update"
           /\ UNCHANGED made
  <2> DEFINE last == Last(meta)
  <2>1. /\ xid' \in meta.live /\ last = file[xid'] /\ last \in Chunk /\ last # None
        /\ \A i \in meta.live : i <= xid'
    BY <1>5, LastType DEF TypeInv, CacheOK
  <2> HIDE DEF last
  <2>2. meta = View /\ xid' \in Id
    BY <1>0, <1>1, <2>1
  <2>3. View' = View /\ Rewrites' = Rewrites /\ XCut' = XCut /\ Cut' = Cut
    BY <1>2, <1>5 DEF View, Rewrites, XCut, Cut
  <2>4. \A S : Old(S) => \A i \in S : i <= made
    BY DEF Old
  <2>5. Views'
    BY <1>1, <1>2, <1>5, <2>3 DEF Views, Old, Adding
  <2>6. /\ Sound(last, saved.token) /\ last.from \in Nat /\ last.to \in Nat
        /\ last.from <= last.to /\ last.to <= xresponse.to
        /\ xresponse.from <= last.to \/ xresponse.from <= saved.token
    <3>1. Sound(last, saved.token) /\ last.to <= xresponse.to
      BY <1>1, <1>2, <2>1, <2>2 DEF Files
    <3>2. Goes(xid')
      BY <1>1, <1>2, <2>1, <2>2 DEF Caching, ToCache
    <3> QED
      BY <2>1, <3>1, <3>2 DEF Goes, Sound, Chunk
  <2>7. /\ xchunk'.from = last.from /\ xchunk'.to = xresponse.to
        /\ xchunk'.events = last.events \cup xresponse.events
    BY <1>5 DEF Merged, last
  <2>8. Sound(xchunk', saved.token)
    <3>1. xchunk'.from <= xchunk'.to
      BY <1>4, <2>6, <2>7
    <3>2. xchunk'.events \subseteq 1..xchunk'.to
      <4>1. last.events \subseteq 1..last.to /\ xresponse.events \subseteq 1..xresponse.to
        BY <1>2, <1>4, <2>1, <2>6 DEF Sound
      <4>2. 1..last.to \subseteq 1..xresponse.to
        BY <1>4, <2>6
      <4> QED
        BY <2>7, <4>1, <4>2
    <3>3. ASSUME NEW p \in xchunk'.from + 1 .. xchunk'.to, p > saved.token
          PROVE  p \in xchunk'.events
      <4>1. p \in last.from + 1 .. xresponse.to
        BY <2>7, <3>3
      <4>2. CASE p <= last.to
        <5>1. p \in last.from + 1 .. last.to
          BY <1>4, <2>6, <4>1, <4>2
        <5> QED
          BY <2>1, <2>6, <2>7, <3>3, <5>1 DEF Sound
      <4>3. CASE ~(p <= last.to)
        <5>1. p \in xresponse.from + 1 .. xresponse.to
          BY <1>0, <1>4, <2>6, <3>3, <4>1, <4>3
        <5> QED
          BY <1>2, <1>4, <2>7, <3>3, <5>1 DEF Sound
      <4> QED
        BY <4>2, <4>3
    <3> QED
      BY <3>1, <3>2, <3>3 DEF Sound
  <2>9. Files'
    BY <1>1, <1>2, <1>3, <2>7, <2>8 DEF Files
  <2>10. Chain'
    BY <1>1, <1>2, <1>3, <2>1, <2>2, <2>3 DEF Chain, Above
  <2>11. Caching'
    <3>1. file'[xid'] = last
      BY <1>2, <2>1
    <3> QED
      BY <1>2, <1>3, <1>5, <2>6, <2>7, <3>1 DEF Caching, ToCache, Adding
  <2>12. Dropping'
    BY <1>2, <1>3, <1>5, <2>3 DEF GapInv, Dropping, Old, Adding
  <2>13. Reading'
    <3>1. stage \in {"outdated", "merge"} /\ ids # {} => Above(ids)'
      BY <1>3, <2>1, <2>2 DEF GapInv, Reading, Above
    <3> QED
      BY <1>2, <1>3, <1>5, <2>3, <3>1 DEF GapInv, Reading, ToCache, Adding
  <2> QED
    BY <1>3, <2>5, <2>9, <2>10, <2>11, <2>12, <2>13 DEF GapInv, Cached
<1>6. CASE /\ made < MaxChunks
           /\ made' = made + 1
           /\ xid' = made + 1
           /\ xchunk' = xresponse
           /\ xstage' = "add"
  <2>1. View' = View /\ Rewrites' = Rewrites /\ XCut' = XCut /\ Cut' = Cut
    BY <1>2, <1>6 DEF View, Rewrites, XCut, Cut
  <2>2. ASSUME NEW S, S \subseteq Id, Old(S)
        PROVE  \A i \in S : i <= made' /\ i # xid'
    <3>1. made \in Nat /\ \A i \in S : i \in Nat /\ i <= made
      BY <2>2 DEF Old, TypeInv, CacheOK, Id
    <3> QED
      BY <1>6, <3>1
  <2>3. Views'
    <3>1. (\A i \in View.live : i <= made' /\ i # xid') /\ (\A i \in View.outdated : i <= made' /\ i # xid')
      BY <1>0, <1>1, <2>2
    <3> QED
      BY <1>1, <1>2, <1>6, <2>1, <3>1 DEF Views, Old
  <2>4. Files'
    BY <1>1, <1>2, <1>3, <1>6 DEF Files
  <2>5. Chain'
    BY <1>1, <1>2, <1>3, <1>6, <2>1 DEF Chain, Above
  <2>6. Caching'
    <3>1. \A l : Goes(l) => Goes(l)'
      BY <1>2, <1>3 DEF Goes
    <3> QED
      BY <1>1, <1>2, <1>6, <2>1, <3>1 DEF Caching, ToCache, Adding
  <2>7. Dropping'
    <3>1. /\ \A i \in drop : i <= made' /\ i # xid'
          /\ \A i \in ids : i <= made' /\ i # xid'
          /\ \A i \in gone : i <= made' /\ i # xid'
      BY <2>2 DEF GapInv, Dropping, TypeInv, SessionOK, WriteOK
    <3> QED
      BY <1>2, <1>3, <2>1, <3>1 DEF GapInv, Dropping, Old
  <2>8. Reading'
    BY <1>2, <1>3, <1>6, <2>1 DEF GapInv, Reading, Above, ToCache, Adding
  <2> QED
    BY <1>3, <2>3, <2>4, <2>5, <2>6, <2>7, <2>8 DEF GapInv, Cached
<1> QED
  BY <1>5, <1>6 DEF Store

\* The extension writes a file: a new one, or the last of the list.
LEMMA WriteFileGap ==
    ASSUME TypeInv, TypeInv', GapInv, WriteFile
    PROVE  GapInv'
<1> USE DEF node, write, history
<1>0. /\ View.live \subseteq Id /\ file \in ListFiles /\ file' \in ListFiles
      /\ saved.token \in Nat /\ ids \subseteq Id
  BY ViewType DEF TypeInv, CacheOK, ListFiles, SessionOK
<1>1. Views /\ Files /\ Chain /\ Caching
  BY DEF GapInv, Cached
<1>2. /\ UNCHANGED <<sent, meta, made, store, session, writing, read, gone, clearing>>
      /\ UNCHANGED <<xtoken, xids, xresponse, xid, xread>>
      /\ UNCHANGED torn
      /\ xstage \in {"update", "add"} /\ xid \in Id /\ xchunk # None /\ xresponse # None
      /\ xchunk \in Chunk /\ xresponse \in Chunk
      /\ file' = [file EXCEPT ![xid] = xchunk] /\ xchunk' = None
      /\ xstage' = IF xstage = "update" THEN "account" ELSE "added"
  BY NoneAssumption DEF WriteFile, TypeInv, ExtensionOK, ToCache, Adding
<1>3. file'[xid] = xchunk /\ \A i \in Id : i # xid => file'[i] = file[i]
  BY <1>2 DEF TypeInv, CacheOK
<1>4. /\ Applying' /\ Tokens' /\ Gapless'
      /\ UNCHANGED <<saved, token, have, stage, matches, ids, drop, response>>
  BY <1>2, SessionLeft
<1>5. View' = View /\ Rewrites' = Rewrites /\ XCut' = XCut /\ Cut' = Cut
  BY <1>2 DEF View, Rewrites, XCut, Cut
<1>6. xstage' \in Adding <=> xstage = "add"
  BY <1>2 DEF Adding
<1>7. xchunk.to = xresponse.to /\ xresponse.to <= sent /\ Sound(xchunk, saved.token)
      /\ xchunk.from \in Nat /\ xchunk.to \in Nat /\ xchunk.from <= xchunk.to
  BY <1>1, <1>2 DEF Files, Sound, Chunk
<1>8. Views'
  BY <1>1, <1>2, <1>5, <1>6 DEF Views, Old, Adding
<1>9. Files'
  BY <1>1, <1>2, <1>3, <1>4, <1>7 DEF Files, Sound
<1>10. xstage = "update" /\ file[xid] # None =>
           /\ xchunk.from = file[xid].from /\ file[xid].events \subseteq xchunk.events
           /\ file[xid].to <= xchunk.to
  BY <1>1, <1>2, <1>7 DEF Caching, Files
<1>11. ASSUME NEW S, S \subseteq Id, Above(S), xstage = "add" => xid \notin S,
              Whole(file, saved.token, S)
       PROVE  /\ Whole(file', saved.token, S)
              /\ Linked(file, S) => Linked(file', S)
  <2>1. CASE xid \in S
    <3>1. xstage = "update" /\ \A i \in S : i <= xid
      BY <1>2, <1>11, <2>1 DEF Above
    <3>2. Sound(file[xid], saved.token)
      BY <1>1, <1>2 DEF Files
    <3>3. \A i \in S : i # xid => file'[i] = file[i]
      BY <1>3, <1>11
    <3>4. /\ file'[xid] # None /\ Sound(file'[xid], saved.token)
          /\ file[xid] # None => /\ file'[xid].from = file[xid].from /\ file[xid].to <= file'[xid].to
                                 /\ file[xid].events \subseteq file'[xid].events
      BY <1>2, <1>3, <1>7, <1>10, <3>1
    <3>5. /\ file \in ListFiles /\ file' \in ListFiles /\ saved.token \in Nat
          /\ S \subseteq Id /\ xid \in Id /\ xid \in S /\ \A i \in S : i <= xid
          /\ Whole(file, saved.token, S)
      BY <1>0, <1>2, <1>11, <2>1, <3>1
    <3> QED
      BY <3>2, <3>3, <3>4, <3>5, GrownList
  <2>2. CASE xid \notin S
    <3>1. \A i \in S : file'[i] = file[i]
      BY <1>3, <1>11, <2>2
    <3>2. saved.token <= saved.token
      BY <1>0
    <3> QED
      BY <1>0, <1>11, <3>1, <3>2, SameList
  <2> QED
    BY <2>1, <2>2
<1>12. xstage = "add" => xid \notin View.live /\ xid \notin ids
  BY <1>1 DEF Views, GapInv, Dropping, Old, Adding
<1>13. Chain'
  <2>1. Whole(file', saved.token, View.live) /\ (~torn => Linked(file', View.live))
    BY <1>0, <1>1, <1>11, <1>12 DEF Chain
  <2> QED
    BY <1>2, <1>4, <1>5, <2>1 DEF Chain, Above
<1>14. Caching'
  <2>1. CASE xstage = "update"
    BY <1>2, <2>1 DEF Caching, ToCache, Adding
  <2>2. CASE xstage = "add"
    <3>1. \A l \in View.live : Goes(l)' <=> Goes(l)
      BY <1>0, <1>2, <1>3, <1>4, <1>12, <2>2 DEF Goes
    <3>2. xstage' = "added" /\ file'[xid] = xresponse
      BY <1>1, <1>2, <1>3, <2>2 DEF Caching
    <3> QED
      BY <1>1, <1>2, <1>5, <2>2, <3>1, <3>2 DEF Caching, ToCache, Adding
  <2> QED
    BY <1>2, <2>1, <2>2
<1>15. Dropping'
  <2>1. Old(drop)' /\ Old(ids)' /\ Old(gone)'
    BY <1>2, <1>4, <1>6 DEF GapInv, Dropping, Old, Adding
  <2>2. \A i, j \in View.live : i < j => i # xid
    <3>1. \A i, j \in View.live : i < j => ~(j <= i)
      BY <1>0 DEF Id
    <3> QED
      BY <1>1, <1>2, <1>12, <3>1 DEF Chain, Above
  <2>3. stage = "delete" =>
            \A i, j \in View.live : i < j /\ i \in gone /\ j \in drop => file'[i] = None
    <3>1. \A i \in View.live : i # xid => file'[i] = file[i]
      BY <1>0, <1>3
    <3>2. stage = "delete" =>
              \A i, j \in View.live : i < j /\ i \in gone /\ j \in drop => file[i] = None
      BY DEF GapInv, Dropping
    <3> QED
      BY <2>2, <3>1, <3>2
  <2> QED
    BY <1>2, <1>4, <1>5, <2>1, <2>3 DEF GapInv, Dropping
<1>16. Reading'
  <2>1. ASSUME NEW S, S \subseteq Id, xstage = "add" => xid \notin S, Meets(file, token, S)
        PROVE  Meets(file', token, S)
    <3>1. PICK i \in On(file, S) : file[i].from <= token /\ token <= file[i].to
      BY <2>1 DEF Meets
    <3>2. file[i].to \in Nat /\ token \in Nat /\ i \in S /\ file[i] # None
      BY <1>0, <2>1, <3>1, FileOf, ViewType
    <3>3. CASE i = xid
      <4>1. xchunk.from = file[i].from /\ file[i].to <= xchunk.to
        BY <1>2, <1>10, <2>1, <3>2, <3>3
      <4>2. file'[i] # None /\ file'[i].from <= token /\ token <= file'[i].to
        BY <1>2, <1>3, <1>7, <3>1, <3>2, <3>3, <4>1
      <4> QED
        BY <3>2, <4>2 DEF Meets, On
    <3>4. CASE i # xid
      BY <1>3, <2>1, <3>1, <3>2, <3>4 DEF Meets, On
    <3> QED
      BY <3>3, <3>4
  <2>2. stage = "ids" /\ matches =>
            /\ View.live = {} \/ Meets(file', token, View.live)
            /\ View.live = {} /\ xstage' \in ToCache =>
                   xresponse.from <= token /\ token <= xresponse.to
    <3>1. xstage' \in ToCache => xstage \in ToCache
      BY <1>2 DEF ToCache, Adding
    <3> QED
      BY <1>0, <1>12, <2>1, <3>1 DEF GapInv, Reading
  <2>3. stage \in {"outdated", "merge"} /\ ids # {} =>
            /\ Meets(file', token, ids) /\ Whole(file', saved.token, ids)
            /\ ids \subseteq View.live \/ ids \cap View.live = {}
    BY <1>0, <1>11, <1>12, <2>1 DEF GapInv, Reading
  <2>4. Above(ids)'
    BY <1>2 DEF Above
  <2> QED
    BY <1>2, <1>4, <1>5, <2>2, <2>3, <2>4 DEF Reading
<1> QED
  BY <1>4, <1>8, <1>9, <1>13, <1>14, <1>15, <1>16 DEF GapInv, Cached

\* The extension lists the new file.
LEMMA AppendGap ==
    ASSUME TypeInv, TypeInv', GapInv, WriteMeta, xstage = "appending"
    PROVE  GapInv'
<1> USE DEF node, write, history
<1> DEFINE R == View.live \cup {xid}
<1>0. /\ View \in Meta /\ View.live \subseteq Id /\ View.outdated \subseteq Id /\ file \in ListFiles
      /\ saved.token \in Nat /\ token \in Nat
  BY ViewType
<1>1. /\ Views /\ Files /\ Chain /\ Caching
      /\ View.live \cap View.outdated = {} /\ Old(View.live) /\ Old(View.outdated)
      /\ ~(writing = "cut" /\ XCut)
  BY DEF GapInv, Cached, Views
<1>2. /\ UNCHANGED <<sent, file, made, store, session, writing, read, gone, clearing>>
      /\ UNCHANGED <<xtoken, xids, xresponse, xid, xchunk>>
      /\ UNCHANGED torn
      /\ xstage \in Adding /\ xstage # "add" /\ xstage \in ToCache /\ xstage' = "account"
      /\ meta' = [xread EXCEPT !.live = @ \cup {xid}]
  BY DEF WriteMeta, Adding, ToCache
<1>3. /\ Applying' /\ Tokens' /\ Gapless'
      /\ UNCHANGED <<saved, token, have, stage, matches, ids, drop, response>>
  BY <1>2, SessionLeft
<1>4. XCut /\ ~XCut' /\ ~Cut' /\ Rewrites' = Rewrites /\ View = xread /\ View' = meta'
  <2>1. XCut /\ ~XCut' /\ writing # "cut" /\ Rewrites' = Rewrites
    BY <1>1, <1>2 DEF XCut, Rewrites
  <2> QED
    BY <1>2, <2>1 DEF View, Cut
<1>5. View'.live = R /\ View'.outdated = View.outdated
  BY <1>0, <1>2, <1>4 DEF Meta
<1>6. /\ xid \in Id /\ xid = made /\ made \in Nat /\ xresponse # None /\ xresponse \in Chunk
      /\ file[xid] = xresponse
  BY <1>1, <1>2, NoneAssumption DEF TypeInv, ExtensionOK, CacheOK, Caching
<1>7. ASSUME NEW S, S \subseteq Id, Old(S)
      PROVE  (\A i \in S : i < xid) /\ xid \notin S
  <2>1. \A i \in S : i \in Nat /\ i <= made /\ i # xid
    BY <1>2, <1>7 DEF Old, Id
  <2> QED
    BY <1>6, <2>1
<1>8. (\A i \in View.live : i < xid) /\ xid \notin View.live /\ xid \notin View.outdated
  BY <1>0, <1>1, <1>7
<1>9. Views'
  <2>1. \A i \in R : i <= made
    BY <1>1, <1>6 DEF Old
  <2>2. View'.live \cap View'.outdated = {}
    BY <1>1, <1>5, <1>8
  <2> QED
    BY <1>1, <1>2, <1>4, <1>5, <2>1, <2>2 DEF Views, Old, Adding
<1>10. Files'
  BY <1>1, <1>2, <1>3 DEF Files
<1>11. Chain'
  <2>1. \A l \in On(file, View.live) : (\A i \in View.live : i <= l) => Goes(l) /\ file[l] # None
    BY <1>1, <1>2 DEF Caching, On
  <2>2. Sound(file[xid], saved.token)
    BY <1>1, <1>6 DEF Files
  <2>3. \A i \in On(file, View.live) : file[i].to <= file[xid].to
    BY <1>0, <1>1, <1>6 DEF Files, On
  <2>4. \A l \in On(file, View.live) : (\A i \in View.live : i <= l) =>
            file[xid].from <= file[l].to \/ file[xid].from <= saved.token
    BY <1>6, <2>1 DEF Goes
  <2>5. ~torn => \A l \in On(file, View.live) : (\A i \in View.live : i <= l) =>
            file[xid].from = file[l].to
    BY <1>6, <2>1 DEF Goes
  <2>6. Whole(file, saved.token, View.live) /\ (~torn => Linked(file, View.live))
    BY <1>1 DEF Chain
  <2>7. Whole(file, saved.token, R) /\ (~torn => Linked(file, R))
    BY <1>0, <1>6, <1>8, <2>2, <2>3, <2>4, <2>5, <2>6, AppendedList
  <2> HIDE DEF R
  <2> QED
    BY <1>2, <1>3, <1>5, <2>7 DEF Chain, Above
<1>12. Caching'
  BY <1>2 DEF Caching, ToCache, Adding
<1>13. /\ Old(drop) /\ Old(ids) /\ Old(gone)
       /\ drop \subseteq Id /\ ids \subseteq Id /\ gone \subseteq Id
  BY DEF GapInv, Dropping, TypeInv, SessionOK, WriteOK
<1>14. Dropping'
  <2>1. xid \notin drop /\ xid \notin gone /\ \A i \in View.live : ~(xid < i)
    <3>1. \A i \in View.live : i \in Int /\ xid \in Int
      BY <1>0, <1>6 DEF Id
    <3> QED
      BY <1>7, <1>8, <1>13, <3>1
  <2>2. \A i, j \in R : i < j /\ j \in drop \cup gone => i \in View.live /\ j \in View.live
    BY <2>1
  <2>3. Old(drop)' /\ Old(ids)' /\ Old(gone)'
    BY <1>2, <1>3, <1>13 DEF Old, Adding
  <2>4. /\ \A i, j \in R : i < j /\ j \in gone => i \in gone
        /\ \A i, j \in R : i < j /\ j \in drop => i \in drop \cup gone
        /\ stage = "delete" => \A i, j \in R : i < j /\ i \in gone /\ j \in drop => file[i] = None
    BY <2>2 DEF GapInv, Dropping
  <2> HIDE DEF R
  <2> QED
    BY <1>2, <1>3, <1>4, <1>5, <2>3, <2>4 DEF GapInv, Dropping
<1>15. Reading'
  <2>1. stage = "ids" /\ matches => Meets(file, token, R)
    <3>1. CASE View.live = {}
      <4>1. stage = "ids" /\ matches => file[xid].from <= token /\ token <= file[xid].to
        BY <1>2, <1>6, <3>1 DEF GapInv, Reading
      <4> QED
        BY <1>6, <4>1 DEF Meets, On
    <3>2. CASE View.live # {}
      BY <3>2 DEF GapInv, Reading, Meets, On
    <3> QED
      BY <3>1, <3>2
  <2>2. R # {} /\ xid \notin ids
    BY <1>7, <1>13
  <2>3. ids \subseteq View.live \/ ids \cap View.live = {} => ids \subseteq R \/ ids \cap R = {}
    BY <2>2
  <2> HIDE DEF R
  <2> QED
    BY <1>2, <1>3, <1>5, <2>1, <2>2, <2>3 DEF GapInv, Reading, Above
<1> QED
  BY <1>3, <1>9, <1>10, <1>11, <1>12, <1>14, <1>15 DEF GapInv, Cached

LEMMA StepGap ==
    ASSUME TypeInv, TypeInv', GapInv, ~lost', [Next]_vars
    PROVE  GapInv'
<1>1. CASE CacheStep \/ Sync \/ Synced \/ Commit \/ PauseAndResume \/ Send \/ KillSession
           \/ KillExtension
  BY <1>1, SessionGap, DeleteGap, RewriteGap, KillGap DEF CacheStep
<1>2. CASE Event \/ ExtensionStep
  <2>1. CASE WriteMeta
    <3>1. xstage \in {"appending", "settingData"}
      BY <2>1 DEF WriteMeta
    <3> QED
      BY <2>1, <3>1, AppendGap, MetaGap
  <2>2. CASE Event \/ OutdatedIds \/ Mark \/ Launch \/ Store \/ WriteFile \/ ReadMeta
             \/ TruncateMeta \/ Crypto
    BY <2>2, EventGap, LaunchGap, StoreGap, WriteFileGap, MetaGap
  <2> QED
    BY <1>2, <2>1, <2>2 DEF ExtensionStep
<1>3. CASE UNCHANGED vars
  <2>1. /\ UNCHANGED <<sent, saved, token, have, stage, matches, ids, drop, response>>
        /\ UNCHANGED <<cache, extension, write, torn>>
    BY <1>3 DEF vars, node, store, session, history
  <2>2. UNCHANGED <<file, made, xstage, xid, xresponse, xtoken, writing, gone, clearing>>
    BY <2>1 DEF cache, extension, write
  <2>3. saved.token <= saved.token /\ sent <= sent
    BY ViewType
  <2>4. View' = View /\ Cached'
    BY <2>1, <2>3, QuietGap DEF GapInv
  <2>5. Dropping' /\ Reading' /\ Applying' /\ Tokens' /\ Gapless'
    BY <2>1, <2>2, <2>4 DEF GapInv, Dropping, Old, Rewrites, Reading, Above, Applying, Tokens, Gapless
  <2> QED
    BY <2>4, <2>5 DEF GapInv
<1> QED
  BY <1>1, <1>2, <1>3 DEF Next

\* What is lost stays so.
LEMMA LostStays ==
    ASSUME lost, [Next]_vars
    PROVE  lost'
<1> USE DEF history
<1>1. CASE CacheStep
  BY <1>1 DEF CacheStep, Look, ReadIds, ReadOutdated, Merge, ApplyCache, Delete, ReadDropped,
      Truncate, Forget, Again, ReadData, DeleteOne, ReadEntry, DeleteData, RemoveMeta, Replaces
<1>2. CASE Event \/ ExtensionStep
  BY <1>2 DEF Event, ExtensionStep, OutdatedIds, Mark, Launch, Store, WriteFile, ReadMeta,
      TruncateMeta, WriteMeta, Crypto, Replaces
<1>3. CASE Sync \/ Synced \/ Commit \/ PauseAndResume \/ Send \/ KillSession \/ KillExtension
  BY <1>3 DEF Sync, Synced, Commit, PauseAndResume, Send, KillSession, KillExtension
<1>4. CASE UNCHANGED vars
  BY <1>4 DEF vars
<1> QED
  BY <1>1, <1>2, <1>3, <1>4 DEF Next

\* What is shown: everything above, until an update of the metadata is lost.
GapKept == lost \/ GapInv
LEMMA GapAlways == Spec => []GapKept
<1>1. Init => GapKept
  BY InitGap DEF GapKept
<1>2. TypeInv /\ TypeInv' /\ GapKept /\ [Next]_vars => GapKept'
  BY StepGap, LostStays DEF GapKept
<1> QED
  BY <1>1, <1>2, Types, PTL DEF Spec

\* Whatever is killed and however the metadata is torn, the session never has a
\* token beyond an event it has not applied, until one of the processes
\* replaces metadata of the other that it has not read.
THEOREM NeverSkips == Spec => []NoGap
<1>1. GapKept => NoGap
  BY DEF GapKept, GapInv, Gapless, NoGap
<1> QED
  BY <1>1, GapAlways, PTL

\* Until then, and until metadata is read half written, the cached responses
\* continue each other, as the session is to apply them one after the other.
THEOREM ChainKept == Spec => []Chained
<1>1. ASSUME TypeInv, GapKept
      PROVE  Chained
  <2> SUFFICES ASSUME ~lost, ~torn, First(meta) # None
               PROVE  \A i, j \in meta.live :
                          i < j /\ (\A k \in meta.live : k <= i \/ j <= k) =>
                              file[j] # None /\ file[i].to = file[j].from
    BY DEF Chained
  <2>1. meta = View /\ Upward(file, meta.live) /\ Linked(file, meta.live)
    <3>1. meta # NoMeta
      BY DEF First, NoMeta
    <3> QED
      BY <1>1, <3>1 DEF GapKept, GapInv, Cached, Views, View, Cut, Chain, Whole
  <2>2. \A i \in meta.live : file[i] # None
    <3> SUFFICES ASSUME NEW i \in meta.live PROVE file[i] # None
      OBVIOUS
    <3>1. /\ Min(meta.live) \in meta.live /\ First(meta) = file[Min(meta.live)]
          /\ Min(meta.live) <= i
      BY <1>1, LastType DEF TypeInv, CacheOK
    <3>2. Min(meta.live) \in Int /\ i \in Int
      BY <1>1, <3>1 DEF TypeInv, CacheOK, Meta, Id
    <3>3. Min(meta.live) = i \/ Min(meta.live) < i
      BY <3>1, <3>2
    <3> QED
      BY <2>1, <3>1, <3>3 DEF Upward
  <2> QED
    BY <2>1, <2>2 DEF Linked
<1> QED
  BY <1>1, GapAlways, Types, PTL
=============================================================================
