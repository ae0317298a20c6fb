----------------------------- MODULE SourceCache -----------------------------
(***************************************************************************)
(* FileCollector.readSource over the context cache, for one source file:   *)
(* a collect stats the file, asks the cache by stat, and on a miss joins   *)
(* the load in flight or starts one, which reads the file and stores the   *)
(* row.  The file is rewritten, and the row invalidated, at any await.     *)
(***************************************************************************)
EXTENDS Integers, FiniteSets, FiniteSetsExt

CONSTANTS
  Collects,         \* runs of readSource, each by its own caller
  MaxVersions,      \* bound on contents of the file
  MaxInvalidations, \* bound on artifact events for the file
  MaxCacheFaults    \* bound on failing reads and statements

ASSUME CacheAssumption ==
  /\ IsFiniteSet(Collects)
  /\ MaxVersions \in Nat \ {0} /\ {MaxInvalidations, MaxCacheFaults} \subseteq Nat

VARIABLES
  disk,      \* the file: its content's version, its stat, the first version under it
  cached,    \* the row of context_source_cache: content and stat
  inFlight,  \* the collect whose load the others join, if there is one
  collect,   \* collect -> its step, the stat it took, what it read, whom it joined
  began,     \* collect -> the version the file had when it began
  floor,     \* collect -> the version its caller may expect at least
  dropped,   \* the version an invalidation leaves no row older than
  invalidations, cacheFaults

cacheHistory == <<began, floor, dropped>>
cacheVars == <<disk, cached, inFlight, collect, cacheHistory, invalidations, cacheFaults>>

NoRow == [content |-> 0, stat |-> 0]

CacheInit ==
  /\ disk = [content |-> 1, stat |-> 1, since |-> 1]
  /\ cached = NoRow
  /\ inFlight = {}
  /\ collect = [c \in Collects |-> [step |-> "idle", stat |-> 0, content |-> 0]]
  /\ began = [c \in Collects |-> 0]
  /\ floor = [c \in Collects |-> 0]
  /\ dropped = 0
  /\ invalidations = 0 /\ cacheFaults = 0

CollectAt(c, step) == collect[c].step = step
Storing == {c \in Collects : CollectAt(c, "storing")}
Running == {c \in Collects : ~ (collect[c].step \in {"idle", "done", "failed"})}

CacheFault == cacheFaults < MaxCacheFaults /\ cacheFaults' = cacheFaults + 1

\* The file is rewritten.  That moves its stat, or keeps both mtime and size,
\* which a file system permits.
Write ==
  /\ disk.content < MaxVersions
  /\ \/ disk' = [content |-> disk.content + 1, stat |-> disk.stat + 1, since |-> disk.content + 1]
     \/ disk' = [disk EXCEPT !.content = @ + 1]
  /\ UNCHANGED <<cached, inFlight, collect, cacheHistory, invalidations, cacheFaults>>

\* An artifact event drops the row, however late its handler runs.  A load that
\* has read the file already will still store what it read.
Invalidate ==
  /\ invalidations < MaxInvalidations
  /\ invalidations' = invalidations + 1
  /\ cached' = NoRow
  /\ dropped' = Min({disk.content} \cup {collect[c].content : c \in Storing})
  /\ UNCHANGED <<disk, inFlight, collect, began, floor, cacheFaults>>

\* What the caller may rely on: a row is no older than the present stat and the
\* last invalidation, a load in flight no older than when it began.
Reliable ==
  Min({Max({disk.since, dropped})} \cup {began[c] : c \in Running})

StatFile(c) ==
  /\ CollectAt(c, "idle")
  /\ collect' = [collect EXCEPT ![c].step = "asking", ![c].stat = disk.stat]
  /\ began' = [began EXCEPT ![c] = disk.content]
  /\ floor' = [floor EXCEPT ![c] = Reliable]
  /\ UNCHANGED <<disk, cached, inFlight, dropped, invalidations, cacheFaults>>

\* Mutant: the row of the source is a hit whatever its stat.
HitsAny(c) == cached # NoRow

Hits(c) == cached # NoRow /\ cached.stat = collect[c].stat

\* getByStat: a hit ends the collect, an error of the SELECT fails it.
GetByStat(c) ==
  /\ CollectAt(c, "asking")
  /\ \/ /\ Hits(c)
        /\ collect' = [collect EXCEPT ![c].step = "done", ![c].content = cached.content]
        /\ UNCHANGED cacheFaults
     \/ /\ ~ Hits(c)
        /\ collect' = [collect EXCEPT ![c].step = "missed"]
        /\ UNCHANGED cacheFaults
     \/ /\ CacheFault
        /\ collect' = [collect EXCEPT ![c].step = "failed"]
  /\ UNCHANGED <<disk, cached, inFlight, cacheHistory, invalidations>>

\* A miss joins the load in flight, or becomes it.
JoinOrLoad(c) ==
  /\ CollectAt(c, "missed")
  /\ IF inFlight = {}
     THEN /\ inFlight' = {c}
          /\ collect' = [collect EXCEPT ![c].step = "reading"]
     ELSE /\ collect' = [collect EXCEPT ![c].step = "joined"]
          /\ UNCHANGED inFlight
  /\ UNCHANGED <<disk, cached, cacheHistory, invalidations, cacheFaults>>

AfterLoad(failed) == {}

\* The load ends for its owner and for everyone who joined it.
EndLoad(c, failed, content) ==
  /\ inFlight' = AfterLoad(failed)
  /\ collect' = [d \in Collects |->
                   IF d = c \/ CollectAt(d, "joined")
                   THEN [collect[d] EXCEPT !.step = IF failed THEN "failed" ELSE "done",
                                           !.content = content]
                   ELSE collect[d]]

ReadSource(c) ==
  /\ CollectAt(c, "reading")
  /\ \/ /\ collect' = [collect EXCEPT ![c].step = "storing", ![c].content = disk.content]
        /\ UNCHANGED <<inFlight, cacheFaults>>
     \/ CacheFault /\ EndLoad(c, TRUE, 0)
  /\ UNCHANGED <<disk, cached, cacheHistory, invalidations>>

\* Mutant: the stat stored is the file's at the end of the read.
StatNow(c) == disk.stat

StatOf(c) == collect[c].stat

\* set upserts the row with the stat taken before the read.
StoreRow(c) ==
  /\ CollectAt(c, "storing")
  /\ \/ /\ cached' = [content |-> collect[c].content, stat |-> StatOf(c)]
        /\ EndLoad(c, FALSE, collect[c].content)
        /\ UNCHANGED cacheFaults
     \/ CacheFault /\ EndLoad(c, TRUE, 0) /\ UNCHANGED cached
  /\ UNCHANGED <<disk, cacheHistory, invalidations>>

CollectStep(c) ==
  StatFile(c) \/ GetByStat(c) \/ JoinOrLoad(c) \/ ReadSource(c) \/ StoreRow(c)

CacheNext == (\E c \in Collects : CollectStep(c)) \/ Write \/ Invalidate

CacheSpec == CacheInit /\ [][CacheNext]_cacheVars

-----------------------------------------------------------------------------
CacheTypeOK ==
  /\ disk \in [content : 1..MaxVersions, stat : 1..MaxVersions, since : 1..MaxVersions]
  /\ cached \in [content : 0..MaxVersions, stat : 0..MaxVersions]
  /\ inFlight = {c \in Collects : CollectAt(c, "reading") \/ CollectAt(c, "storing")}
  /\ \A c \in Collects :
       /\ collect[c].step \in {"idle", "asking", "missed", "joined", "reading",
                               "storing", "done", "failed"}
       /\ collect[c].content \in 0..MaxVersions

\* A row that the file's present stat would hit is no older than that stat: the
\* load's stat is older than its read, never newer.  Nor is any row older than
\* the file was when it was last invalidated, unless a load that had read the
\* file before stored it after.  (A rewrite that keeps the stat hits an old row
\* until an invalidation.)
RowIsFresh ==
  /\ cached.stat = disk.stat => cached.content >= disk.since
  /\ cached # NoRow => cached.content >= dropped

\* A collect returns content that is no older than the file was, when the
\* collect began, at its last change of stat or invalidation, or that a load
\* then running may have read since it began: neither a hit nor a joined load
\* goes further back.
ResultIsRecent ==
  \A c \in Collects : CollectAt(c, "done") => collect[c].content >= floor[c]
=============================================================================
