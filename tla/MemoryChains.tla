---------------------------- MODULE MemoryChains ----------------------------
(***************************************************************************)
(* The versions of one remembered idea: MemoryIngestor appends a version   *)
(* for each report or decision that states the idea again (appendVersion), *)
(* and MemoryLifecycle.tick folds superseded versions into their head,     *)
(* lets confidence decay and archives what has faded.  Handlers are fire   *)
(* and forget, so two of them, and the tick, interleave at every await.    *)
(***************************************************************************)
EXTENDS Integers, Sequences, FiniteSetsExt

CONSTANTS
  Ingests,        \* handlers that state the idea, each with its own evidence
  BaseConfidence, \* confidence of the idea's first version
  Floor,          \* confidence_floor of its versions
  Threshold,      \* archiveThreshold
  MaxMemoryCrashes \* bound on ends of the process and failing ticks

MAX_CONFIDENCE == 99
CONFIDENCE_RECURRENCE_INCREMENT == 10

ASSUME MemoryAssumption ==
  /\ IsFiniteSet(Ingests) /\ MaxMemoryCrashes \in Nat
  /\ {BaseConfidence, Floor, Threshold} \subseteq 0..MAX_CONFIDENCE

VARIABLES
  versions, \* memory_entries of the idea, oldest first
  ingest,   \* handler -> what it has read: its step, the head, the siblings
  tick,     \* the step of the running lifecycle tick, "idle" between ticks
  rows,     \* the rows the current stage has read: version -> confidence
  into,     \* superseded version -> the head it is folded into
  faded,    \* versions archived for their confidence
  memoryCrashes

memoryVars == <<versions, ingest, tick, rows, into, faded, memoryCrashes>>

NoRows == [v \in {} |-> 0]

MemoryInit ==
  /\ versions = << >>
  /\ ingest = [i \in Ingests |-> [step |-> "idle", head |-> 0, siblings |-> 0]]
  /\ tick = "idle" /\ rows = NoRows /\ into = NoRows
  /\ faded = {}
  /\ memoryCrashes = 0

Active == {v \in DOMAIN versions : versions[v].status = "ACTIVE"}

\* listByKind: the newest ACTIVE version of the idea, and how many there are.
ReadHead(i) ==
  /\ ingest[i].step = "idle"
  /\ ingest' = [ingest EXCEPT ![i] =
                  [step |-> "read", head |-> Max({0} \cup Active),
                   siblings |-> Cardinality(Active)]]
  /\ UNCHANGED <<versions, tick, rows, into, faded, memoryCrashes>>

\* One increment for every sibling read, up to the ceiling.
Recurred(siblings) ==
  Min({BaseConfidence + siblings * CONFIDENCE_RECURRENCE_INCREMENT, MAX_CONFIDENCE})

Cited(i) == {i}

\* create inserts the version and its evidence link in one transaction.
CreateVersion(i) ==
  /\ ingest[i].step = "read"
  /\ versions' = Append(versions,
                   [supersedes |-> ingest[i].head, confidence |-> Recurred(ingest[i].siblings),
                    status |-> "ACTIVE", evidence |-> Cited(i)])
  /\ ingest' = [ingest EXCEPT ![i].step = "done"]
  /\ UNCHANGED <<tick, rows, into, faded, memoryCrashes>>

\* The rows a stage selects: all ACTIVE ones, with their confidence.
ActiveRows == [v \in Active |-> versions[v].confidence]

\* Rows of a set that another row of the set supersedes.
SupersededIn(set) == {v \in set : \E w \in set : versions[w].supersedes = v}

\* Mutant: a version is folded into its direct superseder.
DirectHeads(set) ==
  {h \in [SupersededIn(set) -> set] :
     \A v \in SupersededIn(set) : versions[h[v]].supersedes = v}

\* The heads reachable from a version: it follows one superseder of each
\* version, whichever the unordered select returned last.
HeadsOf(set) ==
  {h \in [SupersededIn(set) -> set \ SupersededIn(set)] :
     \A v \in SupersededIn(set) :
       \E w \in set : versions[w].supersedes = v
                      /\ (h[v] = w \/ (w \in SupersededIn(set) /\ h[v] = h[w]))}

\* consolidateChains reads the ACTIVE rows and plans the folds.
StartTick ==
  /\ tick = "idle"
  /\ tick' = "fold"
  /\ rows' = ActiveRows
  /\ into' \in HeadsOf(Active)
  /\ UNCHANGED <<versions, ingest, faded, memoryCrashes>>

\* Head by head and row by row: the evidence links of the row are read and
\* added to the head's.
FoldOf(head) == {v \in DOMAIN into : into[v] = head}

Fold(v) ==
  /\ tick = "fold" /\ v \in DOMAIN into
  /\ ~ versions[v].evidence \subseteq versions[into[v]].evidence
  /\ versions' = [versions EXCEPT ![into[v]].evidence = @ \cup versions[v].evidence]
  /\ UNCHANGED <<ingest, tick, rows, into, faded, memoryCrashes>>

Folded(head) == \A v \in FoldOf(head) : versions[v].evidence \subseteq versions[head].evidence

\* The head takes the chain's largest confidence as the tick read it.
ChainMax(head) == Max({rows[head]} \cup {rows[v] : v \in FoldOf(head)})

RaiseHead(head) ==
  /\ tick = "fold" /\ FoldOf(head) # {} /\ Folded(head)
  /\ ChainMax(head) # rows[head]
  /\ versions' = [versions EXCEPT ![head].confidence = ChainMax(head)]
  /\ rows' = [rows EXCEPT ![head] = ChainMax(head)]
  /\ UNCHANGED <<ingest, tick, into, faded, memoryCrashes>>

\* Mutant: only versions weaker than their head are archived.
WeakerVersions(head) == {v \in FoldOf(head) : rows[v] < rows[head]}

VersionsToArchive(head) == FoldOf(head)

\* Then the head's superseded versions are archived in one statement.
ArchiveVersions(head) ==
  /\ tick = "fold" /\ FoldOf(head) # {} /\ Folded(head)
  /\ ChainMax(head) = rows[head]
  /\ versions' = [v \in DOMAIN versions |->
                    IF v \in VersionsToArchive(head)
                    THEN [versions[v] EXCEPT !.status = "ARCHIVED"] ELSE versions[v]]
  /\ into' = [v \in DOMAIN into \ FoldOf(head) |-> into[v]]
  /\ UNCHANGED <<ingest, tick, rows, faded, memoryCrashes>>

\* applyDecay reads the ACTIVE rows anew ...
StartDecay ==
  /\ tick = "fold" /\ into = NoRows
  /\ tick' = "decay"
  /\ rows' = ActiveRows
  /\ UNCHANGED <<versions, ingest, into, faded, memoryCrashes>>

\* One step of the exponential taper (30 days at 0.99 a day), never below the
\* floor and never up.
Tapered(confidence) == Min({confidence, Max({(confidence * 7) \div 10, Floor})})

\* ... and lowers those that were left alone longer than the grace period.
DecayRow(v) ==
  /\ tick = "decay" /\ v \in DOMAIN rows
  /\ rows' = [w \in DOMAIN rows \ {v} |-> rows[w]]
  /\ \/ versions' = [versions EXCEPT ![v].confidence = Tapered(rows[v])]
     \/ UNCHANGED versions
  /\ UNCHANGED <<ingest, tick, into, faded, memoryCrashes>>

\* archiveBelowThreshold reads the faint ACTIVE rows ...
StartArchive ==
  /\ tick = "decay" /\ rows = NoRows
  /\ tick' = "archive"
  /\ rows' = [v \in {w \in Active : versions[w].confidence < Threshold}
                |-> versions[v].confidence]
  /\ UNCHANGED <<versions, ingest, into, faded, memoryCrashes>>

\* ... archives them in one statement, and the tick ends.
EndTick ==
  /\ tick = "archive"
  /\ tick' = "idle" /\ rows' = NoRows
  /\ versions' = [v \in DOMAIN versions |->
                    IF v \in DOMAIN rows
                    THEN [versions[v] EXCEPT !.status = "ARCHIVED"] ELSE versions[v]]
  /\ faded' = faded \cup DOMAIN rows
  /\ UNCHANGED <<ingest, into, memoryCrashes>>

\* The process ends: handlers and the tick are gone, the rows stay.
MemoryCrash ==
  /\ memoryCrashes < MaxMemoryCrashes
  /\ memoryCrashes' = memoryCrashes + 1
  /\ tick' = "idle" /\ rows' = NoRows /\ into' = NoRows
  /\ ingest' = [i \in Ingests |->
                  IF ingest[i].step = "read" THEN [ingest[i] EXCEPT !.step = "done"]
                  ELSE ingest[i]]
  /\ UNCHANGED <<versions, faded>>

\* A statement fails: the tick stops where it is and its error is logged.
TickFault ==
  /\ tick # "idle"
  /\ memoryCrashes < MaxMemoryCrashes
  /\ memoryCrashes' = memoryCrashes + 1
  /\ tick' = "idle" /\ rows' = NoRows /\ into' = NoRows
  /\ UNCHANGED <<versions, ingest, faded>>

\* What a tick does once something has called it; nothing in the process does.
TickProgress ==
  \/ StartDecay \/ StartArchive \/ EndTick
  \/ \E v \in DOMAIN versions :
       Fold(v) \/ RaiseHead(v) \/ ArchiveVersions(v) \/ DecayRow(v)

MemoryNext ==
  \/ \E i \in Ingests : ReadHead(i) \/ CreateVersion(i)
  \/ StartTick \/ TickProgress \/ TickFault \/ MemoryCrash

MemorySpec == MemoryInit /\ [][MemoryNext]_memoryVars

-----------------------------------------------------------------------------
MemoryTypeOK ==
  /\ \A v \in DOMAIN versions :
       /\ versions[v].supersedes \in 0..(v - 1)
       /\ versions[v].confidence \in 0..MAX_CONFIDENCE
       /\ versions[v].status \in {"ACTIVE", "ARCHIVED"}
       /\ versions[v].evidence \in (SUBSET Ingests) \ {{}}
  /\ \A i \in Ingests : ingest[i].step \in {"idle", "read", "done"}
  /\ tick \in {"idle", "fold", "decay", "archive"}
  /\ DOMAIN rows \cup DOMAIN into \cup faded \subseteq DOMAIN versions

\* "Evidence is merged, never dropped" (consolidate.ts:12): whatever was ever
\* cited for the idea is cited by a version that is still ACTIVE, unless that
\* one faded away; appends, forks and a stop between any two statements of a
\* fold included.
EvidenceIsKept ==
  \A v \in DOMAIN versions : \A i \in versions[v].evidence :
    \E w \in Active \cup faded : i \in versions[w].evidence

\* What a tick finds superseded it folds, however the chain has forked, grows
\* meanwhile or was left half folded by an earlier tick: the version is archived
\* and its evidence is with the head it was to go to, unless the tick is stopped.
TicksConsolidate ==
  \A v, head \in 1..Cardinality(Ingests), n \in 0..MaxMemoryCrashes :
    (v \in DOMAIN into /\ into[v] = head /\ memoryCrashes = n)
      ~> \/ memoryCrashes > n
         \/ /\ v \in DOMAIN versions /\ versions[v].status = "ARCHIVED"
            /\ head \in DOMAIN versions /\ versions[v].evidence \subseteq versions[head].evidence
=============================================================================
