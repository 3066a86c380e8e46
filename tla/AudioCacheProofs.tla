-------------------------- MODULE AudioCacheProofs --------------------------
(***************************************************************************)
(* Theorems about AudioCache, for any keys, threads and limits: one        *)
(* inductive invariant, and from it the invariants the runs check.         *)
(***************************************************************************)
EXTENDS AudioCache, FiniteSetTheorems, SequenceTheorems, WellFoundedInduction, TLAPS

\* Labels under TtsService::mutex_, under Impl::io, and where the directory is in use.
FlushLabels == {"flush", "flushRoom", "flushWrite"}
PutLabels == {"putRoom", "putWav", "putJson", "putIndex"}
EngineLabels == {"lookup", "read", "install", "hit", "load", "synth", "put"} \cup PutLabels
IoLabels == {"read", "install", "hit"} \cup PutLabels \cup FlushLabels
DiskLabels == {"read", "install", "putWav", "putJson"} \cup FlushLabels

\* Who is where holds what.
Locks ==
  /\ \A p \in Preparers : /\ pc[p] \in EngineLabels => engine = p
                          /\ pc[p] \in IoLabels => io = p
  /\ pc[Background] \in {"clear", "applyRoom", "restoreRoom"} => io = Background

\* The directory is used only by a process that owns it and trusts it.
Disk ==
  /\ diskEnabled => owned
  /\ \A p \in Preparers : pc[p] \in DiskLabels => diskEnabled

-----------------------------------------------------------------------------
(* Files and their number.                                                 *)

LEMMA PresentFinite ==
  ASSUME NEW f
  PROVE  IsFiniteSet(Present(f)) /\ Cardinality(Present(f)) \in Nat
BY AudioCacheAssumption, FS_Subset, FS_CardinalityType DEF AudioCacheAssumption, Present

\* One file more or less.
LEMMA PresentAfterWrite ==
  ASSUME NEW f \in Contents, NEW k, NEW a
  PROVE  /\ Cardinality(Present([f EXCEPT ![k] = a])) <= Cardinality(Present(f)) + 1
         /\ a = NoAudio => Cardinality(Present([f EXCEPT ![k] = a])) <= Cardinality(Present(f))
<1> DEFINE g == [f EXCEPT ![k] = a]
<1>1. Present(g) \subseteq Present(f) \cup {k}
  BY DEF Present, Contents
<1>2. a = NoAudio => Present(g) \subseteq Present(f)
  BY DEF Present, Contents
<1>3. /\ IsFiniteSet(Present(f) \cup {k}) /\ Cardinality(Present(f)) \in Nat
      /\ Cardinality(Present(f) \cup {k}) <= Cardinality(Present(f)) + 1
  BY PresentFinite, FS_AddElement
<1>4. /\ Cardinality(Present(g)) <= Cardinality(Present(f) \cup {k})
      /\ Cardinality(Present(g)) \in Nat
      /\ Cardinality(Present(f) \cup {k}) \in Nat
  BY <1>1, <1>3, FS_Subset, FS_CardinalityType, PresentFinite
<1>5. a = NoAudio => Cardinality(Present(g)) <= Cardinality(Present(f))
  BY <1>2, FS_Subset, PresentFinite
<1> QED
  BY <1>3, <1>4, <1>5

LEMMA OccupiedIsNat ==
  /\ FileTypes => Occupied \in Nat
  /\ FileTypes' => Occupied' \in Nat
BY PresentFinite DEF FileTypes, Occupied

-----------------------------------------------------------------------------
(* Which steps write what.                                                 *)

WritesFiles(p) ==
  ReadFails(p) \/ PutWav(p) \/ PutJson(p) \/ PutFails(p) \/ PutStale(p) \/ FlushWrite(p) \/ Evict(p)

WritesIndex(p) ==
  \/ LookupHit(p) \/ ReadWav(p) \/ ReadFails(p) \/ InstallRead(p) \/ Release(p) \/ PutIndex(p)
  \/ HitFlush(p) \/ FlushUsage(p) \/ Evict(p)

Counts(p) == WritesFiles(p) \/ CheckDirectory(p) \/ FlushNext(p) \/ FlushRefused(p)

LEMMA PreparerWrites ==
  ASSUME NEW p \in Preparers, PrepareStep(p)
  PROVE  /\ WritesFiles(p) \/ UNCHANGED fileVars
         /\ WritesIndex(p) \/ UNCHANGED indexVars
         /\ Counts(p) \/ UNCHANGED countVars
         /\ UNCHANGED <<clearVars, optionVars, jobVars, restarts>>
<1> USE DEF fileVars, indexVars, clearVars, countVars, optionVars, localVars, ttsVars, jobVars
<1>1. CASE StartPrepare(p) \/ ReadClearing(p) \/ EnterEngine(p) \/ GiveUp(p) \/ LookupMiss(p)
  BY <1>1 DEF StartPrepare, ReadClearing, EnterEngine, GiveUp, LookupMiss
<1>2. CASE LookupHit(p) \/ ReadWav(p) \/ ReadFails(p) \/ InstallRead(p) \/ HitReturns(p)
  BY <1>2 DEF WritesFiles, WritesIndex, Counts, LookupHit, ReadWav, ReadFails, InstallRead,
              HitReturns
<1>3. CASE Release(p) \/ Load(p) \/ LoadFails(p) \/ Synthesize(p) \/ SkipPut(p)
  BY <1>3 DEF WritesIndex, Release, Load, LoadFails, Synthesize, SkipPut
<1>4. CASE EnterPut(p) \/ PutHasRoom(p) \/ PutRefused(p) \/ PutWav(p) \/ PutJson(p)
  BY <1>4 DEF WritesFiles, Counts, EnterPut, PutHasRoom, PutRefused, PutWav, PutJson
<1>5. CASE PutFails(p) \/ PutIndex(p) \/ PutStale(p) \/ HitFlush(p) \/ FlushUsage(p)
  BY <1>5 DEF WritesFiles, WritesIndex, Counts, PutFails, PutIndex, PutStale, HitFlush, FlushUsage
<1>6. CASE FlushNext(p) \/ FlushHasRoom(p) \/ FlushRefused(p) \/ FlushWrite(p) \/ FlushEnds(p)
  BY <1>6 DEF WritesFiles, Counts, FlushNext, FlushHasRoom, FlushRefused, FlushWrite, FlushEnds
<1>7. CASE Evict(p) \/ CheckDirectory(p)
  BY <1>7 DEF WritesFiles, WritesIndex, Counts, Evict, CheckDirectory
<1> QED
  BY <1>1, <1>2, <1>3, <1>4, <1>5, <1>6, <1>7 DEF PrepareStep

LEMMA BackgroundWrites ==
  ASSUME BackgroundStep
  PROVE  /\ ClearOne \/ ClearThrows \/ Evict(Background) \/ UNCHANGED fileVars
         /\ ClearOne \/ Evict(Background) \/ UNCHANGED indexVars
         /\ \/ ClearOne \/ ClearEnds \/ ClearThrows \/ Evict(Background) \/ CheckDirectory(Background)
            \/ UNCHANGED countVars
         /\ FinishClear \/ ClearOne \/ ClearEnds \/ ClearThrows \/ UNCHANGED clearVars
         /\ ConfigureApplies \/ UNCHANGED optionVars
         /\ UNCHANGED <<ttsVars, epoch, era, diskEnabled, owned, configures, restarts>>
<1> USE DEF fileVars, indexVars, clearVars, countVars, optionVars, localVars, ttsVars, jobVars
<1>1. CASE FinishClear \/ ClearOne \/ ClearEnds \/ ClearThrows
  BY <1>1 DEF FinishClear, ClearOne, ClearEnds, ClearThrows
<1>2. CASE Configure \/ ConfigureApplies \/ ConfigureRefused \/ SaveConfig \/ Restore
  BY <1>2 DEF Configure, ConfigureApplies, ConfigureRefused, SaveConfig, Restore
<1>3. CASE Evict(Background) \/ CheckDirectory(Background)
  BY <1>3 DEF Evict, CheckDirectory
<1> QED
  BY <1>1, <1>2, <1>3 DEF BackgroundStep

-----------------------------------------------------------------------------
(* Types.                                                                  *)

Types == FileTypes /\ IndexTypes /\ CounterTypes /\ OptionTypes /\ ControlTypes

\* Who asked for what, and what the engine has loaded for it.
Requests ==
  /\ epoch <= era
  /\ \A p \in Preparers :
       /\ pc[p] \in EngineLabels \cup {"clearing", "wait"} => req[p].key \in Keys
       /\ req[p].key # NoKey => epoch + req[p].era = era + req[p].epoch
       /\ pc[p] = "synth" => loaded = req[p].key
       /\ pc[p] \in PutLabels => ioKey = req[p].key /\ (clearing \/ req[p].epoch = epoch)

LEMMA OneMoreFile ==
  ASSUME NEW f \in Contents, NEW k, NEW a \in Audio \cup {NoAudio}
  PROVE  [f EXCEPT ![k] = a] \in Contents
BY DEF Contents

\* A file that is perhaps written.
LEMMA PerhapsWritten ==
  ASSUME NEW f \in Contents, NEW k, NEW a \in Audio \cup {NoAudio},
         NEW g \in {f, [f EXCEPT ![k] = a]}
  PROVE  g \in Contents
<1>1. [f EXCEPT ![k] = a] \in Contents
  BY OneMoreFile
<1> QED
  BY <1>1

LEMMA NoneIsContents == NoAudio \in Audio \cup {NoAudio} /\ Nothing \in Contents
BY DEF Contents, Nothing

LEMMA FileTypesKept ==
  ASSUME Types, [Next]_vars
  PROVE  FileTypes'
<1> USE NoneIsContents DEF Types, FileTypes
<1>1. ASSUME NEW k, Removed(k) PROVE FileTypes'
  BY <1>1, OneMoreFile DEF Removed
<1>2. ASSUME NEW k,
             wav' \in {wav, [wav EXCEPT ![k] = NoAudio]},
             json' \in {json, [json EXCEPT ![k] = NoAudio]}, litter' = litter
      PROVE  FileTypes'
  <2>1. wav' \in Contents
    BY <1>2, PerhapsWritten
  <2>2. json' \in Contents
    BY <1>2, PerhapsWritten
  <2> QED
    BY <1>2, <2>1, <2>2
<1>3. ASSUME NEW p \in Preparers, PrepareStep(p), WritesFiles(p) PROVE FileTypes'
  <2>1. got[p] \in Audio \cup {NoAudio} /\ (meta[ioKey] \in Audio \cup {NoAudio} \/ ioKey \notin Keys)
    BY DEF ControlTypes, IndexTypes, Contents
  <2>2. CASE ReadFails(p)
    BY <1>1, <1>2, <2>2 DEF ReadFails, NotRemoved
  <2>. [wav EXCEPT ![ioKey] = got[p]] \in Contents /\ [json EXCEPT ![ioKey] = got[p]] \in Contents
    BY <2>1, OneMoreFile
  <2>3. CASE PutWav(p) \/ PutJson(p)
    BY <2>3 DEF PutWav, PutJson, Written
  <2>4. CASE PutFails(p)
    BY <2>4 DEF PutFails, NotWritten
  <2>5. CASE PutStale(p)
    BY <1>1, <1>2, <2>5 DEF PutStale, NotRemoved, fileVars
  <2>6. CASE FlushWrite(p)
    <3>1. [json EXCEPT ![ioKey] = meta[ioKey]] \in Contents
      BY <2>1, OneMoreFile DEF Contents
    <3> QED
      BY <2>6, <3>1 DEF FlushWrite, Written, NotWritten
  <2>7. CASE Evict(p)
    BY <1>1, <1>2, <2>7 DEF Evict, NotRemoved, fileVars
  <2> QED
    BY <1>3, <2>2, <2>3, <2>4, <2>5, <2>6, <2>7 DEF WritesFiles
<1>4. CASE ClearOne
  BY <1>1, <1>2, <1>4 DEF ClearOne, NotRemoved, fileVars
<1>5. CASE ClearThrows
  BY <1>2, <1>5 DEF ClearThrows, fileVars
<1>6. CASE Evict(Background)
  BY <1>1, <1>2, <1>6 DEF Evict, NotRemoved, fileVars
<1>7. CASE Restart
  <2>1. ASSUME NEW keep, NEW locked, NEW o, RecoverDirectory(keep, locked, o)
        PROVE  wav' \in Contents /\ json' \in Contents
    BY <2>1 DEF RecoverDirectory, Contents
  <2>2. CASE Recovers
    BY <2>1, <2>2 DEF Recovers
  <2>3. CASE RecoveryThrows
    BY <2>1, <2>3 DEF RecoveryThrows
  <2>4. CASE NotOwner
    BY <2>4 DEF NotOwner, fileVars
  <2> QED
    BY <1>7, <2>2, <2>3, <2>4 DEF Restart
<1>8. CASE ConfirmClear \/ ApplySettings \/ UNCHANGED vars
  BY <1>8 DEF ConfirmClear, ApplySettings, vars, fileVars
<1>9. CASE UNCHANGED fileVars
  BY <1>9 DEF fileVars
<1> QED
  BY <1>3, <1>4, <1>5, <1>6, <1>7, <1>8, <1>9, PreparerWrites, BackgroundWrites DEF Next

\* AccountFile and Recount keep the books true.
LEMMA Booked ==
  ASSUME Types, FileTypes', owned' = owned, owned, BooksAreTrue, AccountFile \/ Recount
  PROVE  BooksAreTrue' /\ used' \in Nat /\ valid' \in BOOLEAN
<1>1. Occupied \in Nat /\ Occupied' \in Nat /\ used \in Nat /\ valid \in BOOLEAN
  BY OccupiedIsNat DEF Types, CounterTypes
<1>2. CASE AccountFile
  <2>1. CASE valid
    <3>1. used = Occupied /\ used' = (used + Occupied') - Occupied
      BY <1>2, <2>1 DEF AccountFile, BooksAreTrue
    <3>2. used' = Occupied'
      <4>1. \A m, n \in Nat : (m + n) - m = n
        OBVIOUS
      <4> QED
        BY <1>1, <3>1, <4>1
    <3> QED
      BY <1>1, <1>2, <3>2 DEF AccountFile, BooksAreTrue
  <2>2. CASE ~valid
    BY <1>1, <1>2, <2>2 DEF AccountFile, BooksAreTrue
  <2> QED
    BY <2>1, <2>2
<1>3. CASE Recount
  BY <1>1, <1>3 DEF Recount, RecountBy, BooksAreTrue
<1> QED
  BY <1>2, <1>3

LEMMA BooksKept ==
  ASSUME Types, Disk, BooksAreTrue, [Next]_vars
  PROVE  BooksAreTrue' /\ used' \in Nat /\ valid' \in BOOLEAN
<1> DEFINE Goal == BooksAreTrue' /\ used' \in Nat /\ valid' \in BOOLEAN
<1>0. FileTypes' /\ FileTypes /\ Occupied \in Nat /\ Occupied' \in Nat
      /\ used \in Nat /\ valid \in BOOLEAN
  BY FileTypesKept, OccupiedIsNat DEF Types, CounterTypes
<1>1. ASSUME UNCHANGED <<fileVars, countVars, owned>> PROVE Goal
  BY <1>0, <1>1 DEF BooksAreTrue, fileVars, countVars, Occupied
<1>2. ASSUME owned, owned' = owned, AccountFile \/ Recount PROVE Goal
  BY <1>0, <1>2, Booked
<1>3. ASSUME NEW p \in Preparers, PrepareStep(p), Counts(p) PROVE Goal
  <2>1. owned' = owned
    BY <1>3, PreparerWrites DEF optionVars
  <2>2. pc[p] \in DiskLabels => owned
    BY DEF Disk
  <2>3. CASE ReadFails(p)
    BY <1>2, <2>1, <2>2, <2>3 DEF ReadFails, Removed, NotRemoved, DiskLabels
  <2>4. CASE PutWav(p) \/ PutJson(p) \/ FlushWrite(p)
    BY <1>2, <2>1, <2>2, <2>4 DEF PutWav, PutJson, FlushWrite, NotWritten, DiskLabels, FlushLabels
  <2>5. CASE PutFails(p)
    BY <1>2, <2>1, <2>2, <2>5 DEF PutFails, NotWritten, DiskLabels
  <2>6. CASE PutStale(p)
    BY <1>1, <1>2, <2>1, <2>6 DEF PutStale, Removed, NotRemoved, Disk
  <2>7. CASE FlushNext(p) \/ FlushRefused(p)
    BY <1>1, <1>2, <2>1, <2>2, <2>7 DEF FlushNext, FlushRefused, DiskLabels, FlushLabels
  <2>8. CASE Evict(p)
    BY <1>1, <1>2, <2>1, <2>8 DEF Evict, Removed, NotRemoved
  <2>9. CASE CheckDirectory(p)
    BY <1>0, <2>9 DEF CheckDirectory, fileVars, BooksAreTrue, Occupied
  <2> QED
    BY <1>3, <2>3, <2>4, <2>5, <2>6, <2>7, <2>8, <2>9 DEF Counts, WritesFiles
<1>4. CASE ClearOne
  <2>1. owned' = owned
    BY <1>4 DEF ClearOne, optionVars
  <2> QED
    BY <1>1, <1>2, <1>4, <2>1 DEF ClearOne, Removed, NotRemoved
<1>5. CASE ClearEnds
  BY <1>0, <1>5 DEF ClearEnds, fileVars, BooksAreTrue, Occupied, optionVars
<1>6. CASE ClearThrows
  BY <1>0, <1>6 DEF ClearThrows, BooksAreTrue
<1>7. CASE Evict(Background)
  <2>1. owned' = owned
    BY <1>7 DEF Evict, optionVars
  <2> QED
    BY <1>1, <1>2, <1>7, <2>1 DEF Evict, Removed, NotRemoved
<1>8. CASE CheckDirectory(Background)
  BY <1>0, <1>8 DEF CheckDirectory, fileVars, BooksAreTrue, Occupied
<1>9. CASE Restart
  <2>1. CASE Recovers
    BY <1>0, <2>1 DEF Recovers, BooksAreTrue
  <2>2. CASE RecoveryThrows
    BY <1>0, <2>2 DEF RecoveryThrows, RecountBy, BooksAreTrue
  <2>3. CASE NotOwner
    BY <1>0, <2>3 DEF NotOwner, BooksAreTrue
  <2> QED
    BY <1>9, <2>1, <2>2, <2>3 DEF Restart
<1>10. CASE ConfirmClear \/ ApplySettings \/ UNCHANGED vars
  BY <1>1, <1>10 DEF ConfirmClear, ApplySettings, vars, fileVars, countVars, optionVars
<1>11. ASSUME NEW p \in Preparers, PrepareStep(p), ~Counts(p) PROVE Goal
  BY <1>1, <1>11, PreparerWrites DEF Counts, optionVars
<1>12. ASSUME BackgroundStep, UNCHANGED countVars, UNCHANGED fileVars PROVE Goal
  BY <1>1, <1>12, BackgroundWrites
<1> QED
  BY <1>3, <1>4, <1>5, <1>6, <1>7, <1>8, <1>9, <1>10, <1>11, <1>12, BackgroundWrites DEF Next

LEMMA NewestType ==
  ASSUME older \subseteq Keys \X Keys, NEW es \in SUBSET Keys, NEW k \in Keys
  PROVE  Newest(k, es) \subseteq Keys \X Keys
BY DEF Newest

LEMMA TrimmedType ==
  ASSUME NEW m \in Contents, NEW order
  PROVE  Trimmed(m, order) \in Contents
BY NoneIsContents DEF Trimmed, Contents

LEMMA EraseTypes ==
  ASSUME IndexTypes, NEW gone, Erase(gone)
  PROVE  IndexTypes'
<1>1. memory' \in Contents /\ meta' \in Contents
  BY NoneIsContents DEF Erase, IndexTypes, Contents
<1> QED
  BY <1>1 DEF Erase, IndexTypes

LEMMA IndexTypesKept ==
  ASSUME Types, Requests, [Next]_vars
  PROVE  IndexTypes'
<1> USE NoneIsContents DEF Types, IndexTypes
<1>1. ASSUME UNCHANGED indexVars PROVE IndexTypes'
  BY <1>1 DEF indexVars
<1>2. ASSUME NEW p \in Preparers, PrepareStep(p), WritesIndex(p) PROVE IndexTypes'
  <2>1. got[p] \in Audio \cup {NoAudio}
    BY DEF ControlTypes
  <2>2. CASE LookupHit(p)
    <3>1. req[p].key \in Keys
      BY <2>2 DEF LookupHit, Hit
    <3>2. older' \subseteq Keys \X Keys /\ dirty' \subseteq Keys
      BY <2>2, <3>1, NewestType DEF LookupHit, Touch
    <3>3. lease' \in [Keys -> SUBSET Preparers]
      BY <2>2, <3>1 DEF LookupHit
    <3> QED
      BY <2>2, <3>2, <3>3 DEF LookupHit
  <2>3. CASE ReadWav(p)
    BY <2>3 DEF ReadWav
  <2>4. CASE ReadFails(p)
    BY <1>1, <2>4, EraseTypes DEF ReadFails
  <2>5. CASE InstallRead(p)
    <3>1. req[p].key \in Keys
      BY <2>5 DEF InstallRead, Requests, EngineLabels
    <3>2. json[req[p].key] \in Audio \cup {NoAudio}
      BY <3>1 DEF FileTypes, Contents
    <3>3. CASE OutOfDate(p)
      BY <2>5, <3>3 DEF InstallRead
    <3>4. CASE ~OutOfDate(p)
      <4>1. older' \subseteq Keys \X Keys /\ dirty' \subseteq Keys
        BY <2>5, <3>1, <3>4, NewestType DEF InstallRead, Touch
      <4>2. [meta EXCEPT ![req[p].key] = json[req[p].key]] \in Contents
        BY <3>2, OneMoreFile
      <4>3. [memory EXCEPT ![req[p].key] = got[p]] \in Contents
        BY <2>1, OneMoreFile
      <4>4. memory' \in Contents
        BY <2>5, <3>4, <4>3, TrimmedType DEF InstallRead
      <4> QED
        BY <2>5, <3>4, <4>1, <4>2, <4>4 DEF InstallRead
    <3> QED
      BY <3>3, <3>4
  <2>6. CASE Release(p)
    BY <2>6 DEF Release
  <2>7. CASE PutIndex(p)
    <3>1. ioKey \in Keys
      BY <2>7 DEF PutIndex, Requests, EngineLabels, PutLabels
    <3>2. older' \subseteq Keys \X Keys /\ entries' \subseteq Keys /\ dirty' \subseteq Keys
      BY <2>7, <3>1, NewestType DEF PutIndex
    <3>3. memory' \in Contents /\ meta' \in Contents
      <4>1. [memory EXCEPT ![ioKey] = got[p]] \in Contents
        BY <2>1, OneMoreFile
      <4>2. (IF diskEnabled THEN got[p] ELSE NoAudio) \in Audio \cup {NoAudio}
        BY <2>1
      <4> QED
        BY <2>7, <4>1, <4>2, OneMoreFile, TrimmedType DEF PutIndex
    <3> QED
      BY <2>7, <3>2, <3>3 DEF PutIndex
  <2>8. CASE HitFlush(p) \/ FlushUsage(p)
    BY <2>8 DEF HitFlush, FlushUsage
  <2>9. CASE Evict(p)
    BY <1>1, <2>9, EraseTypes DEF Evict
  <2> QED
    BY <1>2, <2>2, <2>3, <2>4, <2>5, <2>6, <2>7, <2>8, <2>9 DEF WritesIndex
<1>3. CASE ClearOne
  BY <1>1, <1>3, EraseTypes DEF ClearOne
<1>4. CASE Evict(Background)
  BY <1>1, <1>4, EraseTypes DEF Evict
<1>5. CASE ConfirmClear
  BY <1>5 DEF ConfirmClear
<1>6. CASE Restart
  <2>1. Pairs \subseteq Keys
    BY DEF Pairs, Present
  <2>2. ASSUME NEW es, NEW o \in Orders(Pairs), es \subseteq Pairs,
               entries' = es, older' = Within(es, o),
               meta' = [k \in Keys |-> IF k \in es THEN json[k] ELSE NoAudio]
        PROVE  entries' \subseteq Keys /\ older' \subseteq Keys \X Keys /\ meta' \in Contents
    BY <2>1, <2>2 DEF Within, Orders, Contents, FileTypes
  <2>3. entries' \subseteq Keys /\ older' \subseteq Keys \X Keys /\ meta' \in Contents
    <3>1. CASE Recovers
      BY <2>2, <3>1 DEF Recovers
    <3>2. CASE RecoveryThrows
      BY <2>2, <3>2 DEF RecoveryThrows
    <3>3. CASE NotOwner
      BY <3>3 DEF NotOwner
    <3> QED
      BY <1>6, <3>1, <3>2, <3>3 DEF Restart
  <2> QED
    BY <1>6, <2>3 DEF Restart
<1>7. CASE ApplySettings \/ UNCHANGED vars
  BY <1>1, <1>7 DEF ApplySettings, vars, indexVars
<1> QED
  BY <1>1, <1>2, <1>3, <1>4, <1>5, <1>6, <1>7, PreparerWrites, BackgroundWrites DEF Next

LEMMA BoundsAreNat ==
  /\ EntryLimit \in Nat /\ MemoryLimit \in Nat /\ MaxClears \in Nat
  /\ MaxConfigures \in Nat /\ MaxFaults \in Nat /\ MaxRestarts \in Nat
BY AudioCacheAssumption DEF AudioCacheAssumption

LEMMA FaultsAreCounted ==
  ASSUME CounterTypes, NoFault \/ Fault
  PROVE  faults' \in 0..MaxFaults
BY BoundsAreNat DEF CounterTypes, NoFault, Fault

LEMMA FaultOrNot ==
  ASSUME Next
  PROVE  NoFault \/ Fault
<1> USE DEF NoFault
<1>1. ASSUME NEW p \in Preparers, PrepareStep(p) PROVE NoFault \/ Fault
  <2>1. CASE ReadFails(p) \/ PutFails(p) \/ PutStale(p) \/ FlushWrite(p) \/ Evict(p)
    BY <2>1 DEF ReadFails, PutFails, PutStale, FlushWrite, Evict
  <2> QED
    BY <1>1, <2>1 DEF PrepareStep, StartPrepare, ReadClearing, EnterEngine, GiveUp,
      LookupMiss, LookupHit, ReadWav, InstallRead, HitReturns, Release, Load, LoadFails,
      Synthesize, SkipPut, EnterPut, PutHasRoom, PutRefused, PutWav, PutJson, PutIndex,
      HitFlush, FlushUsage, FlushNext, FlushHasRoom, FlushRefused, FlushEnds, CheckDirectory
<1>2. CASE BackgroundStep
  BY <1>2 DEF BackgroundStep, FinishClear, ClearOne, ClearEnds, ClearThrows, Configure,
    ConfigureApplies, ConfigureRefused, SaveConfig, Restore, Evict, CheckDirectory
<1>3. CASE Restart
  BY <1>3 DEF Restart, Recovers, RecoveryThrows, NotOwner
<1>4. CASE ConfirmClear \/ ApplySettings
  BY <1>4 DEF ConfirmClear, ApplySettings
<1> QED
  BY <1>1, <1>2, <1>3, <1>4 DEF Next

LEMMA CounterTypesKept ==
  ASSUME Types, Disk, BooksAreTrue, Requests, [Next]_vars
  PROVE  CounterTypes'
<1>1. used' \in Nat /\ valid' \in BOOLEAN
  BY BooksKept
<1>2. CASE UNCHANGED vars
  BY <1>1, <1>2 DEF vars, clearVars, jobVars, Types, CounterTypes
<1>3. faults' \in 0..MaxFaults
  BY FaultOrNot, FaultsAreCounted DEF vars, NoFault, Types
<1> USE BoundsAreNat DEF Types, CounterTypes
<1>4. CASE ConfirmClear
  <2>1. epoch + 1 \in 0..MaxClears /\ era + 1 \in 0..MaxClears
    BY <1>4 DEF ConfirmClear, Requests
  <2> QED
    BY <1>1, <1>3, <1>4, <2>1 DEF ConfirmClear
<1>5. CASE ApplySettings
  BY <1>1, <1>3, <1>5 DEF ApplySettings, clearVars
<1>6. CASE Restart
  <2>1. tainted' \in BOOLEAN /\ clearing' \in BOOLEAN /\ failed' \in BOOLEAN
    BY <1>6 DEF Restart
  <2>2. restarts' \in 0..MaxRestarts /\ configures' \in 0..MaxConfigures
    BY <1>6 DEF Restart
  <2>3. epoch' \in 0..MaxClears /\ era' \in 0..MaxClears
    BY <1>6 DEF Restart
  <2> QED
    BY <1>1, <1>3, <2>1, <2>2, <2>3
<1>7. ASSUME NEW p \in Preparers, PrepareStep(p) PROVE CounterTypes'
  BY <1>1, <1>3, <1>7, PreparerWrites DEF clearVars, jobVars
<1>8. CASE BackgroundStep
  <2>1. clearing' \in BOOLEAN /\ failed' \in BOOLEAN /\ tainted' \in BOOLEAN
    <3>1. CASE UNCHANGED clearVars
      BY <3>1 DEF clearVars
    <3> QED
      BY <1>8, <3>1, BackgroundWrites DEF FinishClear, ClearOne, ClearEnds, ClearThrows,
        ThrowEndsClear
  <2> QED
    BY <1>1, <1>3, <1>8, <2>1, BackgroundWrites
<1> QED
  BY <1>2, <1>4, <1>5, <1>6, <1>7, <1>8 DEF Next

LEMMA JobQueue ==
  ASSUME NEW q \in Seq(Options \cup {Clear})
  PROVE  /\ \A j \in Options \cup {Clear} : Append(q, j) \in Seq(Options \cup {Clear})
         /\ q # <<>> => Head(q) \in Options \cup {Clear} /\ Tail(q) \in Seq(Options \cup {Clear})
BY HeadTailProperties, AppendProperties

LEMMA OptionTypesKept ==
  ASSUME Types, [Next]_vars
  PROVE  OptionTypes'
<1> USE JobQueue DEF Types, OptionTypes
<1>1. CASE UNCHANGED vars
  BY <1>1 DEF vars, optionVars, jobVars
<1>2. CASE ConfirmClear
  BY <1>2 DEF ConfirmClear, optionVars
<1>3. CASE ApplySettings
  BY <1>3 DEF ApplySettings, optionVars
<1>4. CASE Restart
  <2>1. <<>> \in Seq(Options \cup {Clear})
    OBVIOUS
  <2>2. diskEnabled' \in BOOLEAN /\ owned' \in BOOLEAN
    BY <1>4 DEF Restart, Recovers, RecoveryThrows, NotOwner
  <2>3. config.quota \in Quotas /\ config.enabled \in BOOLEAN
    BY DEF Options
  <2> QED
    BY <1>4, <2>1, <2>2, <2>3 DEF Restart
<1>5. ASSUME NEW p \in Preparers, PrepareStep(p) PROVE OptionTypes'
  BY <1>5, PreparerWrites DEF optionVars, jobVars
<1>6. CASE BackgroundStep
  <2>1. CASE FinishClear
    BY <2>1 DEF FinishClear, optionVars
  <2>2. CASE ClearOne \/ ClearEnds \/ ClearThrows
    BY <2>2 DEF ClearOne, ClearEnds, ClearThrows, optionVars, jobVars
  <2>3. CASE Configure
    BY <2>3 DEF Configure, optionVars
  <2>4. CASE ConfigureApplies
    <3>1. want.quota \in Quotas /\ want.enabled \in BOOLEAN
          /\ config.quota \in Quotas /\ config.enabled \in BOOLEAN
      BY DEF Options
    <3> QED
      BY <2>4, <3>1 DEF ConfigureApplies, Target
  <2>5. CASE ConfigureRefused
    BY <2>5 DEF ConfigureRefused, optionVars
  <2>6. CASE SaveConfig
    BY <2>6 DEF SaveConfig, optionVars
  <2>7. CASE Restore
    BY <2>7 DEF Restore, optionVars, jobVars
  <2>8. CASE Evict(Background) \/ CheckDirectory(Background)
    BY <2>8 DEF Evict, CheckDirectory, optionVars, jobVars
  <2> QED
    BY <1>6, <2>1, <2>2, <2>3, <2>4, <2>5, <2>6, <2>7, <2>8 DEF BackgroundStep
<1> QED
  BY <1>1, <1>2, <1>3, <1>4, <1>5, <1>6 DEF Next

\* One thread moves on, the others stay where they are.
PcTypes ==
  /\ DOMAIN pc = Preparers \cup {Background}
  /\ \A p \in Preparers : pc[p] \in PreparerLabels
  /\ pc[Background] \in BackgroundLabels

LEMMA BackgroundIsNoPreparer ==
  Background \notin Preparers /\ Nobody \notin Preparers /\ Nobody # Background
BY AudioCacheAssumption DEF AudioCacheAssumption, Background

LEMMA PreparerMoves ==
  ASSUME PcTypes, NEW p \in Preparers, NEW label \in PreparerLabels, Goto(p, label)
  PROVE  PcTypes'
BY BackgroundIsNoPreparer DEF PcTypes, Goto

LEMMA BackgroundMoves ==
  ASSUME PcTypes, NEW label \in BackgroundLabels, Goto(Background, label)
  PROVE  PcTypes'
BY BackgroundIsNoPreparer DEF PcTypes, Goto

LEMMA PcTypesKept ==
  ASSUME PcTypes, [Next]_vars
  PROVE  PcTypes'
<1>1. CASE UNCHANGED pc
  BY <1>1 DEF PcTypes
<1>2. ASSUME NEW p \in Preparers, PrepareStep(p) PROVE PcTypes'
  <2>1. {"idle", "clearing", "wait", "lookup", "read", "install", "hit", "load", "synth",
         "put", "putRoom", "putWav", "putJson", "putIndex", "hold", "flush", "flushRoom",
         "flushWrite"} \subseteq PreparerLabels
    BY DEF PreparerLabels
  <2> USE PreparerMoves
  <2>2. CASE StartPrepare(p) \/ ReadClearing(p) \/ EnterEngine(p) \/ GiveUp(p) \/ LookupMiss(p)
    BY <2>1, <2>2 DEF StartPrepare, ReadClearing, EnterEngine, GiveUp, LookupMiss
  <2>3. CASE LookupHit(p) \/ ReadWav(p) \/ ReadFails(p) \/ InstallRead(p) \/ HitReturns(p)
    BY <2>1, <2>3 DEF LookupHit, ReadWav, ReadFails, InstallRead, HitReturns, Return
  <2>4. CASE Release(p) \/ Load(p) \/ LoadFails(p) \/ Synthesize(p) \/ SkipPut(p)
    BY <2>1, <2>4 DEF Release, Load, LoadFails, Synthesize, SkipPut, Return
  <2>5. CASE EnterPut(p) \/ PutHasRoom(p) \/ PutRefused(p) \/ PutWav(p) \/ PutJson(p)
    BY <2>1, <2>5 DEF EnterPut, PutHasRoom, PutRefused, PutWav, PutJson, Return
  <2>6. CASE PutFails(p) \/ PutIndex(p) \/ PutStale(p) \/ HitFlush(p) \/ FlushUsage(p)
    BY <2>1, <2>6 DEF PutFails, PutIndex, PutStale, HitFlush, FlushUsage, Return
  <2>7. CASE FlushNext(p)
    BY <1>1, <2>1, <2>7 DEF FlushNext
  <2>8. CASE FlushHasRoom(p) \/ FlushRefused(p) \/ FlushWrite(p) \/ FlushEnds(p)
    BY <2>1, <2>8 DEF FlushHasRoom, FlushRefused, FlushWrite, FlushEnds, Return
  <2>9. CASE Evict(p) \/ CheckDirectory(p)
    BY <1>1, <2>9 DEF Evict, CheckDirectory
  <2> QED
    BY <1>2, <2>2, <2>3, <2>4, <2>5, <2>6, <2>7, <2>8, <2>9 DEF PrepareStep
<1>3. CASE BackgroundStep
  <2>1. {"take", "clear", "applyRoom", "save", "restore", "restoreRoom"} \subseteq BackgroundLabels
    BY DEF BackgroundLabels
  <2> USE BackgroundMoves
  <2>2. CASE FinishClear \/ ClearEnds \/ ClearThrows \/ Configure \/ Restore
    BY <2>1, <2>2 DEF FinishClear, ClearEnds, ClearThrows, Configure, Restore
  <2>3. CASE ConfigureApplies \/ ConfigureRefused
    BY <2>1, <2>3 DEF ConfigureApplies, ConfigureRefused
  <2>4. CASE SaveConfig
    BY <2>1, <2>4 DEF SaveConfig, AfterSaveFails
  <2>5. CASE ClearOne \/ Evict(Background) \/ CheckDirectory(Background)
    BY <1>1, <2>5 DEF ClearOne, Evict, CheckDirectory
  <2> QED
    BY <1>3, <2>2, <2>3, <2>4, <2>5 DEF BackgroundStep
<1>4. CASE Restart
  BY <1>4, BackgroundIsNoPreparer DEF Restart, PcTypes, PreparerLabels, BackgroundLabels
<1>5. CASE ConfirmClear \/ ApplySettings \/ UNCHANGED vars
  BY <1>1, <1>5 DEF ConfirmClear, ApplySettings, vars
<1> QED
  BY <1>2, <1>3, <1>4, <1>5 DEF Next

LocalTypes ==
  /\ io \in Preparers \cup {Background, Nobody}
  /\ ioKey \in Keys \cup {NoKey}
  /\ pending \subseteq Keys /\ unavailable \subseteq Keys

LEMMA LocalTypesKept ==
  ASSUME Types, [Next]_vars
  PROVE  LocalTypes'
<1>0. LocalTypes /\ entries \subseteq Keys /\ dirty \subseteq Keys
      /\ Present(wav) \subseteq Keys /\ Present(json) \subseteq Keys
  BY DEF Types, ControlTypes, IndexTypes, LocalTypes, Present
<1> USE DEF LocalTypes
<1>1. ASSUME UNCHANGED <<io, localVars>> PROVE LocalTypes'
  BY <1>0, <1>1 DEF localVars
<1>2. ASSUME LeaveIo PROVE LocalTypes'
  BY <1>2 DEF LeaveIo
<1>3. ASSUME NEW p \in Preparers, PrepareStep(p) PROVE LocalTypes'
  <2>1. CASE StartPrepare(p) \/ ReadClearing(p) \/ EnterEngine(p) \/ GiveUp(p) \/ LookupMiss(p)
    BY <1>1, <2>1 DEF StartPrepare, ReadClearing, EnterEngine, GiveUp, LookupMiss
  <2>2. CASE LookupHit(p) \/ ReadWav(p) \/ ReadFails(p) \/ InstallRead(p)
    BY <1>0, <2>2 DEF LookupHit, ReadWav, ReadFails, InstallRead, localVars
  <2>3. CASE HitReturns(p) \/ PutRefused(p) \/ PutFails(p) \/ PutIndex(p) \/ PutStale(p) \/ FlushEnds(p)
    BY <1>2, <2>3 DEF HitReturns, PutRefused, PutFails, PutIndex, PutStale, FlushEnds
  <2>4. CASE Release(p) \/ Load(p) \/ LoadFails(p) \/ Synthesize(p) \/ SkipPut(p)
    BY <1>1, <2>4 DEF Release, Load, LoadFails, Synthesize, SkipPut
  <2>5. CASE EnterPut(p)
    <3>1. req[p].key \in Keys \cup {NoKey}
      BY DEF Types, ControlTypes
    <3> QED
      BY <1>0, <2>5, <3>1 DEF EnterPut
  <2>6. CASE PutHasRoom(p) \/ PutWav(p) \/ PutJson(p)
    BY <1>1, <2>6 DEF PutHasRoom, PutWav, PutJson
  <2>7. CASE HitFlush(p) \/ FlushUsage(p)
    BY <1>0, <2>7 DEF HitFlush, FlushUsage
  <2>8. CASE FlushNext(p)
    BY <1>0, <2>8 DEF FlushNext
  <2>9. CASE FlushHasRoom(p) \/ FlushRefused(p) \/ FlushWrite(p) \/ CheckDirectory(p)
    BY <1>1, <2>9 DEF FlushHasRoom, FlushRefused, FlushWrite, CheckDirectory
  <2>10. CASE Evict(p)
    BY <1>0, <2>10 DEF Evict, Evictable
  <2> QED
    BY <1>3, <2>1, <2>2, <2>3, <2>4, <2>5, <2>6, <2>7, <2>8, <2>9, <2>10 DEF PrepareStep
<1>4. CASE BackgroundStep
  <2>1. CASE FinishClear
    BY <1>0, <2>1 DEF FinishClear, ClearKeys
  <2>2. CASE ClearOne
    BY <1>0, <2>2 DEF ClearOne
  <2>3. CASE ClearEnds \/ ClearThrows \/ ConfigureApplies \/ ConfigureRefused
    BY <1>2, <2>3 DEF ClearEnds, ClearThrows, ConfigureApplies, ConfigureRefused
  <2>4. CASE Configure \/ SaveConfig \/ Restore \/ CheckDirectory(Background)
    BY <1>0, <2>4 DEF Configure, SaveConfig, Restore, CheckDirectory, localVars
  <2>5. CASE Evict(Background)
    BY <1>0, <2>5 DEF Evict, Evictable
  <2> QED
    BY <1>4, <2>1, <2>2, <2>3, <2>4, <2>5 DEF BackgroundStep
<1>5. CASE Restart
  BY <1>2, <1>5 DEF Restart
<1>6. CASE ConfirmClear \/ ApplySettings \/ UNCHANGED vars
  BY <1>1, <1>6 DEF ConfirmClear, ApplySettings, vars
<1> QED
  BY <1>3, <1>4, <1>5, <1>6 DEF Next

TtsTypes ==
  /\ engine \in Preparers \cup {Nobody} /\ loaded \in Keys \cup {NoKey}
  /\ req \in [Preparers -> [key : Keys \cup {NoKey}, epoch : 0..MaxClears,
                            era : 0..MaxClears, skip : BOOLEAN]]
  /\ got \in [Preparers -> Audio \cup {NoAudio}]

LEMMA TtsTypesKept ==
  ASSUME Types, Requests, [Next]_vars
  PROVE  TtsTypes'
<1>0. TtsTypes /\ FileTypes /\ IndexTypes /\ epoch \in 0..MaxClears /\ era \in 0..MaxClears
      /\ clearing \in BOOLEAN
  BY DEF Types, ControlTypes, CounterTypes, TtsTypes
<1>1. 0 \in 0..MaxClears
  BY BoundsAreNat
<1>2. NoRequest \in [key : Keys \cup {NoKey}, epoch : 0..MaxClears, era : 0..MaxClears, skip : BOOLEAN]
  BY <1>1 DEF NoRequest
<1> USE DEF TtsTypes
<1>3. ASSUME UNCHANGED ttsVars PROVE TtsTypes'
  BY <1>0, <1>3 DEF ttsVars
<1>4. ASSUME NEW p \in Preparers, PrepareStep(p) PROVE TtsTypes'
  <2>1. CASE StartPrepare(p)
    <3>1. PICK k \in Keys :
            req' = [req EXCEPT ![p] = [key |-> k, epoch |-> epoch, era |-> era, skip |-> FALSE]]
      BY <2>1 DEF StartPrepare
    <3>2. [key |-> k, epoch |-> epoch, era |-> era, skip |-> FALSE] \in
            [key : Keys \cup {NoKey}, epoch : 0..MaxClears, era : 0..MaxClears, skip : BOOLEAN]
      BY <1>0
    <3> QED
      BY <1>0, <2>1, <3>1, <3>2 DEF StartPrepare
  <2>2. CASE ReadClearing(p)
    BY <1>0, <2>2 DEF ReadClearing
  <2>3. CASE EnterEngine(p) \/ GiveUp(p) \/ LookupMiss(p)
    BY <1>0, <1>2, <2>3 DEF EnterEngine, GiveUp, LookupMiss, ttsVars
  <2>4. CASE LookupHit(p)
    <3>1. req[p].key \in Keys
      BY <1>0, <2>4 DEF LookupHit, Hit, IndexTypes
    <3>2. memory[req[p].key] \in Audio \cup {NoAudio}
      BY <1>0, <3>1 DEF IndexTypes, Contents
    <3> QED
      BY <1>0, <2>4, <3>2 DEF LookupHit
  <2>5. CASE ReadWav(p)
    <3>1. req[p].key \in Keys
      BY <2>5 DEF ReadWav, Requests, EngineLabels
    <3>2. wav[req[p].key] \in Audio \cup {NoAudio}
      BY <1>0, <3>1 DEF FileTypes, Contents
    <3> QED
      BY <1>0, <2>5, <3>2 DEF ReadWav
  <2>6. CASE InstallRead(p)
    BY <1>0, <2>6 DEF InstallRead
  <2>7. CASE ReadFails(p) \/ PutHasRoom(p) \/ PutWav(p) \/ PutJson(p) \/ EnterPut(p) \/ HitFlush(p)
    BY <1>3, <2>7 DEF ReadFails, PutHasRoom, PutWav, PutJson, EnterPut, HitFlush
  <2>8. CASE HitReturns(p) \/ SkipPut(p) \/ PutRefused(p) \/ PutFails(p) \/ PutIndex(p) \/ PutStale(p)
    BY <1>0, <2>8 DEF HitReturns, SkipPut, PutRefused, PutFails, PutIndex, PutStale, Return
  <2>9. CASE Release(p)
    BY <1>0, <1>2, <2>9 DEF Release
  <2>10. CASE Load(p)
    BY <1>0, <2>10 DEF Load, Ensured
  <2>11. CASE LoadFails(p)
    BY <1>0, <1>2, <2>11 DEF LoadFails
  <2>12. CASE Synthesize(p)
    <3>1. loaded \in Keys
      BY <2>12 DEF Synthesize, Requests, EngineLabels
    <3>2. [voice |-> loaded, era |-> req[p].era] \in Audio
      BY <1>0, <3>1 DEF Audio
    <3> QED
      BY <1>0, <2>12, <3>2 DEF Synthesize
  <2>13. CASE FlushUsage(p) \/ FlushNext(p) \/ FlushHasRoom(p) \/ FlushRefused(p) \/ FlushWrite(p)
              \/ Evict(p) \/ CheckDirectory(p)
    BY <1>3, <2>13 DEF FlushUsage, FlushNext, FlushHasRoom, FlushRefused, FlushWrite, Evict,
      CheckDirectory
  <2>14. CASE FlushEnds(p)
    BY <1>0, <2>14 DEF FlushEnds, Return
  <2> QED
    BY <1>4, <2>1, <2>2, <2>3, <2>4, <2>5, <2>6, <2>7, <2>8, <2>9, <2>10, <2>11, <2>12, <2>13,
       <2>14 DEF PrepareStep
<1>5. CASE BackgroundStep
  BY <1>3, <1>5, BackgroundWrites
<1>6. CASE Restart
  BY <1>0, <1>2, <1>6 DEF Restart
<1>7. CASE ConfirmClear \/ ApplySettings \/ UNCHANGED vars
  BY <1>3, <1>7 DEF ConfirmClear, ApplySettings, vars
<1> QED
  BY <1>4, <1>5, <1>6, <1>7 DEF Next

\* A step of one preparer is no step of another thread.
LEMMA PreparerKeepsOthers ==
  ASSUME Types, NEW p \in Preparers, PrepareStep(p)
  PROVE  /\ \A q \in Preparers : q # p => pc'[q] = pc[q] /\ req'[q] = req[q] /\ got'[q] = got[q]
         /\ pc'[Background] = pc[Background]
<1>0. TtsTypes /\ PcTypes
  BY DEF Types, ControlTypes, TtsTypes, PcTypes
<1> USE <1>0, BackgroundIsNoPreparer DEF TtsTypes, PcTypes, ttsVars, Goto
<1>1. CASE StartPrepare(p) \/ ReadClearing(p) \/ EnterEngine(p) \/ GiveUp(p) \/ LookupMiss(p)
  BY <1>1 DEF StartPrepare, ReadClearing, EnterEngine, GiveUp, LookupMiss
<1>2. CASE LookupHit(p) \/ ReadWav(p) \/ ReadFails(p) \/ InstallRead(p) \/ HitReturns(p)
  BY <1>2 DEF LookupHit, ReadWav, ReadFails, InstallRead, HitReturns, Return
<1>3. CASE Release(p) \/ Load(p) \/ LoadFails(p) \/ Synthesize(p) \/ SkipPut(p)
  BY <1>3 DEF Release, Load, LoadFails, Synthesize, SkipPut, Return
<1>4. CASE EnterPut(p) \/ PutHasRoom(p) \/ PutRefused(p) \/ PutWav(p) \/ PutJson(p)
  BY <1>4 DEF EnterPut, PutHasRoom, PutRefused, PutWav, PutJson, Return
<1>5. CASE PutFails(p) \/ PutIndex(p) \/ PutStale(p) \/ HitFlush(p) \/ FlushUsage(p)
  BY <1>5 DEF PutFails, PutIndex, PutStale, HitFlush, FlushUsage, Return
<1>6. CASE FlushNext(p) \/ FlushHasRoom(p) \/ FlushRefused(p) \/ FlushWrite(p) \/ FlushEnds(p)
  BY <1>6 DEF FlushNext, FlushHasRoom, FlushRefused, FlushWrite, FlushEnds, Return
<1>7. CASE Evict(p) \/ CheckDirectory(p)
  BY <1>7 DEF Evict, CheckDirectory
<1> QED
  BY <1>1, <1>2, <1>3, <1>4, <1>5, <1>6, <1>7 DEF PrepareStep

LEMMA BackgroundKeepsOthers ==
  ASSUME Types, BackgroundStep
  PROVE  /\ \A q \in Preparers : pc'[q] = pc[q]
         /\ UNCHANGED ttsVars
<1>0. TtsTypes /\ PcTypes
  BY DEF Types, ControlTypes, TtsTypes, PcTypes
<1> USE <1>0, BackgroundIsNoPreparer DEF PcTypes, Goto
<1>1. CASE FinishClear \/ ClearOne \/ ClearEnds \/ ClearThrows
  BY <1>1 DEF FinishClear, ClearOne, ClearEnds, ClearThrows
<1>2. CASE Configure \/ ConfigureApplies \/ ConfigureRefused \/ SaveConfig \/ Restore
  BY <1>2 DEF Configure, ConfigureApplies, ConfigureRefused, SaveConfig, Restore
<1>3. CASE Evict(Background) \/ CheckDirectory(Background)
  BY <1>3 DEF Evict, CheckDirectory
<1> QED
  BY <1>1, <1>2, <1>3 DEF BackgroundStep

\* A clear that the cache shows is queued or under way.
ClearIsAhead == clearing => ClearUnderWay

LEMMA ClearIsAheadKept ==
  ASSUME Types, ClearIsAhead, [Next]_vars
  PROVE  ClearIsAhead'
<1> USE DEF ClearIsAhead, ClearUnderWay
<1>0. jobs \in Seq(Options \cup {Clear})
  BY DEF Types, OptionTypes
<1>1. ASSUME UNCHANGED <<clearing, jobs, pc[Background]>> PROVE ClearIsAhead'
  BY <1>1
<1>2. ASSUME NEW p \in Preparers, PrepareStep(p) PROVE ClearIsAhead'
  <2>1. pc'[Background] = pc[Background]
    BY <1>2, PreparerKeepsOthers, BackgroundIsNoPreparer
  <2> QED
    BY <1>1, <1>2, <2>1, PreparerWrites DEF clearVars, jobVars
<1>3. CASE ConfirmClear \/ ApplySettings
  <2>1. PICK job \in Options \cup {Clear} :
          /\ jobs' = Append(jobs, job) /\ UNCHANGED pc
          /\ job = Clear \/ clearing' = clearing
    BY <1>3 DEF ConfirmClear, ApplySettings, clearVars
  <2>2. /\ DOMAIN jobs' = 1..(Len(jobs) + 1) /\ DOMAIN jobs = 1..Len(jobs) /\ Len(jobs) \in Nat
        /\ jobs'[Len(jobs) + 1] = job
        /\ \A i \in DOMAIN jobs : jobs'[i] = jobs[i] /\ i \in DOMAIN jobs'
        /\ Len(jobs) + 1 \in DOMAIN jobs'
    BY <1>0, <2>1
  <2> QED
    BY <2>1, <2>2
<1>4. CASE FinishClear
  BY <1>4, BackgroundIsNoPreparer DEF FinishClear, Goto, Types, ControlTypes
<1>5. CASE ClearEnds \/ ClearThrows
  BY <1>5 DEF ClearEnds, ClearThrows, ThrowEndsClear
<1>6. CASE Configure
  <2>1. /\ jobs # <<>> /\ Head(jobs) # Clear /\ jobs' = Tail(jobs) /\ clearing' = clearing
        /\ pc[Background] = "take"
    BY <1>6 DEF Configure, clearVars
  <2>2. CASE clearing
    <3>1. PICK i \in DOMAIN jobs : jobs[i] = Clear
      BY <2>1, <2>2
    <3>2. i \in 2..Len(jobs)
      BY <1>0, <2>1, <3>1
    <3>3. i - 1 \in DOMAIN jobs' /\ jobs'[i - 1] = Clear
      BY <1>0, <2>1, <3>1, <3>2
    <3> QED
      BY <3>3
  <2> QED
    BY <2>1, <2>2
<1>7. CASE ClearOne \/ SaveConfig \/ Restore \/ ConfigureApplies \/ ConfigureRefused
  <2>1. clearing' = clearing /\ jobs' = jobs
    BY <1>7 DEF ClearOne, SaveConfig, Restore, ConfigureApplies, ConfigureRefused, clearVars, jobVars
  <2>2. pc[Background] = "clear" => pc'[Background] = "clear"
    BY <1>7 DEF ClearOne, SaveConfig, Restore, ConfigureApplies, ConfigureRefused
  <2> QED
    BY <2>1, <2>2
<1>8. CASE Evict(Background) \/ CheckDirectory(Background) \/ UNCHANGED vars
  BY <1>1, <1>8 DEF Evict, CheckDirectory, clearVars, jobVars, vars
<1>9. CASE Restart
  BY <1>9 DEF Restart
<1> QED
  BY <1>2, <1>3, <1>4, <1>5, <1>6, <1>7, <1>8, <1>9 DEF Next, BackgroundStep

LEMMA TypesKept ==
  ASSUME Types, Disk, Requests, BooksAreTrue, [Next]_vars
  PROVE  Types'
<1>1. FileTypes' /\ IndexTypes' /\ CounterTypes' /\ OptionTypes'
  BY FileTypesKept, IndexTypesKept, CounterTypesKept, OptionTypesKept
<1>2. PcTypes
  BY DEF Types, ControlTypes, PcTypes
<1>3. LocalTypes' /\ TtsTypes' /\ PcTypes'
  BY <1>2, LocalTypesKept, TtsTypesKept, PcTypesKept
<1>4. ControlTypes'
  BY <1>3 DEF LocalTypes, TtsTypes, PcTypes, ControlTypes
<1> QED
  BY <1>1, <1>4 DEF Types

-----------------------------------------------------------------------------
(* Locks: who holds one works alone.                                       *)

\* What a preparer takes was free or its own, and it holds what its label needs.
LEMMA PreparerLocks ==
  ASSUME Types, Locks, NEW p \in Preparers, PrepareStep(p)
  PROVE  /\ engine' = engine \/ engine \in {p, Nobody}
         /\ io' = io \/ io \in {p, Nobody}
         /\ pc'[p] \in EngineLabels => engine' = p
         /\ pc'[p] \in IoLabels => io' = p
<1>0. PcTypes
  BY DEF Types, ControlTypes, PcTypes
<1>1. /\ pc[p] \in EngineLabels => engine = p
      /\ pc[p] \in IoLabels => io = p
  BY DEF Locks
<1>2. ASSUME NEW label, Goto(p, label) PROVE pc'[p] = label
  BY <1>0, <1>2 DEF Goto, PcTypes
<1> USE <1>1, <1>2 DEF EngineLabels, IoLabels, PutLabels, FlushLabels, ttsVars
<1>3. CASE StartPrepare(p) \/ ReadClearing(p) \/ EnterEngine(p) \/ GiveUp(p) \/ LookupMiss(p)
  BY <1>3 DEF StartPrepare, ReadClearing, EnterEngine, GiveUp, LookupMiss
<1>4. CASE LookupHit(p) \/ ReadWav(p) \/ ReadFails(p) \/ InstallRead(p)
  BY <1>4 DEF LookupHit, ReadWav, ReadFails, InstallRead
<1>5. CASE HitReturns(p) \/ PutRefused(p) \/ PutFails(p) \/ PutIndex(p) \/ PutStale(p)
  BY <1>5 DEF HitReturns, PutRefused, PutFails, PutIndex, PutStale, Return, LeaveIo
<1>6. CASE Release(p) \/ Load(p) \/ LoadFails(p) \/ Synthesize(p) \/ SkipPut(p)
  BY <1>6 DEF Release, Load, LoadFails, Synthesize, SkipPut, Return
<1>7. CASE EnterPut(p) \/ PutHasRoom(p) \/ PutWav(p) \/ PutJson(p)
  BY <1>7 DEF EnterPut, PutHasRoom, PutWav, PutJson
<1>8. CASE HitFlush(p) \/ FlushUsage(p) \/ FlushEnds(p)
  BY <1>8 DEF HitFlush, FlushUsage, FlushEnds, LeaveIo, Return
<1>9. CASE FlushNext(p) \/ FlushHasRoom(p) \/ FlushRefused(p) \/ FlushWrite(p)
  BY <1>9 DEF FlushNext, FlushHasRoom, FlushRefused, FlushWrite
<1>10. CASE Evict(p) \/ CheckDirectory(p)
  BY <1>10 DEF Evict, CheckDirectory
<1> QED
  BY <1>3, <1>4, <1>5, <1>6, <1>7, <1>8, <1>9, <1>10 DEF PrepareStep

\* The same of the background queue.
LEMMA BackgroundLocks ==
  ASSUME Types, Locks, BackgroundStep
  PROVE  /\ engine' = engine
         /\ io' = io \/ io \in {Background, Nobody}
         /\ pc'[Background] \in {"clear", "applyRoom", "restoreRoom"} => io' = Background
<1>0. PcTypes
  BY DEF Types, ControlTypes, PcTypes
<1>1. pc[Background] \in {"clear", "applyRoom", "restoreRoom"} => io = Background
  BY DEF Locks
<1>2. ASSUME NEW label, Goto(Background, label) PROVE pc'[Background] = label
  BY <1>0, <1>2 DEF Goto, PcTypes
<1>3. CASE FinishClear \/ ClearOne \/ ClearEnds \/ ClearThrows
  BY <1>1, <1>2, <1>3 DEF FinishClear, ClearOne, ClearEnds, ClearThrows, LeaveIo, ttsVars
<1>4. CASE Configure \/ ConfigureApplies \/ ConfigureRefused
  BY <1>1, <1>2, <1>4 DEF Configure, ConfigureApplies, ConfigureRefused, LeaveIo, ttsVars
<1>5. CASE SaveConfig \/ Restore
  BY <1>1, <1>2, <1>5 DEF SaveConfig, AfterSaveFails, Restore, ttsVars
<1>6. CASE Evict(Background) \/ CheckDirectory(Background)
  BY <1>1, <1>6 DEF Evict, CheckDirectory, ttsVars
<1> QED
  BY <1>3, <1>4, <1>5, <1>6 DEF BackgroundStep

LEMMA LocksKept ==
  ASSUME Types, Locks, [Next]_vars
  PROVE  Locks'
<1> USE BackgroundIsNoPreparer
<1>1. ASSUME NEW p \in Preparers, PrepareStep(p) PROVE Locks'
  <2>1. ASSUME NEW q \in Preparers, q # p
        PROVE  /\ pc'[q] \in EngineLabels => engine' = q
               /\ pc'[q] \in IoLabels => io' = q
    BY <1>1, <2>1, PreparerLocks, PreparerKeepsOthers DEF Locks
  <2>2. pc'[Background] \in {"clear", "applyRoom", "restoreRoom"} => io' = Background
    BY <1>1, PreparerLocks, PreparerKeepsOthers DEF Locks
  <2> QED
    BY <1>1, <2>1, <2>2, PreparerLocks DEF Locks
<1>2. CASE BackgroundStep
  BY <1>2, BackgroundLocks, BackgroundKeepsOthers DEF Locks
<1>3. CASE Restart
  BY <1>3 DEF Restart, Locks, EngineLabels, IoLabels, PutLabels, FlushLabels, Types, ControlTypes
<1>4. CASE ConfirmClear \/ ApplySettings \/ UNCHANGED vars
  BY <1>4 DEF ConfirmClear, ApplySettings, vars, ttsVars, Locks
<1> QED
  BY <1>1, <1>2, <1>3, <1>4 DEF Next

LEMMA DiskKept ==
  ASSUME Types, Disk, [Next]_vars
  PROVE  Disk'
<1>0. PcTypes
  BY DEF Types, ControlTypes, PcTypes
<1>1. ASSUME NEW p \in Preparers, PrepareStep(p) PROVE Disk'
  <2>1. diskEnabled' = diskEnabled /\ owned' = owned
    BY <1>1, PreparerWrites DEF optionVars
  <2>2. ASSUME NEW q \in Preparers, q # p, pc'[q] \in DiskLabels PROVE diskEnabled'
    BY <1>1, <2>1, <2>2, PreparerKeepsOthers DEF Disk
  <2>3. ASSUME pc'[p] \in DiskLabels PROVE diskEnabled
    <3>1. ASSUME NEW label, Goto(p, label) PROVE pc'[p] = label
      BY <1>0, <3>1 DEF Goto, PcTypes
    <3>2. pc[p] \in DiskLabels => diskEnabled
      BY DEF Disk
    <3> USE <2>3, <3>1, <3>2 DEF DiskLabels, FlushLabels
    <3>3. CASE StartPrepare(p) \/ ReadClearing(p) \/ EnterEngine(p) \/ GiveUp(p) \/ LookupMiss(p)
      BY <3>3 DEF StartPrepare, ReadClearing, EnterEngine, GiveUp, LookupMiss
    <3>4. CASE LookupHit(p) \/ ReadWav(p) \/ ReadFails(p) \/ InstallRead(p) \/ HitReturns(p)
      BY <3>4 DEF LookupHit, ReadWav, ReadFails, InstallRead, HitReturns, Return
    <3>5. CASE Release(p) \/ Load(p) \/ LoadFails(p) \/ Synthesize(p) \/ SkipPut(p)
      BY <3>5 DEF Release, Load, LoadFails, Synthesize, SkipPut, Return
    <3>6. CASE EnterPut(p) \/ PutHasRoom(p) \/ PutRefused(p) \/ PutWav(p) \/ PutJson(p)
      BY <3>6 DEF EnterPut, PutHasRoom, PutRefused, PutWav, PutJson, Return
    <3>7. CASE PutFails(p) \/ PutIndex(p) \/ PutStale(p) \/ HitFlush(p) \/ FlushUsage(p)
      BY <3>7 DEF PutFails, PutIndex, PutStale, HitFlush, FlushUsage, Return, MayFlush
    <3>8. CASE FlushNext(p) \/ FlushHasRoom(p) \/ FlushRefused(p) \/ FlushWrite(p) \/ FlushEnds(p)
      BY <3>8 DEF FlushNext, FlushHasRoom, FlushRefused, FlushWrite, FlushEnds, Return
    <3>9. CASE Evict(p) \/ CheckDirectory(p)
      BY <3>9 DEF Evict, CheckDirectory
    <3> QED
      BY <1>1, <3>3, <3>4, <3>5, <3>6, <3>7, <3>8, <3>9 DEF PrepareStep
  <2> QED
    BY <2>1, <2>2, <2>3 DEF Disk
<1>2. CASE BackgroundStep
  BY <1>2, BackgroundKeepsOthers, BackgroundWrites DEF Disk
<1>3. CASE Restart
  <2>1. diskEnabled' => owned'
    BY <1>3 DEF Restart, Recovers, RecoveryThrows, NotOwner
  <2>2. \A p \in Preparers : pc'[p] = "idle"
    BY <1>3, BackgroundIsNoPreparer DEF Restart, Types, ControlTypes
  <2> QED
    BY <2>1, <2>2 DEF Disk, DiskLabels, FlushLabels
<1>4. CASE ConfirmClear \/ ApplySettings \/ UNCHANGED vars
  BY <1>4 DEF ConfirmClear, ApplySettings, vars, optionVars, Disk
<1> QED
  BY <1>1, <1>2, <1>3, <1>4 DEF Next

\* While io is somebody else's, a thread leaves alone what io guards.
LEMMA PreparerWaits ==
  ASSUME Locks, NEW p \in Preparers, PrepareStep(p), io # p, io # Nobody
  PROVE  UNCHANGED <<fileVars, countVars, entries, older, memory, meta, dirty, io, localVars, faults>>
<1> USE DEF Locks, IoLabels, PutLabels, FlushLabels, indexVars
<1>1. CASE StartPrepare(p) \/ ReadClearing(p) \/ EnterEngine(p) \/ GiveUp(p) \/ LookupMiss(p)
  BY <1>1 DEF StartPrepare, ReadClearing, EnterEngine, GiveUp, LookupMiss
<1>2. CASE LookupHit(p) \/ ReadWav(p) \/ ReadFails(p) \/ InstallRead(p) \/ HitReturns(p)
  BY <1>2 DEF LookupHit, ReadWav, ReadFails, InstallRead, HitReturns
<1>3. CASE Release(p) \/ Load(p) \/ LoadFails(p) \/ Synthesize(p) \/ SkipPut(p)
  BY <1>3 DEF Release, Load, LoadFails, Synthesize, SkipPut
<1>4. CASE EnterPut(p) \/ PutHasRoom(p) \/ PutRefused(p) \/ PutWav(p) \/ PutJson(p)
  BY <1>4 DEF EnterPut, PutHasRoom, PutRefused, PutWav, PutJson
<1>5. CASE PutFails(p) \/ PutIndex(p) \/ PutStale(p) \/ HitFlush(p) \/ FlushUsage(p)
  BY <1>5 DEF PutFails, PutIndex, PutStale, HitFlush, FlushUsage
<1>6. CASE FlushNext(p) \/ FlushHasRoom(p) \/ FlushRefused(p) \/ FlushWrite(p) \/ FlushEnds(p)
  BY <1>6 DEF FlushNext, FlushHasRoom, FlushRefused, FlushWrite, FlushEnds
<1>7. CASE Evict(p) \/ CheckDirectory(p)
  BY <1>7 DEF Evict, CheckDirectory
<1> QED
  BY <1>1, <1>2, <1>3, <1>4, <1>5, <1>6, <1>7 DEF PrepareStep

LEMMA BackgroundWaits ==
  ASSUME Locks, BackgroundStep, io # Background, io # Nobody
  PROVE  UNCHANGED <<fileVars, countVars, indexVars, clearVars, optionVars, io, localVars>>
<1> USE DEF Locks
<1>1. CASE FinishClear \/ ClearOne \/ ClearEnds \/ ClearThrows
  BY <1>1 DEF FinishClear, ClearOne, ClearEnds, ClearThrows
<1>2. CASE Configure \/ ConfigureApplies \/ ConfigureRefused \/ SaveConfig \/ Restore
  BY <1>2 DEF Configure, ConfigureApplies, ConfigureRefused, SaveConfig, Restore
<1>3. CASE Evict(Background) \/ CheckDirectory(Background)
  BY <1>3 DEF Evict, CheckDirectory
<1> QED
  BY <1>1, <1>2, <1>3 DEF BackgroundStep

\* What io guards, and what its holder q knows, is changed by q alone, or with
\* the end of the process; only ConfirmClear needs no io.
LEMMA HolderIsAlone ==
  ASSUME Types, Locks, [Next]_vars, NEW q \in Preparers, pc[q] \in IoLabels
  PROVE  \/ PrepareStep(q)
         \/ Restart
         \/ /\ UNCHANGED <<fileVars, countVars, entries, older, meta, optionVars, io, localVars>>
            /\ pc'[q] = pc[q] /\ req'[q] = req[q] /\ got'[q] = got[q]
            /\ ConfirmClear \/ UNCHANGED <<memory, dirty, clearVars>>
<1>1. io = q /\ q # Background /\ io # Nobody
  BY BackgroundIsNoPreparer DEF Locks
<1>2. ASSUME NEW p \in Preparers, p # q, PrepareStep(p)
      PROVE  /\ UNCHANGED <<fileVars, countVars, entries, older, meta, optionVars, io, localVars>>
             /\ pc'[q] = pc[q] /\ req'[q] = req[q] /\ got'[q] = got[q]
             /\ UNCHANGED <<memory, dirty, clearVars>>
  BY <1>1, <1>2, PreparerWaits, PreparerWrites, PreparerKeepsOthers
<1>3. CASE BackgroundStep
  BY <1>1, <1>3, BackgroundWaits, BackgroundKeepsOthers DEF ttsVars, indexVars
<1>4. CASE ConfirmClear
  BY <1>4 DEF ConfirmClear, ttsVars
<1>5. CASE ApplySettings \/ UNCHANGED vars
  BY <1>5 DEF ApplySettings, ttsVars, indexVars, vars
<1> QED
  BY <1>2, <1>3, <1>4, <1>5 DEF Next

-----------------------------------------------------------------------------
(* Requests: what each preparer asked for, and the audio it got.           *)

LEMMA GoneTo ==
  ASSUME Types, NEW t \in Preparers \cup {Background}, NEW label, Goto(t, label)
  PROVE  pc'[t] = label
BY DEF Goto, Types, ControlTypes

RequestOf(q) ==
  /\ pc[q] \in EngineLabels \cup {"clearing", "wait"} => req[q].key \in Keys
  /\ req[q].key # NoKey => epoch + req[q].era = era + req[q].epoch
  /\ pc[q] = "synth" => loaded = req[q].key
  /\ pc[q] \in PutLabels => ioKey = req[q].key /\ (clearing \/ req[q].epoch = epoch)

LEMMA OwnRequest ==
  ASSUME Types, Locks, NEW q \in Preparers, RequestOf(q), PrepareStep(q)
  PROVE  RequestOf(q)'
<1>0. /\ epoch' = epoch /\ era' = era /\ clearing' = clearing
      /\ epoch \in Nat /\ era \in Nat
  BY PreparerWrites, BoundsAreNat DEF clearVars, Types, CounterTypes
<1>1. /\ TtsTypes
      /\ req[q] \in [key : Keys \cup {NoKey}, epoch : 0..MaxClears, era : 0..MaxClears, skip : BOOLEAN]
  BY DEF Types, ControlTypes, TtsTypes
<1> USE <1>0, <1>1, GoneTo DEF RequestOf, EngineLabels, PutLabels, TtsTypes, ttsVars
<1>2. CASE StartPrepare(q)
  <2>1. PICK k \in Keys :
          req' = [req EXCEPT ![q] = [key |-> k, epoch |-> epoch, era |-> era, skip |-> FALSE]]
    BY <1>2 DEF StartPrepare
  <2>2. req'[q] = [key |-> k, epoch |-> epoch, era |-> era, skip |-> FALSE]
    BY <2>1
  <2>3. pc'[q] = "clearing"
    BY <1>2 DEF StartPrepare
  <2> QED
    BY <2>2, <2>3
<1>3. CASE ReadClearing(q)
  BY <1>3 DEF ReadClearing
<1>4. CASE EnterEngine(q) \/ LookupMiss(q)
  BY <1>4 DEF EnterEngine, LookupMiss
<1>5. CASE GiveUp(q) \/ Release(q) \/ LoadFails(q)
  <2>1. req'[q] = NoRequest /\ pc'[q] = "idle"
    BY <1>5 DEF GiveUp, Release, LoadFails
  <2> QED
    BY <2>1 DEF NoRequest
<1>6. CASE LookupHit(q)
  BY <1>6 DEF LookupHit
<1>7. CASE ReadWav(q) \/ ReadFails(q) \/ InstallRead(q)
  BY <1>7 DEF ReadWav, ReadFails, InstallRead
<1>8. CASE HitReturns(q) \/ SkipPut(q) \/ PutRefused(q) \/ PutFails(q) \/ PutIndex(q) \/ PutStale(q)
  BY <1>8 DEF HitReturns, SkipPut, PutRefused, PutFails, PutIndex, PutStale, Return
<1>9. CASE Load(q)
  BY <1>9 DEF Load, Ensured
<1>10. CASE Synthesize(q)
  BY <1>10 DEF Synthesize
<1>11. CASE EnterPut(q)
  BY <1>11 DEF EnterPut, MayPut, OutOfDate
<1>12. CASE PutHasRoom(q) \/ PutWav(q) \/ PutJson(q)
  BY <1>12 DEF PutHasRoom, PutWav, PutJson, localVars
<1>13. CASE HitFlush(q) \/ FlushUsage(q) \/ FlushNext(q) \/ FlushHasRoom(q) \/ FlushRefused(q) \/ FlushWrite(q)
  BY <1>13 DEF HitFlush, FlushUsage, FlushNext, FlushHasRoom, FlushRefused, FlushWrite
<1>14. CASE FlushEnds(q)
  BY <1>14 DEF FlushEnds, Return
<1>15. CASE Evict(q) \/ CheckDirectory(q)
  BY <1>15 DEF Evict, CheckDirectory, localVars
<1> QED
  BY <1>2, <1>3, <1>4, <1>5, <1>6, <1>7, <1>8, <1>9, <1>10, <1>11, <1>12, <1>13, <1>14, <1>15
     DEF PrepareStep

\* Only the holder of the engine loads a voice.
LEMMA OthersLoadNothing ==
  ASSUME Locks, NEW p \in Preparers, PrepareStep(p), engine # p
  PROVE  loaded' = loaded
<1> USE DEF Locks, EngineLabels, PutLabels, ttsVars
<1>1. ~Load(p) /\ ~LoadFails(p)
  BY DEF Load, LoadFails
<1>2. CASE ~Load(p) /\ ~LoadFails(p)
  BY <1>2 DEF PrepareStep, StartPrepare, ReadClearing, EnterEngine, GiveUp,
      LookupMiss, LookupHit, ReadWav, ReadFails, InstallRead, HitReturns, Release,
      Synthesize, SkipPut, EnterPut, PutHasRoom, PutRefused, PutWav, PutJson, PutFails,
      PutIndex, PutStale, HitFlush, FlushUsage, FlushNext, FlushHasRoom, FlushRefused,
      FlushWrite, FlushEnds, Evict, CheckDirectory
<1> QED
  BY <1>1, <1>2

LEMMA RequestsKept ==
  ASSUME Types, Locks, Requests, [Next]_vars
  PROVE  Requests'
<1>0. /\ epoch \in Nat /\ era \in Nat
      /\ \A q \in Preparers : req[q].era \in Nat /\ req[q].epoch \in Nat
  BY BoundsAreNat DEF Types, CounterTypes, ControlTypes
<1>1. epoch' <= era'
  <2>1. CASE UNCHANGED <<epoch, era>>
    BY <2>1 DEF Requests
  <2>2. CASE ConfirmClear
    BY <1>0, <2>2 DEF ConfirmClear, Requests
  <2>3. CASE Restart
    BY <1>0, <2>3 DEF Restart
  <2>4. CASE UNCHANGED vars \/ ApplySettings
    BY <2>1, <2>4 DEF ApplySettings, vars, clearVars
  <2> QED
    BY <2>1, <2>2, <2>3, <2>4, PreparerWrites, BackgroundWrites DEF Next, clearVars
<1>2. ASSUME NEW q \in Preparers PROVE RequestOf(q)'
  <2>0. RequestOf(q)
    BY DEF Requests, RequestOf
  <2>1. CASE PrepareStep(q)
    BY <2>0, <2>1, OwnRequest
  <2>2. CASE Restart
    <3>1. req'[q] = NoRequest /\ pc'[q] = "idle"
      BY <2>2, BackgroundIsNoPreparer DEF Restart, Types, ControlTypes
    <3> QED
      BY <3>1 DEF RequestOf, NoRequest, EngineLabels, PutLabels
  <2>3. CASE ~PrepareStep(q) /\ ~Restart
    <3>1. pc'[q] = pc[q] /\ req'[q] = req[q]
      <4>1. CASE \E p \in Preparers : p # q /\ PrepareStep(p)
        BY <4>1, PreparerKeepsOthers
      <4>2. CASE BackgroundStep
        BY <4>2, BackgroundKeepsOthers DEF ttsVars
      <4>3. CASE ConfirmClear \/ ApplySettings \/ UNCHANGED vars
        BY <4>3 DEF ConfirmClear, ApplySettings, vars, ttsVars
      <4> QED
        BY <2>3, <4>1, <4>2, <4>3 DEF Next
    <3>2. \/ epoch' = epoch /\ era' = era
          \/ epoch' = epoch + 1 /\ era' = era + 1 /\ clearing' = TRUE
      <4>1. CASE ConfirmClear
        BY <4>1 DEF ConfirmClear
      <4>2. CASE ApplySettings \/ UNCHANGED vars
        BY <4>2 DEF ApplySettings, vars, clearVars
      <4> QED
        BY <2>3, <4>1, <4>2, PreparerWrites, BackgroundWrites DEF Next, clearVars
    <3>3. ASSUME pc[q] = "synth" PROVE loaded' = loaded
      <4>1. engine = q
        BY <3>3 DEF Locks, EngineLabels
      <4>2. CASE \E p \in Preparers : p # q /\ PrepareStep(p)
        BY <4>1, <4>2, OthersLoadNothing
      <4>3. CASE BackgroundStep
        BY <4>3, BackgroundKeepsOthers DEF ttsVars
      <4>4. CASE ConfirmClear \/ ApplySettings \/ UNCHANGED vars
        BY <4>4 DEF ConfirmClear, ApplySettings, vars, ttsVars
      <4> QED
        BY <2>3, <4>2, <4>3, <4>4 DEF Next
    <3>4. pc[q] \in PutLabels => UNCHANGED ioKey /\ (ConfirmClear \/ UNCHANGED clearVars)
      BY <2>3, HolderIsAlone DEF IoLabels, localVars
    <3>5. pc[q] \in PutLabels => ioKey' = ioKey /\ (clearing' \/ (clearing' = clearing /\ epoch' = epoch))
      BY <3>4 DEF ConfirmClear, clearVars
    <3>6. req[q].key # NoKey => epoch' + req[q].era = era' + req[q].epoch
      BY <1>0, <2>0, <3>2 DEF RequestOf
    <3> QED
      BY <2>0, <3>1, <3>3, <3>5, <3>6 DEF RequestOf
  <2> QED
    BY <2>1, <2>2, <2>3
<1> QED
  BY <1>1, <1>2 DEF Requests, RequestOf

\* What a thread has of its own changes with its own steps only.
LEMMA NotMyStep ==
  ASSUME Types, [Next]_vars, NEW q \in Preparers, ~PrepareStep(q), ~Restart
  PROVE  pc'[q] = pc[q] /\ req'[q] = req[q] /\ got'[q] = got[q]
<1>1. CASE \E p \in Preparers : p # q /\ PrepareStep(p)
  BY <1>1, PreparerKeepsOthers
<1>2. CASE BackgroundStep
  BY <1>2, BackgroundKeepsOthers DEF ttsVars
<1>3. CASE ConfirmClear \/ ApplySettings \/ UNCHANGED vars
  BY <1>3 DEF ConfirmClear, ApplySettings, vars, ttsVars
<1> QED
  BY <1>1, <1>2, <1>3 DEF Next

\* A preparer holds audio only between its hit or synthesis and its release.
SilentLabels == {"idle", "clearing", "wait", "lookup", "read", "load", "synth"}

GotOf(q) ==
  /\ pc[q] \in SilentLabels => got[q] = NoAudio
  /\ pc[q] \in FlushLabels /\ engine # q => got[q] = NoAudio
  /\ pc[q] \in {"put"} \cup PutLabels => got[q] = [voice |-> req[q].key, era |-> req[q].era]
  /\ pc[q] = "install" =>
       got[q] # NoAudio /\ wav[req[q].key] = got[q] /\ json[req[q].key] = got[q]

GotAudio == \A q \in Preparers : GotOf(q)

LEMMA OwnGot ==
  ASSUME Types, Locks, Requests, NEW q \in Preparers, GotOf(q), PrepareStep(q)
  PROVE  GotOf(q)'
<1>1. /\ TtsTypes
      /\ pc[q] \in EngineLabels => engine = q
      /\ q # Nobody
  BY BackgroundIsNoPreparer DEF Types, ControlTypes, TtsTypes, Locks
<1> USE <1>1, GoneTo
    DEF GotOf, SilentLabels, EngineLabels, FlushLabels, PutLabels, TtsTypes, ttsVars
<1>2. CASE StartPrepare(q)
  <2>1. pc'[q] = "clearing" /\ got' = got
    BY <1>2 DEF StartPrepare
  <2> QED
    BY <1>2, <2>1 DEF StartPrepare
<1>3. CASE ReadClearing(q)
  BY <1>3 DEF ReadClearing
<1>4. CASE EnterEngine(q) \/ LookupMiss(q)
  BY <1>4 DEF EnterEngine, LookupMiss
<1>5. CASE GiveUp(q) \/ Release(q) \/ LoadFails(q)
  BY <1>5 DEF GiveUp, Release, LoadFails
<1>6. CASE LookupHit(q)
  <2>1. pc'[q] \in {"hit", "read", "load"} /\ (pc'[q] # "hit" => got' = got) /\ engine' = engine
    BY <1>6 DEF LookupHit
  <2> QED
    BY <1>6, <2>1 DEF LookupHit
<1>7. CASE ReadWav(q)
  <2>1. CASE OutOfDate(q)
    BY <1>7, <2>1 DEF ReadWav
  <2>2. CASE ~OutOfDate(q)
    <3>1. /\ pc'[q] = "install" /\ req' = req
          /\ got'[q] = wav[req[q].key] /\ wav[req[q].key] # NoAudio
          /\ json[req[q].key] = wav[req[q].key]
          /\ UNCHANGED fileVars
      BY <1>7, <2>2 DEF ReadWav, Whole
    <3> QED
      BY <3>1 DEF fileVars
  <2> QED
    BY <2>1, <2>2
<1>8. CASE ReadFails(q)
  BY <1>8 DEF ReadFails
<1>9. CASE InstallRead(q)
  BY <1>9 DEF InstallRead
<1>10. CASE HitReturns(q) \/ SkipPut(q) \/ PutRefused(q) \/ PutFails(q) \/ PutIndex(q) \/ PutStale(q)
  BY <1>10 DEF HitReturns, SkipPut, PutRefused, PutFails, PutIndex, PutStale, Return
<1>11. CASE Load(q)
  BY <1>11 DEF Load
<1>12. CASE Synthesize(q)
  <2>1. loaded = req[q].key
    BY <1>12 DEF Synthesize, Requests
  <2> QED
    BY <1>12, <2>1 DEF Synthesize
<1>13. CASE EnterPut(q) \/ PutHasRoom(q) \/ PutWav(q) \/ PutJson(q)
  BY <1>13 DEF EnterPut, PutHasRoom, PutWav, PutJson
<1>14. CASE HitFlush(q)
  BY <1>14 DEF HitFlush
<1>15. CASE FlushUsage(q)
  BY <1>15 DEF FlushUsage
<1>16. CASE FlushNext(q) \/ FlushHasRoom(q) \/ FlushRefused(q) \/ FlushWrite(q)
  <2>1. pc'[q] \in FlushLabels /\ UNCHANGED ttsVars
    BY <1>16 DEF FlushNext, FlushHasRoom, FlushRefused, FlushWrite
  <2>2. pc[q] \in FlushLabels
    BY <1>16 DEF FlushNext, FlushHasRoom, FlushRefused, FlushWrite
  <2> QED
    BY <2>1, <2>2
<1>17. CASE FlushEnds(q)
  BY <1>17 DEF FlushEnds, Return
<1>18. CASE Evict(q) \/ CheckDirectory(q)
  BY <1>18 DEF Evict, CheckDirectory, Rooms
<1> QED
  BY <1>2, <1>3, <1>4, <1>5, <1>6, <1>7, <1>8, <1>9, <1>10, <1>11, <1>12, <1>13, <1>14, <1>15,
     <1>16, <1>17, <1>18 DEF PrepareStep

LEMMA GotAudioKept ==
  ASSUME Types, Locks, Requests, GotAudio, [Next]_vars
  PROVE  GotAudio'
<1> SUFFICES ASSUME NEW q \in Preparers PROVE GotOf(q)'
  BY DEF GotAudio
<1>0. GotOf(q) /\ q # Nobody
  BY BackgroundIsNoPreparer DEF GotAudio
<1>1. CASE PrepareStep(q)
  BY <1>0, <1>1, OwnGot
<1>2. CASE Restart
  <2>1. got'[q] = NoAudio /\ pc'[q] = "idle"
    BY <1>2, BackgroundIsNoPreparer DEF Restart, Types, ControlTypes
  <2> QED
    BY <2>1 DEF GotOf, SilentLabels, FlushLabels, PutLabels
<1>3. CASE ~PrepareStep(q) /\ ~Restart
  <2>1. pc'[q] = pc[q] /\ req'[q] = req[q] /\ got'[q] = got[q]
    BY <1>3, NotMyStep
  <2>2. engine' # q => engine # q
    <3>1. CASE \E p \in Preparers : p # q /\ PrepareStep(p)
      BY <1>0, <3>1, PreparerLocks
    <3>2. CASE BackgroundStep
      BY <3>2, BackgroundLocks
    <3>3. CASE ConfirmClear \/ ApplySettings \/ UNCHANGED vars
      BY <3>3 DEF ConfirmClear, ApplySettings, vars, ttsVars
    <3> QED
      BY <1>3, <3>1, <3>2, <3>3 DEF Next
  <2>3. pc[q] = "install" => UNCHANGED fileVars
    BY <1>3, HolderIsAlone DEF IoLabels
  <2> QED
    BY <1>0, <2>1, <2>2, <2>3 DEF GotOf, fileVars
<1> QED
  BY <1>1, <1>2, <1>3

-----------------------------------------------------------------------------
(* Voices.                                                                 *)

OwnVoices(f) == \A k \in Keys : f[k] # NoAudio => f[k].voice = k

LEMMA VoiceWritten ==
  ASSUME NEW f \in Contents, OwnVoices(f), NEW k, NEW a, a # NoAudio => a.voice = k
  PROVE  OwnVoices([f EXCEPT ![k] = a])
BY DEF OwnVoices, Contents

LEMMA VoicesTrimmed ==
  ASSUME NEW m, OwnVoices(m), NEW order
  PROVE  OwnVoices(Trimmed(m, order))
BY DEF OwnVoices, Trimmed

LEMMA PutsItsVoice ==
  ASSUME GotAudio, NEW q \in Preparers, pc[q] \in {"put"} \cup PutLabels
  PROVE  got[q].voice = req[q].key
<1>1. got[q] = [voice |-> req[q].key, era |-> req[q].era]
  BY DEF GotAudio, GotOf
<1> QED
  BY <1>1

\* The wav files keep their voices.
LEMMA WavVoices ==
  ASSUME Types, Requests, GotAudio, OwnVoices(wav), [Next]_vars
  PROVE  OwnVoices(wav')
<1>0. wav \in Contents /\ \A k : OwnVoices([wav EXCEPT ![k] = NoAudio])
  BY VoiceWritten DEF Types, FileTypes
<1>1. ASSUME NEW k, Removed(k) \/ NotRemoved(k) PROVE OwnVoices(wav')
  BY <1>0, <1>1 DEF Removed, NotRemoved
<1>2. CASE wav' = wav
  BY <1>2
<1>3. ASSUME NEW p \in Preparers, PrepareStep(p), WritesFiles(p) PROVE OwnVoices(wav')
  <2>1. CASE ReadFails(p)
    BY <1>1, <2>1 DEF ReadFails
  <2>2. CASE PutWav(p) \/ PutFails(p)
    <3>1. pc[p] = "putWav" => OwnVoices([wav EXCEPT ![ioKey] = got[p]])
      <4>1. pc[p] = "putWav" => ioKey = req[p].key
        BY DEF Requests, PutLabels
      <4>2. pc[p] = "putWav" => got[p].voice = req[p].key
        BY PutsItsVoice DEF PutLabels
      <4> QED
        BY <1>0, <4>1, <4>2, VoiceWritten
    <3> QED
      BY <1>2, <2>2, <3>1 DEF PutWav, PutFails, Written, NotWritten
  <2>3. CASE PutJson(p) \/ FlushWrite(p)
    BY <1>2, <2>3 DEF PutJson, FlushWrite
  <2>4. CASE PutStale(p)
    BY <1>1, <1>2, <2>4 DEF PutStale, fileVars
  <2>5. CASE Evict(p)
    BY <1>1, <1>2, <2>5 DEF Evict, fileVars
  <2> QED
    BY <1>3, <2>1, <2>2, <2>3, <2>4, <2>5 DEF WritesFiles
<1>4. CASE ClearOne \/ Evict(Background)
  BY <1>1, <1>2, <1>4 DEF ClearOne, Evict, fileVars
<1>5. CASE ClearThrows
  BY <1>0, <1>2, <1>5 DEF ClearThrows, fileVars
<1>6. CASE Restart
  <2>1. ASSUME NEW keep, NEW locked, NEW o, RecoverDirectory(keep, locked, o) PROVE OwnVoices(wav')
    BY <2>1 DEF RecoverDirectory, OwnVoices
  <2>2. CASE Recovers
    BY <2>1, <2>2 DEF Recovers
  <2>3. CASE RecoveryThrows
    BY <2>1, <2>3 DEF RecoveryThrows
  <2>4. CASE NotOwner
    BY <1>2, <2>4 DEF NotOwner, fileVars
  <2> QED
    BY <1>6, <2>2, <2>3, <2>4 DEF Restart
<1>7. CASE ConfirmClear \/ ApplySettings \/ UNCHANGED vars \/ UNCHANGED fileVars
  BY <1>2, <1>7 DEF ConfirmClear, ApplySettings, vars, fileVars
<1> QED
  BY <1>3, <1>4, <1>5, <1>6, <1>7, PreparerWrites, BackgroundWrites DEF Next

\* So do the buffers in memory.
LEMMA MemoryVoices ==
  ASSUME Types, Requests, GotAudio, OwnVoices(memory), OwnVoices(wav), [Next]_vars
  PROVE  OwnVoices(memory')
<1>0. memory \in Contents
  BY DEF Types, IndexTypes
<1>1. CASE memory' = memory
  BY <1>1
<1>2. ASSUME NEW gone, Erase(gone) PROVE OwnVoices(memory')
  BY <1>2 DEF Erase, OwnVoices
<1>3. ASSUME NEW p \in Preparers, PrepareStep(p), WritesIndex(p) PROVE OwnVoices(memory')
  <2>1. CASE LookupHit(p) \/ ReadWav(p) \/ Release(p) \/ HitFlush(p) \/ FlushUsage(p)
    BY <1>1, <2>1 DEF LookupHit, ReadWav, Release, HitFlush, FlushUsage
  <2>2. CASE ReadFails(p) \/ Evict(p)
    BY <1>1, <1>2, <2>2 DEF ReadFails, Evict, indexVars
  <2>3. CASE InstallRead(p)
    <3>1. req[p].key \in Keys /\ got[p] = wav[req[p].key]
      BY <2>3 DEF InstallRead, Requests, EngineLabels, GotAudio, GotOf
    <3>2. OwnVoices([memory EXCEPT ![req[p].key] = got[p]])
      <4>1. got[p] # NoAudio => got[p].voice = req[p].key
        BY <3>1 DEF OwnVoices
      <4> QED
        BY <1>0, <4>1, VoiceWritten
    <3> QED
      BY <1>1, <2>3, <3>2, VoicesTrimmed DEF InstallRead
  <2>4. CASE PutIndex(p)
    <3>1. pc[p] \in PutLabels
      BY <2>4 DEF PutIndex, PutLabels
    <3>. ioKey = req[p].key /\ got[p].voice = req[p].key
      BY <3>1, PutsItsVoice DEF Requests
    <3>2. OwnVoices([memory EXCEPT ![ioKey] = got[p]])
      BY <1>0, VoiceWritten
    <3> QED
      BY <2>4, <3>2, VoicesTrimmed DEF PutIndex
  <2> QED
    BY <1>3, <2>1, <2>2, <2>3, <2>4 DEF WritesIndex
<1>4. CASE ClearOne \/ Evict(Background)
  BY <1>1, <1>2, <1>4 DEF ClearOne, Evict, indexVars
<1>5. CASE ConfirmClear \/ Restart
  <2>1. memory' = Nothing
    BY <1>5 DEF ConfirmClear, Restart
  <2> QED
    BY <2>1 DEF OwnVoices, Nothing
<1>6. CASE ApplySettings \/ UNCHANGED vars \/ UNCHANGED indexVars
  BY <1>1, <1>6 DEF ApplySettings, vars, indexVars
<1> QED
  BY <1>3, <1>4, <1>5, <1>6, PreparerWrites, BackgroundWrites DEF Next

LEMMA RightVoiceKept ==
  ASSUME Types, Requests, GotAudio, RightVoice, [Next]_vars, GotAudio'
  PROVE  RightVoice'
<1>1. OwnVoices(memory) /\ OwnVoices(wav)
  BY DEF RightVoice, OwnVoices
<1>2. OwnVoices(memory') /\ OwnVoices(wav')
  BY <1>1, WavVoices, MemoryVoices
<1>3. ASSUME NEW q \in Preparers, got'[q] # NoAudio PROVE got'[q].voice = req'[q].key
  <2>0. got[q] # NoAudio => got[q].voice = req[q].key
    BY DEF RightVoice
  <2>1. CASE pc'[q] \in SilentLabels
    BY <1>3, <2>1 DEF GotAudio, GotOf
  <2>2. CASE PrepareStep(q)
    <3>0. TtsTypes /\ pc'[q] \notin SilentLabels
      BY <1>3 DEF Types, ControlTypes, TtsTypes, GotAudio, GotOf
    <3> USE GoneTo DEF SilentLabels, TtsTypes, ttsVars
    <3>1. CASE StartPrepare(q) \/ ReadClearing(q) \/ GiveUp(q) \/ Release(q) \/ LoadFails(q)
                \/ Load(q) \/ EnterEngine(q) \/ LookupMiss(q)
      BY <1>3, <2>0, <3>0, <3>1 DEF StartPrepare, ReadClearing, GiveUp, Release, LoadFails, Load,
        EnterEngine, LookupMiss
    <3>2. CASE LookupHit(q)
      <4>1. req[q].key \in Keys
        BY <3>2 DEF LookupHit, Hit, Types, IndexTypes
      <4> QED
        BY <1>1, <1>3, <2>0, <3>0, <3>2, <4>1 DEF LookupHit, OwnVoices
    <3>3. CASE ReadWav(q)
      <4>1. req[q].key \in Keys
        BY <3>3 DEF ReadWav, Requests, EngineLabels
      <4> QED
        BY <1>1, <1>3, <2>0, <3>0, <3>3, <4>1 DEF ReadWav, OwnVoices
    <3>4. CASE InstallRead(q)
      BY <1>3, <2>0, <3>0, <3>4 DEF InstallRead
    <3>5. CASE Synthesize(q)
      <4>1. pc'[q] = "put"
        BY <3>5 DEF Synthesize
      <4>2. got'[q] = [voice |-> req'[q].key, era |-> req'[q].era]
        BY <4>1 DEF GotAudio, GotOf
      <4> QED
        BY <4>2
    <3>6. CASE UNCHANGED <<req, got>>
      BY <1>3, <2>0, <3>6
    <3> QED
      BY <2>2, <3>1, <3>2, <3>3, <3>4, <3>5, <3>6 DEF PrepareStep, ReadFails, HitReturns,
        SkipPut, EnterPut, PutHasRoom, PutRefused, PutWav, PutJson, PutFails, PutIndex, PutStale,
        HitFlush, FlushUsage, FlushNext, FlushHasRoom, FlushRefused, FlushWrite, FlushEnds, Evict,
        CheckDirectory
  <2>3. CASE Restart
    BY <1>3, <2>3 DEF Restart
  <2>4. CASE ~PrepareStep(q) /\ ~Restart
    BY <1>3, <2>0, <2>4, NotMyStep
  <2> QED
    BY <2>2, <2>3, <2>4
<1> QED
  BY <1>2, <1>3 DEF RightVoice, OwnVoices

-----------------------------------------------------------------------------
(* The index.                                                              *)

IndexSets ==
  /\ Present(memory) \subseteq entries /\ Present(meta) \subseteq entries
  /\ dirty \subseteq Present(meta)

IndexOf(q) ==
  /\ pc[q] \in {"read", "install"} => req[q].key \in entries
  /\ pc[q] \in FlushLabels => pending \cap entries \subseteq Present(meta)
  /\ pc[q] \in {"flushRoom", "flushWrite"} =>
       ioKey \in entries /\ meta[ioKey] # NoAudio /\ json[ioKey] # NoAudio

\* What is in memory or has metadata is indexed, what is dirty has metadata,
\* and the entry an operation works on stays.
Index == IndexSets /\ \A q \in Preparers : IndexOf(q)

LEMMA IndexSetsErased ==
  ASSUME IndexSets, NEW gone, Erase(gone)
  PROVE  IndexSets'
BY DEF IndexSets, Erase, Present

LEMMA TrimmedPresent ==
  ASSUME NEW m \in Contents, NEW order, NEW k, NEW a
  PROVE  Present(Trimmed([m EXCEPT ![k] = a], order)) \subseteq Present(m) \cup {k}
BY DEF Present, Trimmed, Contents

LEMMA IndexSetsKept ==
  ASSUME Types, Requests, GotAudio, Index, [Next]_vars
  PROVE  IndexSets'
<1>0. IndexSets /\ memory \in Contents /\ meta \in Contents /\ entries \subseteq Keys
  BY DEF Index, Types, IndexTypes
<1>1. CASE UNCHANGED <<entries, memory, meta>> /\ dirty' \subseteq dirty
  BY <1>0, <1>1 DEF IndexSets
<1>2. ASSUME NEW p \in Preparers, PrepareStep(p), WritesIndex(p) PROVE IndexSets'
  <2>1. CASE LookupHit(p)
    <3>1. req[p].key \in Keys
      BY <1>0, <2>1 DEF LookupHit, Hit
    <3> QED
      BY <1>0, <2>1, <3>1 DEF LookupHit, Touch, IndexSets, Present
  <2>2. CASE ReadWav(p) \/ Release(p) \/ HitFlush(p) \/ FlushUsage(p)
    BY <1>1, <2>2 DEF ReadWav, Release, HitFlush, FlushUsage
  <2>3. CASE ReadFails(p) \/ Evict(p)
    BY <1>0, <1>1, <2>3, IndexSetsErased DEF ReadFails, Evict, indexVars
  <2>4. CASE InstallRead(p)
    <3>1. req[p].key \in Keys /\ req[p].key \in entries /\ json[req[p].key] # NoAudio
      BY <2>4 DEF InstallRead, Requests, EngineLabels, GotAudio, GotOf, Index, IndexOf
    <3>2. CASE OutOfDate(p)
      BY <1>1, <2>4, <3>2 DEF InstallRead
    <3>3. CASE ~OutOfDate(p)
      <4>1. /\ entries' = entries
            /\ meta' = [meta EXCEPT ![req[p].key] = json[req[p].key]]
            /\ memory' = Trimmed([memory EXCEPT ![req[p].key] = got[p]], older')
            /\ dirty' \subseteq dirty \cup {req[p].key}
        BY <2>4, <3>3 DEF InstallRead, Touch
      <4>2. Present(memory') \subseteq entries
        <5>1. Present(Trimmed([memory EXCEPT ![req[p].key] = got[p]], older'))
                \subseteq Present(memory) \cup {req[p].key}
          BY <1>0, TrimmedPresent
        <5> QED
          BY <1>0, <3>1, <4>1, <5>1 DEF IndexSets
      <4>3. Present(meta') = Present(meta) \cup {req[p].key}
        BY <1>0, <3>1, <4>1 DEF Present, Contents
      <4> QED
        BY <1>0, <3>1, <4>1, <4>2, <4>3 DEF IndexSets
    <3> QED
      BY <3>2, <3>3
  <2>5. CASE PutIndex(p)
    <3>1. /\ entries' = entries \cup {ioKey}
          /\ memory' = Trimmed([memory EXCEPT ![ioKey] = got[p]], older')
          /\ meta' = [meta EXCEPT ![ioKey] = IF diskEnabled THEN got[p] ELSE NoAudio]
          /\ dirty' = dirty \ {ioKey}
      BY <2>5 DEF PutIndex
    <3>2. Present(memory') \subseteq entries'
      <4>1. Present(Trimmed([memory EXCEPT ![ioKey] = got[p]], older'))
              \subseteq Present(memory) \cup {ioKey}
        BY <1>0, TrimmedPresent
      <4> QED
        BY <1>0, <3>1, <4>1 DEF IndexSets
    <3>3. Present(meta') \subseteq Present(meta) \cup {ioKey} /\ Present(meta) \ {ioKey} \subseteq Present(meta')
      BY <1>0, <3>1 DEF Present, Contents
    <3> QED
      BY <1>0, <3>1, <3>2, <3>3 DEF IndexSets
  <2> QED
    BY <1>2, <2>1, <2>2, <2>3, <2>4, <2>5 DEF WritesIndex
<1>3. CASE ClearOne \/ Evict(Background)
  BY <1>0, <1>1, <1>3, IndexSetsErased DEF ClearOne, Evict, indexVars
<1>4. CASE ConfirmClear
  BY <1>0, <1>4 DEF ConfirmClear, IndexSets, Present, Nothing
<1>5. CASE Restart
  <2>1. Present(memory') = {} /\ dirty' = {}
    BY <1>5 DEF Restart, Present, Nothing
  <2>2. ASSUME NEW es, entries' = es, meta' = [k \in Keys |-> IF k \in es THEN json[k] ELSE NoAudio]
        PROVE  Present(meta') \subseteq entries'
    BY <2>2 DEF Present
  <2>3. Present(meta') \subseteq entries'
    <3>1. CASE Recovers
      BY <2>2, <3>1 DEF Recovers
    <3>2. CASE RecoveryThrows
      BY <2>2, <3>2 DEF RecoveryThrows
    <3>3. CASE NotOwner
      BY <3>3 DEF NotOwner, Present, Nothing
    <3> QED
      BY <1>5, <3>1, <3>2, <3>3 DEF Restart
  <2> QED
    BY <2>1, <2>3 DEF IndexSets
<1>6. CASE ApplySettings \/ UNCHANGED vars \/ UNCHANGED indexVars
  BY <1>1, <1>6 DEF ApplySettings, vars, indexVars
<1> QED
  BY <1>2, <1>3, <1>4, <1>5, <1>6, PreparerWrites, BackgroundWrites DEF Next

LEMMA OwnIndex ==
  ASSUME Types, Index, NEW q \in Preparers, PrepareStep(q)
  PROVE  IndexOf(q)'
<1>0. /\ IndexOf(q) /\ dirty \subseteq Present(meta) /\ TtsTypes
      /\ meta \in Contents /\ json \in Contents /\ entries \subseteq Keys
  BY DEF Index, IndexSets, Types, ControlTypes, TtsTypes, IndexTypes, FileTypes
<1> USE <1>0, GoneTo DEF IndexOf, FlushLabels, ttsVars
<1>1. CASE StartPrepare(q) \/ ReadClearing(q) \/ EnterEngine(q) \/ GiveUp(q) \/ LookupMiss(q)
  BY <1>1 DEF StartPrepare, ReadClearing, EnterEngine, GiveUp, LookupMiss
<1>2. CASE LookupHit(q)
  BY <1>2 DEF LookupHit, Hit
<1>3. CASE ReadWav(q) \/ ReadFails(q) \/ InstallRead(q) \/ HitReturns(q)
  BY <1>3 DEF ReadWav, ReadFails, InstallRead, HitReturns, Return
<1>4. CASE Release(q) \/ Load(q) \/ LoadFails(q) \/ Synthesize(q) \/ SkipPut(q)
  BY <1>4 DEF Release, Load, LoadFails, Synthesize, SkipPut, Return
<1>5. CASE EnterPut(q) \/ PutHasRoom(q) \/ PutRefused(q) \/ PutWav(q) \/ PutJson(q)
  BY <1>5 DEF EnterPut, PutHasRoom, PutRefused, PutWav, PutJson, Return
<1>6. CASE PutFails(q) \/ PutIndex(q) \/ PutStale(q)
  BY <1>6 DEF PutFails, PutIndex, PutStale, Return
<1>7. CASE HitFlush(q) \/ FlushUsage(q)
  BY <1>7 DEF HitFlush, FlushUsage
<1>8. CASE FlushNext(q)
  <2>1. UNCHANGED <<entries, meta, json>> /\ pc[q] = "flush"
    BY <1>8 DEF FlushNext, indexVars, fileVars
  <2>2. \/ pc' = pc /\ pending' \subseteq pending
        \/ /\ pc'[q] = "flushRoom" /\ pending' \subseteq pending
           /\ ioKey' \in pending \cap entries /\ json[ioKey'] # NoAudio
    BY <1>8 DEF FlushNext
  <2> QED
    BY <2>1, <2>2 DEF Present
<1>9. CASE FlushHasRoom(q)
  BY <1>9 DEF FlushHasRoom, indexVars, fileVars, localVars
<1>10. CASE FlushRefused(q) \/ FlushWrite(q) \/ FlushEnds(q)
  BY <1>10 DEF FlushRefused, FlushWrite, FlushEnds, Return, indexVars, localVars
<1>11. CASE Evict(q)
  <2>0. pc' = pc /\ pc[q] \in Rooms /\ ioKey' = ioKey /\ pending' = pending
    BY <1>11 DEF Evict
  <2>1. PICK k \in Evictable(q) :
          /\ k # ioKey
          /\ \/ Erase({k}) /\ (json' = json \/ json' = [json EXCEPT ![k] = NoAudio])
             \/ UNCHANGED indexVars /\ (json' = json \/ json' = [json EXCEPT ![k] = NoAudio])
    BY <1>11 DEF Evict, Evictable, Removed, NotRemoved, fileVars
  <2>2. k \in Keys
    BY DEF Evictable
  <2>3. ioKey \in Keys => json'[ioKey] = json[ioKey]
    BY <2>1, <2>2 DEF Contents
  <2>4. CASE Erase({k})
    BY <2>0, <2>1, <2>2, <2>3, <2>4 DEF Erase, Present, Rooms, Contents
  <2>5. CASE UNCHANGED indexVars
    BY <2>0, <2>1, <2>3, <2>5 DEF Rooms, indexVars
  <2> QED
    BY <2>1, <2>4, <2>5
<1>12. CASE CheckDirectory(q)
  BY <1>12 DEF CheckDirectory, Rooms, indexVars, fileVars, localVars
<1> QED
  BY <1>1, <1>2, <1>3, <1>4, <1>5, <1>6, <1>7, <1>8, <1>9, <1>10, <1>11, <1>12 DEF PrepareStep

LEMMA IndexKept ==
  ASSUME Types, Locks, Requests, GotAudio, Index, [Next]_vars
  PROVE  Index'
<1>1. ASSUME NEW q \in Preparers PROVE IndexOf(q)'
  <2>0. IndexOf(q)
    BY DEF Index
  <2>1. CASE PrepareStep(q)
    BY <2>1, OwnIndex
  <2>2. CASE Restart
    <3>1. pc'[q] = "idle"
      BY <2>2, BackgroundIsNoPreparer DEF Restart, Types, ControlTypes
    <3> QED
      BY <3>1 DEF IndexOf, FlushLabels
  <2>3. CASE ~PrepareStep(q) /\ ~Restart
    <3>1. pc'[q] = pc[q] /\ req'[q] = req[q]
      BY <2>3, NotMyStep
    <3>2. pc[q] \in IoLabels => UNCHANGED <<fileVars, entries, meta, localVars>>
      BY <2>3, HolderIsAlone
    <3> QED
      BY <2>0, <3>1, <3>2 DEF IndexOf, IoLabels, FlushLabels, fileVars, localVars
  <2> QED
    BY <2>1, <2>2, <2>3
<1> QED
  BY <1>1, IndexSetsKept DEF Index

\* The recency order: older relates any two entries one way.
LinearOrder(o, es) ==
  /\ o \subseteq es \X es
  /\ \A a, b \in es : a # b => (<<a, b>> \in o <=> <<b, a>> \notin o)
  /\ \A a \in es : <<a, a>> \notin o
  /\ \A a, b, c \in es : <<a, b>> \in o /\ <<b, c>> \in o => <<a, c>> \in o

Recency == LinearOrder(older, entries)

LEMMA NewestPairs ==
  ASSUME NEW k, NEW a, NEW b
  PROVE  <<a, b>> \in Newest(k, entries) <=>
           \/ <<a, b>> \in older /\ a # k /\ b # k
           \/ a \in entries /\ a # k /\ b = k
<1>1. <<a, b>> \in {pair \in older : k \notin {pair[1], pair[2]}}
        <=> <<a, b>> \in older /\ a # k /\ b # k
  OBVIOUS
<1>2. <<a, b>> \in {<<e, k>> : e \in entries \ {k}} <=> a \in entries /\ a # k /\ b = k
  OBVIOUS
<1> QED
  BY <1>1, <1>2 DEF Newest

LEMMA NewestOrders ==
  ASSUME Recency, NEW k
  PROVE  LinearOrder(Newest(k, entries), entries \cup {k})
<1>1. Newest(k, entries) \subseteq (entries \cup {k}) \X (entries \cup {k})
  BY DEF Newest, Recency, LinearOrder
<1>2. ASSUME NEW a \in entries \cup {k}, NEW b \in entries \cup {k}, a # b
      PROVE  <<a, b>> \in Newest(k, entries) <=> <<b, a>> \notin Newest(k, entries)
  <2>1. CASE a = k \/ b = k
    BY <1>2, <2>1, NewestPairs
  <2>2. CASE a # k /\ b # k
    <3>1. a \in entries /\ b \in entries
      BY <2>2
    <3>2. <<a, b>> \in older <=> <<b, a>> \notin older
      BY <1>2, <3>1 DEF Recency, LinearOrder
    <3> QED
      BY <2>2, <3>2, NewestPairs
  <2> QED
    BY <2>1, <2>2
<1>3. ASSUME NEW a \in entries \cup {k} PROVE <<a, a>> \notin Newest(k, entries)
  BY NewestPairs DEF Recency, LinearOrder
<1>4. ASSUME NEW a \in entries \cup {k}, NEW b \in entries \cup {k}, NEW c \in entries \cup {k},
             <<a, b>> \in Newest(k, entries), <<b, c>> \in Newest(k, entries)
      PROVE  <<a, c>> \in Newest(k, entries)
  <2>1. a \in entries /\ a # k /\ b # k /\ <<a, b>> \in older /\ b \in entries
    BY <1>4, NewestPairs
  <2>2. CASE c = k
    BY <2>1, <2>2, NewestPairs
  <2>3. CASE c # k
    <3>1. <<b, c>> \in older /\ c \in entries
      BY <1>4, <2>3, NewestPairs
    <3>2. <<a, c>> \in older
      BY <2>1, <3>1 DEF Recency, LinearOrder
    <3> QED
      BY <2>1, <2>3, <3>2, NewestPairs
  <2> QED
    BY <2>2, <2>3
<1> QED
  BY <1>1, <1>2, <1>3, <1>4 DEF LinearOrder

LEMMA ErasedOrder ==
  ASSUME Recency, NEW gone, Erase(gone)
  PROVE  Recency'
<1>1. entries' = entries \ gone /\ older' = {pair \in older : {pair[1], pair[2]} \cap gone = {}}
  BY DEF Erase
<1>2. \A a, b : <<a, b>> \in older' <=> <<a, b>> \in older /\ a \notin gone /\ b \notin gone
  BY <1>1
<1>3. older' \subseteq entries' \X entries'
  BY <1>1 DEF Recency, LinearOrder
<1>4. \A a, b \in entries' : a # b => (<<a, b>> \in older' <=> <<b, a>> \notin older')
  BY <1>1, <1>2 DEF Recency, LinearOrder
<1>5. \A a \in entries' : <<a, a>> \notin older'
  BY <1>1, <1>2 DEF Recency, LinearOrder
<1>6. ASSUME NEW a \in entries', NEW b \in entries', NEW c \in entries',
             <<a, b>> \in older', <<b, c>> \in older'
      PROVE  <<a, c>> \in older'
  <2>1. a \in entries /\ b \in entries /\ c \in entries /\ <<a, b>> \in older /\ <<b, c>> \in older
    BY <1>1, <1>2, <1>6
  <2>2. <<a, c>> \in older /\ a \notin gone /\ c \notin gone
    BY <1>1, <1>6, <2>1 DEF Recency, LinearOrder
  <2> QED
    BY <1>2, <2>2
<1> QED
  BY <1>3, <1>4, <1>5, <1>6 DEF Recency, LinearOrder

LEMMA OrderWithin ==
  ASSUME NEW ps, NEW o \in Orders(ps), NEW es, es \subseteq ps
  PROVE  LinearOrder(Within(es, o), es)
<1>1. o \subseteq ps \X ps
  BY DEF Orders
<1>2. \A a, b \in ps : a # b => (<<a, b>> \in o <=> <<b, a>> \notin o)
  BY DEF Orders
<1>3. /\ \A a \in ps : <<a, a>> \notin o
      /\ \A a, b, c \in ps : <<a, b>> \in o /\ <<b, c>> \in o => <<a, c>> \in o
  BY DEF Orders
<1>4. \A a, b : <<a, b>> \in Within(es, o) <=> <<a, b>> \in o /\ a \in es /\ b \in es
  BY DEF Within
<1>5. Within(es, o) \subseteq es \X es
  BY <1>1 DEF Within
<1> QED
  BY <1>2, <1>3, <1>4, <1>5 DEF LinearOrder

LEMMA RecencyKept ==
  ASSUME Types, Index, Recency, [Next]_vars
  PROVE  Recency'
<1>1. CASE UNCHANGED <<entries, older>>
  BY <1>1 DEF Recency
<1>2. ASSUME NEW k \in entries, entries' = entries, older' = Newest(k, entries) PROVE Recency'
  <2>1. entries \cup {k} = entries
    OBVIOUS
  <2> QED
    BY <1>2, <2>1, NewestOrders DEF Recency
<1>3. ASSUME NEW p \in Preparers, PrepareStep(p), WritesIndex(p) PROVE Recency'
  <2>1. CASE LookupHit(p)
    BY <1>2, <2>1 DEF LookupHit, Hit, Touch
  <2>2. CASE ReadWav(p) \/ Release(p) \/ HitFlush(p) \/ FlushUsage(p)
    BY <1>1, <2>2 DEF ReadWav, Release, HitFlush, FlushUsage
  <2>3. CASE ReadFails(p) \/ Evict(p)
    BY <1>1, <2>3, ErasedOrder DEF ReadFails, Evict, indexVars
  <2>4. CASE InstallRead(p)
    <3>1. req[p].key \in entries
      BY <2>4 DEF InstallRead, Index, IndexOf
    <3> QED
      BY <1>1, <1>2, <2>4, <3>1 DEF InstallRead, Touch
  <2>5. CASE PutIndex(p)
    BY <2>5, NewestOrders DEF PutIndex, Recency
  <2> QED
    BY <1>3, <2>1, <2>2, <2>3, <2>4, <2>5 DEF WritesIndex
<1>4. CASE ClearOne \/ Evict(Background)
  BY <1>1, <1>4, ErasedOrder DEF ClearOne, Evict, indexVars
<1>5. CASE Restart
  <2>1. CASE Recovers
    BY <2>1, OrderWithin DEF Recovers, Recency
  <2>2. CASE RecoveryThrows
    <3>1. PICK o \in Orders(Pairs), es \in SUBSET Pairs : entries' = es /\ older' = Within(es, o)
      BY <2>2 DEF RecoveryThrows
    <3> QED
      BY <3>1, OrderWithin DEF Recency
  <2>3. CASE NotOwner
    BY <2>3 DEF NotOwner, Recency, LinearOrder
  <2> QED
    BY <1>5, <2>1, <2>2, <2>3 DEF Restart
<1>6. CASE ConfirmClear \/ ApplySettings \/ UNCHANGED vars \/ UNCHANGED indexVars
  BY <1>1, <1>6 DEF ConfirmClear, ApplySettings, vars, indexVars
<1> QED
  BY <1>3, <1>4, <1>5, <1>6, PreparerWrites, BackgroundWrites DEF Next

-----------------------------------------------------------------------------
(* The settings in force, and those in the configuration.                  *)

Settings ==
  /\ pc[Background] \in {"take", "clear"} /\ ~restoreFailed =>
       quota = config.quota /\ enabled = config.enabled
  /\ pc[Background] = "save" => quota = want.quota /\ enabled = want.enabled

LEMMA SettingsKept ==
  ASSUME Types, Settings, [Next]_vars
  PROVE  Settings'
<1> USE GoneTo DEF Settings, optionVars, jobVars
<1>1. ASSUME NEW p \in Preparers, PrepareStep(p) PROVE Settings'
  BY <1>1, PreparerWrites, PreparerKeepsOthers
<1>2. CASE FinishClear \/ ClearOne \/ ClearEnds \/ ClearThrows
  BY <1>2 DEF FinishClear, ClearOne, ClearEnds, ClearThrows
<1>3. CASE Configure
  BY <1>3 DEF Configure
<1>4. CASE ConfigureApplies
  BY <1>4 DEF ConfigureApplies, Target
<1>5. CASE ConfigureRefused
  BY <1>5 DEF ConfigureRefused
<1>6. CASE SaveConfig
  BY <1>6 DEF SaveConfig, AfterSaveFails
<1>7. CASE Restore
  BY <1>7 DEF Restore
<1>8. CASE Evict(Background) \/ CheckDirectory(Background) \/ ConfirmClear \/ ApplySettings \/ UNCHANGED vars
  BY <1>8 DEF Evict, CheckDirectory, ConfirmClear, ApplySettings, vars
<1>9. CASE Restart
  <2>1. pc'[Background] = "take"
    BY <1>9 DEF Restart, Types, ControlTypes
  <2> QED
    BY <1>9, <2>1 DEF Restart
<1> QED
  BY <1>1, <1>2, <1>3, <1>4, <1>5, <1>6, <1>7, <1>8, <1>9 DEF Next, BackgroundStep

-----------------------------------------------------------------------------
(* Eras: what a clear leaves behind.                                       *)

OfEra(f, e) == \A k \in Keys : f[k] # NoAudio => f[k].era = e

\* While nothing confirmed is unfinished or failed, all audio is of this era.
EraOfAudio ==
  ~clearing /\ ~tainted =>
    /\ OfEra(memory, era) /\ OfEra(meta, era)
    /\ owned => OfEra(wav, era) /\ OfEra(json, era)

\* A clear under way that has not failed has what is left on its list.
ClearList ==
  pc[Background] = "clear" /\ ~failed =>
    /\ entries \subseteq pending
    /\ owned => Present(wav) \cup Present(json) \subseteq pending

Eras == EraOfAudio /\ (clearing => memory = Nothing) /\ ClearList

LEMMA EraWritten ==
  ASSUME NEW f \in Contents, NEW e, OfEra(f, e), NEW k, NEW a, a # NoAudio => a.era = e
  PROVE  OfEra([f EXCEPT ![k] = a], e)
BY DEF OfEra, Contents

LEMMA EraTrimmed ==
  ASSUME NEW m, NEW e, OfEra(m, e), NEW order
  PROVE  OfEra(Trimmed(m, order), e)
BY DEF OfEra, Trimmed

\* What a request that is not out of date put together is of this era.
LEMMA PutsItsEra ==
  ASSUME Types, Requests, GotAudio, ~clearing, NEW p \in Preparers, pc[p] \in PutLabels
  PROVE  got[p].era = era
<1>1. got[p] = [voice |-> req[p].key, era |-> req[p].era]
  BY DEF GotAudio, GotOf
<1>2. req[p].key \in Keys
  BY DEF Requests, EngineLabels
<1>3. req[p].key # NoKey
  BY <1>2, AudioCacheAssumption DEF AudioCacheAssumption
<1>4. epoch + req[p].era = era + req[p].epoch /\ req[p].epoch = epoch
  BY <1>3 DEF Requests
<1>5. epoch \in Nat /\ era \in Nat /\ req[p].era \in Nat
  BY BoundsAreNat DEF Types, CounterTypes, ControlTypes
<1>6. req[p].era = era
  BY <1>4, <1>5
<1> QED
  BY <1>1, <1>6

\* The files.
LEMMA FileEras ==
  ASSUME Types, Disk, Requests, GotAudio, Index, ~clearing,
         NEW p \in Preparers, PrepareStep(p),
         OfEra(meta, era), OfEra(wav, era), OfEra(json, era)
  PROVE  OfEra(wav', era) /\ OfEra(json', era)
<1>0. /\ wav \in Contents /\ json \in Contents
      /\ \A k : OfEra([wav EXCEPT ![k] = NoAudio], era) /\ OfEra([json EXCEPT ![k] = NoAudio], era)
  BY EraWritten DEF Types, FileTypes
<1>1. ASSUME NEW k, Removed(k) \/ NotRemoved(k) PROVE OfEra(wav', era) /\ OfEra(json', era)
  BY <1>0, <1>1 DEF Removed, NotRemoved
<1>2. CASE UNCHANGED fileVars
  BY <1>2 DEF fileVars
<1>3. CASE ReadFails(p)
  BY <1>1, <1>3 DEF ReadFails
<1>4. CASE PutWav(p) \/ PutJson(p) \/ PutFails(p)
  <2>1. got[p].era = era
    BY <1>4, PutsItsEra DEF PutWav, PutJson, PutFails, PutLabels
  <2>2. OfEra([wav EXCEPT ![ioKey] = got[p]], era) /\ OfEra([json EXCEPT ![ioKey] = got[p]], era)
    BY <1>0, <2>1, EraWritten
  <2> QED
    BY <1>4, <2>2 DEF PutWav, PutJson, PutFails, Written, NotWritten
<1>5. CASE PutStale(p)
  BY <1>1, <1>2, <1>5 DEF PutStale
<1>6. CASE FlushWrite(p)
  <2>1. ioKey \in Keys /\ meta[ioKey] # NoAudio
    BY <1>6 DEF FlushWrite, Index, IndexOf, Types, IndexTypes
  <2>2. meta[ioKey].era = era
    BY <2>1 DEF OfEra
  <2>3. OfEra([json EXCEPT ![ioKey] = meta[ioKey]], era)
    BY <1>0, <2>2, EraWritten
  <2> QED
    BY <1>6, <2>3 DEF FlushWrite, Written, NotWritten
<1>7. CASE Evict(p)
  BY <1>1, <1>2, <1>7 DEF Evict
<1> QED
  BY <1>2, <1>3, <1>4, <1>5, <1>6, <1>7, PreparerWrites DEF WritesFiles

\* The index.
LEMMA IndexEras ==
  ASSUME Types, Disk, Requests, GotAudio, ~clearing,
         NEW p \in Preparers, PrepareStep(p),
         OfEra(memory, era), OfEra(meta, era), owned => OfEra(wav, era)
  PROVE  OfEra(memory', era) /\ OfEra(meta', era)
<1>0. memory \in Contents /\ meta \in Contents
  BY DEF Types, IndexTypes
<1>1. CASE UNCHANGED <<memory, meta>>
  BY <1>1
<1>2. ASSUME NEW gone, Erase(gone) PROVE OfEra(memory', era) /\ OfEra(meta', era)
  BY <1>2 DEF Erase, OfEra
<1>3. CASE LookupHit(p) \/ ReadWav(p) \/ Release(p) \/ HitFlush(p) \/ FlushUsage(p)
  BY <1>1, <1>3 DEF LookupHit, ReadWav, Release, HitFlush, FlushUsage
<1>4. CASE ReadFails(p) \/ Evict(p)
  BY <1>1, <1>2, <1>4 DEF ReadFails, Evict, indexVars
<1>5. CASE InstallRead(p)
  <2>1. owned
    BY <1>5 DEF InstallRead, Disk, DiskLabels
  <2>2. /\ req[p].key \in Keys /\ got[p] # NoAudio
        /\ wav[req[p].key] = got[p] /\ json[req[p].key] = got[p]
    BY <1>5 DEF InstallRead, Requests, EngineLabels, GotAudio, GotOf
  <2>3. got[p].era = era
    BY <2>1, <2>2 DEF OfEra
  <2>4. OfEra([memory EXCEPT ![req[p].key] = got[p]], era) /\ OfEra([meta EXCEPT ![req[p].key] = got[p]], era)
    BY <1>0, <2>3, EraWritten
  <2> QED
    BY <1>1, <1>5, <2>2, <2>4, EraTrimmed DEF InstallRead
<1>6. CASE PutIndex(p)
  <2>1. got[p].era = era
    BY <1>6, PutsItsEra DEF PutIndex, PutLabels
  <2>2. /\ OfEra([memory EXCEPT ![ioKey] = got[p]], era)
        /\ OfEra([meta EXCEPT ![ioKey] = IF diskEnabled THEN got[p] ELSE NoAudio], era)
    BY <1>0, <2>1, EraWritten
  <2> QED
    BY <1>6, <2>2, EraTrimmed DEF PutIndex
<1> QED
  BY <1>1, <1>3, <1>4, <1>5, <1>6, PreparerWrites DEF WritesIndex, indexVars

LEMMA EraOfAudioKept ==
  ASSUME Types, Locks, Disk, Requests, GotAudio, Index, Eras, ClearIsAhead, [Next]_vars
  PROVE  EraOfAudio'
<1>0. EraOfAudio /\ ClearList
  BY DEF Eras
<1>1. CASE UNCHANGED <<fileVars, memory, meta, owned, clearing, tainted, era>>
  BY <1>0, <1>1 DEF EraOfAudio, OfEra, fileVars
<1>2. ASSUME NEW p \in Preparers, PrepareStep(p) PROVE EraOfAudio'
  <2>1. UNCHANGED <<clearing, tainted, era, owned>>
    BY <1>2, PreparerWrites DEF clearVars, optionVars
  <2>2. CASE ~clearing /\ ~tainted
    <3>1. OfEra(memory', era) /\ OfEra(meta', era)
      BY <1>0, <1>2, <2>2, IndexEras DEF EraOfAudio
    <3>2. owned => OfEra(wav', era) /\ OfEra(json', era)
      BY <1>0, <1>2, <2>2, FileEras DEF EraOfAudio
    <3> QED
      BY <2>1, <3>1, <3>2 DEF EraOfAudio
  <2>3. CASE clearing \/ tainted
    BY <2>1, <2>3 DEF EraOfAudio
  <2> QED
    BY <2>2, <2>3
<1>3. CASE ConfirmClear
  BY <1>3 DEF ConfirmClear, EraOfAudio
<1>4. CASE ClearThrows
  BY <1>4 DEF ClearThrows, EraOfAudio
<1>5. CASE ClearEnds
  <2>1. /\ UNCHANGED <<fileVars, memory, meta, owned, era>>
        /\ tainted' = failed /\ pending = {} /\ pc[Background] = "clear"
    BY <1>5 DEF ClearEnds, indexVars, optionVars
  <2>2. CASE ~failed
    <3>1. Present(memory) = {} /\ Present(meta) = {}
      BY <1>0, <2>1, <2>2 DEF ClearList, Index, IndexSets
    <3>2. owned => Present(wav) = {} /\ Present(json) = {}
      BY <1>0, <2>1, <2>2 DEF ClearList
    <3> QED
      BY <2>1, <3>1, <3>2 DEF EraOfAudio, OfEra, Present, fileVars
  <2>3. CASE failed
    BY <2>1, <2>3 DEF EraOfAudio
  <2> QED
    BY <2>2, <2>3
<1>6. CASE ClearOne \/ Evict(Background)
  <2>1. UNCHANGED <<clearing, tainted, era, owned>>
    BY <1>6 DEF ClearOne, Evict, clearVars, optionVars
  <2>2. ASSUME NEW k, Erase({k})
        PROVE  \A e : /\ OfEra(memory, e) => OfEra(memory', e)
                      /\ OfEra(meta, e) => OfEra(meta', e)
    BY <2>2 DEF Erase, OfEra
  <2>3. ASSUME NEW k, Removed(k) \/ NotRemoved(k)
        PROVE  \A e : /\ OfEra(wav, e) => OfEra(wav', e)
                      /\ OfEra(json, e) => OfEra(json', e)
    <3>1. wav \in Contents /\ json \in Contents
      BY DEF Types, FileTypes
    <3>2. \A e : /\ OfEra(wav, e) => OfEra([wav EXCEPT ![k] = NoAudio], e)
                 /\ OfEra(json, e) => OfEra([json EXCEPT ![k] = NoAudio], e)
      BY <3>1, EraWritten
    <3> QED
      BY <2>3, <3>2 DEF Removed, NotRemoved
  <2>4. \A e : /\ OfEra(memory, e) => OfEra(memory', e)
               /\ OfEra(meta, e) => OfEra(meta', e)
    BY <1>6, <2>2 DEF ClearOne, Evict, indexVars
  <2>5. \A e : /\ OfEra(wav, e) => OfEra(wav', e)
               /\ OfEra(json, e) => OfEra(json', e)
    BY <1>6, <2>3 DEF ClearOne, Evict, fileVars
  <2> QED
    BY <1>0, <2>1, <2>4, <2>5 DEF EraOfAudio
<1>7. CASE FinishClear \/ Configure \/ ConfigureApplies \/ ConfigureRefused \/ SaveConfig
            \/ Restore \/ CheckDirectory(Background) \/ ApplySettings \/ UNCHANGED vars
  BY <1>1, <1>7 DEF FinishClear, Configure, ConfigureApplies, ConfigureRefused, SaveConfig,
    Restore, CheckDirectory, ApplySettings, vars, indexVars, clearVars, optionVars
<1>8. CASE Restart
  <2>1. CASE ~tainted'
    <3>1. ~tainted /\ owned /\ ~clearing
      BY <1>8, <2>1 DEF Restart, ClearIsAhead, ClearUnderWay, ClearPending
    <3>2. OfEra(wav, era) /\ OfEra(json, era) /\ era' = era /\ OfEra(memory', era)
      BY <1>0, <1>8, <3>1 DEF EraOfAudio, Restart, OfEra, Nothing
    <3>3. ASSUME NEW keep, NEW locked, NEW o, RecoverDirectory(keep, locked, o)
          PROVE  OfEra(wav', era) /\ OfEra(json', era)
      BY <3>2, <3>3 DEF RecoverDirectory, OfEra
    <3>4. ASSUME NEW es, meta' = [k \in Keys |-> IF k \in es THEN json[k] ELSE NoAudio]
          PROVE  OfEra(meta', era)
      BY <3>2, <3>4 DEF OfEra
    <3>5. CASE Recovers
      BY <3>2, <3>3, <3>4, <3>5 DEF Recovers, EraOfAudio
    <3>6. CASE RecoveryThrows
      <4>1. OfEra(wav', era) /\ OfEra(json', era)
        BY <3>3, <3>6 DEF RecoveryThrows
      <4>2. OfEra(meta', era)
        BY <3>4, <3>6 DEF RecoveryThrows
      <4> QED
        BY <3>2, <4>1, <4>2 DEF EraOfAudio
    <3>7. CASE NotOwner
      BY <3>2, <3>7 DEF NotOwner, EraOfAudio, OfEra, Nothing
    <3> QED
      BY <1>8, <3>5, <3>6, <3>7 DEF Restart
  <2>2. CASE tainted'
    BY <2>2 DEF EraOfAudio
  <2> QED
    BY <2>1, <2>2
<1> QED
  BY <1>2, <1>3, <1>4, <1>5, <1>6, <1>7, <1>8 DEF Next, BackgroundStep

LEMMA MemoryCleared ==
  ASSUME Types, clearing => memory = Nothing, [Next]_vars
  PROVE  clearing' => memory' = Nothing
<1>1. CASE UNCHANGED memory /\ (clearing' => clearing)
  BY <1>1
<1>2. ASSUME NEW gone, Erase(gone), clearing' = clearing PROVE clearing' => memory' = Nothing
  BY <1>2 DEF Erase, Nothing
<1>3. ASSUME NEW p \in Preparers, PrepareStep(p) PROVE clearing' => memory' = Nothing
  <2>1. clearing' = clearing
    BY <1>3, PreparerWrites DEF clearVars
  <2>2. CASE ReadFails(p) \/ Evict(p)
    BY <1>1, <1>2, <2>1, <2>2 DEF ReadFails, Evict, indexVars
  <2>3. CASE InstallRead(p) \/ PutIndex(p)
    BY <2>1, <2>3 DEF InstallRead, PutIndex, OutOfDate
  <2>4. CASE LookupHit(p) \/ ReadWav(p) \/ Release(p) \/ HitFlush(p) \/ FlushUsage(p)
    BY <1>1, <2>1, <2>4 DEF LookupHit, ReadWav, Release, HitFlush, FlushUsage
  <2> QED
    BY <1>1, <1>3, <2>1, <2>2, <2>3, <2>4, PreparerWrites DEF WritesIndex, indexVars
<1>4. CASE BackgroundStep
  <2>1. CASE ClearOne \/ Evict(Background)
    BY <1>1, <1>2, <2>1 DEF ClearOne, Evict, indexVars, clearVars
  <2>2. CASE ~(ClearOne \/ Evict(Background))
    <3>1. UNCHANGED memory
      BY <1>4, <2>2, BackgroundWrites DEF indexVars
    <3>2. clearing' => clearing
      BY <1>4, <2>2, BackgroundWrites DEF FinishClear, ClearEnds, ClearThrows, ThrowEndsClear, clearVars
    <3> QED
      BY <1>1, <3>1, <3>2
  <2> QED
    BY <2>1, <2>2
<1>5. CASE ConfirmClear \/ Restart
  BY <1>5 DEF ConfirmClear, Restart
<1>6. CASE ApplySettings \/ UNCHANGED vars
  BY <1>1, <1>6 DEF ApplySettings, vars, indexVars, clearVars
<1> QED
  BY <1>3, <1>4, <1>5, <1>6 DEF Next

LEMMA ClearListKept ==
  ASSUME Types, Locks, ClearList, [Next]_vars
  PROVE  ClearList'
<1>1. CASE UNCHANGED <<fileVars, entries, pending, owned, failed, pc[Background]>>
  BY <1>1 DEF ClearList, Present, fileVars
<1>2. CASE pc'[Background] # "clear"
  BY <1>2 DEF ClearList
<1>3. ASSUME NEW p \in Preparers, PrepareStep(p) PROVE ClearList'
  <2>1. pc'[Background] = pc[Background] /\ UNCHANGED <<owned, failed>>
    BY <1>3, PreparerKeepsOthers, PreparerWrites DEF clearVars, optionVars
  <2>2. CASE pc[Background] = "clear"
    <3>1. io = Background
      BY <2>2 DEF Locks
    <3> QED
      BY <1>1, <1>3, <2>1, <3>1, PreparerWaits, BackgroundIsNoPreparer DEF localVars
  <2> QED
    BY <1>2, <2>1, <2>2
<1>4. CASE FinishClear
  <2>1. UNCHANGED <<fileVars, entries, owned>> /\ pending' = ClearKeys
    BY <1>4 DEF FinishClear, indexVars, optionVars
  <2> QED
    BY <2>1 DEF ClearList, ClearKeys, Present, fileVars
<1>5. CASE ClearOne
  <2>0. pc' = pc /\ owned' = owned /\ wav \in Contents /\ json \in Contents /\ pc[Background] = "clear"
    BY <1>5 DEF ClearOne, optionVars, Types, FileTypes
  <2>1. PICK k \in pending :
          /\ pending' = pending \ {k}
          /\ \/ /\ IF owned THEN Removed(k) ELSE UNCHANGED <<fileVars, countVars>>
                /\ Erase({k}) /\ failed' = failed
             \/ failed' = TRUE
    BY <1>5 DEF ClearOne
  <2>2. CASE failed'
    BY <2>2 DEF ClearList
  <2>3. CASE ~failed'
    <3>1. ~failed /\ entries' = entries \ {k}
      BY <2>1, <2>3 DEF Erase
    <3>2. owned => Present(wav') \subseteq Present(wav) \ {k} /\ Present(json') \subseteq Present(json) \ {k}
      BY <2>0, <2>1, <2>3 DEF Removed, Present, Contents
    <3> QED
      BY <2>0, <2>1, <3>1, <3>2 DEF ClearList
  <2> QED
    BY <2>2, <2>3
<1>6. CASE ClearEnds \/ ClearThrows \/ Configure \/ ConfigureApplies \/ ConfigureRefused
            \/ SaveConfig \/ Restore
  BY <1>2, <1>6, GoneTo DEF ClearEnds, ClearThrows, Configure, ConfigureApplies, ConfigureRefused,
    SaveConfig, AfterSaveFails, Restore
<1>7. CASE Evict(Background) \/ CheckDirectory(Background)
  BY <1>2, <1>7 DEF Evict, CheckDirectory, Rooms
<1>8. CASE ConfirmClear \/ ApplySettings \/ UNCHANGED vars
  BY <1>1, <1>8 DEF ConfirmClear, ApplySettings, vars, indexVars, clearVars, optionVars, localVars
<1>9. CASE Restart
  <2>1. pc'[Background] = "take"
    BY <1>9 DEF Restart, Types, ControlTypes
  <2> QED
    BY <1>2, <2>1
<1> QED
  BY <1>3, <1>4, <1>5, <1>6, <1>7, <1>8, <1>9 DEF Next, BackgroundStep

LEMMA ErasKept ==
  ASSUME Types, Locks, Disk, Requests, GotAudio, Index, Eras, ClearIsAhead, [Next]_vars
  PROVE  Eras'
BY EraOfAudioKept, MemoryCleared, ClearListKept DEF Eras

-----------------------------------------------------------------------------
(* The index and the directory, as long as nothing fails.                  *)

PairOf(k) ==
  /\ wav[k] # NoAudio <=> json[k] # NoAudio
  /\ wav[k] # NoAudio => k \in entries
  /\ ~clearing /\ k \in entries => wav[k] # NoAudio

\* Put has written the wav of ioKey, and not yet indexed it.
HalfPut(q) == pc[q] \in {"putJson", "putIndex"}

Paired ==
  /\ litter = 0
  /\ \A k \in Keys : (\E q \in Preparers : HalfPut(q) /\ k = ioKey) \/ PairOf(k)
  /\ \A q \in Preparers : /\ HalfPut(q) => wav[ioKey] # NoAudio
                          /\ pc[q] = "putIndex" => json[ioKey] # NoAudio

Directory == faults = 0 => ~failed /\ (diskEnabled => Paired)

LEMMA QuietStep ==
  ASSUME Types, [Next]_vars, faults' = 0
  PROVE  faults = 0 /\ ~Fault
<1>1. faults \in Nat
  BY BoundsAreNat DEF Types, CounterTypes
<1>2. CASE UNCHANGED vars
  BY <1>1, <1>2 DEF vars, Fault
<1>3. CASE Next
  BY <1>1, <1>3, FaultOrNot DEF NoFault, Fault
<1> QED
  BY <1>2, <1>3

LEMMA QuietRead ==
  ASSUME Types, NEW p, ReadFails(p), ~Fault, faults = 0, faults' = 0
  PROVE  Removed(req[p].key) /\ Erase({req[p].key})
BY DEF ReadFails

LEMMA NotFailedKept ==
  ASSUME Types, Directory, [Next]_vars, faults' = 0
  PROVE  ~failed'
<1>1. ~failed /\ ~Fault
  BY QuietStep DEF Directory
<1>2. CASE BackgroundStep
  <2>1. CASE FinishClear \/ ClearOne \/ ClearEnds \/ ClearThrows
    BY <1>1, <2>1 DEF FinishClear, ClearOne, ClearEnds, ClearThrows
  <2> QED
    BY <1>1, <1>2, <2>1, BackgroundWrites DEF clearVars
<1>3. CASE ConfirmClear \/ ApplySettings \/ Restart \/ UNCHANGED vars
  BY <1>1, <1>3 DEF ConfirmClear, ApplySettings, Restart, vars, clearVars
<1> QED
  BY <1>1, <1>2, <1>3, PreparerWrites DEF Next, clearVars

\* One of Put's own steps after the wav.
LEMMA HalfPutGoesOn ==
  ASSUME NEW q \in Preparers, HalfPut(q), PrepareStep(q), ~Fault
  PROVE  PutJson(q) \/ PutIndex(q) \/ PutStale(q)
<1> USE DEF HalfPut
<1>1. ~(StartPrepare(q) \/ ReadClearing(q) \/ EnterEngine(q) \/ GiveUp(q) \/ LookupMiss(q))
  BY DEF StartPrepare, ReadClearing, EnterEngine, GiveUp, LookupMiss
<1>2. ~(LookupHit(q) \/ ReadWav(q) \/ ReadFails(q) \/ InstallRead(q) \/ HitReturns(q))
  BY DEF LookupHit, ReadWav, ReadFails, InstallRead, HitReturns
<1>3. ~(Release(q) \/ Load(q) \/ LoadFails(q) \/ Synthesize(q) \/ SkipPut(q))
  BY DEF Release, Load, LoadFails, Synthesize, SkipPut
<1>4. ~(EnterPut(q) \/ PutHasRoom(q) \/ PutRefused(q) \/ PutWav(q) \/ PutFails(q))
  BY DEF EnterPut, PutHasRoom, PutRefused, PutWav, PutFails
<1>5. ~(HitFlush(q) \/ FlushUsage(q) \/ FlushNext(q) \/ FlushHasRoom(q))
  BY DEF HitFlush, FlushUsage, FlushNext, FlushHasRoom
<1>6. ~(FlushRefused(q) \/ FlushWrite(q) \/ FlushEnds(q) \/ Evict(q) \/ CheckDirectory(q))
  BY DEF FlushRefused, FlushWrite, FlushEnds, Evict, CheckDirectory, Rooms
<1> QED
  BY <1>1, <1>2, <1>3, <1>4, <1>5, <1>6 DEF PrepareStep

\* A step while an entry is half put.
LEMMA PairedWhilePut ==
  ASSUME Types, Locks, Requests, GotAudio, Paired, [Next]_vars, ~Restart, ~Fault, diskEnabled,
         NEW q \in Preparers, HalfPut(q)
  PROVE  Paired'
<1>0. /\ io = q /\ ioKey = req[q].key /\ ioKey \in Keys
      /\ got[q] # NoAudio
      /\ wav \in Contents /\ json \in Contents
      /\ \A p \in Preparers : HalfPut(p) => p = q
  <2>1. pc[q] \in PutLabels
    BY DEF HalfPut, PutLabels
  <2>2. got[q] = [voice |-> req[q].key, era |-> req[q].era]
    BY <2>1 DEF GotAudio, GotOf
  <2>3. got[q] \in Audio
    <3>1. req[q].key \in Keys /\ req[q].era \in 0..MaxClears
      BY <2>1 DEF Requests, EngineLabels, Types, ControlTypes
    <3> QED
      BY <2>2, <3>1 DEF Audio
  <2>4. NoAudio \notin Audio
    BY AudioCacheAssumption DEF AudioCacheAssumption, Audio
  <2>5. io = q /\ \A p \in Preparers : HalfPut(p) => io = p
    BY <2>1 DEF Locks, IoLabels, HalfPut, PutLabels
  <2>6. ioKey = req[q].key /\ req[q].key \in Keys
    BY <2>1 DEF Requests, EngineLabels
  <2> QED
    BY <2>3, <2>4, <2>5, <2>6 DEF Types, FileTypes
<1>1. \A k \in Keys : k # ioKey => PairOf(k)
  BY DEF Paired
<1>2. wav[ioKey] # NoAudio /\ litter = 0 /\ (pc[q] = "putIndex" => json[ioKey] # NoAudio)
  BY DEF Paired
<1>3. ASSUME \A p \in Preparers : ~HalfPut(p)', litter' = 0, \A k \in Keys : PairOf(k)'
      PROVE  Paired'
  BY <1>3 DEF Paired, HalfPut
<1>4. CASE PrepareStep(q)
  <2>1. clearing' = clearing /\ \A p \in Preparers : p # q => pc'[p] = pc[p]
    BY <1>4, PreparerWrites, PreparerKeepsOthers DEF clearVars
  <2>2. CASE PutJson(q)
    <3>1. /\ pc'[q] = "putIndex" /\ UNCHANGED <<wav, litter, entries, ioKey>>
          /\ json' = [json EXCEPT ![ioKey] = got[q]]
      BY <2>2, GoneTo DEF PutJson, Written, indexVars, localVars
    <3>2. json'[ioKey] # NoAudio /\ \A k \in Keys : k # ioKey => json'[k] = json[k]
      BY <1>0, <3>1 DEF Contents
    <3>3. \A k \in Keys : k # ioKey => PairOf(k)'
      BY <1>1, <2>1, <3>1, <3>2 DEF PairOf
    <3> QED
      BY <1>0, <1>2, <2>1, <3>1, <3>2, <3>3 DEF Paired, HalfPut
  <2>3. CASE PutIndex(q) \/ PutStale(q)
    <3>1. pc'[q] = "hold"
      BY <2>3, GoneTo DEF PutIndex, PutStale, Return
    <3>2. \A p \in Preparers : ~HalfPut(p)'
      BY <1>0, <2>1, <3>1 DEF HalfPut
    <3>3. CASE PutIndex(q)
      <4>1. UNCHANGED fileVars /\ entries' = entries \cup {ioKey}
        BY <3>3 DEF PutIndex
      <4>2. \A k \in Keys : PairOf(k)'
        BY <1>1, <1>2, <2>1, <3>3, <4>1 DEF PairOf, fileVars, PutIndex
      <4> QED
        BY <1>2, <1>3, <3>2, <4>1, <4>2 DEF fileVars
    <3>4. CASE PutStale(q)
      <4>1. clearing
        BY <3>4 DEF PutStale, OutOfDate, Requests, PutLabels
      <4>2. Removed(ioKey) /\ UNCHANGED entries
        BY <3>4 DEF PutStale, indexVars
      <4>3. litter' = litter /\ \A k \in Keys :
              IF k = ioKey THEN wav'[k] = NoAudio /\ json'[k] = NoAudio
                           ELSE wav'[k] = wav[k] /\ json'[k] = json[k]
        BY <1>0, <4>2 DEF Removed, Contents
      <4>4. \A k \in Keys : PairOf(k)'
        BY <1>1, <2>1, <4>1, <4>2, <4>3 DEF PairOf
      <4> QED
        BY <1>2, <1>3, <3>2, <4>3, <4>4
    <3> QED
      BY <2>3, <3>3, <3>4
  <2> QED
    BY <1>4, <2>2, <2>3, HalfPutGoesOn
<1>5. CASE ~PrepareStep(q)
  <2>1. /\ UNCHANGED <<fileVars, entries, ioKey>> /\ pc'[q] = pc[q]
        /\ clearing' \/ clearing' = clearing
    BY <1>5, HolderIsAlone DEF HalfPut, IoLabels, PutLabels, localVars, ConfirmClear, clearVars
  <2>2. \A k \in Keys : k # ioKey => PairOf(k)'
    BY <1>1, <2>1 DEF PairOf, fileVars
  <2>3. \A p \in Preparers : pc'[p] = "putIndex" => p = q
    BY <1>0, <2>1, LocksKept DEF Locks, IoLabels, PutLabels, HalfPut
  <2> QED
    BY <1>2, <2>1, <2>2, <2>3 DEF Paired, HalfPut, fileVars
<1> QED
  BY <1>4, <1>5

\* A pair leaves the directory and the index together.
LEMMA PairRemoved ==
  ASSUME Types, NEW k \in Keys, PairOf(k), NEW gone, Removed(gone), Erase({gone}), clearing' = clearing
  PROVE  PairOf(k)'
<1>1. wav \in Contents /\ json \in Contents
  BY DEF Types, FileTypes
<1>2. entries' = entries \ {gone}
  BY DEF Erase
<1>3. IF k = gone THEN wav'[k] = NoAudio /\ json'[k] = NoAudio
                  ELSE wav'[k] = wav[k] /\ json'[k] = json[k]
  BY <1>1 DEF Removed, Contents
<1> QED
  BY <1>2, <1>3 DEF PairOf

\* A step while no entry is half put.
LEMMA PairsOfStep ==
  ASSUME Types, Disk, Index, ClearList, [Next]_vars, ~Restart, ~Fault,
         ~failed, faults = 0, faults' = 0, diskEnabled,
         \A q \in Preparers : ~HalfPut(q), litter = 0, \A k \in Keys : PairOf(k)
  PROVE  /\ litter' = 0
         /\ \/ \A k \in Keys : PairOf(k)'
            \/ \E q \in Preparers : PutWav(q) /\ \A k \in Keys : k = ioKey \/ PairOf(k)'
<1>0. owned /\ wav \in Contents /\ json \in Contents
  BY DEF Disk, Types, FileTypes
<1>1. ASSUME UNCHANGED <<fileVars, entries>>, clearing' \/ ~clearing
      PROVE  litter' = 0 /\ \A k \in Keys : PairOf(k)'
  BY <1>1 DEF PairOf, fileVars
<1>2. ASSUME NEW gone, Removed(gone), Erase({gone}), clearing' = clearing
      PROVE  litter' = 0 /\ \A k \in Keys : PairOf(k)'
  BY <1>2, PairRemoved DEF Removed
<1>3. ASSUME NEW p \in Preparers, PrepareStep(p)
      PROVE  /\ litter' = 0
             /\ \/ \A k \in Keys : PairOf(k)'
                \/ PutWav(p) /\ \A k \in Keys : k = ioKey \/ PairOf(k)'
  <2>1. clearing' = clearing
    BY <1>3, PreparerWrites DEF clearVars
  <2>2. CASE ReadFails(p)
    BY <1>2, <2>1, <2>2, QuietRead
  <2>3. CASE PutWav(p)
    <3>1. wav' = [wav EXCEPT ![ioKey] = got[p]] /\ UNCHANGED <<json, litter, entries>>
      BY <2>3 DEF PutWav, Written, indexVars
    <3>2. \A k \in Keys : k = ioKey \/ wav'[k] = wav[k]
      BY <1>0, <3>1 DEF Contents
    <3> QED
      BY <2>1, <2>3, <3>1, <3>2 DEF PairOf
  <2>4. ~PutJson(p) /\ ~PutFails(p) /\ ~PutStale(p) /\ ~PutIndex(p)
    BY DEF PutJson, PutFails, PutStale, PutIndex, HalfPut
  <2>5. CASE FlushWrite(p)
    <3>1. ioKey \in Keys /\ meta[ioKey] # NoAudio /\ json[ioKey] # NoAudio
      BY <2>5 DEF FlushWrite, Index, IndexOf, Types, IndexTypes
    <3>2. json' = [json EXCEPT ![ioKey] = meta[ioKey]] /\ UNCHANGED <<wav, litter, entries>>
      BY <2>5 DEF FlushWrite, Written, indexVars
    <3>3. \A k \in Keys : json'[k] # NoAudio <=> json[k] # NoAudio
      BY <1>0, <3>1, <3>2 DEF Contents
    <3> QED
      BY <2>1, <3>2, <3>3 DEF PairOf
  <2>6. CASE Evict(p)
    BY <1>0, <1>2, <2>1, <2>6 DEF Evict
  <2>7. CASE ~WritesFiles(p)
    <3>1. UNCHANGED <<fileVars, entries>>
      <4>1. CASE LookupHit(p) \/ ReadWav(p) \/ InstallRead(p) \/ Release(p)
        BY <1>3, <2>7, <4>1, PreparerWrites DEF LookupHit, ReadWav, InstallRead, Release
      <4>2. CASE HitFlush(p) \/ FlushUsage(p)
        BY <1>3, <2>7, <4>2, PreparerWrites DEF HitFlush, FlushUsage
      <4> QED
        BY <1>3, <2>4, <2>7, <4>1, <4>2, PreparerWrites DEF WritesIndex, WritesFiles, indexVars
    <3>2. clearing' \/ ~clearing
      BY <2>1
    <3>3. litter' = 0 /\ \A k \in Keys : PairOf(k)'
      BY <1>1, <3>1, <3>2
    <3> QED
      BY <3>3
  <2> QED
    BY <2>2, <2>3, <2>4, <2>5, <2>6, <2>7 DEF WritesFiles
<1>4. CASE ClearOne \/ Evict(Background)
  BY <1>0, <1>2, <1>4 DEF ClearOne, Evict, clearVars
<1>5. CASE ClearEnds
  <2>1. pending = {} /\ pc[Background] = "clear" /\ UNCHANGED <<fileVars, entries>>
    BY <1>5 DEF ClearEnds, indexVars
  <2>2. entries = {}
    BY <2>1 DEF ClearList
  <2> QED
    BY <2>1, <2>2 DEF PairOf, fileVars
<1>6. CASE BackgroundStep /\ ~ClearOne /\ ~ClearEnds /\ ~Evict(Background)
  <2>1. ~ClearThrows
    BY DEF ClearThrows
  <2>2. UNCHANGED <<fileVars, entries, clearing>>
    BY <1>6, <2>1, BackgroundWrites DEF indexVars, clearVars, FinishClear
  <2> QED
    BY <1>1, <2>2
<1>7. CASE ConfirmClear \/ ApplySettings \/ UNCHANGED vars
  BY <1>1, <1>7 DEF ConfirmClear, ApplySettings, vars, indexVars, clearVars
<1> QED
  BY <1>3, <1>4, <1>5, <1>6, <1>7 DEF Next

LEMMA PairedOtherwise ==
  ASSUME Types, Locks, Locks', Disk, Requests, GotAudio, Index, ClearList, Paired, [Next]_vars,
         ~Restart, ~Fault, ~failed, faults = 0, faults' = 0, diskEnabled,
         \A q \in Preparers : ~HalfPut(q)
  PROVE  Paired'
<1>1. litter = 0 /\ \A k \in Keys : PairOf(k)
  BY DEF Paired
<1>2. litter' = 0
  BY <1>1, PairsOfStep
<1>3. CASE \E q \in Preparers : PutWav(q)
  <2>1. PICK q \in Preparers : PutWav(q)
    BY <1>3
  <2>2. /\ pc'[q] = "putJson" /\ ioKey' = ioKey /\ wav' = [wav EXCEPT ![ioKey] = got[q]]
        /\ json' = json /\ entries' = entries /\ clearing' = clearing
    BY <2>1, GoneTo DEF PutWav, Written, localVars, indexVars, clearVars
  <2>3. got[q] # NoAudio /\ ioKey \in Keys
    <3>1. pc[q] \in PutLabels
      BY <2>1 DEF PutWav, PutLabels
    <3>2. got[q] = [voice |-> req[q].key, era |-> req[q].era]
      BY <3>1 DEF GotAudio, GotOf
    <3>3. req[q].key \in Keys /\ req[q].era \in 0..MaxClears /\ ioKey = req[q].key
      BY <3>1 DEF Requests, EngineLabels, Types, ControlTypes
    <3>4. got[q] \in Audio
      BY <3>2, <3>3 DEF Audio
    <3> QED
      BY <3>3, <3>4, AudioCacheAssumption DEF AudioCacheAssumption, Audio
  <2>4. wav'[ioKey] # NoAudio /\ \A k \in Keys : k # ioKey => wav'[k] = wav[k]
    BY <2>2, <2>3 DEF Types, FileTypes, Contents
  <2>5. \A k \in Keys : k # ioKey => PairOf(k)'
    BY <1>1, <2>2, <2>4 DEF PairOf
  <2>6. \A p \in Preparers : HalfPut(p)' => p = q
    BY <2>2 DEF Locks, HalfPut, IoLabels, PutLabels
  <2> QED
    BY <1>2, <2>2, <2>4, <2>5, <2>6 DEF Paired, HalfPut
<1>4. CASE ~\E q \in Preparers : PutWav(q)
  <2>1. \A k \in Keys : PairOf(k)'
    BY <1>1, <1>4, PairsOfStep
  <2>2. \A q \in Preparers : ~HalfPut(q)'
    <3>1. SUFFICES ASSUME NEW q \in Preparers, HalfPut(q)' PROVE FALSE
      OBVIOUS
    <3>2. CASE PrepareStep(q)
      <4> USE <3>1, GoneTo DEF HalfPut
      <4>1. CASE StartPrepare(q) \/ ReadClearing(q) \/ EnterEngine(q) \/ GiveUp(q) \/ LookupMiss(q)
        BY <4>1 DEF StartPrepare, ReadClearing, EnterEngine, GiveUp, LookupMiss
      <4>2. CASE LookupHit(q) \/ ReadWav(q) \/ ReadFails(q) \/ InstallRead(q) \/ HitReturns(q)
        BY <4>2 DEF LookupHit, ReadWav, ReadFails, InstallRead, HitReturns, Return
      <4>3. CASE Release(q) \/ Load(q) \/ LoadFails(q) \/ Synthesize(q) \/ SkipPut(q)
        BY <4>3 DEF Release, Load, LoadFails, Synthesize, SkipPut, Return
      <4>4. CASE EnterPut(q) \/ PutHasRoom(q) \/ PutRefused(q) \/ PutJson(q) \/ PutFails(q)
        BY <4>4 DEF EnterPut, PutHasRoom, PutRefused, PutJson, PutFails, Return
      <4>5. CASE PutIndex(q) \/ PutStale(q) \/ HitFlush(q) \/ FlushUsage(q)
        BY <4>5 DEF PutIndex, PutStale, HitFlush, FlushUsage, Return
      <4>6. CASE FlushNext(q) \/ FlushHasRoom(q) \/ FlushRefused(q) \/ FlushWrite(q) \/ FlushEnds(q)
        BY <4>6 DEF FlushNext, FlushHasRoom, FlushRefused, FlushWrite, FlushEnds, Return
      <4>7. CASE Evict(q) \/ CheckDirectory(q)
        BY <4>7 DEF Evict, CheckDirectory
      <4> QED
        BY <1>4, <3>2, <4>1, <4>2, <4>3, <4>4, <4>5, <4>6, <4>7 DEF PrepareStep
    <3>3. CASE ~PrepareStep(q)
      BY <3>1, <3>3, NotMyStep DEF HalfPut
    <3> QED
      BY <3>2, <3>3
  <2> QED
    BY <1>2, <2>1, <2>2 DEF Paired, HalfPut
<1> QED
  BY <1>3, <1>4

LEMMA DirectoryKept ==
  ASSUME Types, Locks, Disk, Requests, GotAudio, Index, Eras, Directory, [Next]_vars
  PROVE  Directory'
<1> SUFFICES ASSUME faults' = 0, diskEnabled' PROVE Paired'
  BY NotFailedKept DEF Directory
<1>1. faults = 0 /\ ~Fault /\ ~failed
  BY QuietStep DEF Directory
<1>2. CASE Restart
  <2>1. CASE Recovers
    <3>1. PICK keep \in SUBSET Pairs, o \in Orders(Pairs) :
            RecoverDirectory(keep, {}, o) /\ litter' = 0 /\ entries' = keep
      BY <1>1, <2>1 DEF Recovers
    <3>2. \A k \in Keys : PairOf(k)'
      BY <3>1 DEF PairOf, RecoverDirectory, Pairs, Present
    <3>3. \A q \in Preparers : pc'[q] = "idle"
      BY <1>2, BackgroundIsNoPreparer DEF Restart, Types, ControlTypes
    <3> QED
      BY <3>1, <3>2, <3>3 DEF Paired, HalfPut
  <2>2. ~RecoveryThrows /\ ~NotOwner
    BY <1>1 DEF RecoveryThrows, NotOwner
  <2> QED
    BY <1>2, <2>1, <2>2 DEF Restart
<1>3. CASE ~Restart
  <2>1. diskEnabled
    <3>1. diskEnabled' = diskEnabled
      BY <1>3, PreparerWrites, BackgroundWrites DEF Next, ConfirmClear, ApplySettings, vars, optionVars
    <3> QED
      BY <3>1
  <2>2. Paired
    BY <1>1, <2>1 DEF Directory
  <2>3. CASE \E q \in Preparers : HalfPut(q)
    BY <1>1, <1>3, <2>1, <2>2, <2>3, PairedWhilePut
  <2>4. CASE \A q \in Preparers : ~HalfPut(q)
    BY <1>1, <1>3, <2>1, <2>2, <2>4, PairedOtherwise, LocksKept DEF Eras
  <2> QED
    BY <2>3, <2>4
<1> QED
  BY <1>2, <1>3

-----------------------------------------------------------------------------
(* The limits.                                                             *)

\* A finite set has a first element in a linear order.
LEMMA FirstElement ==
  ASSUME NEW es, NEW o, LinearOrder(o, es), NEW S, S \subseteq es, IsFiniteSet(S), S # {}
  PROVE  \E x \in S : \A y \in S \ {x} : <<x, y>> \in o
<1> DEFINE Before(x) == {y \in S : <<y, x>> \in o}
           T == {Before(x) : x \in S}
           R == StrictSubsetOrdering(S)
<1>1. T \subseteq FiniteSubsetsOf(S) /\ T # {}
  <2>1. T \subseteq SUBSET S /\ T # {}
    OBVIOUS
  <2> QED
    BY <2>1, FS_FiniteSubsetsOfFinite
<1>2. IsWellFoundedOn(R, FiniteSubsetsOf(S))
  BY FS_StrictSubsetOrderingWellFounded
<1>3. \E m \in T : \A n \in T : <<n, m>> \notin R
  <2> HIDE DEF T, R
  <2> QED
    BY <1>1, <1>2, WFMin
<1>4. PICK x \in S : \A y \in S : <<Before(y), Before(x)>> \notin R
  BY <1>3
<1>5. ASSUME NEW y \in S \ {x} PROVE <<x, y>> \in o
  <2>1. SUFFICES ASSUME <<x, y>> \notin o PROVE FALSE
    OBVIOUS
  <2>2. <<y, x>> \in o /\ x \in es /\ y \in es
    BY <1>5, <2>1 DEF LinearOrder
  <2>3. \A z \in S : <<z, y>> \in o => <<z, x>> \in o
    BY <2>2 DEF LinearOrder
  <2>4. y \in Before(x) /\ y \notin Before(y) /\ Before(y) \subseteq Before(x)
    BY <2>2, <2>3 DEF LinearOrder
  <2>5. <<Before(y), Before(x)>> \in R
    <3>1. Before(y) \in SUBSET S /\ Before(x) \in SUBSET S /\ Before(y) # Before(x)
      BY <2>4
    <3> HIDE DEF Before
    <3> QED
      BY <2>4, <3>1 DEF StrictSubsetOrdering
  <2> QED
    BY <1>4, <2>5
<1> QED
  BY <1>5

\* TrimMemory leaves no more than MemoryLimit buffers.
LEMMA TrimmedFits ==
  ASSUME NEW es, NEW o, LinearOrder(o, es), NEW m, Present(m) \subseteq es
  PROVE  Cardinality(Present(Trimmed(m, o))) <= MemoryLimit
<1> DEFINE K == Present(Trimmed(m, o))
           Newer(x) == {j \in Present(m) : <<x, j>> \in o}
<1>1. IsFiniteSet(K) /\ IsFiniteSet(Present(m)) /\ K \subseteq Present(m)
  BY PresentFinite DEF Present, Trimmed
<1>2. \A x \in K : Cardinality(Newer(x)) < MemoryLimit
  BY DEF Present, Trimmed
<1>3. CASE K = {}
  BY <1>3, FS_EmptySet, BoundsAreNat
<1>4. CASE K # {}
  <2> HIDE DEF K, Newer
  <2>1. K \subseteq es
    BY <1>1
  <2>2. PICK x \in K : \A y \in K \ {x} : <<x, y>> \in o
    BY <1>1, <1>4, <2>1, FirstElement
  <2>3. K \ {x} \subseteq Newer(x)
    BY <1>1, <2>2 DEF Newer
  <2>4. IsFiniteSet(Newer(x)) /\ Cardinality(Newer(x)) \in Nat
    BY <1>1, FS_Subset, FS_CardinalityType DEF Newer
  <2>5. Cardinality(K \ {x}) <= Cardinality(Newer(x))
    BY <2>3, <2>4, FS_Subset
  <2>6. Cardinality(K \ {x}) = Cardinality(K) - 1 /\ Cardinality(K) \in Nat
    BY <1>1, <2>2, FS_RemoveElement, FS_CardinalityType
  <2> QED
    BY <1>2, <2>2, <2>4, <2>5, <2>6, BoundsAreNat DEF K
<1> QED
  BY <1>3, <1>4

MemoryFits == Cardinality(Present(memory)) <= MemoryLimit

LEMMA MemoryFitsKept ==
  ASSUME Types, Requests, Index, Recency, MemoryFits, [Next]_vars, Recency'
  PROVE  MemoryFits'
<1>0. Cardinality(Present({})) \in Nat /\ memory \in Contents
  BY PresentFinite DEF Types, IndexTypes
<1>1. CASE Present(memory') \subseteq Present(memory)
  <2>1. Cardinality(Present(memory')) <= Cardinality(Present(memory))
    BY <1>1, FS_Subset, PresentFinite
  <2> QED
    BY <2>1, PresentFinite, BoundsAreNat DEF MemoryFits
<1>2. ASSUME NEW m, memory' = Trimmed(m, older'), Present(m) \subseteq entries' PROVE MemoryFits'
  BY <1>2, TrimmedFits DEF MemoryFits, Recency
<1>3. CASE memory' = memory
  BY <1>1, <1>3
<1>4. ASSUME NEW gone, Erase(gone) PROVE MemoryFits'
  <2>1. Present(memory') \subseteq Present(memory)
    BY <1>4 DEF Erase, Present
  <2> QED
    BY <1>1, <2>1
<1>5. ASSUME NEW p \in Preparers, PrepareStep(p), WritesIndex(p) PROVE MemoryFits'
  <2>1. CASE LookupHit(p) \/ ReadWav(p) \/ Release(p) \/ HitFlush(p) \/ FlushUsage(p)
    BY <1>3, <2>1 DEF LookupHit, ReadWav, Release, HitFlush, FlushUsage
  <2>2. CASE ReadFails(p) \/ Evict(p)
    BY <1>3, <1>4, <2>2 DEF ReadFails, Evict, indexVars
  <2>3. CASE InstallRead(p)
    <3>1. req[p].key \in entries /\ Present(memory) \subseteq entries /\ entries' = entries
      BY <2>3 DEF InstallRead, Index, IndexOf, IndexSets
    <3>2. Present([memory EXCEPT ![req[p].key] = got[p]]) \subseteq entries
      BY <1>0, <3>1 DEF Present, Contents
    <3> QED
      BY <1>2, <1>3, <2>3, <3>1, <3>2 DEF InstallRead
  <2>4. CASE PutIndex(p)
    <3>1. Present(memory) \subseteq entries /\ entries' = entries \cup {ioKey}
      BY <2>4 DEF PutIndex, Index, IndexSets
    <3>2. Present([memory EXCEPT ![ioKey] = got[p]]) \subseteq entries'
      BY <1>0, <3>1 DEF Present, Contents
    <3> QED
      BY <1>2, <2>4, <3>2 DEF PutIndex
  <2> QED
    BY <1>5, <2>1, <2>2, <2>3, <2>4 DEF WritesIndex
<1>6. CASE ClearOne \/ Evict(Background)
  BY <1>3, <1>4, <1>6 DEF ClearOne, Evict, indexVars
<1>7. CASE ConfirmClear \/ Restart
  <2>1. Present(memory') = {}
    BY <1>7 DEF ConfirmClear, Restart, Present, Nothing
  <2> QED
    BY <1>1, <2>1
<1>8. CASE ApplySettings \/ UNCHANGED vars \/ UNCHANGED indexVars
  BY <1>3, <1>8 DEF ApplySettings, vars, indexVars
<1> QED
  BY <1>5, <1>6, <1>7, <1>8, PreparerWrites, BackgroundWrites DEF Next

\* What each change of the directory adds to it.
LEMMA OccupiedGrows ==
  ASSUME FileTypes, FileTypes'
  PROVE  /\ \A k : Removed(k) \/ NotRemoved(k) => Occupied' <= Occupied
         /\ \A k, a : wav' = [wav EXCEPT ![k] = a] /\ json' = json /\ litter' = litter
                        => Occupied' <= Occupied + 1
         /\ \A k, a : json' = [json EXCEPT ![k] = a] /\ wav' = wav /\ litter' = litter
                        => Occupied' <= Occupied + 1
         /\ \A k, a : NotWritten(wav, k, a) /\ json' = json => Occupied' <= Occupied + 1
         /\ \A k, a : NotWritten(json, k, a) /\ wav' = wav => Occupied' <= Occupied + 1
<1>0. /\ Cardinality(Present(wav)) \in Nat /\ Cardinality(Present(json)) \in Nat
      /\ Cardinality(Present(wav')) \in Nat /\ Cardinality(Present(json')) \in Nat
      /\ litter \in Nat /\ litter' \in Nat
      /\ Occupied = Cardinality(Present(wav)) + Cardinality(Present(json)) + litter
      /\ Occupied' = Cardinality(Present(wav')) + Cardinality(Present(json')) + litter'
  BY PresentFinite DEF FileTypes, Occupied
<1>1. ASSUME NEW f \in Contents, NEW g, NEW k, NEW a, g = f \/ g = [f EXCEPT ![k] = a]
      PROVE  /\ Cardinality(Present(g)) <= Cardinality(Present(f)) + 1
             /\ a = NoAudio => Cardinality(Present(g)) <= Cardinality(Present(f))
  <2>1. Cardinality(Present(f)) \in Nat
    BY PresentFinite
  <2> QED
    BY <1>1, <2>1, PresentAfterWrite
<1>2. ASSUME NEW k, Removed(k) \/ NotRemoved(k) PROVE Occupied' <= Occupied
  <2>1. /\ wav' = wav \/ wav' = [wav EXCEPT ![k] = NoAudio]
        /\ json' = json \/ json' = [json EXCEPT ![k] = NoAudio]
        /\ litter' = litter
    BY <1>2 DEF Removed, NotRemoved
  <2>2. /\ Cardinality(Present(wav')) <= Cardinality(Present(wav))
        /\ Cardinality(Present(json')) <= Cardinality(Present(json))
    BY <1>1, <2>1 DEF FileTypes
  <2> QED
    BY <1>0, <2>1, <2>2
<1>3. ASSUME NEW k, NEW a, wav' = [wav EXCEPT ![k] = a], json' = json, litter' = litter
      PROVE  Occupied' <= Occupied + 1
  <2>1. Cardinality(Present(wav')) <= Cardinality(Present(wav)) + 1
    BY <1>1, <1>3 DEF FileTypes
  <2>2. Cardinality(Present(json')) = Cardinality(Present(json))
    BY <1>3
  <2> QED
    BY <1>0, <1>3, <2>1, <2>2
<1>4. ASSUME NEW k, NEW a, json' = [json EXCEPT ![k] = a], wav' = wav, litter' = litter
      PROVE  Occupied' <= Occupied + 1
  <2>1. Cardinality(Present(json')) <= Cardinality(Present(json)) + 1
    BY <1>1, <1>4 DEF FileTypes
  <2>2. Cardinality(Present(wav')) = Cardinality(Present(wav))
    BY <1>4
  <2> QED
    BY <1>0, <1>4, <2>1, <2>2
<1>5. ASSUME wav' = wav, json' = json, litter' \in {litter, litter + 1} PROVE Occupied' <= Occupied + 1
  <2>1. /\ Cardinality(Present(wav')) = Cardinality(Present(wav))
        /\ Cardinality(Present(json')) = Cardinality(Present(json))
    BY <1>5
  <2> QED
    BY <1>0, <1>5, <2>1
<1>6. ASSUME NEW k, NEW a, NotWritten(wav, k, a), json' = json PROVE Occupied' <= Occupied + 1
  BY <1>3, <1>5, <1>6 DEF NotWritten
<1>7. ASSUME NEW k, NEW a, NotWritten(json, k, a), wav' = wav PROVE Occupied' <= Occupied + 1
  BY <1>4, <1>5, <1>7 DEF NotWritten
<1> QED
  BY <1>2, <1>3, <1>4, <1>6, <1>7

\* What a writer has reserved is still free.
Reserved(q) ==
  /\ pc[q] = "putWav" => Occupied + 2 <= quota
  /\ pc[q] \in {"putJson", "flushWrite"} => Occupied + 1 <= quota

DiskFits ==
  /\ diskEnabled => Occupied <= quota
  /\ \A q \in Preparers : Reserved(q)

LEMMA QuotaIsNat == OptionTypes => quota \in Nat /\ want.quota \in Nat /\ config.quota \in Nat
BY AudioCacheAssumption DEF AudioCacheAssumption, OptionTypes, Options

LEMMA OwnSpace ==
  ASSUME Types, Types', Disk, BooksAreTrue, DiskFits, NEW q \in Preparers, PrepareStep(q)
  PROVE  Reserved(q)' /\ (diskEnabled' => Occupied' <= quota')
<1>0. /\ Occupied \in Nat /\ Occupied' \in Nat /\ quota \in Nat
      /\ quota' = quota /\ diskEnabled' = diskEnabled
      /\ Reserved(q) /\ (diskEnabled => Occupied <= quota)
      /\ FileTypes /\ FileTypes'
  BY OccupiedIsNat, QuotaIsNat, PreparerWrites DEF Types, DiskFits, optionVars
<1>1. CASE PutHasRoom(q) \/ FlushHasRoom(q)
  <2>1. diskEnabled => used = Occupied /\ valid
    BY <1>1 DEF PutHasRoom, FlushHasRoom, Fits, Disk, BooksAreTrue
  <2>2. UNCHANGED fileVars /\ Occupied' = Occupied
    BY <1>1 DEF PutHasRoom, FlushHasRoom, fileVars, Occupied
  <2>3. CASE PutHasRoom(q)
    <3>1. pc[q] = "putRoom" /\ used + 2 <= quota
      BY <2>3 DEF PutHasRoom, Fits, Need, Target
    <3>2. pc'[q] = "putIndex" \/ (diskEnabled /\ pc'[q] = "putWav")
      BY <2>3, GoneTo DEF PutHasRoom
    <3> QED
      BY <1>0, <2>1, <2>2, <3>1, <3>2 DEF Reserved
  <2>4. CASE FlushHasRoom(q)
    <3>1. pc[q] = "flushRoom" /\ used + 1 <= quota
      BY <2>4 DEF FlushHasRoom, Fits, Need, Target
    <3>2. pc'[q] = "flushWrite" /\ diskEnabled
      BY <2>4, GoneTo DEF FlushHasRoom, Disk, DiskLabels, FlushLabels
    <3> QED
      BY <1>0, <2>1, <2>2, <3>1, <3>2 DEF Reserved
  <2> QED
    BY <1>1, <2>3, <2>4
<1>2. CASE PutWav(q)
  <2>1. pc[q] = "putWav" /\ pc'[q] = "putJson" /\ Occupied' <= Occupied + 1
    BY <1>0, <1>2, GoneTo, OccupiedGrows DEF PutWav, Written
  <2> QED
    BY <1>0, <2>1 DEF Reserved
<1>3. CASE PutJson(q) \/ PutFails(q) \/ FlushWrite(q)
  <2>1. pc[q] \in {"putWav", "putJson", "flushWrite"} /\ pc'[q] \in {"putIndex", "hold", "flush"}
    BY <1>3, GoneTo DEF PutJson, PutFails, FlushWrite, Return
  <2>2. Occupied' <= Occupied + 1
    BY <1>0, <1>3, OccupiedGrows DEF PutJson, PutFails, FlushWrite, Written
  <2> QED
    BY <1>0, <2>1, <2>2 DEF Reserved
<1>4. CASE ReadFails(q) \/ PutStale(q) \/ Evict(q)
  <2>1. pc'[q] \notin {"putWav", "putJson", "flushWrite"}
    BY <1>4, GoneTo DEF ReadFails, PutStale, Evict, Return, Rooms
  <2>2. (\E k : Removed(k) \/ NotRemoved(k)) \/ UNCHANGED fileVars
    BY <1>4 DEF ReadFails, PutStale, Evict
  <2>3. Occupied' <= Occupied
    BY <1>0, <2>2, OccupiedGrows DEF fileVars, Occupied
  <2> QED
    BY <1>0, <2>1, <2>3 DEF Reserved
<1>5. CASE ~WritesFiles(q) /\ ~PutHasRoom(q) /\ ~FlushHasRoom(q)
  <2>1. Occupied' = Occupied
    BY <1>5, PreparerWrites DEF fileVars, Occupied
  <2>2. pc'[q] \notin {"putWav", "putJson", "flushWrite"}
    <3> USE GoneTo
    <3>1. CASE StartPrepare(q) \/ ReadClearing(q) \/ EnterEngine(q) \/ GiveUp(q) \/ LookupMiss(q)
      BY <3>1 DEF StartPrepare, ReadClearing, EnterEngine, GiveUp, LookupMiss
    <3>2. CASE LookupHit(q) \/ ReadWav(q) \/ InstallRead(q) \/ HitReturns(q)
      BY <3>2 DEF LookupHit, ReadWav, InstallRead, HitReturns, Return
    <3>3. CASE Release(q) \/ Load(q) \/ LoadFails(q) \/ Synthesize(q) \/ SkipPut(q)
      BY <3>3 DEF Release, Load, LoadFails, Synthesize, SkipPut, Return
    <3>4. CASE EnterPut(q) \/ PutRefused(q) \/ PutIndex(q) \/ HitFlush(q) \/ FlushUsage(q)
      BY <3>4 DEF EnterPut, PutRefused, PutIndex, HitFlush, FlushUsage, Return
    <3>5. CASE FlushNext(q) \/ FlushRefused(q) \/ FlushEnds(q) \/ CheckDirectory(q)
      BY <3>5 DEF FlushNext, FlushRefused, FlushEnds, CheckDirectory, Rooms, Return
    <3> QED
      BY <1>5, <3>1, <3>2, <3>3, <3>4, <3>5 DEF PrepareStep, WritesFiles
  <2> QED
    BY <1>0, <2>1, <2>2 DEF Reserved
<1> QED
  BY <1>1, <1>2, <1>3, <1>4, <1>5 DEF WritesFiles

LEMMA DiskFitsKept ==
  ASSUME Types, Types', Locks, Disk, BooksAreTrue, DiskFits, [Next]_vars
  PROVE  DiskFits'
<1>0. /\ Occupied \in Nat /\ Occupied' \in Nat /\ quota \in Nat /\ FileTypes /\ FileTypes'
      /\ diskEnabled => Occupied <= quota
  BY OccupiedIsNat, QuotaIsNat DEF Types, DiskFits
<1>1. ASSUME NEW q \in Preparers PROVE Reserved(q)'
  <2>1. CASE PrepareStep(q)
    BY <2>1, OwnSpace
  <2>2. CASE Restart
    <3>1. pc'[q] = "idle"
      BY <2>2, BackgroundIsNoPreparer DEF Restart, Types, ControlTypes
    <3> QED
      BY <3>1 DEF Reserved
  <2>3. CASE ~PrepareStep(q) /\ ~Restart
    <3>1. pc'[q] = pc[q] /\ Reserved(q)
      BY <2>3, NotMyStep DEF DiskFits
    <3>2. pc[q] \in {"putWav", "putJson", "flushWrite"} => Occupied' = Occupied /\ quota' = quota
      BY <2>3, HolderIsAlone DEF IoLabels, PutLabels, FlushLabels, fileVars, optionVars, Occupied
    <3> QED
      BY <3>1, <3>2 DEF Reserved
  <2> QED
    BY <2>1, <2>2, <2>3
<1>2. diskEnabled' => Occupied' <= quota'
  <2>1. CASE Occupied' <= Occupied /\ quota' = quota /\ diskEnabled' = diskEnabled
    BY <1>0, <2>1
  <2>2. CASE \E p \in Preparers : PrepareStep(p)
    BY <2>2, OwnSpace
  <2>3. CASE ClearOne \/ ClearThrows \/ Evict(Background)
    <3>1. Occupied' <= Occupied
      <4>1. CASE ClearOne \/ Evict(Background)
        <5>1. (\E k : Removed(k) \/ NotRemoved(k)) \/ UNCHANGED fileVars
          BY <4>1 DEF ClearOne, Evict
        <5> QED
          BY <1>0, <5>1, OccupiedGrows DEF fileVars, Occupied
      <4>2. CASE ClearThrows
        <5>1. CASE UNCHANGED fileVars
          BY <1>0, <5>1 DEF fileVars, Occupied
        <5>2. CASE ~UNCHANGED fileVars
          <6>1. PICK k \in pending : /\ wav' \in {wav, [wav EXCEPT ![k] = NoAudio]}
                                     /\ json' \in {json, [json EXCEPT ![k] = NoAudio]}
                                     /\ litter' = litter
            BY <4>2, <5>2 DEF ClearThrows
          <6>2. Cardinality(Present(wav')) <= Cardinality(Present(wav))
            BY <1>0, <6>1, PresentAfterWrite, PresentFinite DEF FileTypes
          <6>3. Cardinality(Present(json')) <= Cardinality(Present(json))
            BY <1>0, <6>1, PresentAfterWrite, PresentFinite DEF FileTypes
          <6> QED
            BY <1>0, <6>1, <6>2, <6>3, PresentFinite DEF Occupied, FileTypes
        <5> QED
          BY <5>1, <5>2
      <4> QED
        BY <2>3, <4>1, <4>2
    <3>2. quota' = quota /\ diskEnabled' = diskEnabled
      BY <2>3 DEF ClearOne, ClearThrows, Evict, optionVars
    <3> QED
      BY <2>1, <3>1, <3>2
  <2>4. CASE ConfigureApplies
    <3>1. pc[Background] \in {"applyRoom", "restoreRoom"} /\ Fits(Background)
          /\ quota' = Target(Background).quota
          /\ diskEnabled' = diskEnabled /\ UNCHANGED fileVars
      BY <2>4 DEF ConfigureApplies
    <3>2. used + 0 <= quota' /\ valid
      BY <3>1 DEF Fits, Need
    <3>3. diskEnabled => used = Occupied
      BY <3>2 DEF Disk, BooksAreTrue
    <3>4. Occupied' = Occupied
      BY <3>1 DEF fileVars, Occupied
    <3> QED
      BY <1>0, <3>1, <3>2, <3>3, <3>4
  <2>5. CASE BackgroundStep /\ ~(ClearOne \/ ClearThrows \/ Evict(Background) \/ ConfigureApplies)
    <3>1. UNCHANGED <<fileVars, quota, diskEnabled>>
      BY <2>5, BackgroundWrites DEF optionVars
    <3>2. Occupied' = Occupied
      BY <3>1 DEF fileVars, Occupied
    <3> QED
      BY <1>0, <3>1, <3>2
  <2>6. CASE ConfirmClear \/ ApplySettings \/ UNCHANGED vars
    <3>1. UNCHANGED <<fileVars, quota, diskEnabled>>
      BY <2>6 DEF ConfirmClear, ApplySettings, vars, optionVars
    <3>2. Occupied' = Occupied
      BY <3>1 DEF fileVars, Occupied
    <3> QED
      BY <1>0, <3>1, <3>2
  <2>7. CASE Restart
    <3>1. CASE Recovers
      BY <2>7, <3>1 DEF Recovers, WithinOptions, Restart
    <3>2. CASE RecoveryThrows \/ NotOwner
      BY <3>2 DEF RecoveryThrows, NotOwner
    <3> QED
      BY <2>7, <3>1, <3>2 DEF Restart
  <2> QED
    BY <2>2, <2>3, <2>4, <2>5, <2>6, <2>7 DEF Next
<1> QED
  BY <1>1, <1>2 DEF DiskFits

\* The index, with the entry a Put is about to add.
EntriesFit ==
  /\ diskEnabled \/ ~owned => Cardinality(entries) <= EntryLimit
  /\ \A q \in Preparers : pc[q] \in {"putWav", "putJson", "putIndex"} =>
       Cardinality(entries \cup {ioKey}) <= EntryLimit

LEMMA EntriesAreFinite ==
  ASSUME NEW es, es \subseteq Keys
  PROVE  /\ IsFiniteSet(es) /\ Cardinality(es) \in Nat
         /\ \A s : s \subseteq es => Cardinality(s) <= Cardinality(es)
BY AudioCacheAssumption, FS_Subset, FS_CardinalityType DEF AudioCacheAssumption

LEMMA OwnEntry ==
  ASSUME Types, EntriesFit, NEW q \in Preparers, PrepareStep(q),
         pc'[q] \in {"putWav", "putJson", "putIndex"}
  PROVE  Cardinality(entries' \cup {ioKey'}) <= EntryLimit
<1> USE GoneTo
<1>1. CASE PutHasRoom(q)
  <2>1. /\ Cardinality(entries) + Slots(q) <= EntryLimit /\ pc[q] = "putRoom"
        /\ entries' = entries /\ ioKey' = ioKey
    BY <1>1 DEF PutHasRoom, Fits, indexVars, localVars
  <2>2. IsFiniteSet(entries) /\ Cardinality(entries) \in Nat
    BY EntriesAreFinite DEF Types, IndexTypes
  <2>3. Cardinality(entries \cup {ioKey}) =
          IF ioKey \in entries THEN Cardinality(entries) ELSE Cardinality(entries) + 1
    BY <2>2, FS_AddElement
  <2>4. Slots(q) = IF ioKey \in entries THEN 0 ELSE 1
    BY <2>1 DEF Slots
  <2> QED
    BY <2>1, <2>2, <2>3, <2>4
<1>2. CASE PutWav(q) \/ PutJson(q)
  BY <1>2 DEF PutWav, PutJson, EntriesFit, indexVars, localVars
<1>3. CASE StartPrepare(q) \/ ReadClearing(q) \/ EnterEngine(q) \/ GiveUp(q) \/ LookupMiss(q)
  BY <1>3 DEF StartPrepare, ReadClearing, EnterEngine, GiveUp, LookupMiss
<1>4. CASE LookupHit(q) \/ ReadWav(q) \/ ReadFails(q) \/ InstallRead(q) \/ HitReturns(q)
  BY <1>4 DEF LookupHit, ReadWav, ReadFails, InstallRead, HitReturns, Return
<1>5. CASE Release(q) \/ Load(q) \/ LoadFails(q) \/ Synthesize(q) \/ SkipPut(q)
  BY <1>5 DEF Release, Load, LoadFails, Synthesize, SkipPut, Return
<1>6. CASE EnterPut(q) \/ PutRefused(q) \/ PutFails(q) \/ PutIndex(q) \/ PutStale(q)
  BY <1>6 DEF EnterPut, PutRefused, PutFails, PutIndex, PutStale, Return
<1>7. CASE HitFlush(q) \/ FlushUsage(q) \/ FlushNext(q) \/ FlushHasRoom(q) \/ FlushRefused(q)
  BY <1>7 DEF HitFlush, FlushUsage, FlushNext, FlushHasRoom, FlushRefused
<1>8. CASE FlushWrite(q) \/ FlushEnds(q) \/ Evict(q) \/ CheckDirectory(q)
  BY <1>8 DEF FlushWrite, FlushEnds, Evict, CheckDirectory, Rooms, Return
<1> QED
  BY <1>1, <1>2, <1>3, <1>4, <1>5, <1>6, <1>7, <1>8 DEF PrepareStep

LEMMA EntriesFitKept ==
  ASSUME Types, Locks, EntriesFit, [Next]_vars
  PROVE  EntriesFit'
<1>1. ASSUME NEW q \in Preparers, pc'[q] \in {"putWav", "putJson", "putIndex"}
      PROVE  Cardinality(entries' \cup {ioKey'}) <= EntryLimit
  <2>1. CASE PrepareStep(q)
    BY <1>1, <2>1, OwnEntry
  <2>2. CASE Restart
    <3>1. pc'[q] = "idle"
      BY <2>2, BackgroundIsNoPreparer DEF Restart, Types, ControlTypes
    <3> QED
      BY <1>1, <3>1
  <2>3. CASE ~PrepareStep(q) /\ ~Restart
    <3>1. pc'[q] = pc[q]
      BY <2>3, NotMyStep
    <3>2. entries' = entries /\ ioKey' = ioKey
      BY <1>1, <2>3, <3>1, HolderIsAlone DEF IoLabels, PutLabels, localVars
    <3> QED
      BY <1>1, <3>1, <3>2 DEF EntriesFit
  <2> QED
    BY <2>1, <2>2, <2>3
<1>2. diskEnabled' \/ ~owned' => Cardinality(entries') <= EntryLimit
  <2>1. ASSUME entries' \subseteq entries, diskEnabled' = diskEnabled, owned' = owned
        PROVE  diskEnabled' \/ ~owned' => Cardinality(entries') <= EntryLimit
    <3>1. Cardinality(entries') <= Cardinality(entries)
          /\ Cardinality(entries') \in Nat /\ Cardinality(entries) \in Nat
      BY <2>1, EntriesAreFinite DEF Types, IndexTypes
    <3> QED
      BY <2>1, <3>1, BoundsAreNat DEF EntriesFit
  <2>2. ASSUME NEW p \in Preparers, PrepareStep(p)
        PROVE  diskEnabled' \/ ~owned' => Cardinality(entries') <= EntryLimit
    <3>1. diskEnabled' = diskEnabled /\ owned' = owned
      BY <2>2, PreparerWrites DEF optionVars
    <3>2. CASE PutIndex(p)
      BY <3>2 DEF PutIndex, EntriesFit
    <3>3. CASE ~PutIndex(p)
      <4>1. entries' \subseteq entries
        <5>1. CASE LookupHit(p) \/ ReadWav(p) \/ InstallRead(p) \/ Release(p)
          BY <5>1 DEF LookupHit, ReadWav, InstallRead, Release
        <5>2. CASE ReadFails(p) \/ HitFlush(p) \/ FlushUsage(p) \/ Evict(p)
          BY <5>2 DEF ReadFails, HitFlush, FlushUsage, Evict, Erase, indexVars
        <5> QED
          BY <2>2, <3>3, <5>1, <5>2, PreparerWrites DEF WritesIndex, indexVars
      <4> QED
        BY <2>1, <3>1, <4>1
    <3> QED
      BY <3>2, <3>3
  <2>3. CASE BackgroundStep
    <3>1. diskEnabled' = diskEnabled /\ owned' = owned
      BY <2>3, BackgroundWrites
    <3>2. entries' \subseteq entries
      BY <2>3, BackgroundWrites DEF ClearOne, Evict, Erase, indexVars
    <3> QED
      BY <2>1, <3>1, <3>2
  <2>4. CASE ConfirmClear \/ ApplySettings \/ UNCHANGED vars
    BY <2>1, <2>4 DEF ConfirmClear, ApplySettings, vars, indexVars, optionVars
  <2>5. CASE Restart
    <3>1. CASE Recovers
      BY <3>1 DEF Recovers, WithinOptions
    <3>2. CASE RecoveryThrows
      BY <3>2 DEF RecoveryThrows
    <3>3. CASE NotOwner
      BY <3>3, FS_EmptySet, BoundsAreNat DEF NotOwner
    <3> QED
      BY <2>5, <3>1, <3>2, <3>3 DEF Restart
  <2> QED
    BY <2>2, <2>3, <2>4, <2>5 DEF Next
<1> QED
  BY <1>1, <1>2 DEF EntriesFit

-----------------------------------------------------------------------------
(* The inductive invariant, and what follows from it.                      *)

Inv ==
  /\ Types /\ ClearIsAhead /\ Locks /\ Disk /\ Requests /\ GotAudio
  /\ BooksAreTrue /\ RightVoice /\ Index /\ Recency /\ Settings /\ Eras /\ Directory
  /\ DiskFits /\ EntriesFit /\ MemoryFits

LEMMA InitTypes == Init => Types /\ ClearIsAhead
<1> SUFFICES ASSUME Init PROVE Types /\ ClearIsAhead
  OBVIOUS
<1>1. FileTypes /\ IndexTypes
  BY NoneIsContents DEF Init, FileTypes, IndexTypes
<1>2. CounterTypes
  <2>1. /\ epoch = 0 /\ era = 0 /\ used = 0 /\ faults = 0 /\ configures = 0 /\ restarts = 0
        /\ clearing = FALSE /\ failed = FALSE /\ tainted = FALSE /\ valid = TRUE
    BY DEF Init
  <2>2. \A n \in Nat : 0 \in 0..n
    OBVIOUS
  <2> QED
    BY <2>1, <2>2, BoundsAreNat DEF CounterTypes
<1>3. OptionTypes
  <2>1. config \in [quota : FirstQuotas, enabled : {TRUE}] /\ want = config
        /\ quota = config.quota /\ enabled = config.enabled
    BY DEF Init
  <2>2. config \in Options /\ quota \in Quotas /\ enabled \in BOOLEAN
    BY <2>1, AudioCacheAssumption DEF AudioCacheAssumption, Options
  <2>3. <<>> \in Seq(Options \cup {Clear})
    OBVIOUS
  <2> QED
    BY <2>1, <2>2, <2>3 DEF Init, OptionTypes
<1>4. ControlTypes
  <2>1. NoRequest \in [key : Keys \cup {NoKey}, epoch : 0..MaxClears, era : 0..MaxClears, skip : BOOLEAN]
    BY BoundsAreNat DEF NoRequest
  <2>2. /\ req \in [Preparers -> [key : Keys \cup {NoKey}, epoch : 0..MaxClears,
                                  era : 0..MaxClears, skip : BOOLEAN]]
        /\ got \in [Preparers -> Audio \cup {NoAudio}]
    BY <2>1 DEF Init
  <2>3. PcTypes
    BY BackgroundIsNoPreparer DEF Init, PcTypes, PreparerLabels, BackgroundLabels
  <2> QED
    BY <2>2, <2>3 DEF Init, ControlTypes, PcTypes
<1>5. ClearIsAhead
  BY DEF Init, ClearIsAhead
<1> QED
  BY <1>1, <1>2, <1>3, <1>4, <1>5 DEF Types

LEMMA InitInv == Init => Inv
<1> SUFFICES ASSUME Init PROVE Inv
  OBVIOUS
<1>1. Types /\ ClearIsAhead
  BY InitTypes
<1>2. /\ \A q \in Preparers : pc[q] = "idle" /\ req[q] = NoRequest /\ got[q] = NoAudio
      /\ pc[Background] = "take"
  BY BackgroundIsNoPreparer DEF Init
<1>3. /\ Present(Nothing) = {} /\ Cardinality({}) = 0
      /\ \A k \in Keys : Nothing[k] = NoAudio
  BY FS_EmptySet DEF Present, Nothing
<1>4. Locks /\ Disk
  BY <1>2 DEF Init, Locks, Disk, EngineLabels, IoLabels, PutLabels, FlushLabels, DiskLabels
<1>5. Requests /\ GotAudio
  BY <1>2 DEF Init, Requests, GotAudio, GotOf, NoRequest, EngineLabels, PutLabels, SilentLabels
<1>6. wav = Nothing /\ json = Nothing /\ litter = 0 /\ memory = Nothing /\ meta = Nothing /\ entries = {}
  BY DEF Init
<1>7. Occupied = 0
  BY <1>3, <1>6 DEF Occupied
<1>8. BooksAreTrue /\ RightVoice
  BY <1>2, <1>3, <1>6, <1>7 DEF Init, BooksAreTrue, RightVoice
<1>9. Index /\ Recency /\ Settings
  BY <1>2, <1>3, <1>6 DEF Init, Index, IndexSets, IndexOf, FlushLabels, Recency, LinearOrder, Settings
<1>10. Eras
  BY <1>2, <1>3, <1>6 DEF Init, Eras, EraOfAudio, ClearList, OfEra
<1>11. Directory
  BY <1>2, <1>3, <1>6 DEF Init, Directory, Paired, PairOf, HalfPut
<1>12. DiskFits /\ EntriesFit /\ MemoryFits
  BY <1>1, <1>2, <1>3, <1>6, <1>7, QuotaIsNat, BoundsAreNat
     DEF Types, DiskFits, Reserved, EntriesFit, MemoryFits
<1> QED
  BY <1>1, <1>4, <1>5, <1>8, <1>9, <1>10, <1>11, <1>12 DEF Inv

LEMMA NextInv == Inv /\ [Next]_vars => Inv'
<1> SUFFICES ASSUME Inv, [Next]_vars PROVE Inv'
  OBVIOUS
<1> USE DEF Inv
<1>1. Types' /\ Locks' /\ Disk' /\ ClearIsAhead'
  BY TypesKept, LocksKept, DiskKept, ClearIsAheadKept
<1>2. Requests' /\ GotAudio' /\ BooksAreTrue'
  BY RequestsKept, GotAudioKept, BooksKept
<1>3. RightVoice' /\ Index' /\ Recency' /\ Settings'
  BY <1>2, RightVoiceKept, IndexKept, RecencyKept, SettingsKept
<1>4. Eras' /\ Directory'
  BY ErasKept, DirectoryKept
<1>5. DiskFits' /\ EntriesFit' /\ MemoryFits'
  BY <1>1, <1>3, DiskFitsKept, EntriesFitKept, MemoryFitsKept
<1> QED
  BY <1>1, <1>2, <1>3, <1>4, <1>5

LEMMA InvHolds == Spec => []Inv
BY InitInv, NextInv, PTL DEF Spec

\* The variables keep their types, and a cache that shows a clear has one
\* queued or under way (BeginClear, FinishClear).
THEOREM TypesHold == Spec => []TypeOK
<1>1. Inv => TypeOK
  BY DEF Inv, Types, ClearIsAhead, TypeOK
<1> QED
  BY <1>1, InvHolds, PTL

\* Once a clear is over and nothing of it failed, no audio requested before it
\* is left anywhere, restarts included (the epoch checks of Get and Put,
\* FinishClear).
THEOREM ClearedForGood == Spec => []ClearedIsGone
<1>1. Inv => ClearedIsGone
  BY DEF Inv, Eras, EraOfAudio, OfEra, ClearedIsGone
<1> QED
  BY <1>1, InvHolds, PTL

\* Books called valid agree with the directory (AccountFile, Recount, Remove).
THEOREM BooksHold == Spec => []BooksAreTrue
<1>1. Inv => BooksAreTrue
  BY DEF Inv
<1> QED
  BY <1>1, InvHolds, PTL

\* Until a file operation fails, the index and the directory agree whenever
\* nobody works on them (Put's order of writes, the recovery).
THEOREM DirectoryIsIndexed == Spec => []IndexMatchesDirectory
<1>1. ASSUME Inv PROVE IndexMatchesDirectory
  <2>1. SUFFICES ASSUME faults = 0, diskEnabled, ~clearing, io = Nobody
                 PROVE  Present(wav) = entries /\ Present(json) = entries /\ litter = 0
    BY DEF IndexMatchesDirectory
  <2>2. Paired /\ entries \subseteq Keys
    BY <1>1, <2>1 DEF Inv, Directory, Types, IndexTypes
  <2>3. \A q \in Preparers : ~HalfPut(q)
    BY <1>1, <2>1, BackgroundIsNoPreparer DEF Inv, Locks, HalfPut, IoLabels, PutLabels
  <2>4. \A k \in Keys : PairOf(k)
    BY <2>2, <2>3 DEF Paired
  <2>5. litter = 0
    BY <2>2 DEF Paired
  <2> QED
    BY <2>1, <2>2, <2>4, <2>5 DEF PairOf, Present
<1> QED
  BY <1>1, InvHolds, PTL

\* Directory, index and memory keep their limits, whatever fails and whenever
\* the process ends (MakeRoom, TouchMetadata, TrimMemory, Configure).
THEOREM LimitsHold == Spec => []WithinLimits
<1>1. ASSUME Inv PROVE WithinLimits
  <2>1. Occupied \in Nat /\ quota \in Nat
    BY <1>1, OccupiedIsNat, QuotaIsNat DEF Inv, Types
  <2>2. diskEnabled =>
          Occupied + (IF \E p \in Preparers : pc[p] \in Writing THEN 1 ELSE 0) <= quota
    <3>1. CASE \E p \in Preparers : pc[p] \in Writing
      BY <1>1, <2>1, <3>1 DEF Inv, DiskFits, Reserved, Writing
    <3>2. CASE ~\E p \in Preparers : pc[p] \in Writing
      BY <1>1, <2>1, <3>2 DEF Inv, DiskFits
    <3> QED
      BY <3>1, <3>2
  <2> QED
    BY <1>1, <2>2 DEF Inv, EntriesFit, MemoryFits, WithinLimits
<1> QED
  BY <1>1, InvHolds, PTL

\* Between two changes the options in force are those of the configuration,
\* unless the user was told otherwise (configure_cache).
THEOREM SettingsHold == Spec => []SettingsAreSaved
<1>1. Inv => SettingsAreSaved
  BY DEF Inv, Settings, SettingsAreSaved
<1> QED
  BY <1>1, InvHolds, PTL

\* What is found under a key, and what a caller gets, was made by the key's
\* voice (EnsureLocked, the engine lock of Prepare).
THEOREM VoicesHold == Spec => []RightVoice
<1>1. Inv => RightVoice
  BY DEF Inv
<1> QED
  BY <1>1, InvHolds, PTL

=============================================================================
