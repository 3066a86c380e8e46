# TLA+ models of AdayoCorpusTool

AdayoCorpusTool is a C++20 / wxWidgets desktop program for Windows.  It reads an
Excel corpus, speaks its cells through an offline TTS engine with a disk-backed
audio cache, lets the user edit and export the corpus, and compares texts.  A
Python script beside it publishes downloaded voices into the directory the
program loads them from.

This directory holds models of the parts where threads, failing files and dying
processes meet, the TLC configurations that check them on small instances, and
TLAPS proofs of what holds for every instance.  Source paths below are relative
to the repository; `PROJECT.json` maps every definition to its lines.

    tlc -workers 2 -config Playback_safety.cfg Playback
    tlc -workers 2 -config VoiceTransaction_overlap.cfg MCVoiceTransaction
    tlc -workers 2 -config ComparePanel_reports.cfg MCComparePanel
    tlapm VoiceTransactionProofs.tla
    tlapm CorpusSessionProofs.tla

## 1. The system

### Components

| Component | State it keeps | Operations | Model |
|---|---|---|---|
| `services/PlaybackService` | `state_`, `paused_from_`, `active_request_`, `generation_`, `shutdown_`, `last_error_`, current row and column; one `AudioPlaybackContext` per request (canceled, paused, mutex, condition) | Play, Pause, Resume, Stop, RequestShutdown, Shutdown, RunSequence | `Playback` |
| `adapters/audio/MiniaudioPlayer` | device, `playing`, `paused`, `stop_requested`, samples and cursor, the context being played | Play, Pause, Resume, Stop, `DataCallback` | `Playback` |
| `core/worker/WorkerQueue` | task deque, `accepting_`, stop mode | Submit, RequestStop, Stop, Run | in `Playback` (discarding); FIFO in `AudioCache`, `ComparePanel`, `CorpusMapping` |
| `services/AudioCache` | wav/json pairs and temporaries on disk; index, memory buffers, leases, LRU stamps not yet flushed, disk total and its validity, clear epoch, clearing, options | Get, Put, FlushUsage, BeginClear, FinishClear, Configure, recovery at start | `AudioCache` |
| `services/TtsService` | engine lock, the loaded voice | Prepare, EnsureLocked, SetEngine, Unload, ModelIdentity | Prepare and EnsureLocked in `AudioCache` |
| `app/ApplicationRuntime` | configuration and its mutex, the two queues, shutdown thread and flags | ctor, ConfigSnapshot, UpdateConfig, SaveConfig, RequestShutdown, Shutdown | configuration in `RuntimeConfig`, shutdown in `Playback` |
| `persistence/JsonConfigStore`, `platform/FileIo` | `app_config.json`, its backup | Load, LoadOrDefault, Save, WriteBinaryFileAtomically | `RuntimeConfig`; one step that may fail in the panels |
| `scripts/prepare_downloaded_voices.py` | voice files, `.preparation-incomplete.json`, journals, backup directories, the named mutex and the handle on model.json | directory_lease, VoiceTransaction (publish, rollback, recover, clear_marker), prepare | `VoiceTransaction` |
| `adapters/tts/SherpaOnnxTtsEngine` | handle on model.json while a voice is loaded | Load, Synthesize, Unload | Load and Unload in `VoiceTransaction` |
| `core/workbook/ViewBuilder` | none | SplitDisplaySegments, Build | `CorpusView` |
| `services/CorpusViewService` | none; it works on a `WorkspaceSession`: source rows, reference owners, results, view, current and exported revision | CreateSessionFromWorksheet, UpdateDisplayCell, CycleResult, MarkExported | `CorpusView` |
| `ui/CorpusRunPanel` | `session_`, the grid, `export_busy_`, `pending_action_`, `closing_` | SetSession, ApplyCellEdit, OnCellClick, OnPlay, RequestLeave, StartExport, FinishExport; clear and configure the cache | `CorpusSession`; the cache dialog in `AudioCache` |
| `ui/CorpusMappingPanel`, `services/WorkbookService` | path, sheets and chosen sheet, header row, input revision, analysis, the grid; mappings and header rows of the configuration | OnBrowse, OnLoadSheets, AnalyzeCurrentSheet, edits of the grid, OnSaveMapping, OnBuildView; FindMapping, UpsertMapping, AnalyzeSheet | `CorpusMapping`; OnBuildView in `CorpusSession` |
| `ui/ComparePanel` | options in the controls, observed and saved; groups and the draft of one; input revision, report and its revision; busy, canceled, closing | options, group handlers, OnCompare, CancelComparison, OnExport, BeginShutdown | `ComparePanel` |
| compare core (`SequenceAligner`, `CharacterDiff`, `TextSimilarity`, `TextNormalizer`, `CompareService`) | none | pure functions with a work budget | `CompareAlgorithms` |
| ModelRegistry, Excel adapters, logger, GUI shell, packaging | none, or nothing another part depends on | | not modelled, reasons in `PROJECT.json` |

### How they interact

- **Calls across threads.**  The GUI thread calls PlaybackService directly; its
  worker runs `RunSequence`, which calls `TtsService::Prepare` and then
  `MiniaudioPlayer::Play`; miniaudio's audio thread calls `DataCallback`.  Cache
  clears, settings, exports, analyses and comparisons are submitted to the background
  queue and come back to the GUI by `CallAfter`.
- **Shared state.**  PlaybackService's `mutex_`; the mutex of each request, which
  is shared by the GUI, the worker and the audio callback; the player's `device_mutex`
  and its own `mutex`; TtsService's engine lock; AudioCache's `io` (files) and
  `state` (index); the configuration mutex.
- **Shutdown.**  `MainFrame` asks the runtime to stop, which starts a thread that
  shuts playback down, discards background tasks, flushes cache usage, and is polled by a timer.
- **Across processes.**  The script and the desktop meet on the disk only: a named mutex
  among scripts, a DELETE handle on model.json against a reader's handle that does
  not share DELETE, and the marker file that a reader refuses.

### What is hard, and what makes each part correct

- *Playback*: four threads, five mutexes, callbacks with no lock the caller knows
  of.  Correct when only the live request is heard, when the state the panel shows is the
  state of that request, and when no order of controls strands a thread.
- *Cache*: a clear is confirmed without the file lock, so it falls between any two steps
  of a lookup or a put; any file operation may fail; the process may end at any
  step.  Correct when cleared audio never comes back, the quota holds against
  the real directory, and the books agree with it.
- *Voice publication*: several processes, killed at any step, over several files that
  cannot be replaced together.  Correct when no desktop loads a mix, the original
  files survive, and what was cut short is finished or undone.
- *Configuration*: a failed save takes back its field while another thread updates or waits
  to save; the file is replaced atomically, but the process may end, a backup may
  fail and others may put a newer or broken file there.  Correct when no configuration is lost,
  and memory and file hold what was accepted.
- *Corpus session*: edits, results and playback while an earlier revision is exported.
  Correct when nothing is left behind unasked and results stay with the text they judge.
- *Mapping and compare panels*: jobs that finish for inputs that changed, failed or
  were canceled; files that change under a job.  Correct when what is shown, saved and exported
  belongs to the inputs shown, a window never stays busy, and a saved mapping comes back.
- *Compare core*: ties, empty segments and ends of an alignment.  Correct when
  it agrees with definitions that enumerate every alignment.

The hazards, each at its line and with the property that would catch it, are
listed in `PROJECT.json`.

## 2. Plan

Each step is a module, its MC module where constants need one, configurations and a
proof module.  Modules to be proved about use no RECURSIVE operator, take their
bounds as CONSTANTS under a named assumption, and have one action per critical section or per operation on a file.

| # | Module | Question | State |
|---|---|---|---|
| 1 | `PlaybackContract`, `Playback` | what is heard, shown and reported; that nothing is stranded; refinement of the contract | checked |
| 2 | `AudioCache` | clears, quota and books under concurrency, faults and restarts | checked |
| 3 | `VoiceTransaction` | publication of a voice under overlap, failure and kill | checked |
| 4 | `PlaybackProofs` | types; every safety property of Playback and the refinement of its contract | proved |
| 5 | `VoiceTransactionProofs` | types; no original is lost; no load mixes files and no mixture is unmarked, and what it takes to break that | proved |
| 6 | `CorpusView`, `CorpusSession` | the view, its results and the grid under edits; export and leave: nothing is dropped unasked | checked |
| 7 | `RuntimeConfig`, `RuntimeConfigProofs` | SaveConfig, UpdateConfig and the store's atomic save, the backup of a corrupt file, an end of the process between the steps | checked, all its properties proved |
| 8 | `CompareAlgorithms`, `ComparePanel` | the algorithms against reference definitions; the panel whose report they make: revision, cancellation, drafts, files that change, export | checked |
| 9 | `CorpusMapping` | the input's revision against analyses that finish late; mappings that are saved, fail to be saved and are found again | checked |
| 10 | `AudioCacheProofs` | every safety property of the cache | proved |
| 11 | `CorpusMappingProofs`, `CorpusSessionProofs` | the grid of the mapping panel and its saved mappings; view, results, export and leave of the session | proved |
| 12 | `CompareTextProofs`, `ComparePanelProofs` | the algorithms on texts of any length; a report is of what is shown and read, and is sound | proved |
| 13 | `WorkerQueue` | drain and discard with several stoppers; composed with the shutdown of ApplicationRuntime | open |

## 3. Modules

### Playback: PlaybackService, WorkerQueue and MiniaudioPlayer

State is that of the three classes (the header of the module lists it), a program
counter for each of the four threads, and three variables of what the outside has
seen: `heard`, `reported`, `closing`.  A step is one critical section, or the
acquisition of a lock held while another is awaited: the service's `mutex_` is
held over calls into the request and the player, so it is a variable, whereas
the player's own mutex is a leaf and its sections are single steps.  A condition
variable is the guard of the step that waits for it: every wait of these classes has a
predicate, and what it reads is changed under a mutex and then notified, so no notification is
lost between the check and the wait, and the model could not show one that is.

| Code | Actions |
|---|---|
| `Play` | PlayEnter, PlayCancel, player stop, PlayCommit |
| `Pause`, `Resume`, `Stop` | PauseEnter, PauseContext, PausePlayer; ResumeEnter, ...; StopEnter, StopContext, player stop, StopReturn |
| `RequestShutdown`, `Shutdown` | SetShutdown, DiscardPending, Joined, ShutdownReset (thread "closer") |
| `RunSequence` | Take, ReadyForItem, SetStateEnter/Apply, SetRow, Prepare, ReadyToPlay, Interval, FinishEnter/Apply, Report |
| `MiniaudioPlayer::Play` | EnsureDevice, Gate, Install, StartDevice, Drained |
| `DataCallback` | CallbackEnter, CallbackGate, CallbackRender |

Synthesis is a step that succeeds, fails or finds the request canceled.  Samples are
a number of device periods: the cursor and the end of the samples matter, the
sound does not, nor how much of a last block shorter than a period is copied.  `PlaybackContract` says in ten lines what playback promises;
`ImplementsContract` maps the detailed state to it (`live` is the active request
while it is not canceled, `held` is that it is paused).

### AudioCache: the cache, TtsService::Prepare and the cache dialog

`wav`, `json` and `litter` are the directory; `entries`, `memory`, `meta`, `older`
(the LRU order), `lease`, `dirty`, `used`, `valid`, `epoch`, `clearing` are the
members of `AudioCache::Impl`.  An operation that holds `io` is a sequence
of steps, one per file operation, so that `BeginClear`, which takes only `state`,
and the end of the process fall between any two.

| Code | Actions |
|---|---|
| `TtsService::Prepare` | StartPrepare, ReadClearing, EnterEngine, LookupHit/Miss, Load, Synthesize, MayPut/SkipPut, Release |
| `Get` | ReadWav, ReadFails, InstallRead, HitReturns |
| `MakeRoom`, `Remove` | Evict, PutHasRoom, PutRefused (also for flushes and settings) |
| `Put` | EnterPut, PutWav, PutJson, PutFails, PutIndex, PutStale |
| `FlushUsage` | HitFlush, FlushUsage, FlushNext, FlushWrite, FlushEnds |
| `BeginClear`, `FinishClear` | ConfirmClear; FinishClear, ClearOne, ClearEnds, ClearThrows |
| `Configure` and the dialog's save and way back | ApplySettings, Configure, ConfigureApplies/Refused, SaveConfig, Restore |
| constructor | Restart, with Recovers, RecoveryThrows, NotOwner |

Abstractions.  A wav and a json count one unit each of the quota.  Removing an entry is one
step (`Removed`): both files and what the index knows of them, or what a fault leaves of them.  A fingerprint is
part of its key.  The stamps that carry recency over a restart are not kept, so
recency after a restart is any order.  A second process that does not get `owner.lock` is `NotOwner`
and never touches the files.  The dialog's enabling of its buttons is not
modelled; two clears can be pending, as finishing a change of settings enables
the button again.  `tainted` marks that a confirmed clear failed or was cut short:
the user is told so, and nothing promises those files are gone.

### VoiceTransaction: publishing a voice, and the desktops that load it

A file is its inode: the original, a transaction's candidate, or one the user wrote.
Staged files are linked into place, so everything a transaction publishes is its
own inode, and candidates of equal downloads have equal digests; that is exactly
what the script's digest checks can and cannot tell apart.  Item 1 stands for the
weights outside the directory, the last for model.json.

| Code | Actions |
|---|---|
| `directory_lease` | Lease, Release (in Start, Publish, End); handle and mutex given back by every way out |
| `recover` | Start, RecoverNext, RecoverRollsBack, RecoverRefused, RecoverFindsMarker, Unresolved |
| `prepare`: staging and planning | Stage, Plan, Staged |
| `publish`, `commit` | BackUp, Mark, Publishing, Replace, Deploy, ProbePasses/Fails, ReplaceConfig, Commit, Clear, Leave |
| `rollback` | Rollback, Check, Restore, RolledBack, Unmark, Block |
| exceptions, kills | Raise, Throw, the ...Refused actions; Crash |
| `SherpaOnnxTtsEngine::Load`, `Unload` | Open, Admit, Read, Unload |

The `.replace` and `.restore` links of one `durable_replace` belong to the step
that uses them, with the checks of whose links they are.  `BackUp` compares and links all files of a plan
in one step; a run killed between two of those links leaves a journal that is not yet
BACKED_UP, which recovery aborts.  Journals are recovered in any order, since their names are random.  A reader
is a desktop started after `require_offline` has looked.  The user may replace a file that
exists, not a model.json that is open.  Windows refuses to replace a model.json that
somebody has open without sharing DELETE or that the lease itself holds
(docs/EXECUTION_NOTES.md:110-112).

### CorpusView and CorpusSession: the session of the corpus panel

`CorpusView` holds what ViewBuilder and CorpusViewService compute, as functions of a
session record; `CorpusSession` is CorpusRunPanel, whose variables carry the
names of its members.  Everything but the export job runs on the GUI thread, so an
action is a whole handler; the job and `FinishExport` are actions of their own, and
edits, results and playback fall between them.

| Code | Actions, operators |
|---|---|
| `ViewBuilder` | SplitDisplaySegments, DisplayRow, Positions, Build |
| `CreateSessionFromWorksheet` | Grouped, Conflicts, Project, ReferenceOwners, CreateSession |
| `UpdateDisplayCell`, `InvalidateResult...` | EditPlay, EditReference, UpdateDisplayCell, EraseMarks |
| `ApplyCellEdit`, `OnCellClick` | ApplyCellEdit (with the refill or the partial refresh of the grid: GridAfter), MarkResult, StartPlayback |
| `OnPlay`, `CanEdit` | StartPlayback, PlaybackEnds, MayEdit |
| `RequestLeave` with its question | LeaveFreely, LeaveDiscarding, LeaveAfterExport; Perform is SetSession or StartClosing |
| `StartExport`, its job, `FinishExport` | StartExport, ExportJob, FinishExport |

Abstractions.  A text is the sequence of its lines, since line breaks and the trimming of
lines are what moves segments.  The loops of ViewBuilder that push what they keep are
`InOrder`: the kept lines of a text, and the pairs of a raw row and an expanded row that are shown,
each in the order the loop meets them.  Headers, the order of columns and the symbol of
a result are layout and left out.  A modal dialog is one step with its answer; cancelling, and an
edit refused before it changes anything (an embedded NUL), is no step, as is a
StartExport that cannot submit its job.  Playback is whether it is busy and the texts it was
given.  Session ids only have to differ.  `judged` and `saved` are history
variables that no guard reads: for what a result was given, and what the last
workbook holds.  `Outdate` drops the view kept in them once a later revision makes it useless.

### RuntimeConfig: the configuration in memory and on the disk

`config` and `allowed` are `config_` and `config_save_allowed_`, `saver` is the holder of
`config_save_mutex_`, `snapshot` and `previous` the locals of SaveConfig;
`target`, `backups` and `temp` are the directory.  A field stands for what one
caller's rollback puts back: the mapping, the comparison, the rate, the cache.

| Code | Actions |
|---|---|
| constructor, `LoadOrDefault` | LoadOrDefault: Loaded, Refused, BackedUp, BackupFailed |
| `UpdateConfig` | UpdateConfig |
| `SaveConfig` with update and rollback | SaveConfig, Update, RefuseSave, RollBack, Saved |
| `JsonConfigStore::Save`, `WriteBinaryFileAtomically` | RejectUnsafeExistingTarget, CreateTemporary, WriteTemporary, ReplaceFile |
| environment | ProcessEnds, ForeignFile |

Abstractions.  A file is a whole configuration, missing, corrupt, of a newer schema, JSON whose
fields have other types than they should ("mistyped"), or
one whose values the validation refuses; migration of older schemas is a conversion.  A start moves a
mistyped file aside like a corrupt one, while a save takes it for a configuration, as it
looks at no field but the version.
SaveConfig() without an update is the case of an update that changes nothing.
A foreign file is put in place at any time but between the look at the existing
file and its replacement: the code cannot notice that one, and nothing
claims it does.  `accepted`, `unsaved`, `durable` and `read` are history variables.

### CompareAlgorithms and ComparePanel: comparing texts

`CompareAlgorithms` holds the functions; recursive tables are recursive
functions and not RECURSIVE operators.  Similarities are integers in units of 1/Scale percent, with
Scale such that every quotient of the instance is exact, so that no comparison
depends on rounding.

| Code | Operators |
|---|---|
| `TextFileImporter`, `TextNormalizer`, `CompareService::Words` | Import, Normalize, Collapse, Trim, Words |
| `TextSimilarity::Ratio`, `UnitEdits`, `CharacterDiff::Diff` | Ratio with CommonAfter, UnitEdits with Distances and EditsOf, Diff with DiffAfter, on what Strip leaves |
| `SequenceAligner` | BuildScores, Peak, IsAnchor, LongestChain, AlignSegment, AlignBetween |
| `CompareService::Compare` | Compare, with the pairing by rows and the status of each row |

`ComparePanel` extends it.  Everything but the job runs on the GUI thread, so an
action is a handler; the job has a step per stage: hash, read, hash again and
compare for each group, then post.

| Code | Actions |
|---|---|
| `ObserveOptions`, `CommitOptions` | ChangeOption, LeaveField |
| group handlers, `ApplyGroupDraft`, `ResolveGroupDraft` | EditDraft, ApplyGroup, CancelGroup, NewGroup, SelectInputGroup, OnRemoveGroup |
| `OnCompare`, `OnExport`, cancel button, `BeginShutdown` | OnCompare, OnExport, CancelComparison, BeginShutdown |
| the job | HashInputs, ReadInputs, CompareGroup, PostReport, JobFails, ExportEnds, JobIsStopped |
| its callbacks | ReportArrives, ReportCanceled, ComparisonFailed, ExportReported |

Abstractions.  A hash is the contents, and a file that changes does not return to
what it held (`Age` orders the contents, and what a file gets is newer); without that, contents that
change back between the two hashes would be read and not noticed.  The two files of a group are hashed in one step and read
in one step.  The configuration may be saved (RuntimeConfig has the
case that it may not); budgets are not modelled.  A record is not long enough to
meet a limit, and the similarity that a WER row shows, the word distance over the
length in characters (CompareService.cpp:199-201), is a displayed number that
no status depends on.  The branch that drops a report of an
older revision (:474) is in the model and is not taken: while the panel is busy every control that
moves the revision is disabled, which is what `ReportIsCurrent` and
`ComparisonEnds` rest on, for that branch would leave the window busy.

### CorpusMapping: which column is what

| Code | Actions, operators |
|---|---|
| input controls | ChangePath, OnSheetChanged, ChangeHeaderRow, ShowHidden |
| `OnBrowse`, `OnLoadSheets`, `AnalyzeCurrentSheet`, their jobs and callbacks | OnBrowse, OnLoadSheets, AnalyzeCurrentSheet; LoadJob, AnalyzeJob, JobFails; SheetsArrive, AnalysisArrives, JobFailed |
| `WorkbookService`, `ColumnAnalyzer::Analyze` | FindMapping, UpsertMapping, FindHeaderRow, AnalyzeSheet, Profile |
| `OnGridCellChanged`, selection buttons, `OnApplyRole` | ChangeEnabled, ChangeRole, ChangeLanguage, SelectVoice, OnSelectAll, OnSelectNone, OnApplyRole |
| `OnSaveMapping` | OnSaveMapping |
| `BeginShutdown`, a new start | BeginShutdown, Restart |

A lookup gives the position of what it found, or 0; `Restored` is a column of the analysis with
what the mapping found there remembers of it.

Abstractions.  Of a revision only matters whether it is still that of the task
(`stale`).  A workbook is a version that says which columns each header row has; another
program may change it at any time.  A column is played by default when it holds
utterances, the guess of ColumnAnalyzer.  A row that is not selected keeps the
voice and language of the analysis when it is saved, as in the code.  The panel starts with the path of the last save (`lastWorkbook`).  OnBuildView
changes nothing here; the session it installs is `CorpusSession`.
`remembered` is a history variable: the grid at the last save, by input.

## 4. Runs

| Run | Instance | What it shows |
|---|---|---|
| `playback_safety` | 2 requests, up to 2 items each, 1 period; 2.6 M states | what is heard, shown and reported is right under every interleaving; nothing is left running after the shutdown; the contract is refined |
| `playback_liveness` | 2 requests, 1 item | stops complete, unpaused requests end, controls return, the shutdown gets through |
| `cache_crash` | 2 keys, 1 preparer, a clear, a change of the quota, a fault, a restart; no audio stays in memory | ClearedIsGone, BooksAreTrue, IndexMatchesDirectory, WithinLimits, SettingsAreSaved; no end or exception leaves the cache closed (TypeOK) |
| `cache_threads` | 2 preparers, 2 keys, 2 clears, room for one audio in memory | ClearedIsGone with an epoch taken before the engine's lock; RightVoice; a confirmed clear ends |
| `voice_overlap` | 2 scripts, 1 desktop, 3 files, 2 transactions, a kill, an edit | NoMixedLoad, OriginalsSurvive |
| `voice_recovery` | 1 script, 2 transactions, 2 failures, 2 kills, 2 loads | MixIsMarked, PartialPublicationResolves |
| `corpus_edit` | 2 sheets, 2 sessions, 3 revisions of which the first 2 may be edits, 3 segments in a cell, 1 row played; 377 k states | the grid shows the session, results stay with what they judge, nothing is left behind unasked; owners are sound on each of 27,783 layouts of three merges |
| `runtime_config` | 2 threads, 2 fields of 3 values, 3 requests, a fault, a foreign file, a restart; 341 k states | NothingIsLost, MemoryIsAccepted, FileAgreesWithMemory |
| `compare_panel` | 2 files of up to 3 lines of up to 3 characters, 4 profiles, 2 drafts with labels of their own, 2 edits, 2 comparisons or exports, a change of a file, a fault; 838 k states | reports belong to the inputs and contents, a comparison ends; ReportIsSound on every comparison of those texts |
| `corpus_mapping` | 1 workbook of 2 versions, a visible and a hidden sheet, 2 header rows, 2 edits, 2 saves, a fault, a restart; 2.3 M states | the grid belongs to the input shown; a saved mapping comes back |
| `voice_blocked`, `corpus_erased` | smallest instance with the behaviour | disagreements, section 6 |

**Bounds.**  Two requests are enough for a request and the one that replaces it,
which is where every race of PlaybackService lies: `generation_` and `active_request_`
only compare a request with the current one.  Two items make a second
turn of the loop with an interval; one period makes the callback meet both
"samples left" and "end of samples".  Two keys have four
files, which exceed a quota of two or three, and exceed a memory limit of one.  In `cache_crash` every
hit is read from the disk, which is where faults and restarts strike; `cache_threads` has
hits in memory, and two clears, which make an
operation that is older than the last clear but younger than the one before it.
Three files are one outside the directory, one inside and model.json, so
"some replaced" is possible with model.json on either side.  One transaction per run
and one more make a run that meets a journal it did not write.  One sheet of the
corpus shares a reference over two rows with a missing cell; the other has two play
columns whose cells differ in length, padding and blank lines; the values entered
empty, keep or split a segment.  Two edits and a result make
result-edit-edit, edit-result-edit and an edit or a result during an export; a
second session makes one that replaces another.  Three merges are what it takes for a conflict
to reach past a shorter merge.  Three requests on the configuration make a save that
waits for another with an update between them; one fault fails the first of them; one restart
and one foreign file give every kind of file to a start and to a save.  Texts of
three lines of three characters have repeated and reordered records, anchors with a segment
before, between and after them, ties, blank records, cases and punctuation; the thresholds
lie near the similarities such short texts have, so that both sides of each occur.  Two
drafts, one of which takes its default label, make a report of two groups, a draft applied on the
way to another group, and one whose label is taken; two comparisons one that is exported, outdated and made
again.  Two edits and two saves of a mapping make a mapping saved again, saved
for the other header row, and saved after a save that failed.  Every
action and every disjunct fires in some passing run.

**Fairness.**  Threads that can run do (WF).  A mutex that is given back again and
again is granted to who waits for it (SF on acquisitions): locks are held for moments between a
person's clicks.  Clicks, restarts, faults and kills are never fair.  In `voice_recovery` the
script is started again as long as it takes (SF on Start) and a desktop that
has loaded the voice is closed at last; without the latter, a desktop left open
keeps model.json, and with it recovery, blocked for good, as the script reports.

In `compare_panel` only the stages of the job and its callbacks are fair (WF): a worker and an
event loop that run.  In `cache_threads` the steps of preparers and of the background
job are.

**Deadlock** is checked except in `runtime_config`, `compare_panel` and `corpus_mapping`: once
the bounds are used up, every thread is idle, or the window is closing with nothing left to deliver,
those systems really stop.  Elsewhere the user or the environment always has a step, or there is an idle loop.

Each property has a mutant in `PROJECT.json`: an operator marked "Mutated" in the
module and placed before the definition it changes, standing for a plausible bug (a dropped guard, a missing reset), which makes
the property fail under the run's own configuration.

## 5. Proofs

Every theorem is about `Spec` and holds for all values of the constants that satisfy the named
ASSUMEs of the modules, which every run evaluates too: bounds are natural numbers, finite sets are finite,
a value that stands for "none" is none of the real ones, each field of the configuration has a
thread that saves it, what recovery installs first is a set of planned files, the contents of files have an age, a
text to be compared is a sequence of records of characters within some bound, a column has one
role, and a row of a worksheet one row number.  Each
proof rests on one inductive invariant, a conjunction of named parts, which TLC
checked on small instances before it was proved; there is a lemma per part or per group of actions, and
lemmas on what an action leaves alone.

### Playback

`PlaybackProofs` proves `TypeCorrect == Spec => []TypeOK`.  TypeOK alone is not inductive.  `TypeInv`
adds that inside Play the generation is below the number of requests, so that the id
PlayCommit takes is a request (`PlayHasRoom`); where the shared sections of the player's Stop return
to (`ReturnLabels`), or the label after them could be any; and that the
worker's context is a request from Take to the next Take (`JobIsRequest`), as it indexes the
contexts everywhere between.

It then proves the other safety properties of both runs: `StateTold`,
`PauseReaches`, `ErrorsAttributed`, `RowOfActive`, `QuietOnceClosed`, the action property `SoundIsLive`
and the refinement `ContractKept == Spec => ImplementsContract`.  Its `Inv` has three layers.

- Who is where: `Exclusion` says which labels hold mutex_, `ControlFlow` where each
  thread can be, `DeviceServesJob` and `RenderIsGuarded` that the device runs for the
  worker's request only and that a callback that renders holds this request's mutex, so that
  nobody has canceled or paused it since the callback looked.
- Which request it is: `RequestsInOrder` says that ids grow along the queue, from above the
  worker's request to `generation`; `UncanceledIsActive` that a request that is queued or worked on and is
  not canceled is the active one.  This is what makes a late announcement, row or error harmless:
  a worker that has lost its request finds it canceled.
- What is told of it: `StateInv`, `ControlsHaveRequest`, `PauseInv`, `ErrorInv`, `RowInv`, `ShutdownInv`,
  each the property it is for with the labels at which it does not hold yet
  (inside Play between its lock sections, inside Pause and Resume between the two flags).

The refinement maps each step to one of PlaybackContract or a stutter; what the mapping needs of a
state (that the callback renders a live request, that items only grow) comes from the same invariant.

### AudioCache

`AudioCacheProofs` proves the seven invariants of `cache_crash` and `cache_threads`: `TypesHold`,
`ClearedForGood`, `BooksHold`, `DirectoryIsIndexed`, `LimitsHold`, `SettingsHold`, `VoicesHold`.

- `Locks`, `Disk` and `Requests` say who holds which mutex, that the directory is used only by its
  owner, and what an operation in flight knows: its key, the voice the engine has loaded for
  it, and that its epoch is behind the present one by as many clears as its era.
- `Eras` carries ClearedIsGone through a clear.  From its confirmation to its end memory is empty, for
  what an older operation finds or makes is not installed; while files are being removed,
  each file and entry that is left is among the keys still to come, unless a removal has failed; so when the flag
  falls, what there is was asked for in the present era.
- `Index`, `Recency` and `Directory`: what is in memory or dirty is an entry, the order of recency is a
  linear order of the entries, and without faults the pair of files that is written or removed is the only one
  not in step with the index.
- `DiskFits`, `EntriesFit`, `MemoryFits`: the limits, with the room that an operation between MakeRoom and
  its last write has reserved.  That trimming gets below the limit needs that a finite
  set has a first element in a linear order (`FirstElement`), as the code removes the oldest.

Two errors in the model came out of this proof.  RecoveryThrows counted the files
as an owner only if the *ended* process had been one; it now counts them always, as the constructor does.
WithinLimits claimed the limit on entries at all times, which the code does not keep (section 6).

### ComparePanel and the algorithms

`ComparePanelProofs` proves `ReportsAreCurrent == Spec => []ReportIsCurrent`.  `JobInv` says that a comparison under
way has the groups, options and revision the controls still show, because every control that could change them is disabled,
and that each report made so far is of the group at its place and was read as it was hashed.  The
latter is why the file's contents have an `Age`: what is hashed, read and hashed again is each not newer than the
next, so an equal hash before and after leaves no other contents for the read.  `PostedInv` carries this to the
callback, `IdleInv` says that behind an idle window no job is under way.

`ReportsAreSound == Spec => []ReportIsSound` needs little of the state: `ComparedInv` says that a posted report is of
contents some file held and of options that can be set.  The rest is `EveryComparisonIsSound`, about
any characters, texts and options: whatever Compare makes of two texts meets the definitions
that enumerate every matching.  `ComparedAssumption` says of the constants that texts are sequences of
sequences of characters no longer than `Longest`, as the code refuses records of more than 65536 (CharacterDiff.cpp:18), and that
the four limits are integers.  `Scale` may be any positive number: a quotient that is not exact is rounded down
in Ratio and in its reference definition alike.

The library has no induction over pairs that the provers could use, so `CompareTextProofs` starts from the
least counterexample.

- *Recursion.*  A function on a finite grid whose body looks at points of lower rank only exists
  (`RecursionExists`), and two that solve the same equation are equal (`OneSolution`).  The induction
  lemmas have a set in the place of a predicate.
- *Matchings.*  A matching inside a rectangle of positions either takes its corner, or leaves the corner's row or its
  column alone (`FirstCorner`, `LastCorner`), and what remains is a matching of a smaller rectangle.  With a price on
  each pair, this gives the least cost of a rectangle from those of three smaller ones; the longest common
  subsequence is the case in which each equal pair costs -1, and the edit distance another.
- *What the code strips.*  Common ends that are cut off first (`Strip`) change neither the common length nor the
  distance: equal corners may always be taken.  `RatioIsSimilarity`, `DiffIsSound` and `UnitEditsAreFewest` rest on it.  For
  the latter two the way through the table is followed step by step, as it is there that a tie is decided.

`ComparePanelProofs` goes on from texts to lists of records.

- *Rows.*  `Runs` says which numbers one side of a path goes through; paths that fit end to end can be joined
  (`WalksJoin`), so that each record is there once and in order, whatever is matched.
- *Segments.*  `SegmentStep` keeps an optimal alignment of a prefix of the segment (`AlignedTo`); at a tie between a pair and a
  gap both cost the same, which is all the property asks.
- *Anchors.*  A pair that is the peak of its row and of its column, by the margin in both, is unambiguous
  (`StandsOut`); two of them share neither row nor column, so anchors are a partner function, whose longest chain
  is found by the same recursion (`LongestChainIs`).  An alignment that holds a chain is one alignment per
  gap between anchors, and costs are added up over these.

### VoiceTransaction

`VoiceTransactionProofs` proves six theorems.  The first two hold for any number of scripts,
desktops, files, transactions, failures, kills, edits and interrupts.

- `TypeCorrect == Spec => []TypeOK`, whose lease part says the handle on
  model.json is never held without the mutex.
- `NothingIsLost == Spec => []OriginalsSurvive`.  OriginalsSurvive alone is not
  inductive, for `Replace` overwrites an original in place.  `KeepInv` adds
  that a run past its backup has seen every original the user still wants in some
  backup (`SavedFirst`); that taking a backup overwrites none that holds an
  original, because a transaction that still plans has an empty one (`Fresh`),
  because no two runs plan the same transaction (`Distinct`) and because
  an unused transaction has nothing (`Begun`).  `Restore` puts an original back
  over an original because the rollback recognizes a file by its digest and nothing
  else has an original's digest.  The other actions are shown `Quiet`: they touch
  neither files nor backups and start no planning.

NoMixedLoad and MixIsMarked do not hold for all constants (section 6).  Two theorems say what it takes
to break them, two that runs which follow one another never do.

- `MixedLoadNeedsExposure` and `UnmarkedMixNeedsExposure` prove them of every behaviour of
  `Spec` in which two steps do not occur: `ExposedRollback`, a recovery that begins to roll
  back a voice while neither its marker nor the handle on model.json keeps readers out, model.json
  is there or will be put back, and some file is not as the journal found it; and `LateInterrupt`, an interrupt of a publication whose marker is
  gone.  Everything else may fail, be killed or overlap in any number.  The invariant is `CoverInv`.
  For each step of a run, `Covered` says what keeps readers out: the handle until the marker is
  there, the marker while files are replaced, and during a rollback without a marker the
  handle up to model.json, which goes first, and then its absence.  `Whole` carries
  MixIsMarked over the steps that take the marker away: what is published is all new, and what is
  restored is what was planned on, whole since nobody backs up a mixture (`WholePlans`).  A rollback that
  finds every file as it was (`AsFound`) changes none (`RestoresNothing`), and needs no cover.
  `KeptOut` is NoMixedLoad with the files still to be read: a desktop that was admitted meets files of one
  kind, and model.json, which it holds, stays.  `Owned`, `Begins`, `Passed` and `Marked` say
  whose mutex, journal and marker these are, so that a step of one run disturbs no other.
- `OneRunNeverMixesALoad` and `OneRunMarksAMix` prove them outright when runs follow one another (one
  preparer, any number of runs) and are not interrupted late.  `AloneInv` shows that `ExposedRollback` does not occur: at most
  one journal is unfinished, it is still to come in a recovery, and a recovery that meets it has
  its marker, or the handle, or finds no model.json; in that case the journal
  did not find one either (`Spared`), for what takes it away puts back its absence.

### RuntimeConfig

`RuntimeConfigProofs` proves, for any threads, fields, values and bounds, all three properties of
`runtime_config` from one inductive invariant, `Inv` (theorem `InvHolds`):
`NeverLost == Spec => []NothingIsLost`, `RollbackIsScoped == Spec => []MemoryIsAccepted` and
`FileAgrees == Spec => []FileAgreesWithMemory`.  None of them is inductive.
`Locked` says that exactly the thread between Update and its rollback or
report holds the mutex, that it knows its job, and that the field it saves is its own, so that two
waiting threads never propose the same field.  `MemoryInv` says that the proposed
field has its old value in `previous`, which makes the rollback right, and that the snapshot has the
accepted value in every other field unless that was updated since, which makes a report of success
right.  `FileInv` follows the file through the save: it is the durable one until it is replaced,
it may be replaced when the save gets there, the temporary file is then whole, and what is found
afterwards is the snapshot.  `AgreeInv` is FileAgreesWithMemory about
the accepted values, which also holds while somebody saves.

### CorpusMapping

`CorpusMappingProofs` proves `GridIsOfInput == Spec => []GridIsOfShownInput` and the action property
`SavedMappingReturns == Spec => MappingComesBack`, for any workbooks whose columns are at
different places and any header rows among which is 1, where a panel starts.

- `TaskInv`: while a task is under way the controls that make the input are disabled, so that the
  input it was started with is still the one shown and the mappings it took along are still those of the
  configuration; there is no analysis in the meantime, and nothing is under way behind an idle panel.
- `GridInv`: the grid is that of the analysis, row by row, with one reference at most.
- `MappingsInv`, `RememberedInv`: the list has one mapping for an input at most, or FindMapping
  would find an older one; and an input that was saved has one, whose columns are those of the grid at
  its last save.  This survives saves that fail, since those put the list back, and restarts.

With these, an analysis that is posted recalls what is remembered of its input (`Recalls`), column by
column, which is the step MappingComesBack is about.

### CorpusSession

`CorpusSessionProofs` proves the invariants of `corpus_edit` and its action property, for any
worksheets with any merges, any lines and any `Trim` that gives the same when it is applied twice, and any bounds:
`GridAlwaysShowsSession`, `MarksAlwaysFitTheirText`, `OwnersAreAlwaysSound`,
`ExportIsAlwaysOfThisSession`, `PlayedTextIsAlwaysShown` and `NothingIsEverLostOnLeaving`.

Most of it is about the functions of CorpusView, as what an edit does to one cell decides which
rows the view has, and in which order.

- *Order*: InOrder lists a finite set without gaps or repetitions (`RanksAreTaken`, `PlacesDiffer`), so that
  a display row has one pair of a raw and an expanded row (`At`, `ViewRow`).
- *Text*: splitting what JoinSegments joined gives the segments before the edited one as they were, and
  those after it too when there are as many (`SplitOfJoin`).  This is why only results from that segment on
  have to go, and only when the number of segments changed.
- *View*: a row depends on the reference, the segments and the results of its raw row only (`SameRow`); two
  sessions with as many segments everywhere and the same blank references show the same positions
  (`SamePositions`).  When an edit leaves their number, or says that it left the shape, the view
  differs in the touched raw rows only (`ViewAfter`), which is what the partial refresh rests on.  It takes the number
  too: a reference that is emptied takes rows away without changing a segment.
- *Edits and marks*: `EditPlaySound`, `EditReferenceSound` and `EditIs` say what each edit leaves alone,
  `CycleIs` that the cell CycleResult writes in place is the one a rebuild would change, and `CreatedIs` that a new
  session is of the same kind.
- *Owners*: the scan of Conflicts meets the merges by first row (`ScannedIs`), and once it has met one, its group
  holds that merge and reaches its last row until the scan is past it, so that two merges over the same row are
  both in conflict (`OverlapsConflict`).  The loop of ReferenceOwners gives a row away
  for a merge without conflict only (`ProjectKeepsLent`).  It needs that no two rows have the same row number.

Both loops are recursive functions over 0..n.  Their inductions are the lemma `CountingUp`, proved from the
least counterexample, with the set of good n in the place of a predicate.

The invariant `Inv` then has `ShownInv` (the session is well formed, its results are
for cells it has, the view is the rebuilt one, the grid is the view); `JudgedInv`, which is MarksFitTheirText;
`PlayedInv`; and three parts about copies.  An export, and the workbook it wrote, are a copy of the session at a
revision it has reached; a copy of the present revision has every text and result of
it (`CopyOf`, `SavedInv`, `ExportInv`).  It need not be equal: the edit of `corpus_erased` takes a
result away without a revision (`FewerResults`).  `ExportedInv` says that what counts as exported is no later
than the last workbook, so that a session without changes is in it.  `PanelInv` says that what waits
for an export waits for one under way, and would install a new session.

### Only model-checked

- Liveness (StopCompletes, RequestEnds, ControlsReturn, ShutdownCompletes, ClearComesToAnEnd,
  ComparisonEnds, PartialPublicationResolves and the rest): it needs ENABLED and fairness, which the prover does not treat.
- That two overlapping runs, one of which is killed, keep NoMixedLoad (`voice_overlap`) without the
  hypothesis of `MixedLoadNeedsExposure`: the instance never begins an exposed rollback.  With three
  scripts, or two kills, it may (section 6).

## 6. Disagreements found

Two have a run of their own.

- `voice_blocked`: rollback records ROLLED_BACK (:340) before it removes the
  marker (:341).  A run killed in between leaves a marker no recovery removes, since recover skips
  settled journals; the voice is blocked though its files are whole.
- `corpus_erased`: a cell whose text is padded (" a") shows it trimmed ("a").
  Entering " a" differs from the segment shown, so UpdateDisplayCell erases its
  result (CorpusViewService.cpp:163, :168), but leaves the source, and with it the
  revision, as it was (:101).  After an export the session counts as exported while the
  workbook still holds the result.

Five more are in the models and have no run.

- The index may exceed its limit on entries after a start whose recovery throws.  The constructor
  indexes every pair of files it finds and only then makes room (AudioCache.cpp:290-317); pairs left by a Put
  that failed or was killed after its second file are among them, and a removal that fails ends the
  recovery there.  The cache then runs without its directory, so that nothing evicts these entries.  `WithinLimits`
  states the limit for every other state.  To see it, drop `diskEnabled \/ ~owned =>` from it and
  check MCAudioCache with `EntryLimit = 1` and `MaxFaults = 3`.
- A lease taken while the marker is there keeps no handle on model.json
  (prepare_downloaded_voices.py:155-156).  If recover then clears the marker for a committed journal
  (:374), the rollback of a further journal that was killed between its backup and
  its marker runs with readers let in.  `voice_overlap` and `voice_recovery` show the guard holds
  for two overlapping scripts and one kill, and for one script.  To see it fail, check MixIsMarked on MCVoiceTransaction with
  `Preparers = {p1, p2}`, `MaxTransactions = 2`, `MaxFaults = 0`, `MaxCrashes = 2` and no edits or loads.
  The proof of `UnmarkedMixNeedsExposure` turned up two more ways.  One kill is enough for three scripts and a
  desktop (`MaxTransactions = 3`, `MaxCrashes = 1`, `MaxLoads = 1`, `Last = 2`): a recovery may also clear
  the marker by undoing a publication that failed and was blocked while the desktop looked at model.json, after
  another had succeeded.  And the handle is not taken when
  model.json is absent (:150), though an unmarked journal that found one will put it back, and first:
  with `Installations = {{}}`, three scripts, three transactions and two kills readers
  may load while the other files are still absent.
- A run killed between recording BACKED_UP (:256) and its marker (:257) has replaced nothing, yet with
  model.json present no later run gets past its journal: without a marker the lease keeps its handle on
  model.json (:150-156), rollback puts that file back first, and Windows refuses to replace it under the
  handle (docs/EXECUTION_NOTES.md:110-112), so that each run ends with RECOVERY_BLOCKED.  docs/DATA_FACTS.md:17 says that
  incomplete journals recover before a retry.  To see it, check with `Preparers = {p1}`, `Installations = {{1, 2, 3}}`, one crash, no
  faults and no loads that a journal that is BACKED_UP is later neither that, nor ROLLING_BACK, nor RECOVERY_BLOCKED, under
  FairSpec.  MixIsMarked and PartialPublicationResolves are not affected: the files are whole, and desktops load them.
- CorpusMappingPanel looks for the sheet of the last save by its label (CorpusMappingPanel.cpp:220),
  which for a hidden sheet ends in " [hidden]": it is not selected again.  Showing or
  hiding the hidden sheets (:176) may choose another sheet and keeps the header row of
  the one before.  A saved mapping is filled in again (docs/BUSINESS_BASELINE.md:25)
  once the user selects its sheet and header row, which is what `MappingComesBack` states.
- A KeyboardInterrupt at the end of `publish` is the constant `Interrupts`.  It is
  FALSE in every run: with TRUE, an interrupt after clear_marker is handled as a
  failed publication and rolls back a voice that readers may load, so NoMixedLoad
  does not hold; the theorems cover both values.

## 7. Not modelled

- ModelRegistry and the Excel adapters: they convert what files hold and keep no state
  another part depends on.  A reader of VoiceTransaction has the one check of the registry that
  matters to a publication, the marker.
- UTF-8, paths, delimiters, size limits, and the guesses of a column's type and
  language: conversions and heuristics over characters, for unit tests.
- The budgets of a comparison, reserved before each table: a comparison beyond them fails,
  and a failing comparison is modelled.
- Migration of older configurations, the names of temporary and backup files, and a
  file put in place between the look at the existing file and its replacement.
- Grids, highlights, filters, colours, the choice of voices and other display.
- WorkerQueue's Drain and concurrent stoppers, and an exception in the shutdown
  task of ApplicationRuntime (:99), after which the window waits for a flag that is never set.
- Native synthesis, ONNX metadata and candidate building: calls that succeed or fail.
- The GUI shell, which only forwards; the logger, whose mutex guards an append nothing
  depends on; MossNanoTtsEngine, a stub; download and packaging scripts.
