--------------------------- MODULE CorpusMapping ---------------------------
(***************************************************************************)
(* The mapping panel: the workbook, sheet and header row the user chooses, *)
(* the analysis of that input by a job of the background WorkerQueue, the  *)
(* grid in which the user says what each column is for, and the mappings   *)
(* that are saved per workbook, sheet and header row and found again by    *)
(* the next analysis.  Other programs change the workbooks.                *)
(*                                                                         *)
(* One handler of the window is one step; a dialog is part of it.  What    *)
(* OnBuildView hands over is the session of module CorpusSession.  Whether *)
(* a revision is still the current one is all that is kept of it.          *)
(***************************************************************************)
EXTENDS Integers, SequencesExt

CONSTANTS
  Paths,
  Sheets,      \* SheetMetadata: the sheets of a path, with name and visible
  HeaderRows,
  Versions,    \* contents a workbook may have
  Columns,     \* by version and header row: source index, header, utterance
  Languages, Voices,
  None,
  MaxEdits,    \* bound on the edits of the grid
  MaxSaves,    \* bound on the saves
  MaxFaults,   \* bound on the jobs and saves that fail
  MaxRestarts

\* The header row is 1 at first.  Analyze leaves out empty columns, and each of
\* the others has an index of its own.
ASSUME CorpusMappingAssumption ==
  /\ 1 \in HeaderRows
  /\ \A v \in Versions, n \in HeaderRows :
       /\ Columns[<<v, n>>] \in Seq([source : Nat, header : STRING, utterance : BOOLEAN])
       /\ \A j, k \in DOMAIN Columns[<<v, n>>] :
            j # k => Columns[<<v, n>>][j].source # Columns[<<v, n>>][k].source

VARIABLES
  version,     \* what the workbooks contain
  path, showHidden, sheets, sheet, headerRow,
  stale,       \* input_revision_ is no longer that of the task
  analysis,
  rows,        \* the grid
  busy, closing,
  job, posted, \* the task of the background queue and its CallAfter
  mappings, headers, lastWorkbook, lastSheet,  \* of the AppConfig
  remembered,  \* history: the grid at the last save, by input
  edits, saves, faults, restarts

inputVars == <<path, showHidden, sheets, sheet, headerRow>>
gridVars == <<stale, analysis, rows>>
taskVars == <<job, posted>>
configVars == <<mappings, headers, lastWorkbook, lastSheet, remembered>>
vars == <<version, inputVars, gridVars, busy, closing, taskVars, configVars,
          edits, saves, faults, restarts>>

Init ==
  /\ version \in Versions
  /\ lastWorkbook = None /\ path = lastWorkbook /\ showHidden = FALSE /\ sheets = <<>> /\ sheet = None /\ headerRow = 1
  /\ stale = TRUE /\ analysis = None /\ rows = <<>>
  /\ busy = FALSE /\ closing = FALSE /\ job = None /\ posted = None
  /\ mappings = <<>> /\ headers = <<>> /\ lastSheet = None /\ remembered = <<>>
  /\ edits = 0 /\ saves = 0 /\ faults = 0 /\ restarts = 0

Input == <<path, sheet, headerRow>>
Fault == faults < MaxFaults /\ faults' = faults + 1
NoFault == UNCHANGED faults

-----------------------------------------------------------------------------
(* WorkbookService                                                         *)

\* Where it is, or 0.
FindMapping(saved, input) == SelectInSeq(saved, LAMBDA m : m.input = input)

\* Mutated: a mapping saved again is added behind the one it should replace.
AppendMapping(saved, mapping) == Append(saved, mapping)

UpsertMapping(saved, mapping) ==
  LET at == FindMapping(saved, mapping.input)
  IN  IF at = 0 THEN Append(saved, mapping) ELSE [saved EXCEPT ![at] = mapping]

FindHeaderRow(p, s) == IF <<p, s>> \in DOMAIN headers THEN headers[<<p, s>>] ELSE 1

\* ColumnAnalyzer::Analyze: a column of utterances is played.
Profile(column) ==
  [source |-> column.source, header |-> column.header, selected |-> column.utterance,
   role |-> IF column.utterance THEN "Play" ELSE "Ignore", language |-> None, voice |-> None]

FindColumn(columns, profile) ==
  SelectInSeq(columns, LAMBDA c : c.source = profile.source /\ c.header = profile.header)

\* The column as it was saved for this input, if it was.
Restored(profile, input, saved) ==
  LET found == FindMapping(saved, input)
      same == IF found = 0 THEN 0 ELSE FindColumn(saved[found].columns, profile)
  IN  IF same = 0 THEN profile ELSE saved[found].columns[same]

\* AnalyzeSheet, with the workbook as it is when the job reads it.  A language of
\* None is LanguageSelectionMode::Auto.
AnalyzeSheet(input, saved) ==
  LET columns == Columns[<<version, input[3]>>]
  IN  [input |-> input,
       columns |-> [k \in DOMAIN columns |-> Restored(Profile(columns[k]), input, saved)]]

-----------------------------------------------------------------------------
(* The input                                                               *)

\* Mutated: the revision moves on, the analysis stays.
OnlyMoveOn == stale' = TRUE /\ UNCHANGED <<analysis, rows>>

InvalidateAnalysis == stale' = TRUE /\ analysis' = None /\ rows' = <<>>

\* Every control of the input is disabled while the panel is busy.
ChangeInput ==
  /\ ~busy
  /\ InvalidateAnalysis
  /\ UNCHANGED <<version, busy, closing, taskVars, configVars, edits, saves, faults, restarts>>

Displayed(all, hidden) == {s \in ToSet(all) : hidden \/ s.visible}
First(all, hidden) ==
  IF Displayed(all, hidden) = {} THEN None
  ELSE SelectSeq(all, LAMBDA s : hidden \/ s.visible)[1].name
Names(all, hidden) == {s.name : s \in Displayed(all, hidden)}

\* The text of workbook_path_: that of the last save, or empty, at first.
ChangePath(p) ==
  /\ ChangeInput /\ p # path
  /\ path' = p /\ sheets' = <<>> /\ sheet' = None
  /\ UNCHANGED <<showHidden, headerRow>>

OnSheetChanged(s) ==
  /\ ChangeInput /\ s \in Names(sheets, showHidden) \ {sheet}
  /\ sheet' = s /\ headerRow' = FindHeaderRow(path, s)
  /\ UNCHANGED <<path, showHidden, sheets>>

ChangeHeaderRow(n) ==
  /\ ChangeInput /\ n # headerRow
  /\ headerRow' = n
  /\ UNCHANGED <<path, showHidden, sheets, sheet>>

\* RefreshSheetChoices keeps the chosen sheet if it is still displayed, and the
\* header row whether or not it is.
Refreshed(hidden) == IF sheet \in Names(sheets, hidden) THEN sheet ELSE First(sheets, hidden)

ShowHidden ==
  /\ ChangeInput
  /\ showHidden' = ~showHidden /\ sheet' = Refreshed(showHidden')
  /\ UNCHANGED <<path, sheets, headerRow>>

-----------------------------------------------------------------------------
(* Loading and analysing                                                   *)

Submit(task) ==
  /\ ~busy /\ busy' = TRUE
  /\ stale' = FALSE /\ analysis' = None /\ rows' = <<>>
  /\ job' = task /\ UNCHANGED posted
  /\ UNCHANGED <<version, closing, configVars, edits, saves, faults, restarts>>

OnLoadSheets ==
  /\ Submit([kind |-> "load", path |-> path, last |-> lastSheet])
  /\ UNCHANGED inputVars

\* The dialog sets the path, and the sheets are read.
OnBrowse(p) ==
  /\ path' = p /\ sheets' = <<>> /\ sheet' = None
  /\ Submit([kind |-> "load", path |-> p, last |-> lastSheet])
  /\ UNCHANGED <<showHidden, headerRow>>

AnalyzeCurrentSheet ==
  /\ sheet # None
  /\ Submit([kind |-> "analyze", input |-> Input, saved |-> mappings])
  /\ UNCHANGED inputVars

JobUnchanged ==
  UNCHANGED <<version, inputVars, gridVars, busy, closing, configVars, edits, saves, restarts>>

LoadJob ==
  /\ job # None /\ job.kind = "load" /\ job.path # None /\ ~closing /\ NoFault
  /\ job' = None
  /\ posted' = [kind |-> "sheets", sheets |-> Sheets[job.path], last |-> job.last]
  /\ JobUnchanged

AnalyzeJob ==
  /\ job # None /\ job.kind = "analyze" /\ ~closing /\ NoFault
  /\ job' = None
  /\ posted' = [kind |-> "analysis", analysis |-> AnalyzeSheet(job.input, job.saved)]
  /\ JobUnchanged

\* The workbook cannot be read.
JobFails ==
  /\ job # None /\ ~closing
  /\ (job.kind = "load" /\ job.path = None /\ NoFault) \/ Fault
  /\ job' = None /\ posted' = [kind |-> "error"]
  /\ JobUnchanged

Delivered(kind) == posted # None /\ posted.kind = kind /\ ~closing /\ posted' = None /\ busy' = FALSE
CallbackUnchanged ==
  UNCHANGED <<version, path, showHidden, closing, job, configVars, edits, saves, faults, restarts>>

\* The sheet of the last save is looked for by its label, which is another one
\* for a hidden sheet.
SheetsArrive ==
  /\ Delivered("sheets")
  /\ LET visible == {s.name : s \in {s \in Displayed(posted.sheets, showHidden) : s.visible}}
         first == First(posted.sheets, showHidden)
         chosen == IF posted.last \in visible THEN posted.last ELSE first
     IN IF stale THEN UNCHANGED <<sheets, sheet, headerRow, gridVars>>
        ELSE /\ sheets' = posted.sheets /\ sheet' = chosen
             /\ IF chosen = None THEN UNCHANGED <<headerRow, gridVars>>
                ELSE headerRow' = FindHeaderRow(path, chosen) /\ InvalidateAnalysis
  /\ CallbackUnchanged

\* FillColumnGrid
RowOf(column) ==
  [enabled |-> column.selected, role |-> column.role, language |-> column.language, voice |-> column.voice]
Filled(columns) == [k \in DOMAIN columns |-> RowOf(columns[k])]

AnalysisArrives ==
  /\ Delivered("analysis")
  /\ IF stale THEN UNCHANGED <<analysis, rows>>
     ELSE analysis' = posted.analysis /\ rows' = Filled(posted.analysis.columns)
  /\ UNCHANGED <<sheets, sheet, headerRow, stale>> /\ CallbackUnchanged

JobFailed ==
  /\ Delivered("error")
  /\ UNCHANGED <<sheets, sheet, headerRow, gridVars>> /\ CallbackUnchanged

-----------------------------------------------------------------------------
(* The grid                                                                *)

EditGrid(edited) ==
  /\ ~busy /\ analysis # None /\ edits < MaxEdits
  /\ edits' = edits + 1
  /\ edited # rows /\ rows' = edited
  /\ UNCHANGED <<version, inputVars, stale, analysis, busy, closing, taskVars, configVars,
                 saves, faults, restarts>>

\* Of two references the one set last remains.
WithoutOther(grid, r) ==
  [k \in DOMAIN grid |->
     IF k # r /\ grid[k].role = "Reference" THEN [grid[k] EXCEPT !.role = "Ignore", !.enabled = FALSE]
     ELSE grid[k]]

WithRole(grid, r, role) ==
  LET given == [grid EXCEPT ![r].role = role, ![r].enabled = @ \/ role # "Ignore"]
  IN IF role = "Reference" THEN WithoutOther(given, r) ELSE given

Roles == {"Ignore", "Reference", "Play"}

\* OnGridCellChanged
ChangeEnabled(r) == EditGrid([rows EXCEPT ![r].enabled = ~@])
ChangeRole(r, role) == EditGrid(WithRole(rows, r, role))
ChangeLanguage(r, language) == EditGrid([rows EXCEPT ![r].language = language])
SelectVoice(r, voice) == EditGrid([rows EXCEPT ![r].voice = voice])

OnSelectAll == EditGrid([k \in DOMAIN rows |-> [rows[k] EXCEPT !.enabled = TRUE]])
OnSelectNone == EditGrid([k \in DOMAIN rows |-> [rows[k] EXCEPT !.enabled = FALSE]])

\* On the rows of the selection; a single one for a reference.
OnApplyRole(selection, role) ==
  /\ role = "Reference" => Cardinality(selection) = 1
  /\ EditGrid(IF role = "Reference" THEN WithRole(rows, CHOOSE r \in selection : TRUE, role)
              ELSE [k \in DOMAIN rows |->
                      IF k \in selection THEN WithRole(rows, k, role)[k] ELSE rows[k]])

-----------------------------------------------------------------------------
(* Saving                                                                  *)

Selected == {k \in DOMAIN rows : rows[k].enabled /\ rows[k].role # "Ignore"}
WithRoleIn(role) == {k \in Selected : rows[k].role = role}

\* Without a selected row, a column keeps the language and the voice it came with.
SavedColumns ==
  [k \in DOMAIN rows |->
     IF k \in Selected
     THEN [analysis.columns[k] EXCEPT !.selected = TRUE, !.role = rows[k].role,
                                      !.language = rows[k].language, !.voice = rows[k].voice]
     ELSE [analysis.columns[k] EXCEPT !.selected = FALSE, !.role = "Ignore"]]

Put(f, x, y) == [z \in DOMAIN f \cup {x} |-> IF z = x THEN y ELSE f[z]]

\* AnalysisMatchesInput, and SelectedColumnsFromGrid does not throw.
CanSave ==
  /\ ~busy /\ analysis # None /\ analysis.input = Input
  /\ WithRoleIn("Play") # {} /\ Cardinality(WithRoleIn("Reference")) <= 1

\* A save that fails restores what the update changed.
OnSaveMapping ==
  /\ CanSave /\ saves < MaxSaves /\ saves' = saves + 1
  /\ \/ /\ NoFault
        /\ mappings' = UpsertMapping(mappings, [input |-> analysis.input, columns |-> SavedColumns])
        /\ headers' = Put(headers, <<analysis.input[1], analysis.input[2]>>, analysis.input[3])
        /\ lastWorkbook' = analysis.input[1] /\ lastSheet' = analysis.input[2]
        /\ remembered' = Put(remembered, Input, [k \in DOMAIN rows |->
             [source |-> analysis.columns[k].source, header |-> analysis.columns[k].header,
              selected |-> k \in Selected, row |-> rows[k]]])
     \/ Fault /\ UNCHANGED configVars
  /\ UNCHANGED <<version, inputVars, gridVars, busy, closing, taskVars, edits, restarts>>

-----------------------------------------------------------------------------
BeginShutdown ==
  /\ ~closing /\ restarts < MaxRestarts
  /\ closing' = TRUE /\ busy' = TRUE
  /\ UNCHANGED <<version, inputVars, gridVars, taskVars, configVars, edits, saves, faults, restarts>>

\* The program starts again with the configuration it saved, and the path of
\* the last save.
Restart ==
  /\ closing /\ restarts' = restarts + 1
  /\ path' = lastWorkbook /\ showHidden' = FALSE /\ sheets' = <<>> /\ sheet' = None /\ headerRow' = 1
  /\ stale' = TRUE /\ analysis' = None /\ rows' = <<>>
  /\ busy' = FALSE /\ closing' = FALSE /\ job' = None /\ posted' = None
  /\ UNCHANGED <<version, configVars, edits, saves, faults>>

\* Another program writes the workbooks.
WorkbooksChange(v) ==
  /\ v # version /\ version' = v
  /\ UNCHANGED <<inputVars, gridVars, busy, closing, taskVars, configVars, edits, saves, faults, restarts>>

Next ==
  \/ \E p \in Paths : ChangePath(p) \/ OnBrowse(p)
  \/ \E s \in Names(sheets, showHidden) : OnSheetChanged(s)
  \/ \E n \in HeaderRows : ChangeHeaderRow(n)
  \/ ShowHidden \/ OnLoadSheets \/ AnalyzeCurrentSheet
  \/ LoadJob \/ AnalyzeJob \/ JobFails
  \/ SheetsArrive \/ AnalysisArrives \/ JobFailed
  \/ \E r \in DOMAIN rows : ChangeEnabled(r)
  \/ \E r \in DOMAIN rows, role \in Roles : ChangeRole(r, role)
  \/ \E r \in DOMAIN rows, language \in Languages \cup {None} : ChangeLanguage(r, language)
  \/ \E r \in DOMAIN rows, voice \in Voices : SelectVoice(r, voice)
  \/ OnSelectAll \/ OnSelectNone
  \/ \E selection \in SUBSET DOMAIN rows, role \in Roles : OnApplyRole(selection, role)
  \/ OnSaveMapping \/ BeginShutdown \/ Restart
  \/ \E v \in Versions : WorkbooksChange(v)

Spec == Init /\ [][Next]_vars
-----------------------------------------------------------------------------
(* Properties                                                              *)

\* CorpusMappingPanel: what the grid shows and Save and Build hand on is the
\* analysis of the input the controls show, row by row, with at most one
\* reference.
GridIsOfShownInput ==
  analysis # None =>
    /\ analysis.input = Input
    /\ DOMAIN rows = DOMAIN analysis.columns
    /\ Cardinality({k \in DOMAIN rows : rows[k].role = "Reference"}) <= 1

\* A column that was played or a reference is shown as its row was.
ComesBack(row, old) ==
  IF old.selected THEN row = old.row ELSE ~row.enabled /\ row.role = "Ignore"

SavedComesBack ==
  analysis = None /\ analysis' # None =>
    LET input == analysis'.input IN
    input \in DOMAIN remembered =>
      \A k \in DOMAIN rows', m \in DOMAIN remembered[input] :
        LET old == remembered[input][m] IN
        old.source = analysis'.columns[k].source /\ old.header = analysis'.columns[k].header =>
          ComesBack(rows'[k], old)

\* AnalyzeSheet after OnSaveMapping: the next analysis of an input shows each
\* column that is still there as it was saved last, whatever was saved for other
\* inputs, failed to be saved or restarted in between.
MappingComesBack == [][SavedComesBack]_vars

=============================================================================
