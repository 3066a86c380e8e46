------------------------ MODULE CorpusMappingProofs ------------------------
(***************************************************************************)
(* Theorems about CorpusMapping, for any workbooks, sheets, columns,       *)
(* languages and voices, and any number of edits, saves, faults and        *)
(* restarts.                                                               *)
(***************************************************************************)
EXTENDS CorpusMapping, FiniteSetTheorems, SequenceTheorems, TLAPS

Profiles ==
  [source : Nat, header : STRING, selected : BOOLEAN, role : Roles,
   language : Languages \cup {None}, voice : Voices \cup {None}]
GridRows ==
  [enabled : BOOLEAN, role : Roles, language : Languages \cup {None}, voice : Voices \cup {None}]

OneReference(list) ==
  \A j, k \in DOMAIN list : list[j].role = "Reference" /\ list[k].role = "Reference" => j = k

\* What Analyze makes of a sheet, and what a mapping keeps of it.
ColumnList(columns) ==
  /\ columns \in Seq(Profiles)
  /\ OneReference(columns)
  /\ \A j, k \in DOMAIN columns : j # k => columns[j].source # columns[k].source

\* A mapping for each input at most.
MappingsInv ==
  /\ mappings \in Seq({mappings[k] : k \in DOMAIN mappings})
  /\ \A k \in DOMAIN mappings : ColumnList(mappings[k].columns)
  /\ \A j, k \in DOMAIN mappings : mappings[j].input = mappings[k].input => j = k

\* The grid is that of the analysis, which is of the input the controls show.
GridInv ==
  /\ headerRow \in HeaderRows
  /\ \A at \in DOMAIN headers : headers[at] \in HeaderRows
  /\ analysis # None =>
       /\ analysis.input = Input
       /\ ColumnList(analysis.columns)
       /\ rows \in Seq(GridRows) /\ Len(rows) = Len(analysis.columns)
       /\ OneReference(rows)

\* The column is again what the grid showed when it was saved.
SavedAs(column, old) ==
  /\ column.source = old.source /\ column.header = old.header
  /\ ComesBack(RowOf(column), old)

\* Every input that was saved has its mapping, with the columns last saved.
RememberedInv ==
  \A input \in DOMAIN remembered :
    \E k \in DOMAIN mappings :
      /\ mappings[k].input = input
      /\ DOMAIN mappings[k].columns = DOMAIN remembered[input]
      /\ \A m \in DOMAIN remembered[input] : SavedAs(mappings[k].columns[m], remembered[input][m])

\* An analysis shows what is remembered of its input.
Recalls(a) ==
  a.input \in DOMAIN remembered =>
    \A k \in DOMAIN a.columns, m \in DOMAIN remembered[a.input] :
      LET old == remembered[a.input][m] IN
      old.source = a.columns[k].source /\ old.header = a.columns[k].header =>
        ComesBack(RowOf(a.columns[k]), old)

\* Nothing is under way behind a panel that is not busy, and what is under
\* way has the mappings there are and, unless the revision has moved on, the
\* input the controls show.
TaskInv ==
  /\ version \in Versions
  /\ closing => busy
  /\ ~busy => job = None /\ posted = None
  /\ job = None \/ posted = None
  /\ job # None \/ posted # None => analysis = None
  /\ job # None /\ job.kind = "analyze" =>
       job.input = Input /\ job.saved = mappings
  /\ posted # None /\ posted.kind = "analysis" =>
       /\ posted.analysis.input = Input
       /\ ColumnList(posted.analysis.columns)
       /\ Recalls(posted.analysis)

Inv == MappingsInv /\ GridInv /\ RememberedInv /\ TaskInv

-----------------------------------------------------------------------------
(* Mappings that are looked for                                            *)

UniqueInputs(saved) ==
  \A j, k \in DOMAIN saved : saved[j].input = saved[k].input => j = k

LEMMA FirstOfOne ==
  ASSUME NEW S, NEW k \in Nat, k \in S, \A j \in S : j = k
  PROVE  Min(S) = k
<1>1. S = {k}
  OBVIOUS
<1>2. \A y \in {k} : k <= y
  OBVIOUS
<1> QED
  BY <1>1, <1>2 DEF Min

\* FindMapping finds the mapping of an input.
LEMMA MappingFound ==
  ASSUME NEW S, NEW saved \in Seq(S), UniqueInputs(saved), NEW input
  PROVE  /\ \A k \in DOMAIN saved : saved[k].input = input => FindMapping(saved, input) = k
         /\ (\A k \in DOMAIN saved : saved[k].input # input) => FindMapping(saved, input) = 0
<1> DEFINE I == {i \in 1..Len(saved) : saved[i].input = input}
<1>1. FindMapping(saved, input) = IF I # {} THEN Min(I) ELSE 0
  BY DEF FindMapping, SelectInSeq
<1>2. DOMAIN saved = 1..Len(saved) /\ Len(saved) \in Nat
  BY LenProperties
<1>3. ASSUME NEW k \in DOMAIN saved, saved[k].input = input PROVE Min(I) = k /\ I # {}
  <2>1. k \in I /\ k \in Nat /\ \A j \in I : j = k
    BY <1>2, <1>3 DEF UniqueInputs
  <2> HIDE DEF I
  <2> QED
    BY <2>1, FirstOfOne
<1> QED
  BY <1>1, <1>2, <1>3

\* FindColumn finds a column by its index, and only one with the same header.
LEMMA ColumnFound ==
  ASSUME NEW columns, ColumnList(columns), NEW profile
  PROVE  LET k == FindColumn(columns, profile) IN
         /\ k = 0 => \A j \in DOMAIN columns :
                       ~(columns[j].source = profile.source /\ columns[j].header = profile.header)
         /\ k # 0 => k \in DOMAIN columns /\ columns[k].source = profile.source
                       /\ columns[k].header = profile.header
<1> DEFINE I == {i \in 1..Len(columns) : columns[i].source = profile.source
                                          /\ columns[i].header = profile.header}
<1>1. FindColumn(columns, profile) = IF I # {} THEN Min(I) ELSE 0
  BY DEF FindColumn, SelectInSeq
<1>2. DOMAIN columns = 1..Len(columns) /\ Len(columns) \in Nat
  BY LenProperties DEF ColumnList
<1>3. ASSUME NEW k \in I PROVE Min(I) = k /\ k # 0
  <2>1. k \in Nat /\ k # 0 /\ \A j \in I : j = k
    BY <1>2 DEF ColumnList
  <2> HIDE DEF I
  <2> QED
    BY <2>1, FirstOfOne
<1> QED
  BY <1>1, <1>2, <1>3

-----------------------------------------------------------------------------
(* What AnalyzeSheet returns                                               *)

LEMMA ProfileOf ==
  ASSUME NEW column \in [source : Nat, header : STRING, utterance : BOOLEAN]
  PROVE  /\ Profile(column) \in Profiles
         /\ Profile(column).source = column.source /\ Profile(column).header = column.header
         /\ Profile(column).role # "Reference"
BY DEF Profile, Profiles, Roles

LEMMA Analyzed ==
  ASSUME MappingsInv, RememberedInv, version \in Versions, NEW input, input[3] \in HeaderRows
  PROVE  LET a == AnalyzeSheet(input, mappings) IN
         a.input = input /\ ColumnList(a.columns) /\ Recalls(a)
<1> DEFINE cs == Columns[<<version, input[3]>>]
           p(k) == Profile(cs[k])
           f == FindMapping(mappings, input)
           found == mappings[f].columns
           m(k) == FindColumn(found, p(k))
           as == [k \in DOMAIN cs |-> Restored(p(k), input, mappings)]
<1>1. AnalyzeSheet(input, mappings) = [input |-> input, columns |-> as]
  BY DEF AnalyzeSheet
<1>2. /\ cs \in Seq([source : Nat, header : STRING, utterance : BOOLEAN])
      /\ DOMAIN cs = 1..Len(cs) /\ Len(cs) \in Nat
      /\ \A j, k \in DOMAIN cs : j # k => cs[j].source # cs[k].source
  BY CorpusMappingAssumption, LenProperties DEF CorpusMappingAssumption
<1>3. ASSUME NEW k \in DOMAIN cs
      PROVE  /\ p(k) \in Profiles /\ p(k).role # "Reference"
             /\ p(k).source = cs[k].source /\ p(k).header = cs[k].header
  <2> DEFINE Cs == [source : Nat, header : STRING, utterance : BOOLEAN]
  <2>1. cs \in Seq(Cs) /\ k \in 1..Len(cs)
    BY <1>2
  <2> HIDE DEF cs, Cs
  <2>2. cs[k] \in Cs
    BY <2>1, ElementOfSeq
  <2> USE DEF Cs
  <2> QED
    BY <2>2, ProfileOf
<1>4. f # 0 => f \in DOMAIN mappings /\ mappings[f].input = input
  BY MappingFound DEF MappingsInv, UniqueInputs
<1>5. ASSUME NEW k \in DOMAIN cs
      PROVE  /\ f = 0 \/ m(k) = 0 => as[k] = p(k)
             /\ f # 0 /\ m(k) # 0 => as[k] = found[m(k)]
  BY DEF Restored
<1>6. f # 0 => ColumnList(found)
  BY <1>4 DEF MappingsInv
<1>7. ASSUME NEW k \in DOMAIN cs, f # 0, m(k) # 0
      PROVE  /\ m(k) \in DOMAIN found /\ found[m(k)] \in Profiles
             /\ found[m(k)].source = cs[k].source /\ found[m(k)].header = cs[k].header
  <2>1. m(k) \in DOMAIN found /\ found[m(k)].source = p(k).source /\ found[m(k)].header = p(k).header
    BY <1>6, <1>7, ColumnFound
  <2>2. found \in Seq(Profiles)
    BY <1>6, <1>7 DEF ColumnList
  <2> QED
    BY <1>3, <2>1, <2>2
<1> HIDE DEF cs, p, f, found, m
<1>8. \A k \in DOMAIN cs : /\ as[k] \in Profiles
                           /\ as[k].source = cs[k].source /\ as[k].header = cs[k].header
  BY <1>3, <1>5, <1>7
<1>9. ColumnList(as)
  <2>1. as \in Seq(Profiles)
    BY <1>2, <1>8
  <2>2. ASSUME NEW j \in DOMAIN cs, NEW k \in DOMAIN cs,
               as[j].role = "Reference", as[k].role = "Reference"
        PROVE  j = k
    <3>1. f # 0 /\ m(j) # 0 /\ m(k) # 0
      BY <1>3, <1>5, <2>2
    <3>2. m(j) \in DOMAIN found /\ m(k) \in DOMAIN found
          /\ found[m(j)].role = "Reference" /\ found[m(k)].role = "Reference"
      BY <1>5, <1>7, <2>2, <3>1
    <3>3. m(j) = m(k)
      BY <1>6, <3>1, <3>2 DEF ColumnList, OneReference
    <3> QED
      BY <1>2, <1>7, <3>1, <3>3
  <2> QED
    BY <1>2, <1>8, <2>1, <2>2 DEF ColumnList, OneReference
<1>10. ASSUME input \in DOMAIN remembered, NEW k \in DOMAIN cs, NEW n \in DOMAIN remembered[input],
              remembered[input][n].source = as[k].source, remembered[input][n].header = as[k].header
       PROVE  ComesBack(RowOf(as[k]), remembered[input][n])
  <2>1. PICK g \in DOMAIN mappings :
          /\ mappings[g].input = input
          /\ DOMAIN mappings[g].columns = DOMAIN remembered[input]
          /\ \A i \in DOMAIN remembered[input] : SavedAs(mappings[g].columns[i], remembered[input][i])
    BY <1>10 DEF RememberedInv
  <2>2. f = g
    BY <2>1, MappingFound DEF MappingsInv, UniqueInputs, f
  <2>3. f # 0
    BY <2>1, <2>2, LenProperties DEF MappingsInv
  <2>4. n \in DOMAIN found /\ SavedAs(found[n], remembered[input][n])
    BY <2>1, <2>2 DEF found
  <2>5. found[n].source = p(k).source /\ found[n].header = p(k).header
    BY <1>3, <1>8, <1>10, <2>4 DEF SavedAs
  <2>6. m(k) # 0
    BY <1>6, <2>3, <2>4, <2>5, ColumnFound DEF m
  <2>7. m(k) = n
    BY <1>3, <1>6, <1>7, <2>3, <2>4, <2>5, <2>6 DEF ColumnList
  <2> QED
    BY <1>5, <2>3, <2>4, <2>6, <2>7 DEF SavedAs
<1>11. Recalls([input |-> input, columns |-> as])
  BY <1>10 DEF Recalls
<1> QED
  BY <1>1, <1>9, <1>11

-----------------------------------------------------------------------------
(* What the steps keep                                                     *)

LEMMA InitInv == ASSUME Init PROVE Inv
<1>1. MappingsInv
  BY DEF Init, MappingsInv
<1>2. GridInv
  BY CorpusMappingAssumption DEF Init, GridInv
<1>3. RememberedInv /\ TaskInv
  BY DEF Init, RememberedInv, TaskInv
<1> QED
  BY <1>1, <1>2, <1>3 DEF Inv

\* The configuration, and what rests on it alone.
LEMMA ConfigUnchanged ==
  ASSUME Inv, UNCHANGED configVars
  PROVE  /\ MappingsInv' /\ RememberedInv'
         /\ \A at \in DOMAIN headers' : headers'[at] \in HeaderRows
         /\ \A a : Recalls(a) => Recalls(a)'
BY DEF Inv, configVars, MappingsInv, RememberedInv, GridInv, Recalls

\* The header row saved for a sheet is one of the header rows.
LEMMA HeaderRowFound ==
  ASSUME Inv, NEW p, NEW s
  PROVE  FindHeaderRow(p, s) \in HeaderRows
BY CorpusMappingAssumption DEF Inv, GridInv, FindHeaderRow, CorpusMappingAssumption

\* A change of the input takes the analysis and the grid away.
LEMMA ChangeInputStep ==
  ASSUME Inv, ChangeInput, headerRow' \in HeaderRows
  PROVE  Inv'
<1>1. UNCHANGED <<configVars, version, busy, closing, job, posted>> /\ ~busy /\ analysis' = None
  BY DEF ChangeInput, InvalidateAnalysis, taskVars
<1>2. MappingsInv' /\ RememberedInv' /\ GridInv'
  BY <1>1, ConfigUnchanged DEF GridInv
<1>3. TaskInv'
  BY <1>1 DEF Inv, TaskInv
<1> QED
  BY <1>2, <1>3 DEF Inv

LEMMA InputSteps ==
  ASSUME Inv,
         \/ \E p \in Paths : ChangePath(p)
         \/ \E s \in Names(sheets, showHidden) : OnSheetChanged(s)
         \/ \E n \in HeaderRows : ChangeHeaderRow(n)
         \/ ShowHidden
  PROVE  Inv'
<1>1. ChangeInput
  BY DEF ChangePath, OnSheetChanged, ChangeHeaderRow, ShowHidden
<1>2. headerRow \in HeaderRows
  BY DEF Inv, GridInv
<1>3. headerRow' \in HeaderRows
  BY <1>2, HeaderRowFound DEF ChangePath, OnSheetChanged, ChangeHeaderRow, ShowHidden
<1> QED
  BY <1>1, <1>3, ChangeInputStep

LEMMA SubmitStep ==
  ASSUME Inv, NEW task, Submit(task), UNCHANGED headerRow,
         task.kind = "analyze" => task.input = Input' /\ task.saved = mappings
  PROVE  Inv'
<1>1. /\ UNCHANGED <<configVars, version, closing, posted>>
      /\ ~busy /\ busy' = TRUE /\ analysis' = None /\ job' = task
  BY DEF Submit
<1>2. MappingsInv' /\ RememberedInv' /\ GridInv'
  BY <1>1, ConfigUnchanged DEF Inv, GridInv
<1>3. TaskInv'
  BY <1>1 DEF Inv, TaskInv, configVars
<1> QED
  BY <1>2, <1>3 DEF Inv

LEMMA SubmitSteps ==
  ASSUME Inv, (\E p \in Paths : OnBrowse(p)) \/ OnLoadSheets \/ AnalyzeCurrentSheet
  PROVE  Inv'
<1>1. ASSUME NEW p \in Paths, OnBrowse(p) PROVE Inv'
  <2>1. [kind |-> "load", path |-> p, last |-> lastSheet].kind # "analyze"
    OBVIOUS
  <2> QED
    BY <1>1, <2>1, SubmitStep DEF OnBrowse
<1>2. CASE OnLoadSheets
  <2>1. [kind |-> "load", path |-> path, last |-> lastSheet].kind # "analyze"
    OBVIOUS
  <2> QED
    BY <1>2, <2>1, SubmitStep DEF OnLoadSheets, inputVars
<1>3. CASE AnalyzeCurrentSheet
  <2> DEFINE task == [kind |-> "analyze", input |-> Input, saved |-> mappings]
  <2>1. task.input = Input /\ task.saved = mappings
    OBVIOUS
  <2>2. Submit(task) /\ UNCHANGED headerRow /\ Input' = Input
    BY <1>3 DEF AnalyzeCurrentSheet, inputVars, Input
  <2> HIDE DEF task
  <2> QED
    BY <2>1, <2>2, SubmitStep
<1> QED
  BY <1>1, <1>2, <1>3

\* A job posts nothing, or what AnalyzeSheet returns.
LEMMA JobSteps ==
  ASSUME Inv, LoadJob \/ AnalyzeJob \/ JobFails
  PROVE  Inv'
<1>1. UNCHANGED <<configVars, version, inputVars, gridVars, busy, closing>> /\ job # None /\ job' = None
  BY DEF LoadJob, AnalyzeJob, JobFails, JobUnchanged
<1>2. MappingsInv' /\ RememberedInv' /\ GridInv' /\ Input' = Input
  BY <1>1, ConfigUnchanged DEF Inv, GridInv, Input, inputVars, gridVars
<1>3. /\ posted' # None /\ posted'.kind = "analysis" =>
           /\ posted'.analysis.input = Input
           /\ ColumnList(posted'.analysis.columns)
           /\ Recalls(posted'.analysis)
  <2>1. CASE LoadJob
    BY <2>1 DEF LoadJob
  <2>2. CASE AnalyzeJob
    <3>1. job.input = Input /\ job.saved = mappings
      BY <1>1, <2>2 DEF AnalyzeJob, Inv, TaskInv
    <3>2. job.input[3] \in HeaderRows
      BY <3>1 DEF Inv, GridInv, Input
    <3>3. posted' = [kind |-> "analysis", analysis |-> AnalyzeSheet(job.input, mappings)]
      BY <2>2, <3>1 DEF AnalyzeJob
    <3>4. posted'.analysis = AnalyzeSheet(job.input, mappings)
      BY <3>3
    <3>5. version \in Versions /\ MappingsInv /\ RememberedInv
      BY DEF Inv, TaskInv
    <3> QED
      BY <3>1, <3>2, <3>4, <3>5, Analyzed
  <2>3. CASE JobFails
    BY <2>3 DEF JobFails
  <2> QED
    BY <2>1, <2>2, <2>3
<1>4. TaskInv'
  BY <1>1, <1>2, <1>3, ConfigUnchanged DEF Inv, TaskInv, gridVars
<1> QED
  BY <1>2, <1>4 DEF Inv

\* The grid shows the columns that arrive.
LEMMA FilledRows ==
  ASSUME NEW columns, ColumnList(columns)
  PROVE  /\ Filled(columns) \in Seq(GridRows) /\ Len(Filled(columns)) = Len(columns)
         /\ OneReference(Filled(columns))
<1>1. columns \in Seq(Profiles) /\ DOMAIN columns = 1..Len(columns) /\ Len(columns) \in Nat
  BY LenProperties DEF ColumnList
<1>2. ASSUME NEW k \in DOMAIN columns
      PROVE  Filled(columns)[k] \in GridRows /\ Filled(columns)[k].role = columns[k].role
  <2>1. columns[k] \in Profiles /\ Filled(columns)[k] = RowOf(columns[k])
    BY <1>1 DEF Filled
  <2>2. RowOf(columns[k]) \in GridRows
    BY <2>1 DEF RowOf, Profiles, GridRows
  <2>3. RowOf(columns[k]).role = columns[k].role
    BY DEF RowOf
  <2> QED
    BY <2>1, <2>2, <2>3
<1>3. DOMAIN Filled(columns) = 1..Len(columns)
  BY <1>1 DEF Filled
<1>4. Filled(columns) \in Seq(GridRows)
  BY <1>1, <1>2, <1>3 DEF Filled
<1>5. Len(Filled(columns)) = Len(columns)
  BY <1>1, <1>3, <1>4, LenProperties
<1> QED
  BY <1>1, <1>2, <1>3, <1>4, <1>5 DEF ColumnList, OneReference

LEMMA CallbackSteps ==
  ASSUME Inv, SheetsArrive \/ AnalysisArrives \/ JobFailed
  PROVE  Inv'
<1>1. /\ UNCHANGED <<version, path, configVars, job, closing>>
      /\ posted # None /\ posted' = None /\ busy' = FALSE /\ ~closing
  BY DEF SheetsArrive, AnalysisArrives, JobFailed, Delivered, CallbackUnchanged
<1>2. job = None /\ analysis = None
  BY <1>1 DEF Inv, TaskInv
<1>3. TaskInv'
  BY <1>1, <1>2 DEF Inv, TaskInv
<1>4. GridInv'
  <2>1. headerRow \in HeaderRows
    BY DEF Inv, GridInv
  <2>2. CASE SheetsArrive
    <3>1. headerRow' \in HeaderRows
      BY <2>1, <2>2, HeaderRowFound DEF SheetsArrive
    <3>2. analysis' = None
      BY <1>2, <2>2 DEF SheetsArrive, InvalidateAnalysis, gridVars
    <3> QED
      BY <1>1, <3>1, <3>2, ConfigUnchanged DEF GridInv
  <2>3. CASE AnalysisArrives
    <3>1. UNCHANGED <<headerRow, sheet>> /\ Input' = Input
      BY <1>1, <2>3 DEF AnalysisArrives, Input
    <3>2. posted.analysis.input = Input /\ ColumnList(posted.analysis.columns)
      BY <1>1, <2>3 DEF AnalysisArrives, Delivered, Inv, TaskInv
    <3>3. CASE stale
      BY <1>1, <1>2, <2>1, <2>3, <3>1, <3>3, ConfigUnchanged DEF AnalysisArrives, GridInv
    <3>4. CASE ~stale
      <4>1. analysis' = posted.analysis /\ rows' = Filled(posted.analysis.columns)
        BY <2>3, <3>4 DEF AnalysisArrives
      <4> QED
        BY <1>1, <2>1, <3>1, <3>2, <4>1, ConfigUnchanged, FilledRows DEF GridInv
    <3> QED
      BY <3>3, <3>4
  <2>4. CASE JobFailed
    BY <1>1, <1>2, <2>1, <2>4, ConfigUnchanged DEF JobFailed, gridVars, GridInv
  <2> QED
    BY <2>2, <2>3, <2>4
<1> QED
  BY <1>1, <1>3, <1>4, ConfigUnchanged DEF Inv

-----------------------------------------------------------------------------
(* The grid                                                                *)

Grid(list) == list \in Seq(GridRows) /\ Len(list) = Len(rows) /\ OneReference(list)

LEMMA GridShown ==
  ASSUME Inv, analysis # None
  PROVE  /\ Grid(rows) /\ DOMAIN rows = 1..Len(rows) /\ Len(rows) \in Nat
         /\ \A k \in DOMAIN rows : rows[k] \in GridRows
BY LenProperties DEF Inv, GridInv, Grid

LEMMA EditStep ==
  ASSUME Inv, NEW edited, EditGrid(edited), Grid(edited)
  PROVE  Inv'
<1>1. /\ UNCHANGED <<configVars, version, inputVars, analysis, busy, closing, job, posted>>
      /\ analysis # None /\ rows' = edited
  BY DEF EditGrid, taskVars
<1>2. MappingsInv' /\ RememberedInv'
  BY <1>1, ConfigUnchanged
<1>3. GridInv'
  BY <1>1 DEF Inv, GridInv, Grid, Input, inputVars, configVars
<1>4. TaskInv'
  BY <1>1 DEF Inv, TaskInv, Input, inputVars, configVars, Recalls
<1> QED
  BY <1>2, <1>3, <1>4 DEF Inv

\* A list of rows as long as the grid, in which only a row that gets the role
\* of a reference may have it besides those that had it.
LEMMA RowsOfGrid ==
  ASSUME Inv, analysis # None, NEW list,
         DOMAIN list = DOMAIN rows, \A k \in DOMAIN rows : list[k] \in GridRows,
         list = [k \in DOMAIN list |-> list[k]],
         OneReference(list)
  PROVE  Grid(list)
<1>1. DOMAIN list = 1..Len(rows) /\ Len(rows) \in Nat
  BY GridShown
<1>2. list \in Seq(GridRows)
  BY <1>1
<1>3. Len(list) = Len(rows)
  BY <1>1, <1>2, LenProperties
<1> QED
  BY <1>2, <1>3 DEF Grid

\* A role given to a row.
LEMMA RoleGiven ==
  ASSUME Inv, analysis # None, NEW r \in DOMAIN rows, NEW role \in Roles
  PROVE  /\ Grid(WithRole(rows, r, role))
         /\ WithRole(rows, r, role)[r] \in GridRows /\ WithRole(rows, r, role)[r].role = role
<1> DEFINE row == [rows[r] EXCEPT !.role = role, !.enabled = @ \/ role # "Ignore"]
           given == [rows EXCEPT ![r] = row]
           list == WithRole(rows, r, role)
<1>1. /\ DOMAIN rows = 1..Len(rows) /\ Len(rows) \in Nat /\ OneReference(rows)
      /\ \A k \in DOMAIN rows : rows[k] \in GridRows
  BY GridShown DEF Grid
<1>2. row \in GridRows /\ row.role = role
  BY <1>1 DEF GridRows
<1>3. list = IF role = "Reference" THEN WithoutOther(given, r) ELSE given
  BY DEF WithRole
<1> HIDE DEF row
<1>4. DOMAIN given = DOMAIN rows /\ \A k \in DOMAIN rows : given[k] = IF k = r THEN row ELSE rows[k]
  OBVIOUS
<1> HIDE DEF given, list
<1>5. CASE role = "Reference"
  <2>1. /\ list = WithoutOther(given, r)
        /\ DOMAIN list = DOMAIN rows /\ list = [k \in DOMAIN list |-> list[k]]
    BY <1>3, <1>4, <1>5 DEF WithoutOther
  <2>2. ASSUME NEW k \in DOMAIN rows, k # r
        PROVE  list[k] \in GridRows /\ list[k].role # "Reference"
    <3>1. given[k] = rows[k] /\ rows[k] \in GridRows
      BY <1>1, <1>4, <2>2
    <3>2. CASE rows[k].role = "Reference"
      <4>1. list[k] = [rows[k] EXCEPT !.role = "Ignore", !.enabled = FALSE]
        BY <1>4, <2>1, <2>2, <3>1, <3>2 DEF WithoutOther
      <4> QED
        BY <3>1, <4>1 DEF GridRows, Roles
    <3>3. CASE rows[k].role # "Reference"
      <4>1. list[k] = rows[k]
        BY <1>4, <2>1, <2>2, <3>1, <3>3 DEF WithoutOther
      <4> QED
        BY <3>1, <3>3, <4>1
    <3> QED
      BY <3>2, <3>3
  <2>3. list[r] = row
    BY <1>4, <2>1 DEF WithoutOther
  <2>4. OneReference(list)
    BY <2>1, <2>2 DEF OneReference
  <2>5. \A k \in DOMAIN rows : list[k] \in GridRows
    BY <1>2, <2>2, <2>3
  <2> QED
    BY <1>2, <2>1, <2>3, <2>4, <2>5, RowsOfGrid DEF list
<1>6. CASE role # "Reference"
  <2>1. list = given /\ list = [k \in DOMAIN list |-> list[k]]
    BY <1>3, <1>6 DEF given
  <2>2. OneReference(list)
    BY <1>1, <1>2, <1>4, <1>6, <2>1 DEF OneReference
  <2>3. DOMAIN list = DOMAIN rows /\ \A k \in DOMAIN rows : list[k] \in GridRows
    BY <1>1, <1>2, <1>4, <2>1
  <2>4. list[r] = row
    BY <1>4, <2>1
  <2> QED
    BY <1>2, <2>1, <2>2, <2>3, <2>4, RowsOfGrid DEF list
<1> QED
  BY <1>5, <1>6

\* A row that keeps its role.
LEMMA RowsKeepRoles ==
  ASSUME Inv, analysis # None, NEW list,
         DOMAIN list = DOMAIN rows, list = [k \in DOMAIN list |-> list[k]],
         \A k \in DOMAIN rows : list[k] \in GridRows /\ list[k].role = rows[k].role
  PROVE  Grid(list)
<1>1. OneReference(list)
  BY GridShown DEF Grid, OneReference
<1> QED
  BY <1>1, RowsOfGrid

LEMMA GridSteps ==
  ASSUME Inv,
         \/ \E r \in DOMAIN rows : ChangeEnabled(r)
         \/ \E r \in DOMAIN rows, role \in Roles : ChangeRole(r, role)
         \/ \E r \in DOMAIN rows, language \in Languages \cup {None} : ChangeLanguage(r, language)
         \/ \E r \in DOMAIN rows, voice \in Voices : SelectVoice(r, voice)
         \/ OnSelectAll \/ OnSelectNone
         \/ \E selection \in SUBSET DOMAIN rows, role \in Roles : OnApplyRole(selection, role)
  PROVE  Inv'
<1>0. analysis # None
  BY DEF ChangeEnabled, ChangeRole, ChangeLanguage, SelectVoice, OnSelectAll, OnSelectNone,
         OnApplyRole, EditGrid
<1>1. \A k \in DOMAIN rows : rows[k] \in GridRows
  BY <1>0, GridShown
<1>2. ASSUME NEW r \in DOMAIN rows, NEW row \in GridRows, row.role = rows[r].role,
             EditGrid([rows EXCEPT ![r] = row])
      PROVE  Inv'
  <2> DEFINE list == [rows EXCEPT ![r] = row]
  <2>1. /\ DOMAIN list = DOMAIN rows /\ list = [k \in DOMAIN list |-> list[k]]
        /\ \A k \in DOMAIN rows : list[k] \in GridRows /\ list[k].role = rows[k].role
    BY <1>1, <1>2
  <2> HIDE DEF list
  <2>2. Grid(list)
    BY <1>0, <2>1, RowsKeepRoles
  <2> QED
    BY <1>2, <2>2, EditStep DEF list
<1>3. ASSUME NEW r \in DOMAIN rows, ChangeEnabled(r) PROVE Inv'
  <2> DEFINE row == [rows[r] EXCEPT !.enabled = ~@]
  <2>1. row \in GridRows /\ row.role = rows[r].role
    BY <1>1 DEF GridRows
  <2>2. EditGrid([rows EXCEPT ![r] = row])
    BY <1>3 DEF ChangeEnabled
  <2> HIDE DEF row
  <2> QED
    BY <1>2, <2>1, <2>2
<1>4. ASSUME NEW r \in DOMAIN rows, NEW role \in Roles, ChangeRole(r, role) PROVE Inv'
  BY <1>0, <1>4, RoleGiven, EditStep DEF ChangeRole
<1>5. ASSUME NEW r \in DOMAIN rows, NEW language \in Languages \cup {None}, ChangeLanguage(r, language)
      PROVE  Inv'
  <2> DEFINE row == [rows[r] EXCEPT !.language = language]
  <2>1. row \in GridRows /\ row.role = rows[r].role
    BY <1>1 DEF GridRows
  <2>2. EditGrid([rows EXCEPT ![r] = row])
    BY <1>5 DEF ChangeLanguage
  <2> HIDE DEF row
  <2> QED
    BY <1>2, <2>1, <2>2
<1>6. ASSUME NEW r \in DOMAIN rows, NEW voice \in Voices, SelectVoice(r, voice) PROVE Inv'
  <2> DEFINE row == [rows[r] EXCEPT !.voice = voice]
  <2>1. row \in GridRows /\ row.role = rows[r].role
    BY <1>1 DEF GridRows
  <2>2. EditGrid([rows EXCEPT ![r] = row])
    BY <1>6 DEF SelectVoice
  <2> HIDE DEF row
  <2> QED
    BY <1>2, <2>1, <2>2
<1>7. ASSUME NEW on \in BOOLEAN, EditGrid([k \in DOMAIN rows |-> [rows[k] EXCEPT !.enabled = on]])
      PROVE  Inv'
  <2> DEFINE list == [k \in DOMAIN rows |-> [rows[k] EXCEPT !.enabled = on]]
  <2>1. ASSUME NEW k \in DOMAIN rows
        PROVE  list[k] \in GridRows /\ list[k].role = rows[k].role
    BY <1>1 DEF GridRows
  <2>2. DOMAIN list = DOMAIN rows /\ list = [k \in DOMAIN list |-> list[k]]
    OBVIOUS
  <2> HIDE DEF list
  <2>3. Grid(list)
    BY <1>0, <2>1, <2>2, RowsKeepRoles
  <2> QED
    BY <1>7, <2>3, EditStep DEF list
<1>8. CASE OnSelectAll
  BY <1>7, <1>8 DEF OnSelectAll
<1>9. CASE OnSelectNone
  BY <1>7, <1>9 DEF OnSelectNone
<1>10. ASSUME NEW selection \in SUBSET DOMAIN rows, NEW role \in Roles, OnApplyRole(selection, role)
       PROVE  Inv'
  <2>1. CASE role = "Reference"
    <3>1. selection # {}
      <4>1. Cardinality(selection) = 1
        BY <1>10, <2>1 DEF OnApplyRole
      <4> QED
        BY <4>1, FS_EmptySet
    <3>2. (CHOOSE r \in selection : TRUE) \in DOMAIN rows
      BY <3>1
    <3>3. EditGrid(WithRole(rows, CHOOSE r \in selection : TRUE, role))
      BY <1>10, <2>1 DEF OnApplyRole
    <3> QED
      BY <1>0, <3>2, <3>3, RoleGiven, EditStep
  <2>2. CASE role # "Reference"
    <3> DEFINE list == [k \in DOMAIN rows |-> IF k \in selection THEN WithRole(rows, k, role)[k]
                                               ELSE rows[k]]
    <3>1. EditGrid(list)
      BY <1>10, <2>2 DEF OnApplyRole
    <3>2. ASSUME NEW k \in DOMAIN rows
          PROVE  list[k] \in GridRows /\ (list[k].role = role \/ list[k] = rows[k])
      BY <1>0, <1>1, RoleGiven
    <3>3. DOMAIN list = DOMAIN rows /\ list = [k \in DOMAIN list |-> list[k]]
      OBVIOUS
    <3> HIDE DEF list
    <3>4. OneReference(list)
      BY <1>0, <2>2, <3>2, <3>3, GridShown DEF Grid, OneReference
    <3>5. Grid(list)
      BY <1>0, <3>2, <3>3, <3>4, RowsOfGrid
    <3> QED
      BY <3>1, <3>5, EditStep
  <2> QED
    BY <2>1, <2>2
<1> QED
  BY <1>3, <1>4, <1>5, <1>6, <1>8, <1>9, <1>10

-----------------------------------------------------------------------------
(* Saving                                                                  *)

\* What is saved of the grid.
LEMMA ColumnsSaved ==
  ASSUME Inv, analysis # None
  PROVE  /\ ColumnList(SavedColumns) /\ DOMAIN SavedColumns = DOMAIN rows
         /\ \A k \in DOMAIN rows :
              SavedAs(SavedColumns[k],
                      [source |-> analysis.columns[k].source, header |-> analysis.columns[k].header,
                       selected |-> k \in Selected, row |-> rows[k]])
<1> DEFINE cs == analysis.columns
           old(k) == [source |-> cs[k].source, header |-> cs[k].header,
                      selected |-> k \in Selected, row |-> rows[k]]
<1>1. /\ cs \in Seq(Profiles) /\ DOMAIN cs = 1..Len(cs) /\ Len(cs) \in Nat
      /\ DOMAIN rows = DOMAIN cs /\ OneReference(rows)
      /\ \A k \in DOMAIN rows : rows[k] \in GridRows
      /\ \A j, k \in DOMAIN cs : j # k => cs[j].source # cs[k].source
  BY LenProperties, GridShown DEF Inv, GridInv, ColumnList, Grid
<1>2. DOMAIN SavedColumns = DOMAIN rows
  BY DEF SavedColumns
<1>3. ASSUME NEW k \in DOMAIN rows
      PROVE  /\ SavedColumns[k] \in Profiles /\ SavedColumns[k].source = cs[k].source
             /\ SavedColumns[k].role = "Reference" => rows[k].role = "Reference"
             /\ SavedAs(SavedColumns[k], old(k))
  <2>1. cs[k] \in Profiles /\ rows[k] \in GridRows
    BY <1>1
  <2>2. CASE k \in Selected
    <3>1. SavedColumns[k] = [cs[k] EXCEPT !.selected = TRUE, !.role = rows[k].role,
                                          !.language = rows[k].language, !.voice = rows[k].voice]
      BY <2>2 DEF SavedColumns
    <3>2. rows[k].enabled = TRUE
      BY <2>1, <2>2 DEF Selected, GridRows
    <3>3. /\ SavedColumns[k] \in Profiles /\ SavedColumns[k].role = rows[k].role
          /\ SavedColumns[k].selected = TRUE /\ SavedColumns[k].language = rows[k].language
          /\ SavedColumns[k].voice = rows[k].voice
          /\ SavedColumns[k].source = cs[k].source /\ SavedColumns[k].header = cs[k].header
      BY <2>1, <3>1 DEF Profiles, GridRows
    <3>4. RowOf(SavedColumns[k]) = rows[k]
      BY <2>1, <3>2, <3>3 DEF RowOf, GridRows
    <3> QED
      BY <2>2, <3>3, <3>4 DEF SavedAs, ComesBack
  <2>3. CASE k \notin Selected
    <3>1. SavedColumns[k] = [cs[k] EXCEPT !.selected = FALSE, !.role = "Ignore"]
      BY <2>3 DEF SavedColumns
    <3>2. /\ SavedColumns[k] \in Profiles /\ SavedColumns[k].role = "Ignore"
          /\ SavedColumns[k].selected = FALSE
          /\ SavedColumns[k].source = cs[k].source /\ SavedColumns[k].header = cs[k].header
      BY <2>1, <3>1 DEF Profiles, Roles
    <3>3. ~RowOf(SavedColumns[k]).enabled /\ RowOf(SavedColumns[k]).role = "Ignore"
      BY <3>2 DEF RowOf
    <3> QED
      BY <2>3, <3>2, <3>3 DEF SavedAs, ComesBack
  <2> QED
    BY <2>2, <2>3
<1>4. SavedColumns \in Seq(Profiles)
  <2>1. SavedColumns = [k \in 1..Len(cs) |-> SavedColumns[k]]
    BY <1>1 DEF SavedColumns
  <2>2. \A k \in 1..Len(cs) : SavedColumns[k] \in Profiles
    BY <1>1, <1>3
  <2>3. Len(cs) \in Nat
    BY <1>1
  <2> HIDE DEF cs, old
  <2>4. SavedColumns \in [1..Len(cs) -> Profiles]
    BY <2>1, <2>2
  <2> QED
    BY <2>3, <2>4
<1>5. ColumnList(SavedColumns)
  BY <1>1, <1>2, <1>3, <1>4 DEF ColumnList, OneReference
<1> QED
  BY <1>2, <1>3, <1>5

\* UpsertMapping replaces the mapping of the input, or adds one.
LEMMA Upserted ==
  ASSUME MappingsInv, NEW input, NEW columns, ColumnList(columns)
  PROVE  LET m == [input |-> input, columns |-> columns]
             after == UpsertMapping(mappings, m)
         IN  /\ after \in Seq({after[k] : k \in DOMAIN after})
             /\ \A k \in DOMAIN after : after[k] = m \/ (k \in DOMAIN mappings /\ after[k] = mappings[k])
             /\ \E k \in DOMAIN after : after[k] = m
             /\ \A k \in DOMAIN mappings :
                  mappings[k].input # input => k \in DOMAIN after /\ after[k] = mappings[k]
             /\ UniqueInputs(after)
<1> DEFINE m == [input |-> input, columns |-> columns]
           at == FindMapping(mappings, input)
           S == {mappings[k] : k \in DOMAIN mappings} \cup {m}
           after == UpsertMapping(mappings, m)
<1>1. /\ mappings \in Seq(S) /\ DOMAIN mappings = 1..Len(mappings) /\ Len(mappings) \in Nat
      /\ m \in S /\ m.input = input
      /\ \A j, k \in DOMAIN mappings : mappings[j].input = mappings[k].input => j = k
  <2>1. mappings \in Seq(S)
    BY SeqMonotonic DEF MappingsInv
  <2> QED
    BY <2>1, LenProperties DEF MappingsInv
<1>2. /\ \A k \in DOMAIN mappings : mappings[k].input = input => at = k
      /\ (\A k \in DOMAIN mappings : mappings[k].input # input) => at = 0
  BY <1>1, MappingFound DEF UniqueInputs
<1>3. after = IF at = 0 THEN Append(mappings, m) ELSE [mappings EXCEPT ![at] = m]
  BY <1>1 DEF UpsertMapping
<1> HIDE DEF m, at, S, after
<1>4. CASE at = 0
  <2>1. \A k \in DOMAIN mappings : mappings[k].input # input
    BY <1>1, <1>2, <1>4
  <2>2. /\ after \in Seq(S) /\ Len(after) = Len(mappings) + 1 /\ after[Len(mappings) + 1] = m
        /\ \A k \in 1..Len(mappings) : after[k] = mappings[k]
    BY <1>1, <1>3, <1>4, AppendProperties
  <2>3. DOMAIN after = 1..(Len(mappings) + 1)
    BY <1>1, <2>2, LenProperties
  <2>4. after \in Seq({after[k] : k \in DOMAIN after})
    BY <1>1, <2>2, <2>3
  <2>5. UniqueInputs(after)
    BY <1>1, <2>1, <2>2, <2>3 DEF UniqueInputs
  <2> QED
    BY <1>1, <2>2, <2>3, <2>4, <2>5 DEF m, after
<1>5. CASE at # 0
  <2>1. at \in DOMAIN mappings /\ mappings[at].input = input
    BY <1>2, <1>5
  <2>2. /\ DOMAIN after = DOMAIN mappings
        /\ \A k \in DOMAIN mappings : after[k] = IF k = at THEN m ELSE mappings[k]
    BY <1>3, <1>5
  <2>3. after = [k \in 1..Len(mappings) |-> after[k]]
    BY <1>1, <1>3, <1>5
  <2>4. after \in Seq({after[k] : k \in DOMAIN after})
    BY <1>1, <2>2, <2>3
  <2>5. UniqueInputs(after)
    BY <1>1, <1>2, <2>1, <2>2 DEF UniqueInputs
  <2> QED
    BY <1>1, <2>1, <2>2, <2>4, <2>5 DEF m, after
<1> QED
  BY <1>4, <1>5

LEMMA SaveStep ==
  ASSUME Inv, OnSaveMapping
  PROVE  Inv'
<1>1. /\ UNCHANGED <<version, inputVars, gridVars, busy, closing, job, posted>>
      /\ ~busy /\ analysis # None /\ analysis.input = Input
  BY DEF OnSaveMapping, CanSave, taskVars
<1>2. job = None /\ posted = None /\ Input' = Input
  BY <1>1 DEF Inv, TaskInv, Input, inputVars
<1>3. TaskInv'
  BY <1>1, <1>2 DEF Inv, TaskInv
<1>4. CASE UNCHANGED configVars
  <2>1. GridInv'
    BY <1>1, <1>2, <1>4 DEF Inv, GridInv, inputVars, gridVars, configVars
  <2> QED
    BY <1>3, <1>4, <2>1, ConfigUnchanged DEF Inv
<1>5. ASSUME mappings' = UpsertMapping(mappings, [input |-> analysis.input, columns |-> SavedColumns]),
             headers' = Put(headers, <<analysis.input[1], analysis.input[2]>>, analysis.input[3]),
             remembered' = Put(remembered, Input, [k \in DOMAIN rows |->
               [source |-> analysis.columns[k].source, header |-> analysis.columns[k].header,
                selected |-> k \in Selected, row |-> rows[k]]])
      PROVE  Inv'
  <2> DEFINE m == [input |-> Input, columns |-> SavedColumns]
             kept == [k \in DOMAIN rows |->
               [source |-> analysis.columns[k].source, header |-> analysis.columns[k].header,
                selected |-> k \in Selected, row |-> rows[k]]]
  <2>1. /\ ColumnList(SavedColumns) /\ DOMAIN SavedColumns = DOMAIN kept
        /\ \A k \in DOMAIN kept : SavedAs(SavedColumns[k], kept[k])
    BY <1>1, ColumnsSaved
  <2>2. /\ mappings' \in Seq({mappings'[k] : k \in DOMAIN mappings'})
        /\ \A k \in DOMAIN mappings' :
             mappings'[k] = m \/ (k \in DOMAIN mappings /\ mappings'[k] = mappings[k])
        /\ \E k \in DOMAIN mappings' : mappings'[k] = m
        /\ \A k \in DOMAIN mappings :
             mappings[k].input # Input => k \in DOMAIN mappings' /\ mappings'[k] = mappings[k]
        /\ UniqueInputs(mappings')
    BY <1>1, <1>5, <2>1, Upserted DEF Inv
  <2>3. m.input = Input /\ m.columns = SavedColumns
    OBVIOUS
  <2> HIDE DEF m, kept
  <2>4. MappingsInv'
    <3>1. \A k \in DOMAIN mappings' : ColumnList(mappings'[k].columns)
      BY <2>1, <2>2, <2>3 DEF Inv, MappingsInv
    <3> QED
      BY <2>2, <3>1 DEF MappingsInv, UniqueInputs
  <2>5. RememberedInv'
    <3>0. /\ DOMAIN remembered' = DOMAIN remembered \cup {Input} /\ remembered'[Input] = kept
          /\ \A i \in DOMAIN remembered : i # Input => remembered'[i] = remembered[i]
      BY <1>5 DEF Put, kept
    <3> SUFFICES ASSUME NEW input \in DOMAIN remembered'
                 PROVE  \E k \in DOMAIN mappings' :
                          /\ mappings'[k].input = input
                          /\ DOMAIN mappings'[k].columns = DOMAIN remembered'[input]
                          /\ \A n \in DOMAIN remembered'[input] :
                               SavedAs(mappings'[k].columns[n], remembered'[input][n])
      BY DEF RememberedInv, SavedAs, RowOf, ComesBack
    <3>1. CASE input = Input
      <4>1. PICK k \in DOMAIN mappings' : mappings'[k] = m
        BY <2>2
      <4>2. mappings'[k].input = input /\ mappings'[k].columns = SavedColumns
        BY <2>3, <3>1, <4>1
      <4> QED
        BY <2>1, <3>0, <3>1, <4>2
    <3>2. CASE input # Input
      <4>1. input \in DOMAIN remembered /\ remembered'[input] = remembered[input]
        BY <3>0, <3>2
      <4>2. PICK k \in DOMAIN mappings :
              /\ mappings[k].input = input
              /\ DOMAIN mappings[k].columns = DOMAIN remembered[input]
              /\ \A n \in DOMAIN remembered[input] : SavedAs(mappings[k].columns[n], remembered[input][n])
        BY <4>1 DEF Inv, RememberedInv
      <4>3. k \in DOMAIN mappings' /\ mappings'[k] = mappings[k]
        BY <2>2, <3>2, <4>2
      <4> QED
        BY <4>1, <4>2, <4>3
    <3> QED
      BY <3>1, <3>2
  <2>6. GridInv'
    <3>1. analysis.input[3] \in HeaderRows
      BY <1>1 DEF Inv, GridInv, Input
    <3>2. \A at \in DOMAIN headers' : headers'[at] \in HeaderRows
      BY <1>5, <3>1 DEF Put, Inv, GridInv
    <3> QED
      BY <1>1, <1>2, <3>2 DEF Inv, GridInv, inputVars, gridVars
  <2> QED
    BY <1>3, <2>4, <2>5, <2>6 DEF Inv
<1> QED
  BY <1>4, <1>5 DEF OnSaveMapping

LEMMA OtherSteps ==
  ASSUME Inv, BeginShutdown \/ Restart \/ (\E v \in Versions : WorkbooksChange(v)) \/ UNCHANGED vars
  PROVE  Inv'
<1>1. UNCHANGED configVars
  BY DEF BeginShutdown, Restart, WorkbooksChange, vars
<1>2. CASE BeginShutdown
  BY <1>1, <1>2, ConfigUnchanged
  DEF BeginShutdown, Inv, GridInv, TaskInv, Input, inputVars, gridVars, taskVars, configVars
<1>3. CASE Restart
  BY <1>1, <1>3, ConfigUnchanged, CorpusMappingAssumption
  DEF Restart, Inv, GridInv, TaskInv, CorpusMappingAssumption
<1>4. ASSUME NEW v \in Versions, WorkbooksChange(v) PROVE Inv'
  BY <1>1, <1>4, ConfigUnchanged
  DEF WorkbooksChange, Inv, GridInv, TaskInv, Input, inputVars, gridVars, taskVars, configVars
<1>5. CASE UNCHANGED vars
  BY <1>1, <1>5, ConfigUnchanged
  DEF vars, Inv, GridInv, TaskInv, Input, inputVars, gridVars, taskVars, configVars
<1> QED
  BY <1>2, <1>3, <1>4, <1>5

LEMMA NextInv ==
  ASSUME Inv, [Next]_vars
  PROVE  Inv'
BY InputSteps, SubmitSteps, JobSteps, CallbackSteps, GridSteps, SaveStep, OtherSteps DEF Next

LEMMA Invariance == Spec => []Inv
<1>1. Inv /\ [Next]_vars => Inv'
  BY NextInv
<1> QED
  BY InitInv, <1>1, PTL DEF Spec

-----------------------------------------------------------------------------
(***************************************************************************)
(* The grid of CorpusMappingPanel, which Save and Build hand on, is the    *)
(* analysis of the input the controls show, and has one reference at most, *)
(* whatever was restored, edited or analysed.                              *)
(***************************************************************************)
THEOREM GridIsOfInput == Spec => []GridIsOfShownInput
<1>1. Inv => GridIsOfShownInput
  <2> SUFFICES ASSUME Inv, analysis # None PROVE GridIsOfShownInput
    BY DEF GridIsOfShownInput
  <2> DEFINE R == {k \in DOMAIN rows : rows[k].role = "Reference"}
  <2>1. /\ analysis.input = Input /\ DOMAIN rows = 1..Len(rows) /\ OneReference(rows)
        /\ Len(rows) = Len(analysis.columns)
        /\ DOMAIN analysis.columns = 1..Len(analysis.columns)
    BY GridShown, LenProperties DEF Inv, GridInv, Grid, ColumnList
  <2>2. Cardinality(R) <= 1
    <3>1. CASE R = {}
      BY <3>1, FS_EmptySet
    <3>2. CASE R # {}
      <4>1. PICK k \in R : R = {k}
        BY <2>1, <3>2 DEF OneReference
      <4> QED
        BY <4>1, FS_Singleton
    <3> QED
      BY <3>1, <3>2
  <2> QED
    BY <2>1, <2>2 DEF GridIsOfShownInput
<1> QED
  BY Invariance, <1>1, PTL

(***************************************************************************)
(* What OnSaveMapping saved for an input is what WorkbookService shows at  *)
(* its next analysis, column by column, whatever was saved for other       *)
(* inputs, failed to be saved, was restarted or changed in between.        *)
(***************************************************************************)
THEOREM SavedMappingReturns == Spec => MappingComesBack
<1>1. Inv /\ [Next]_vars => [SavedComesBack]_vars
  <2> SUFFICES ASSUME Inv, [Next]_vars, analysis = None, analysis' # None PROVE SavedComesBack
    BY DEF SavedComesBack
  <2>1. AnalysisArrives /\ ~stale
    BY DEF Next, vars, inputVars, gridVars, taskVars, ChangePath, OnBrowse, OnSheetChanged, ChangeHeaderRow,
           ShowHidden, ChangeInput, InvalidateAnalysis, Submit, OnLoadSheets, AnalyzeCurrentSheet,
           LoadJob, AnalyzeJob, JobFails, JobUnchanged, SheetsArrive, AnalysisArrives, JobFailed,
           ChangeEnabled, ChangeRole, ChangeLanguage, SelectVoice, OnSelectAll, OnSelectNone,
           OnApplyRole, EditGrid, OnSaveMapping, BeginShutdown, Restart, WorkbooksChange
  <2>2. analysis' = posted.analysis /\ rows' = Filled(posted.analysis.columns)
    BY <2>1 DEF AnalysisArrives
  <2>3. Recalls(posted.analysis)
    BY <2>1 DEF AnalysisArrives, Delivered, Inv, TaskInv
  <2> QED
    BY <2>2, <2>3 DEF SavedComesBack, Recalls, Filled
<1> QED
  BY Invariance, <1>1, PTL DEF Spec, MappingComesBack

=============================================================================
