--------------------------- MODULE CorpusSession ---------------------------
(***************************************************************************)
(* CorpusRunPanel: the session the user works on, the grid that shows it,  *)
(* the export of its view by a background job, and the leave gate that a   *)
(* new view of the mapping panel and the closing of MainFrame go through.  *)
(* Everything but the export job runs on the GUI thread; a modal dialog is *)
(* one step with the answer that was given, and an answer that changes     *)
(* nothing is no step.  Whether playback is busy is all that is kept of    *)
(* it here; module Playback has the rest.                                  *)
(***************************************************************************)
EXTENDS CorpusView

CONSTANTS
  Sheets,       \* analysed worksheets with the columns selected on them
  Layouts,      \* worksheets on which OwnersAreSound looks at the owners
  Values,       \* texts the user may enter
  LastEdit,     \* bound on the revisions that are edits
  MaxSegments,  \* bound on the segments of a cell
  MaxSessions,  \* bound on the sessions created
  MaxPlayed,    \* bound on the rows played at once
  None

\* A column has one role, as the mapping panel sees to it; a row has one row number.
ASSUME CorpusSessionAssumption ==
  /\ LastEdit <= MaxRevision
  /\ {LastEdit, MaxSegments, MaxSessions, MaxPlayed} \subseteq Nat
  /\ None \notin Nat
  /\ Values \subseteq Seq(Lines) \ {<<>>}
  /\ \A sheet \in Sheets :
       /\ sheet.rows \in Seq(Seq(Seq(Lines)))
       /\ sheet.merges \in Seq([first : Nat, last : Nat, left : Nat, right : Nat])
       /\ sheet.selected.reference \in Nat
       /\ sheet.selected.plays \subseteq Nat \ {NoColumn, sheet.selected.reference}
       /\ IsFiniteSet(sheet.selected.plays)
  /\ \A sheet \in Layouts :
       /\ sheet.merges \in Seq([first : Nat, last : Nat, left : Nat, right : Nat])
       /\ \A r \in DOMAIN sheet.rows :
            sheet.excel[r] \in Nat /\ \A q \in DOMAIN sheet.rows \ {r} : sheet.excel[q] # sheet.excel[r]

VARIABLES
  session,        \* session_
  grid,           \* what grid_ shows: its texts, and the play cells that are not read-only
  export,         \* the export under way, or none
  pending,        \* pending_action_
  playing,        \* the texts being played; playback is busy while it is not None
  closing,        \* closing_
  nextId,         \* NextSessionId
  judged,         \* history: the text and the reference each result was marked for
  saved           \* history: the last view of this session that an export wrote

vars == <<session, grid, export, pending, playing, closing, nextId, judged, saved>>

NoExport == [stage |-> "none"]
Exporting == export.stage # "none"     \* export_busy_

Init ==
  /\ session = None /\ grid = <<>>
  /\ export = NoExport /\ pending = None /\ playing = None /\ closing = FALSE
  /\ nextId = 1
  /\ judged = <<>> /\ saved = NoExport

----------------------------------------------------------------------------
(* The leave gate.  An action is to install a session or to close. *)

Close == [kind |-> "close"]
Install(sheet) ==
  [kind |-> "install", session |-> CreateSession(nextId, sheet, sheet.selected)]

\* What may ask to leave: MainFrame, or the mapping panel with a view just built.
Actions == {Close} \cup (IF nextId <= MaxSessions THEN {Install(sheet) : sheet \in Sheets} ELSE {})

\* The action itself, on a session that is now s: SetSession's or StartClosing.
\* Both stop the playback, which is busy until it has come to an end.
Perform(action, s) ==
  IF action.kind = "close"
  THEN closing' = TRUE /\ session' = s /\ UNCHANGED <<grid, judged, saved, playing>>
  ELSE /\ session' = action.session
       /\ grid' = action.session.view
       /\ playing' = IF playing = None THEN None ELSE [playing EXCEPT !.session = None, !.texts = <<>>]
       /\ judged' = <<>> /\ saved' = NoExport
       /\ UNCHANGED closing

\* NextSessionId: a session gets its id when it is made.
TakeId(action) == nextId' = IF action.kind = "install" THEN nextId + 1 ELSE nextId

\* Mutated: RequestLeave does not look at export_busy_.
MayLeaveWhileExporting == ~closing /\ pending = None

MayLeave == ~closing /\ ~Exporting /\ pending = None
HasChanges == session # None /\ Dirty(session)

LeaveFreely(action) ==
  /\ MayLeave /\ ~HasChanges
  /\ Perform(action, session) /\ TakeId(action)
  /\ UNCHANGED <<export, pending>>

\* The user is asked, and gives the changes up.
LeaveDiscarding(action) ==
  /\ MayLeave /\ HasChanges
  /\ Perform(action, session) /\ TakeId(action)
  /\ UNCHANGED <<export, pending>>

Snapshot == [stage |-> "running", id |-> session.id, revision |-> session.revision,
             view |-> session.view]

\* The user is asked, and exports first.
LeaveAfterExport(action) ==
  /\ MayLeave /\ HasChanges
  /\ pending' = action /\ export' = Snapshot /\ TakeId(action)
  /\ UNCHANGED <<session, grid, playing, closing, judged, saved>>

----------------------------------------------------------------------------
(* Export *)

StartExport ==
  /\ MayLeave /\ session # None
  /\ export' = Snapshot
  /\ UNCHANGED <<session, grid, pending, playing, closing, nextId, judged, saved>>

\* The job on the background queue writes the workbook, or fails.
ExportJob ==
  /\ export.stage = "running"
  /\ \/ export' = [export EXCEPT !.stage = "written"] /\ saved' = [export EXCEPT !.stage = "written"]
     \/ export' = [export EXCEPT !.stage = "failed"] /\ UNCHANGED saved
  /\ UNCHANGED <<session, grid, pending, playing, closing, nextId, judged>>

FinishExport ==
  /\ export.stage \in {"written", "failed"} /\ ~closing
  /\ LET after == IF export.stage = "written"
                  THEN MarkExported(session, export.id, export.revision) ELSE session
         matched == /\ export.stage = "written"
                    /\ session.id = export.id /\ export.revision <= session.revision
     IN  IF pending # None /\ matched /\ ~Dirty(after)
         THEN Perform(pending, after)
         ELSE session' = after /\ UNCHANGED <<grid, playing, closing, judged, saved>>
  /\ export' = NoExport /\ pending' = None
  /\ UNCHANGED nextId

----------------------------------------------------------------------------
(* Editing, marking, playing *)

\* What a later revision has outdated: the view is of no more use to the properties.
Outdate ==
  LET outdated(of) == IF of.revision < session'.revision THEN [of EXCEPT !.view = <<>>] ELSE of
  IN  /\ export' = IF Exporting THEN outdated(export) ELSE export
      /\ saved' = IF saved.stage = "written" THEN outdated(saved) ELSE saved

\* Mutated: a change of segments that leaves the number of rows is no change of shape.
GridAfterByCount(view, edit) ==
  LET new == edit.session.view
  IN  IF Len(new) # Len(view) THEN new
      ELSE [d \in DOMAIN grid |-> IF new[d].raw \in edit.raws
                                  THEN [new[d] EXCEPT !.segment = grid[d].segment] ELSE grid[d]]

\* The grid after an edit: filled anew when the shape of the view changed,
\* otherwise only the rows of the raw rows the edit touched are written.
GridAfter(view, edit) ==
  LET new == edit.session.view
  IN  IF Len(new) # Len(view) \/ edit.reshaped THEN new
      ELSE [d \in DOMAIN grid |-> IF new[d].raw \in edit.raws
                                  THEN [new[d] EXCEPT !.segment = grid[d].segment] ELSE grid[d]]

\* Mutated: editing while playback is busy.
MayEditAnytime == ~closing /\ pending = None

\* No editing while playback is busy, paused or stopping.
MayEdit == ~closing /\ pending = None /\ playing = None

ApplyCellEdit(d, c, value) ==
  /\ MayEdit /\ session.revision < LastEdit
  /\ Editable(session, d, c)
  /\ LET edit == UpdateDisplayCell(session, d, c, value)
     IN  /\ \A k \in DOMAIN edit.session.view : edit.session.view[k].expanded <= MaxSegments
         /\ session' = edit.session
         /\ grid' = GridAfter(session.view, edit)
         /\ judged' = Restrict(judged, DOMAIN edit.session.marks)
  /\ Outdate
  /\ UNCHANGED <<pending, playing, closing, nextId>>

\* OnCellClick on a result.
MarkResult(d, c) ==
  /\ ~closing /\ pending = None
  /\ session.view[d].segment[c] # NoSegment
  /\ session.revision < MaxRevision
  /\ session' = CycleResult(session, d, c)
  /\ grid' = [grid EXCEPT ![d].result[c] = session'.view[d].result[c]]
  /\ LET key == ResultKey(session, d, c)
         mark == [text |-> session.view[d].text[c], reference |-> session.view[d].reference]
     IN  judged' = [id \in DOMAIN session'.marks |-> IF id = key THEN mark ELSE judged[id]]
  /\ Outdate
  /\ UNCHANGED <<pending, playing, closing, nextId>>

\* OnPlay plays a range of rows, OnCellClick a single segment.
StartPlayback(first, last, c) ==
  /\ ~closing /\ pending = None
  /\ playing' = [session |-> session.id, column |-> c,
                 texts |-> [d \in first..last |-> session.view[d].text[c]]]
  /\ UNCHANGED <<session, grid, export, pending, closing, nextId, judged, saved>>

\* The playback service is idle or in error.
PlaybackEnds ==
  /\ playing # None /\ playing' = None
  /\ UNCHANGED <<session, grid, export, pending, closing, nextId, judged, saved>>

Leave ==
  MayLeave /\ \E action \in Actions :
                LeaveFreely(action) \/ LeaveDiscarding(action) \/ LeaveAfterExport(action)

Edit ==
  session # None /\ \E d \in DOMAIN session.view, value \in Values :
                      \E c \in session.selected.plays \cup {session.selected.reference} :
                        ApplyCellEdit(d, c, value)

Mark ==
  session # None /\ \E d \in DOMAIN session.view, c \in session.selected.plays : MarkResult(d, c)

Play ==
  session # None /\ \E first, last \in DOMAIN session.view, c \in session.selected.plays :
                      first <= last /\ last < first + MaxPlayed /\ StartPlayback(first, last, c)

\* The window is gone.
Closed == closing /\ UNCHANGED vars

Next == Leave \/ StartExport \/ ExportJob \/ FinishExport \/ Edit \/ Mark \/ Play \/ PlaybackEnds \/ Closed

Spec == Init /\ [][Next]_vars

----------------------------------------------------------------------------
(* Properties *)

\* The grid shows the view, and the view is what building it anew from the
\* source, the owners and the results would give: neither the updates in place
\* of UpdateDisplayCell and CycleResult nor the partial refresh of the grid in
\* ApplyCellEdit leaves a stale cell behind, in the rows of a merge above all.
GridShowsSession ==
  session # None => grid = session.view /\ session.view = Build(session)

\* A result stands only for the text and the reference it was given for:
\* whatever edit moves, splits, joins or changes a segment takes along the
\* results of the segments whose text or index it changes.
MarksFitTheirText ==
  session # None =>
    \A id \in DOMAIN session.marks :
      LET segments == SplitDisplaySegments(Cell(session.source, id[1], id[2]))
      IN  /\ id[3] <= Len(segments)
          /\ judged[id].text = segments[id[3]]
          /\ session.selected.reference # NoColumn =>
               judged[id].reference = Cell(session.source, session.owners[id[1]], session.selected.reference)

\* A row shows the reference of another row only when the worksheet leaves no
\* doubt: one merge alone covers its cell, in the reference column only, from
\* below the header down from the other row, and the row had no other text.
\* It is said of every session the mapping panel may install first.
OwnersAreSound ==
  session = None => \A sheet \in Layouts :
    LET c == sheet.selected.reference
        owners == Install(sheet).session.owners
        over(r) == {i \in DOMAIN sheet.merges :
                      /\ Covers(sheet.merges[i], c)
                      /\ sheet.merges[i].first <= sheet.excel[r] /\ sheet.excel[r] <= sheet.merges[i].last}
    IN  \A r \in DOMAIN sheet.rows :
          owners[r] # r =>
            /\ \E i \in over(r) : /\ over(r) = {i} /\ over(owners[r]) = {i}
                                  /\ sheet.merges[i].left = sheet.merges[i].right
                                  /\ sheet.merges[i].first = sheet.excel[owners[r]]
            /\ sheet.excel[owners[r]] > sheet.header
            /\ Cell(sheet.rows, r, c) \in {Empty, Cell(sheet.rows, owners[r], c)}

\* The export that is under way is one of this session, of a revision it has
\* reached: the leave gate keeps the session in place until FinishExport, and
\* MarkExported never has a reason to refuse.  An action that waits has an
\* export to wait for, and the window does not close over one.
ExportIsOfThisSession ==
  /\ Exporting => ~closing /\ export.id = session.id /\ export.revision <= session.revision
  /\ pending # None => Exporting

\* Every text of the view, and every result that is marked, is in the workbook.
InWorkbook(s) ==
  /\ saved.stage = "written" /\ saved.id = s.id /\ Len(saved.view) = Len(s.view)
  /\ \A d \in DOMAIN s.view :
       /\ s.view[d].reference = saved.view[d].reference
       /\ s.view[d].text = saved.view[d].text
       /\ \A c \in s.selected.plays : s.view[d].result[c] \in {"blank", saved.view[d].result[c]}

\* A session with changes is left, for another one or for good, only after the
\* user gave the changes up or a workbook holds its texts and its results.
NothingIsLostOnLeaving ==
  [][ \/ ~closing /\ closing'
      \/ session # None /\ session'.id # session.id
      => \/ session = None
         \/ session.revision = 0
         \/ \E action \in Actions : LeaveDiscarding(action)
         \/ InWorkbook(session) ]_vars

\* A session that counts as exported is the workbook that was exported: the
\* panel reports "运行视图已导出" for it and lets it go without the question
\* that stands for text changes and results not exported yet.
ExportedIsCurrent ==
  session # None /\ session.revision > 0 /\ ~Dirty(session) =>
    saved.stage = "written" /\ saved.view = session.view

\* While the playback started on this session is busy, the rows it plays show
\* the texts that are played, so that the highlight is on what is heard.
PlayedTextIsShown ==
  playing # None /\ session # None /\ playing.session = session.id =>
    \A d \in DOMAIN playing.texts : d <= Len(grid) /\ grid[d].text[playing.column] = playing.texts[d]

=============================================================================
