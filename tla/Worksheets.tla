------------------------------- MODULE Worksheets -------------------------------
(***************************************************************************)
(* put_worksheet of api/router: the project's worksheet is read, every     *)
(* field is set, and what has changed against the row that was read is     *)
(* written: all of it by an INSERT if there was none.  Sessions read what  *)
(* is committed and wait for SQLite's write lock (AttestedScope).          *)
(***************************************************************************)
EXTENDS Naturals, Sequences

CONSTANTS
    Puts,     \* PUT requests
    Body,     \* Body[q]: the fields that q sends; a field it leaves out is Null
    Fields,
    Null,     \* null
    NoRow     \* no worksheet yet, nothing read

(* A worksheet has a value in every field, of some body. *)
Sheets == [Fields -> {Body[q][f] : q \in Puts, f \in Fields}]

(* A body has every field, if only Null, and no row is no worksheet. *)
ASSUME WorksheetAssumption ==
    /\ \A q \in Puts : Body[q] \in Sheets
    /\ NoRow \notin Sheets

VARIABLES
    phase,    \* where each request is
    row,      \* the committed worksheet
    read,     \* the row that a request has read
    began,    \* history: how many saves had been committed when it began
    saves     \* history: the committed saves

sheetVars == <<phase, row, read, began, saves>>

WorksheetsInit ==
    /\ phase = [q \in Puts |-> "idle"]
    /\ row = NoRow
    /\ read = [q \in Puts |-> NoRow]
    /\ began = [q \in Puts |-> 0]
    /\ saves = <<>>

Turn(q, from, to) == phase[q] = from /\ phase' = [phase EXCEPT ![q] = to]

(* SELECT ... first() *)
ReadSheet(q) ==
    /\ Turn(q, "idle", "read")
    /\ read' = [read EXCEPT ![q] = row]
    /\ began' = [began EXCEPT ![q] = Len(saves)]
    /\ UNCHANGED <<row, saves>>

InsertSheet(q) ==
    /\ Turn(q, "read", "saved")
    /\ read[q] = NoRow
    /\ row = NoRow
    /\ row' = Body[q]
    /\ saves' = Append(saves, q)
    /\ UNCHANGED <<read, began>>

(* The constraint on project_id refuses a second row. *)
InsertRefused(q) ==
    /\ Turn(q, "read", "failed")
    /\ read[q] = NoRow
    /\ row # NoRow
    /\ UNCHANGED <<row, read, began, saves>>

(* Broken variant: a field that the body leaves out keeps its value. *)
WrittenIfSent(q) ==
    [f \in Fields |-> IF Body[q][f] = Null THEN row[f] ELSE Body[q][f]]

(* UPDATE names the fields whose value is not the one that was read. *)
Written(q) ==
    [f \in Fields |-> IF Body[q][f] = read[q][f] THEN row[f] ELSE Body[q][f]]

UpdateSheet(q) ==
    /\ Turn(q, "read", "saved")
    /\ read[q] # NoRow
    /\ row' = Written(q)
    /\ saves' = Append(saves, q)
    /\ UNCHANGED <<read, began>>

(* Someone holds the write lock for longer than the driver waits. *)
SaveTimesOut(q) ==
    /\ Turn(q, "read", "failed")
    /\ UNCHANGED <<row, read, began, saves>>

WorksheetsNext ==
    \E q \in Puts : \/ ReadSheet(q) \/ InsertSheet(q) \/ InsertRefused(q)
                    \/ UpdateSheet(q) \/ SaveTimesOut(q)

WorksheetsSpec == WorksheetsInit /\ [][WorksheetsNext]_sheetVars
--------------------------------------------------------------------------------
(* Nobody's work is lost without a newer save: every field has the value of *)
(* a save that no other save has followed, one that began after it was      *)
(* committed; and while there has been no save there is no worksheet.  Two  *)
(* saves at a time may leave some fields of the one and some of the other.  *)
FieldsAreOfLastSaves ==
    IF saves = <<>> THEN row = NoRow
    ELSE \A f \in Fields : \E i \in DOMAIN saves :
            /\ row[f] = Body[saves[i]][f]
            /\ \A j \in DOMAIN saves : began[saves[j]] < i
================================================================================
