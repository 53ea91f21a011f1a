------------------------------ MODULE RecordSet ------------------------------
(***************************************************************************)
(* One CAdoRecordSet, used by one thread: the cursor, the edit that may be *)
(* pending on it, the searches and the walks over all rows.                *)
(*                                                                         *)
(* rs is the ADO record set behind m_pRecordset.  The operators named Ado* *)
(* are its methods: each gives the record set it leaves and whether it     *)
(* raised no error.  A method that has to move off a row with a pending    *)
(* edit saves the edit first, which the database may refuse.               *)
(***************************************************************************)
EXTENDS Integers, Sequences, SequencesExt, FiniteSetsExt, Variant

CONSTANTS Texts,      \* what the field of a row can hold
          Empty,      \* the empty one, stored as NULL
          Contents,   \* what a query or a file can give: sequences of texts
          MaxRows,    \* bound: rows ever in one record set
          Jumps       \* by how much Move moves

ASSUME RowsAssumption ==
  /\ Empty \in Texts /\ MaxRows \in Nat /\ Jumps \subseteq Int
  /\ \A c \in Contents : c \in Seq(Texts) /\ Len(c) <= MaxRows

VARIABLES
  rs,                \* open, counted, rows, pos, gone, edit, pending
  refused,           \* the database refuses updates for the time being
  m_strFind, m_SearchDirection, m_varBookmark,
  last,              \* history: the row found last, while it counts, or 0
  op                 \* the call in progress, or Idle

find == <<m_strFind, m_SearchDirection, m_varBookmark>>
vars == <<rs, refused, find, last, op>>

NoText == "NoText"
Directions == {"adSearchForward", "adSearchBackward"}
Row == [id : 1 .. MaxRows, val : Texts]
Idle == [name |-> "idle"]

-----------------------------------------------------------------------------
(* The ADO record set                                                      *)

Done_(r) == [ok |-> TRUE, rs |-> r]
Error(r) == [ok |-> FALSE, rs |-> r]
Loaded(c, counted) ==
  [open |-> TRUE, counted |-> counted, rows |-> [i \in 1 .. Len(c) |-> [id |-> i, val |-> c[i]]],
   pos |-> 1, gone |-> FALSE, edit |-> "adEditNone", pending |-> Empty]
Closed == [Loaded(<<>>, TRUE) EXCEPT !.open = FALSE]

adoBOF(r) == r.edit # "adEditAdd" /\ ~r.gone /\ (r.pos = 0 \/ r.rows = <<>>)
adoEOF(r) == r.edit # "adEditAdd" /\ ~r.gone /\ (r.pos > Len(r.rows) \/ r.rows = <<>>)
OnRow(r) == r.edit = "adEditAdd" \/ (~r.gone /\ r.pos \in 1 .. Len(r.rows))
Field(r) == IF r.edit # "adEditNone" THEN r.pending ELSE r.rows[r.pos].val

NextId(r) == 1 + Max({0} \union {r.rows[i].id : i \in DOMAIN r.rows})

\* The pending edit written into the rows.
Written(r) ==
  [(CASE r.edit = "adEditInProgress" -> [r EXCEPT !.rows[r.pos].val = r.pending]
      [] r.edit = "adEditAdd" ->
           [r EXCEPT !.rows = Append(@, [id |-> NextId(r), val |-> r.pending]),
                     !.pos = Len(r.rows) + 1, !.gone = FALSE]
      [] OTHER -> r)
   EXCEPT !.edit = "adEditNone", !.pending = Empty]
Discarded(r) == [r EXCEPT !.edit = "adEditNone", !.pending = Empty]

AdoUpdate(r) ==
  IF r.open /\ (r.edit = "adEditNone" \/ ~refused) THEN Done_(Written(r)) ELSE Error(r)

\* Moves to where target says the cursor goes, once the edit is saved; the
\* method may refuse by what it finds then.
AdoGo(r, target(_), Can(_)) ==
  LET u == AdoUpdate(r)
  IN  IF u.ok /\ Can(u.rs)
      THEN Done_([u.rs EXCEPT !.pos = target(u.rs), !.gone = FALSE])
      ELSE Error(u.rs)

AdoMoveFirst(r) == AdoGo(r, LAMBDA s : 1, LAMBDA s : s.rows # <<>>)
AdoMoveLast(r) == AdoGo(r, LAMBDA s : Len(s.rows), LAMBDA s : s.counted /\ s.rows # <<>>)
AdoMoveNext(r) == AdoGo(r, LAMBDA s : IF s.gone THEN s.pos ELSE s.pos + 1, LAMBDA s : ~adoEOF(s))
AdoMovePrevious(r) == AdoGo(r, LAMBDA s : s.pos - 1, LAMBDA s : s.counted /\ ~adoBOF(s))

AdoMove(r, n) ==
  AdoGo(r, LAMBDA s : Max({0, Min({Len(s.rows) + 1, s.pos + n})}),
           LAMBDA s : /\ n < 0 => s.counted /\ ~adoBOF(s)
                      /\ n > 0 => ~adoEOF(s))

\* The nearest row with the text, from a position on, or the end beyond.
Match(r, from, text, direction) ==
  IF direction = "adSearchForward"
  THEN Min({Len(r.rows) + 1} \union {i \in DOMAIN r.rows : i >= from /\ r.rows[i].val = text})
  ELSE Max({0} \union {i \in DOMAIN r.rows : i <= from /\ r.rows[i].val = text})

AdoFind(r, text, direction) ==
  AdoGo(r, LAMBDA s : Match(s, IF s.gone /\ direction = "adSearchBackward" THEN s.pos - 1 ELSE s.pos,
                            text, direction),
           LAMBDA s : /\ ~adoBOF(s) /\ ~adoEOF(s)
                      /\ direction = "adSearchBackward" => s.counted)

IndexOf(r, id) == {i \in DOMAIN r.rows : r.rows[i].id = id}

AdoFindFrom(r, text, direction, bookmark) ==
  LET step == IF direction = "adSearchForward" THEN 1 ELSE -1
  IN  AdoGo(r, LAMBDA s : Match(s, Max(IndexOf(s, bookmark)) + step, text, direction),
               LAMBDA s : s.counted /\ IndexOf(s, bookmark) # {})

AdoAddNew(r) ==
  LET u == AdoUpdate(r)
  IN  IF u.ok /\ NextId(u.rs) <= MaxRows
      THEN Done_([u.rs EXCEPT !.edit = "adEditAdd"]) ELSE Error(u.rs)

AdoPutCollect(r, text) ==
  IF ~r.open \/ ~OnRow(r) THEN Error(r)
  ELSE Done_([r EXCEPT !.pending = text,
                       !.edit = IF @ = "adEditNone" THEN "adEditInProgress" ELSE @])

AdoDelete(r) ==
  IF ~r.open \/ r.edit # "adEditNone" \/ ~OnRow(r) \/ refused THEN Error(r)
  ELSE Done_([r EXCEPT !.rows = RemoveAt(@, r.pos), !.gone = TRUE])

AdoClose(r) == IF r.open /\ r.edit = "adEditNone" THEN Done_(Closed) ELSE Error(r)

-----------------------------------------------------------------------------
(* CAdoRecordSet                                                           *)

Init ==
  /\ rs = Closed /\ refused = FALSE
  /\ m_strFind = NoText /\ m_SearchDirection = "adSearchForward" /\ m_varBookmark = 0
  /\ last = 0
  /\ op = Idle

Refuse == refused' = ~refused /\ UNCHANGED <<rs, find, last, op>>

\* The call returns and leaves this record set.  Rows that changed end the
\* account of what Find has found.
Leave(r) ==
  /\ op = Idle
  /\ rs' = r
  /\ last' = IF r.rows = rs.rows THEN last ELSE 0
  /\ UNCHANGED <<refused, op>>

Call(result) == Leave(result.rs) /\ UNCHANGED find

\* A loop over the rows keeps what it has done of its call in op.
Keep(r, o) ==
  /\ rs' = r
  /\ op' = o
  /\ last' = IF r.rows = rs.rows THEN last ELSE 0
  /\ UNCHANGED <<refused, find>>

IsEOF(r) == r.open /\ adoEOF(r)     \* FALSE when ADO raises an error
IsBOF(r) == r.open /\ adoBOF(r)
IsOpen(r) == r.open
GetEditMode(r) == r.edit

CancelUpdate(r) == IF GetEditMode(r) = "adEditNone" THEN r ELSE Discarded(r)

\* Cancels the update when none is pending, and not when one is: ADO then
\* raises an error, which is caught, and the record set stays open.
CloseSet(r) ==
  LET kept == IF GetEditMode(r) = "adEditNone" THEN CancelUpdate(r) ELSE r
  IN  IF IsOpen(r) THEN AdoClose(kept).rs ELSE r

AddNew == Call(AdoAddNew(rs))
Update == Call([rs |-> LET u == AdoUpdate(rs) IN IF u.ok THEN u.rs ELSE CancelUpdate(rs)])
UpdateBatch == Call(AdoUpdate(rs))
Cancels == Call([rs |-> CancelUpdate(rs)])
Delete == Call(AdoDelete(rs))
MoveFirst == Call(AdoMoveFirst(rs))
MoveLast == Call(AdoMoveLast(rs))
MoveNext == Call(AdoMoveNext(rs))
MovePrevious == Call(AdoMovePrevious(rs))
PutCollect(text) == Call(AdoPutCollect(rs, text))

\* adResyncAllValues takes back what is pending.
Resync == rs.open /\ rs.edit = "adEditInProgress" /\ Call([rs |-> Discarded(rs)])

\* The fields of CAdoRecordSet outlive the rows they are about.
Replaced(r) ==
  /\ op = Idle
  /\ rs' = r
  /\ last' = 0
  /\ UNCHANGED <<refused, find, op>>

Close == Replaced(CloseSet(rs))

\* A record set that Close could not close makes Open fail, like an error of
\* the provider.
Open(c, counted) == ~CloseSet(rs).open /\ Replaced(Loaded(c, counted))
Load(c) == ~CloseSet(rs).open /\ Replaced(Loaded(c, TRUE))
OpenFails == Close

\* The query is put to the database again: its rows are what it has by now, with
\* bookmarks of their own.
Requery(c) == rs.open /\ rs.edit = "adEditNone" /\ Replaced(Loaded(c, rs.counted))

\* operator =, which Clone uses: the old record set is dropped even when
\* Close could not close it.
Assign(c) == Replaced(Loaded(c, TRUE))

-----------------------------------------------------------------------------
(* Find and FindNext                                                       *)

\* Without a row, or with a cursor without bookmarks, m_varBookmark stays.
Bookmarked(r) ==
  IF IsOpen(r) /\ r.counted /\ ~r.gone /\ r.edit = "adEditNone" /\ r.pos \in DOMAIN r.rows
  THEN r.rows[r.pos].id ELSE m_varBookmark

GetBookmark ==
  /\ op = Idle
  /\ m_varBookmark' = Bookmarked(rs)
  /\ last' = 0
  /\ UNCHANGED <<rs, refused, m_strFind, m_SearchDirection, op>>

SetBookmark ==
  /\ rs.counted /\ IndexOf(rs, m_varBookmark) # {}
  /\ Call(AdoGo(rs, LAMBDA s : Max(IndexOf(s, m_varBookmark)), LAMBDA s : TRUE))

Found(result) == result.ok /\ ~IsEOF(result.rs) /\ ~IsBOF(result.rs)

\* Mutant: the place is not kept.
FindForgets(text, direction) ==
  LET f == AdoFind(rs, text, direction)
  IN  /\ op = Idle
      /\ rs' = f.rs
      /\ m_strFind' = text
      /\ m_SearchDirection' = IF Found(f) THEN direction ELSE m_SearchDirection
      /\ last' = IF Found(f) /\ rs.counted THEN rs'.rows[rs'.pos].id
                 ELSE IF text = m_strFind /\ rs'.rows = rs.rows THEN last ELSE 0
      /\ UNCHANGED <<refused, m_varBookmark, op>>

\* m_strFind is kept at once, the direction and the place when it is found.
Find(text, direction) ==
  LET f == AdoFind(rs, text, direction)
  IN  /\ op = Idle
      /\ rs' = f.rs
      /\ m_strFind' = text
      /\ m_SearchDirection' = IF Found(f) THEN direction ELSE m_SearchDirection
      /\ m_varBookmark' = IF Found(f) THEN Bookmarked(f.rs) ELSE m_varBookmark
      /\ last' = IF Found(f) /\ rs.counted THEN rs'.rows[rs'.pos].id
                 ELSE IF text = m_strFind /\ rs'.rows = rs.rows THEN last ELSE 0
      /\ UNCHANGED <<refused, op>>

FindNext ==
  LET f == AdoFindFrom(rs, m_strFind, m_SearchDirection, m_varBookmark)
      changed == f.rs.rows # rs.rows
  IN  /\ op = Idle /\ m_strFind # NoText
      /\ rs' = f.rs
      /\ m_varBookmark' = IF Found(f) THEN Bookmarked(f.rs) ELSE m_varBookmark
      /\ last' = IF changed THEN 0 ELSE IF Found(f) /\ last # 0 THEN rs'.rows[rs'.pos].id ELSE last
      /\ UNCHANGED <<refused, m_strFind, m_SearchDirection, op>>

-----------------------------------------------------------------------------
(* The calls that walk over the rows                                       *)

Move(n) == Call(AdoMove(rs, n))
SetAbsolutePosition(n) ==
  rs.counted /\ Call(AdoGo(rs, LAMBDA s : n, LAMBDA s : n \in DOMAIN s.rows))

Return(r) == Keep(r, Idle)

\* GetCollect of a CString leaves the string alone when it fails.
Collected(text) == IF IsOpen(rs) /\ ~adoEOF(rs) /\ OnRow(rs) THEN Field(rs) ELSE text

\* Mutant: the walk starts where the cursor is.
SeekFromHere(value, back) ==
  /\ op = Idle
  /\ Keep(rs, [name |-> "seek", value |-> value, back |-> back, read |-> Empty, skipped |-> FALSE])

\* SeekToFieldValue goes to one end and walks to the other; what the moves
\* and GetCollect return is ignored.
SeekToFieldValue(value, back) ==
  LET first == IF back THEN AdoMoveLast(rs) ELSE AdoMoveFirst(rs)
  IN  /\ op = Idle
      /\ Keep(first.rs, [name |-> "seek", value |-> value, back |-> back,
                         read |-> Empty, skipped |-> ~first.ok])

\* Mutant: both directions end at the same end.
SeekEndsAtEOF == IsEOF(rs)

SeekEnds == IF op.back THEN IsBOF(rs) ELSE IsEOF(rs)

SeekMisses == op.name = "seek" /\ SeekEnds /\ Return(rs)

SeekHits == op.name = "seek" /\ ~SeekEnds /\ Collected(op.read) = op.value /\ Return(rs)

SeekOn ==
  /\ op.name = "seek" /\ ~SeekEnds /\ Collected(op.read) # op.value
  /\ Keep((IF op.back THEN AdoMovePrevious(rs) ELSE AdoMoveNext(rs)).rs,
          [op EXCEPT !.read = Collected(@)])

\* GetRecordCount counts the rows itself when ADO does not, and cannot go
\* back to where it was.
GetRecordCount ==
  LET first == AdoMoveFirst(rs)
  IN  /\ op = Idle /\ rs.open /\ ~rs.counted
      /\ Keep(first.rs, [name |-> "count", count |-> 0, skipped |-> ~first.ok])

CountEnds == op.name = "count" /\ IsEOF(rs) /\ Return(rs)

CountOn ==
  /\ op.name = "count" /\ ~IsEOF(rs)
  /\ Keep(AdoMoveNext(rs).rs, [op EXCEPT !.count = Min({@ + 1, MaxRows + 1})])

\* Where the cursor is, for a call that promises to bring it back.
Place == [pos |-> rs.pos, kept |-> rs.counted /\ ~rs.gone /\ rs.edit # "adEditAdd"]

\* GetCursorPos, alone or for GetFieldValues of some rows: the rows from the
\* cursor on are taken from the count.  It calls ADO itself, so that an
\* error ends the call where it stands.
AdoRecordCount == IF rs.counted THEN Len(rs.rows) ELSE -1

GetCursorPos(values) ==
  /\ op = Idle /\ rs.open
  /\ values > 0 => AdoRecordCount > 0
  /\ Keep(rs, [name |-> "locate", place |-> Place, locked |-> TRUE,
               count |-> AdoRecordCount, values |-> values])

\* Mutant: the cursor is left where the count ended.
BackToEnd(count) == Done_(rs)

\* MoveFirst and Move, without a catch.
BackTo(count) ==
  LET first == AdoMoveFirst(rs)
  IN  IF first.ok THEN AdoMove(first.rs, count) ELSE first

LocateOn ==
  LET next == AdoMoveNext(rs)
  IN  /\ op.name = "locate" /\ ~adoEOF(rs)
      /\ Keep(next.rs, IF next.ok THEN [op EXCEPT !.count = @ - 1] ELSE Idle)

Located ==
  /\ op.name = "locate" /\ adoEOF(rs)
  /\ LET b == BackTo(op.count)
     IN  Keep(b.rs, IF b.ok /\ op.values > 0 THEN [op EXCEPT !.name = "values"] ELSE Idle)

\* GetFieldValues that does not keep the cursor.
GetFieldValues(values) ==
  /\ op = Idle /\ rs.open /\ AdoRecordCount > 0
  /\ Keep(rs, [name |-> "values", place |-> Place, locked |-> FALSE,
               count |-> 0, values |-> values])

ValuesOn ==
  LET next == AdoMoveNext(rs)
  IN  /\ op.name = "values" /\ op.values > 0 /\ OnRow(rs)
      /\ Keep(next.rs, IF next.ok THEN [op EXCEPT !.values = @ - 1] ELSE Idle)

ValuesEnd ==
  /\ op.name = "values" /\ (op.values = 0 \/ ~OnRow(rs))
  /\ Return(IF op.locked THEN BackTo(op.count).rs ELSE rs)

-----------------------------------------------------------------------------
Edits ==
  \/ AddNew \/ Update \/ UpdateBatch \/ Cancels \/ Delete \/ Resync
  \/ \E text \in Texts : PutCollect(text)

Moves ==
  \/ MoveFirst \/ MoveLast \/ MoveNext \/ MovePrevious
  \/ \E n \in Jumps : Move(n)
  \/ \E n \in 1 .. MaxRows : SetAbsolutePosition(n)

Loads ==
  \/ Close \/ OpenFails
  \/ \E c \in Contents : Requery(c) \/ Load(c) \/ Assign(c) \/ \E counted \in BOOLEAN : Open(c, counted)

Searches ==
  \/ \E text \in Texts \ {Empty}, d \in Directions : Find(text, d)
  \/ FindNext \/ GetBookmark \/ SetBookmark

Calls ==
  \/ \E value \in Texts, back \in BOOLEAN : SeekToFieldValue(value, back)
  \/ GetRecordCount
  \/ \E values \in {0, 2} : GetCursorPos(values)
  \/ GetFieldValues(2)

\* The steps inside a call.
Steps ==
  \/ SeekMisses \/ SeekHits \/ SeekOn
  \/ CountEnds \/ CountOn
  \/ LocateOn \/ Located \/ ValuesOn \/ ValuesEnd

Next == Edits \/ Moves \/ Loads \/ Searches \/ Calls \/ Steps \/ Refuse

Spec == Init /\ [][Next]_vars /\ WF_vars(Steps)

-----------------------------------------------------------------------------
\* The record set stays a sound one: rows with distinct ids, a cursor on
\* them or beside them, at most one edit.
TypeOK ==
  /\ rs.open \in BOOLEAN /\ rs.counted \in BOOLEAN /\ rs.gone \in BOOLEAN
  /\ rs.rows \in Seq(Row) /\ rs.pos \in 0 .. MaxRows + 1 /\ rs.pending \in Texts
  /\ rs.edit \in {"adEditNone", "adEditInProgress", "adEditAdd"}
  /\ \A i, j \in DOMAIN rs.rows : i < j => rs.rows[i].id < rs.rows[j].id
  /\ m_SearchDirection \in Directions /\ m_varBookmark \in 0 .. MaxRows
  /\ last \in 0 .. MaxRows /\ refused \in BOOLEAN

-----------------------------------------------------------------------------
(* Properties                                                              *)

\* A call that promises to keep the cursor (lockCursorPos, GetCursorPos)
\* brings it back to where it was, whatever errors end it: it counts the rows
\* behind the cursor by walking to the end.
ScanKeepsCursor ==
  [][(op.name \in {"locate", "values"} /\ op' = Idle /\ op.locked /\ op.place.kept)
       => rs'.pos = op.place.pos /\ ~rs'.gone]_vars

\* FindNext goes from match to match: after a row that Find or FindNext has
\* found comes the nearest one beyond it that matches, in the direction of
\* the search, wherever the cursor was moved in between; or there is none.
Beyond(id) ==
  {i \in DOMAIN rs.rows : /\ rs.rows[i].val = m_strFind
                          /\ IF m_SearchDirection = "adSearchForward"
                             THEN rs.rows[i].id > id ELSE rs.rows[i].id < id}
Nearest(S) == IF m_SearchDirection = "adSearchForward" THEN Min(S) ELSE Max(S)

FindEnumerates ==
  [][(FindNext /\ last # 0 /\ last' # 0)
       => LET more == Beyond(last)
          IN  \/ (more # {} /\ last' = rs.rows[Nearest(more)].id /\ rs'.pos = Nearest(more))
              \/ (last' = last /\ (more = {} \/ rs' = rs))]_vars

\* SeekToFieldValue says TRUE on a row that has the value, and FALSE only
\* when no row has it; GetRecordCount counts every row once.  Both ignore
\* what the first move returns, and are right unless it failed.
SeekIsRight ==
  [][/\ SeekHits => op.skipped \/ (OnRow(rs) /\ Field(rs) = op.value)
     /\ SeekMisses => op.skipped \/ (\A i \in DOMAIN rs.rows : rs.rows[i].val # op.value)
     /\ CountEnds => op.skipped \/ op.count = Len(rs.rows)]_vars

\* Every walk over the rows ends, except in the cases where the code ignores
\* an error that comes again and again: a closed record set is never at its
\* end, a cursor that only goes forward never comes back to the beginning,
\* and a row whose edit the database refuses is never left.
Stuck ==
  \/ ~rs.open
  \/ (op.name = "seek" /\ op.back /\ ~rs.counted)
  \/ (rs.edit # "adEditNone" /\ refused)

CallsReturn == (op # Idle) ~> (op = Idle \/ Stuck)

=============================================================================
