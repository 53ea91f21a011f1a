---------------------------- MODULE DatabaseProofs ----------------------------
(***************************************************************************)
(* The two parts of the database access.  First RecordSet: that a record   *)
(* set stays a sound one, and that its walks, its searches and its counts  *)
(* find what is there and bring the cursor back; for any texts, any rows   *)
(* and any number of them.  Then AdoSession: that a transaction is stored  *)
(* as a whole or not at all, for any threads, any number of connections    *)
(* and statements, as long as the thread shares its connection with no     *)
(* other.                                                                  *)
(***************************************************************************)
EXTENDS RecordSet, MCAdoSession, SequenceTheorems, FiniteSetTheorems, WellFoundedInduction, TLAPS

-----------------------------------------------------------------------------
(* The least and the greatest of naturals, which Min and Max choose        *)

\* The order of the naturals, as a relation.
Below == {p \in Nat \X Nat : p[1] < p[2]}

LEMMA BelowWellFounded == IsWellFoundedOn(Below, Nat)
<1>1. OpToRel(<, Nat) = Below
  BY DEF OpToRel, Below
<1> QED
  BY <1>1, NatLessThanWellFounded, Zenon

LEMMA MinIsLeast ==
  ASSUME NEW S \in SUBSET Nat, S # {}
  PROVE  Min(S) \in S /\ \A x \in S : Min(S) <= x
<1>1. PICK n \in S : \A m \in S : <<m, n>> \notin Below
  BY BelowWellFounded, WFMin
<1>2. ASSUME NEW m \in S
      PROVE  n <= m
  <2>1. <<m, n>> \in Nat \X Nat => ~(m < n)
    BY <1>1 DEF Below
  <2> QED
    BY <2>1
<1> QED
  BY <1>2 DEF Min

LEMMA MaxIsGreatest ==
  ASSUME NEW S \in SUBSET Nat, S # {}, NEW b \in Nat, \A x \in S : x <= b
  PROVE  Max(S) \in S /\ \A x \in S : x <= Max(S)
<1> DEFINE T == {n \in Nat : n <= b /\ b - n \in S}
<1>1. \A x \in S : b - x \in T /\ b - (b - x) = x
  OBVIOUS
<1>2. T \in SUBSET Nat /\ T # {}
  BY <1>1
<1>3. PICK n \in T : \A m \in T : n <= m
  <2> HIDE DEF T
  <2> QED
    BY <1>2, MinIsLeast
<1>4. b - n \in S /\ n \in Nat
  OBVIOUS
<1>5. ASSUME NEW x \in S
      PROVE  x <= b - n
  <2>1. n <= b - x
    BY <1>1, <1>3
  <2> QED
    BY <1>4, <2>1
<1>6. \E y \in S : \A x \in S : y >= x
  BY <1>4, <1>5
<1>7. Max(S) \in S /\ \A x \in S : Max(S) >= x
  BY <1>6, Zenon DEF Max
<1> QED
  BY <1>7

LEMMA MinOfTwo ==
  ASSUME NEW x \in Int, NEW y \in Int
  PROVE  Min({x, y}) = IF x <= y THEN x ELSE y
<1>1. Min({x, y}) \in {x, y} /\ \A z \in {x, y} : Min({x, y}) <= z
  <2>1. \E m \in {x, y} : \A z \in {x, y} : m <= z
    OBVIOUS
  <2> QED
    BY <2>1, Zenon DEF Min
<1> QED
  BY <1>1

LEMMA MaxOfTwo ==
  ASSUME NEW x \in Int, NEW y \in Int
  PROVE  Max({x, y}) = IF x >= y THEN x ELSE y
<1>1. Max({x, y}) \in {x, y} /\ \A z \in {x, y} : Max({x, y}) >= z
  <2>1. \E m \in {x, y} : \A z \in {x, y} : m >= z
    OBVIOUS
  <2> QED
    BY <2>1, Zenon DEF Max
<1> QED
  BY <1>1

LEMMA MaxOfOne ==
  ASSUME NEW x \in Int
  PROVE  Max({x}) = x
<1>1. Max({x}) \in {x}
  <2>1. \E m \in {x} : \A z \in {x} : m >= z
    OBVIOUS
  <2> QED
    BY <2>1, Zenon DEF Max
<1> QED
  BY <1>1

-----------------------------------------------------------------------------
(* Sound record sets                                                       *)

EditModes == {"adEditNone", "adEditInProgress", "adEditAdd"}
RecordSets == [open : BOOLEAN, counted : BOOLEAN, rows : Seq(Row), pos : 0 .. MaxRows + 1, gone : BOOLEAN,
               edit : EditModes, pending : Texts]

\* The ids of the rows grow, which leaves room for those that come before.
InOrder(rows) ==
  /\ \A i \in DOMAIN rows : i <= rows[i].id
  /\ \A i, j \in DOMAIN rows : i < j => rows[i].id < rows[j].id

\* The cursor is on a row or next to one; the row that is edited is there, and
\* there is room for the one that is added.
IsSound(r) ==
  /\ r \in RecordSets /\ InOrder(r.rows) /\ r.pos <= Len(r.rows) + 1
  /\ r.gone => r.pos > 0
  /\ r.edit = "adEditInProgress" => ~r.gone /\ r.pos \in DOMAIN r.rows
  /\ r.edit = "adEditAdd" => 0 < MaxRows /\ \A i \in DOMAIN r.rows : r.rows[i].id < MaxRows
  /\ r.edit # "adEditNone" => r.open

LEMMA SoundParts ==
  ASSUME NEW r, IsSound(r)
  PROVE  /\ r.open \in BOOLEAN /\ r.counted \in BOOLEAN /\ r.gone \in BOOLEAN /\ r.edit \in EditModes
         /\ r.rows \in Seq(Row) /\ Len(r.rows) \in Nat /\ DOMAIN r.rows = 1 .. Len(r.rows)
         /\ r.pos \in Nat /\ r.pos <= Len(r.rows) + 1 /\ r.pending \in Texts
         /\ \A i \in DOMAIN r.rows : r.rows[i] \in Row /\ r.rows[i].id \in Nat /\ r.rows[i].val \in Texts
         /\ r.rows # <<>> <=> Len(r.rows) >= 1
<1>1. r.rows \in Seq(Row) /\ r.pos \in 0 .. MaxRows + 1
  BY DEF IsSound, RecordSets
<1>2. r.rows # <<>> <=> Len(r.rows) >= 1
  BY <1>1, EmptySeq
<1>3. \A i \in DOMAIN r.rows : r.rows[i] \in Row
  BY <1>1
<1> QED
  BY <1>1, <1>2, <1>3, RowsAssumption DEF IsSound, RecordSets, Row

\* The ids leave room, so that there are no more rows than ids.
LEMMA RoomForRows ==
  ASSUME NEW rows \in Seq(Row), InOrder(rows)
  PROVE  Len(rows) <= MaxRows /\ Len(rows) \in Nat
<1>1. CASE Len(rows) = 0
  BY <1>1, RowsAssumption
<1>2. CASE Len(rows) # 0
  <2>1. Len(rows) \in DOMAIN rows
    BY <1>2
  <2>2. rows[Len(rows)].id \in 1 .. MaxRows /\ Len(rows) <= rows[Len(rows)].id
    <3>1. rows[Len(rows)] \in Row
      BY <2>1
    <3> QED
      BY <2>1, <3>1 DEF Row, InOrder
  <2> QED
    BY <2>2, RowsAssumption
<1> QED
  BY <1>1, <1>2

\* A record set with another cursor, off a row that is edited.
LEMMA SoundElsewhere ==
  ASSUME NEW r, IsSound(r), r.edit = "adEditNone", NEW p \in 0 .. Len(r.rows) + 1
  PROVE  IsSound([r EXCEPT !.pos = p, !.gone = FALSE])
<1>1. p \in 0 .. MaxRows + 1 /\ r \in RecordSets
  BY SoundParts, RoomForRows, RowsAssumption DEF IsSound
<1> DEFINE q == [r EXCEPT !.pos = p, !.gone = FALSE]
<1>2. /\ q \in RecordSets /\ q.rows = r.rows /\ q.pos = p /\ q.edit = "adEditNone" /\ ~q.gone
  BY <1>1 DEF RecordSets
<1>3. p <= Len(r.rows) + 1
  BY SoundParts
<1> HIDE DEF q
<1>4. IsSound(q)
  BY <1>2, <1>3 DEF IsSound
<1> QED
  BY <1>4 DEF q

LEMMA NextIdIsNew ==
  ASSUME NEW r, IsSound(r)
  PROVE  /\ NextId(r) \in Nat /\ Len(r.rows) + 1 <= NextId(r) /\ 1 <= NextId(r)
         /\ \A i \in DOMAIN r.rows : r.rows[i].id < NextId(r)
         /\ \A m \in Nat : (\A i \in DOMAIN r.rows : r.rows[i].id < m) /\ 0 < m => NextId(r) <= m
<1> DEFINE S == {0} \union {r.rows[i].id : i \in DOMAIN r.rows}
<1>1. S \in SUBSET Nat /\ S # {} /\ MaxRows \in Nat /\ \A x \in S : x <= MaxRows
  BY SoundParts, RowsAssumption DEF Row
<1>2. Max(S) \in S /\ \A x \in S : x <= Max(S)
  <2> HIDE DEF S
  <2> QED
    BY <1>1, MaxIsGreatest
<1>3. NextId(r) = 1 + Max(S)
  BY DEF NextId
<1>4. Max(S) \in Nat /\ 0 <= Max(S) /\ \A i \in DOMAIN r.rows : r.rows[i].id <= Max(S)
  BY <1>1, <1>2
<1>5. Len(r.rows) <= Max(S)
  <2>1. CASE Len(r.rows) = 0
    BY <1>4, <2>1
  <2>2. CASE Len(r.rows) # 0
    <3>1. Len(r.rows) \in DOMAIN r.rows /\ Len(r.rows) \in Nat
      BY <2>2, SoundParts
    <3>2. Len(r.rows) <= r.rows[Len(r.rows)].id /\ r.rows[Len(r.rows)].id <= Max(S) /\ r.rows[Len(r.rows)].id \in Nat
      BY <1>4, <3>1, SoundParts DEF IsSound, InOrder
    <3> HIDE DEF S
    <3> QED
      BY <1>4, <3>1, <3>2
  <2> QED
    BY <2>1, <2>2
<1>6. ASSUME NEW m \in Nat, \A i \in DOMAIN r.rows : r.rows[i].id < m, 0 < m
      PROVE  Max(S) < m
  <2>1. \A x \in S : x < m
    BY <1>6
  <2> QED
    BY <1>2, <2>1
<1>7. \A i \in DOMAIN r.rows : r.rows[i].id < 1 + Max(S)
  <2> HIDE DEF S
  <2> QED
    BY <1>4, SoundParts
<1> HIDE DEF S
<1>8. \A m \in Nat : (\A i \in DOMAIN r.rows : r.rows[i].id < m) /\ 0 < m => NextId(r) <= m
  BY <1>3, <1>4, <1>6
<1> QED
  BY <1>3, <1>4, <1>5, <1>7, <1>8, SoundParts

\* The edit that is written: the row has the text, or there is a row more.
LEMMA WrittenIsSound ==
  ASSUME NEW r, IsSound(r)
  PROVE  /\ IsSound(Written(r)) /\ Written(r).edit = "adEditNone"
         /\ Written(r).open = r.open /\ Written(r).counted = r.counted
         /\ r.edit # "adEditAdd" =>
              /\ Written(r).pos = r.pos /\ Written(r).gone = r.gone /\ Len(Written(r).rows) = Len(r.rows)
              /\ r.edit = "adEditNone" => Written(r).rows = r.rows
<1>0. r \in RecordSets /\ Empty \in Texts
  BY RowsAssumption DEF IsSound
<1>1. CASE r.edit = "adEditNone"
  <2>1. Written(r) = [r EXCEPT !.edit = "adEditNone", !.pending = Empty]
    BY <1>1 DEF Written
  <2> QED
    BY <1>0, <1>1, <2>1 DEF IsSound, RecordSets, EditModes
<1>2. CASE r.edit = "adEditInProgress"
  <2> DEFINE x == [r.rows[r.pos] EXCEPT !.val = r.pending]
             rows == [r.rows EXCEPT ![r.pos] = x]
  <2>1. Written(r) = [[r EXCEPT !.rows = rows] EXCEPT !.edit = "adEditNone", !.pending = Empty]
    BY <1>2 DEF Written
  <2>2. r.pos \in 1 .. Len(r.rows) /\ ~r.gone
    BY <1>2, SoundParts DEF IsSound
  <2>3. x \in Row /\ x.id = r.rows[r.pos].id
    BY <2>2, SoundParts DEF Row
  <2> HIDE DEF x
  <2>4. /\ rows \in Seq(Row) /\ Len(rows) = Len(r.rows)
        /\ \A i \in 1 .. Len(r.rows) : rows[i] = IF i = r.pos THEN x ELSE r.rows[i]
    BY <2>2, <2>3, SoundParts, ExceptSeq
  <2> HIDE DEF rows
  <2>5. InOrder(rows)
    <3>1. DOMAIN rows = DOMAIN r.rows /\ \A i \in DOMAIN rows : rows[i].id = r.rows[i].id
      BY <2>3, <2>4, SoundParts
    <3> QED
      BY <3>1 DEF IsSound, InOrder
  <2>6. Written(r) \in RecordSets
    BY <1>0, <2>1, <2>4 DEF RecordSets, EditModes
  <2>7. /\ Written(r).rows = rows /\ Written(r).edit = "adEditNone" /\ Written(r).open = r.open
        /\ Written(r).counted = r.counted /\ Written(r).pos = r.pos /\ Written(r).gone = r.gone
    BY <1>0, <2>1 DEF RecordSets
  <2>8. r.pos <= Len(rows) + 1
    BY <2>4 DEF IsSound
  <2> QED
    BY <1>2, <2>4, <2>5, <2>6, <2>7, <2>8 DEF IsSound
<1>3. CASE r.edit = "adEditAdd"
  <2> DEFINE x == [id |-> NextId(r), val |-> r.pending]
             rows == Append(r.rows, x)
  <2>1. Written(r) = [[r EXCEPT !.rows = rows, !.pos = Len(r.rows) + 1, !.gone = FALSE]
                      EXCEPT !.edit = "adEditNone", !.pending = Empty]
    BY <1>3 DEF Written
  <2>2. NextId(r) \in 1 .. MaxRows
    BY <1>3, NextIdIsNew, RowsAssumption DEF IsSound
  <2>3. x \in Row
    BY <2>2, SoundParts DEF Row
  <2> HIDE DEF x
  <2>4. /\ rows \in Seq(Row) /\ Len(rows) = Len(r.rows) + 1 /\ rows[Len(r.rows) + 1] = x
        /\ \A i \in 1 .. Len(r.rows) : rows[i] = r.rows[i]
    BY <2>3, SoundParts, AppendProperties
  <2> HIDE DEF rows
  <2>5. InOrder(rows)
    <3>1. x.id = NextId(r)
      BY DEF x
    <3>2. DOMAIN rows = 1 .. Len(r.rows) + 1 /\ DOMAIN r.rows = 1 .. Len(r.rows) /\ Len(r.rows) \in Nat
      BY <2>4, SoundParts
    <3>3. \A i \in DOMAIN rows : i \in DOMAIN r.rows \/ i = Len(r.rows) + 1
      BY <3>2
    <3>4. \A i \in DOMAIN rows : i <= rows[i].id
      BY <2>4, <3>1, <3>2, <3>3, NextIdIsNew DEF IsSound, InOrder
    <3>5. \A i, j \in DOMAIN rows : i < j => i \in DOMAIN r.rows
      BY <3>2
    <3>6. \A i, j \in DOMAIN rows : i < j => rows[i].id < rows[j].id
      BY <2>4, <3>1, <3>2, <3>3, <3>5, NextIdIsNew DEF IsSound, InOrder
    <3> QED
      BY <3>4, <3>6 DEF InOrder
  <2>6. Len(r.rows) + 1 \in 0 .. MaxRows + 1
    BY <2>4, <2>5, RoomForRows, SoundParts, RowsAssumption
  <2>7. Written(r) \in RecordSets
    BY <1>0, <2>1, <2>4, <2>6 DEF RecordSets, EditModes
  <2>8. /\ Written(r).rows = rows /\ Written(r).edit = "adEditNone" /\ Written(r).open = r.open
        /\ Written(r).counted = r.counted /\ Written(r).pos = Len(r.rows) + 1 /\ Written(r).gone = FALSE
    BY <1>0, <2>1 DEF RecordSets
  <2> QED
    BY <1>3, <2>4, <2>5, <2>7, <2>8, SoundParts DEF IsSound
<1> QED
  BY <1>1, <1>2, <1>3, SoundParts DEF EditModes

\* The rows that are there keep their places and their ids.
LEMMA WrittenKeepsIds ==
  ASSUME NEW r, IsSound(r)
  PROVE  /\ \A i \in DOMAIN r.rows : i \in DOMAIN Written(r).rows /\ Written(r).rows[i].id = r.rows[i].id
         /\ \A b : IndexOf(r, b) # {} => IndexOf(Written(r), b) # {}
<1>0. r \in RecordSets /\ DOMAIN r.rows = 1 .. Len(r.rows) /\ Len(r.rows) \in Nat /\ r.rows \in Seq(Row)
  BY SoundParts DEF IsSound
<1>1. \A i \in DOMAIN r.rows : i \in DOMAIN Written(r).rows /\ Written(r).rows[i].id = r.rows[i].id
  <2>1. CASE r.edit = "adEditNone"
    BY <2>1, WrittenIsSound
  <2>2. CASE r.edit = "adEditInProgress"
    <3> DEFINE rows == [r.rows EXCEPT ![r.pos].val = r.pending]
    <3>1. Written(r).rows = rows
      BY <1>0, <2>2 DEF Written, RecordSets
    <3>2. DOMAIN rows = DOMAIN r.rows /\ \A i \in DOMAIN r.rows : rows[i].id = r.rows[i].id
      BY <1>0 DEF Row
    <3> QED
      BY <3>1, <3>2
  <2>3. CASE r.edit = "adEditAdd"
    <3> DEFINE x == [id |-> NextId(r), val |-> r.pending]
               rows == Append(r.rows, x)
    <3>1. Written(r).rows = rows
      BY <1>0, <2>3 DEF Written, RecordSets
    <3>2. DOMAIN rows = 1 .. Len(r.rows) + 1 /\ \A i \in 1 .. Len(r.rows) : rows[i] = r.rows[i]
      BY <1>0
    <3> QED
      BY <1>0, <3>1, <3>2
  <2> QED
    BY <2>1, <2>2, <2>3, SoundParts DEF EditModes
<1> QED
  BY <1>1 DEF IndexOf

-----------------------------------------------------------------------------
(* Where the methods of the ADO record set go                              *)

\* What a method that moves may make of a record set: an error, before or after
\* the edit is saved, or the edit saved and the cursor elsewhere.
Went(r, outcome) ==
  \/ outcome = Error(r)
  \/ r.open /\ outcome = Error(Written(r))
  \/ r.open /\ \E p \in 0 .. Len(Written(r).rows) + 1 :
       outcome = Done_([Written(r) EXCEPT !.pos = p, !.gone = FALSE])

LEMMA ResultOf == \A r : Error(r).rs = r /\ ~Error(r).ok /\ Done_(r).rs = r /\ Done_(r).ok
BY DEF Error, Done_

LEMMA WentIsSound ==
  ASSUME NEW r, IsSound(r), NEW outcome, Went(r, outcome)
  PROVE  IsSound(outcome.rs) /\ outcome.rs.open = r.open /\ outcome.rs.counted = r.counted /\ outcome.ok \in BOOLEAN
<1>1. CASE outcome = Error(r)
  BY <1>1 DEF Error
<1>2. CASE outcome = Error(Written(r))
  BY <1>2, WrittenIsSound DEF Error
<1>3. ASSUME NEW p \in 0 .. Len(Written(r).rows) + 1,
             outcome = Done_([Written(r) EXCEPT !.pos = p, !.gone = FALSE])
      PROVE  IsSound(outcome.rs) /\ outcome.rs.open = r.open /\ outcome.rs.counted = r.counted /\ outcome.ok \in BOOLEAN
  <2>1. IsSound([Written(r) EXCEPT !.pos = p, !.gone = FALSE])
    BY WrittenIsSound, SoundElsewhere
  <2>2. Written(r) \in RecordSets /\ Written(r).open = r.open /\ Written(r).counted = r.counted
    BY WrittenIsSound DEF IsSound
  <2> QED
    BY <1>3, <2>1, <2>2 DEF Done_, RecordSets
<1> QED
  BY <1>1, <1>2, <1>3 DEF Went

\* The update that comes before a move.
LEMMA UpdateGoes ==
  ASSUME NEW r
  PROVE  \/ r.open /\ (r.edit = "adEditNone" \/ ~refused) /\ AdoUpdate(r) = Done_(Written(r))
         \/ ~(r.open /\ (r.edit = "adEditNone" \/ ~refused)) /\ AdoUpdate(r) = Error(r)
BY DEF AdoUpdate

\* A cursor put on a row, or beside the rows, of a record set that is saved.
At(s, p) == [s EXCEPT !.pos = p, !.gone = FALSE]

LEMMA AtIsThere ==
  ASSUME NEW s, IsSound(s), NEW p
  PROVE  /\ At(s, p).pos = p /\ At(s, p).gone = FALSE /\ At(s, p).rows = s.rows /\ At(s, p).open = s.open
         /\ At(s, p).counted = s.counted /\ At(s, p).edit = s.edit
<1>1. s \in RecordSets
  BY DEF IsSound
<1> QED
  BY <1>1 DEF RecordSets, At

LEMMA MoveFirstIs ==
  ASSUME NEW r
  PROVE  AdoMoveFirst(r) = LET u == AdoUpdate(r)
                           IN  IF u.ok /\ u.rs.rows # <<>> THEN Done_(At(u.rs, 1)) ELSE Error(u.rs)
BY DEF AdoMoveFirst, AdoGo, At

LEMMA MoveLastIs ==
  ASSUME NEW r
  PROVE  AdoMoveLast(r) = LET u == AdoUpdate(r)
                          IN  IF u.ok /\ u.rs.counted /\ u.rs.rows # <<>> THEN Done_(At(u.rs, Len(u.rs.rows)))
                              ELSE Error(u.rs)
BY DEF AdoMoveLast, AdoGo, At

LEMMA MoveNextIs ==
  ASSUME NEW r
  PROVE  AdoMoveNext(r) = LET u == AdoUpdate(r)
                          IN  IF u.ok /\ ~adoEOF(u.rs)
                              THEN Done_(At(u.rs, IF u.rs.gone THEN u.rs.pos ELSE u.rs.pos + 1)) ELSE Error(u.rs)
BY DEF AdoMoveNext, AdoGo, At

LEMMA MovePreviousIs ==
  ASSUME NEW r
  PROVE  AdoMovePrevious(r) = LET u == AdoUpdate(r)
                              IN  IF u.ok /\ u.rs.counted /\ ~adoBOF(u.rs)
                                  THEN Done_(At(u.rs, u.rs.pos - 1)) ELSE Error(u.rs)
BY DEF AdoMovePrevious, AdoGo, At

\* The place n rows on, or the end beyond.
Jump(s, n) == Max({0, Min({Len(s.rows) + 1, s.pos + n})})

LEMMA JumpIsThere ==
  ASSUME NEW s, IsSound(s), NEW n \in Int
  PROVE  /\ Jump(s, n) \in 0 .. Len(s.rows) + 1
         /\ s.pos + n \in 0 .. Len(s.rows) + 1 => Jump(s, n) = s.pos + n
<1>1. Len(s.rows) \in Nat /\ s.pos \in Nat
  BY SoundParts
<1>2. Min({Len(s.rows) + 1, s.pos + n}) = IF Len(s.rows) + 1 <= s.pos + n THEN Len(s.rows) + 1 ELSE s.pos + n
  BY <1>1, MinOfTwo
<1>3. Min({Len(s.rows) + 1, s.pos + n}) \in Int
  BY <1>1, <1>2
<1>4. Jump(s, n) = IF 0 >= Min({Len(s.rows) + 1, s.pos + n}) THEN 0 ELSE Min({Len(s.rows) + 1, s.pos + n})
  <2> DEFINE m == Min({Len(s.rows) + 1, s.pos + n})
  <2>1. Jump(s, n) = Max({0, m})
    BY DEF Jump
  <2>2. m \in Int
    BY <1>3
  <2> HIDE DEF m
  <2>3. Jump(s, n) = IF 0 >= m THEN 0 ELSE m
    BY <2>1, <2>2, MaxOfTwo
  <2> QED
    BY <2>3 DEF m
<1> QED
  BY <1>1, <1>2, <1>4

LEMMA MoveIs ==
  ASSUME NEW r, NEW n
  PROVE  AdoMove(r, n) = LET u == AdoUpdate(r)
                         IN  IF /\ u.ok
                                /\ n < 0 => u.rs.counted /\ ~adoBOF(u.rs)
                                /\ n > 0 => ~adoEOF(u.rs)
                             THEN Done_(At(u.rs, Jump(u.rs, n))) ELSE Error(u.rs)
BY DEF AdoMove, AdoGo, At, Jump

\* A match, or the end beyond; and no match is nearer.
LEMMA MatchIsThere ==
  ASSUME NEW s, IsSound(s), NEW from \in Int, NEW text, NEW direction
  PROVE  LET m == Match(s, from, text, direction)
             Matches(i) == i \in DOMAIN s.rows /\ s.rows[i].val = text
         IN  /\ m \in 0 .. Len(s.rows) + 1
             /\ direction = "adSearchForward" =>
                  /\ m = Len(s.rows) + 1 \/ (Matches(m) /\ from <= m)
                  /\ \A i \in DOMAIN s.rows : Matches(i) /\ from <= i => m <= i
             /\ direction # "adSearchForward" =>
                  /\ m = 0 \/ (Matches(m) /\ m <= from)
                  /\ \A i \in DOMAIN s.rows : Matches(i) /\ i <= from => i <= m
<1>0. Len(s.rows) \in Nat /\ DOMAIN s.rows = 1 .. Len(s.rows)
  BY SoundParts
<1>1. CASE direction = "adSearchForward"
  <2> DEFINE S == {Len(s.rows) + 1} \union {i \in DOMAIN s.rows : i >= from /\ s.rows[i].val = text}
  <2>1. S \in SUBSET Nat /\ S # {}
    BY <1>0
  <2>2. Min(S) \in S /\ \A x \in S : Min(S) <= x
    <3> HIDE DEF S
    <3> QED
      BY <2>1, MinIsLeast
  <2>3. Match(s, from, text, direction) = Min(S)
    BY <1>1 DEF Match
  <2>4. /\ Min(S) \in 0 .. Len(s.rows) + 1
        /\ Min(S) = Len(s.rows) + 1 \/ (Min(S) \in DOMAIN s.rows /\ s.rows[Min(S)].val = text /\ from <= Min(S))
    BY <1>0, <2>2
  <2>5. \A i \in DOMAIN s.rows : s.rows[i].val = text /\ from <= i => Min(S) <= i
    BY <1>0, <2>2
  <2> HIDE DEF S
  <2> QED
    BY <1>1, <2>3, <2>4, <2>5
<1>2. CASE direction # "adSearchForward"
  <2> DEFINE S == {0} \union {i \in DOMAIN s.rows : i <= from /\ s.rows[i].val = text}
  <2>1. S \in SUBSET Nat /\ S # {} /\ \A x \in S : x <= Len(s.rows)
    BY <1>0
  <2>2. Max(S) \in S /\ \A x \in S : x <= Max(S)
    <3> HIDE DEF S
    <3> QED
      BY <1>0, <2>1, MaxIsGreatest
  <2>3. Match(s, from, text, direction) = Max(S)
    BY <1>2 DEF Match
  <2> QED
    BY <1>0, <1>2, <2>2, <2>3
<1> QED
  BY <1>1, <1>2

LEMMA FindIs ==
  ASSUME NEW r, NEW text, NEW direction
  PROVE  AdoFind(r, text, direction) =
           LET u == AdoUpdate(r)
               from == IF u.rs.gone /\ direction = "adSearchBackward" THEN u.rs.pos - 1 ELSE u.rs.pos
           IN  IF /\ u.ok /\ ~adoBOF(u.rs) /\ ~adoEOF(u.rs)
                  /\ direction = "adSearchBackward" => u.rs.counted
               THEN Done_(At(u.rs, Match(u.rs, from, text, direction))) ELSE Error(u.rs)
BY DEF AdoFind, AdoGo, At

LEMMA FindFromIs ==
  ASSUME NEW r, NEW text, NEW direction, NEW bookmark
  PROVE  AdoFindFrom(r, text, direction, bookmark) =
           LET u == AdoUpdate(r)
               step == IF direction = "adSearchForward" THEN 1 ELSE -1
           IN  IF u.ok /\ u.rs.counted /\ IndexOf(u.rs, bookmark) # {}
               THEN Done_(At(u.rs, Match(u.rs, Max(IndexOf(u.rs, bookmark)) + step, text, direction)))
               ELSE Error(u.rs)
BY DEF AdoFindFrom, AdoGo, At

\* A bookmark is of one row.
LEMMA BookmarkOfOne ==
  ASSUME NEW s, IsSound(s), NEW b, IndexOf(s, b) # {}
  PROVE  /\ IndexOf(s, b) = {Max(IndexOf(s, b))} /\ Max(IndexOf(s, b)) \in DOMAIN s.rows
         /\ s.rows[Max(IndexOf(s, b))].id = b /\ Max(IndexOf(s, b)) \in 1 .. Len(s.rows)
<1>1. PICK i \in DOMAIN s.rows : s.rows[i].id = b
  BY DEF IndexOf
<1>2. \A j \in DOMAIN s.rows : s.rows[j].id = b => j = i
  <2> SUFFICES ASSUME NEW j \in DOMAIN s.rows, s.rows[j].id = b, j # i
               PROVE  FALSE
    OBVIOUS
  <2>1. i \in Nat /\ j \in Nat /\ s.rows[i].id \in Nat
    BY SoundParts
  <2>2. i < j \/ j < i
    BY <2>1
  <2> QED
    BY <1>1, <2>1, <2>2 DEF IsSound, InOrder
<1>3. IndexOf(s, b) = {i}
  BY <1>1, <1>2 DEF IndexOf
<1>4. i \in Int /\ i \in 1 .. Len(s.rows)
  BY SoundParts
<1> QED
  BY <1>1, <1>3, <1>4, MaxOfOne

\* Every one of them goes the same way.
LEMMA GoesOrNot ==
  ASSUME NEW r, IsSound(r), NEW outcome, NEW p,
         LET u == AdoUpdate(r)
         IN  \/ outcome = Error(u.rs)
             \/ u.ok /\ p \in 0 .. Len(u.rs.rows) + 1 /\ outcome = Done_(At(u.rs, p))
  PROVE  Went(r, outcome)
<1>1. CASE r.open /\ AdoUpdate(r) = Done_(Written(r))
  BY <1>1, ResultOf DEF Went, At
<1>2. CASE AdoUpdate(r) = Error(r)
  BY <1>2, ResultOf DEF Went
<1> QED
  BY <1>1, <1>2, UpdateGoes

\* The record set that an update leaves is sound, and saved if it did not fail.
LEMMA UpdateIsSound ==
  ASSUME NEW r, IsSound(r)
  PROVE  /\ IsSound(AdoUpdate(r).rs) /\ AdoUpdate(r).ok \in BOOLEAN
         /\ AdoUpdate(r).rs.open = r.open /\ AdoUpdate(r).rs.counted = r.counted
         /\ AdoUpdate(r).ok => AdoUpdate(r).rs = Written(r) /\ r.open
         /\ ~AdoUpdate(r).ok => AdoUpdate(r).rs = r
<1>1. CASE r.open /\ AdoUpdate(r) = Done_(Written(r))
  <2>1. AdoUpdate(r).ok /\ AdoUpdate(r).rs = Written(r) /\ AdoUpdate(r).ok = TRUE
    BY <1>1 DEF Done_
  <2> QED
    BY <1>1, <2>1, WrittenIsSound
<1>2. CASE AdoUpdate(r) = Error(r)
  <2>1. AdoUpdate(r).ok = FALSE /\ AdoUpdate(r).rs = r
    BY <1>2 DEF Error
  <2> QED
    BY <1>2, <2>1
<1> QED
  BY <1>1, <1>2, UpdateGoes

LEMMA MovesGo ==
  ASSUME NEW r, IsSound(r)
  PROVE  /\ Went(r, AdoMoveFirst(r)) /\ Went(r, AdoMoveLast(r))
         /\ Went(r, AdoMoveNext(r)) /\ Went(r, AdoMovePrevious(r))
<1> DEFINE u == AdoUpdate(r)
<1>0. IsSound(u.rs) /\ u.ok \in BOOLEAN
  BY UpdateIsSound
<1>1. Len(u.rs.rows) \in Nat /\ u.rs.pos \in 0 .. Len(u.rs.rows) + 1
  BY <1>0, SoundParts
<1>2. Went(r, AdoMoveFirst(r))
  <2>1. 1 \in 0 .. Len(u.rs.rows) + 1
    BY <1>1
  <2> HIDE DEF u
  <2> QED
    BY <2>1, MoveFirstIs, GoesOrNot DEF u
<1>3. Went(r, AdoMoveLast(r))
  <2>1. Len(u.rs.rows) \in 0 .. Len(u.rs.rows) + 1
    BY <1>1
  <2> HIDE DEF u
  <2> QED
    BY <2>1, MoveLastIs, GoesOrNot DEF u
<1>4. Went(r, AdoMoveNext(r))
  <2>1. u.ok /\ ~adoEOF(u.rs) => (IF u.rs.gone THEN u.rs.pos ELSE u.rs.pos + 1) \in 0 .. Len(u.rs.rows) + 1
    <3>1. u.ok => u.rs.edit = "adEditNone"
      BY UpdateIsSound, WrittenIsSound
    <3> QED
      BY <1>1, <3>1 DEF adoEOF
  <2> HIDE DEF u
  <2> QED
    BY <2>1, MoveNextIs, GoesOrNot DEF u
<1>5. Went(r, AdoMovePrevious(r))
  <2>1. u.ok /\ ~adoBOF(u.rs) => u.rs.pos - 1 \in 0 .. Len(u.rs.rows) + 1
    <3>1. u.ok => u.rs.edit = "adEditNone"
      BY UpdateIsSound, WrittenIsSound
    <3>2. u.rs.pos = 0 => ~u.rs.gone
      BY <1>0 DEF IsSound
    <3> QED
      BY <1>1, <3>1, <3>2 DEF adoBOF
  <2> HIDE DEF u
  <2> QED
    BY <2>1, MovePreviousIs, GoesOrNot DEF u
<1> QED
  BY <1>2, <1>3, <1>4, <1>5

LEMMA MoveGoes ==
  ASSUME NEW r, IsSound(r), NEW n \in Int
  PROVE  Went(r, AdoMove(r, n))
<1> DEFINE u == AdoUpdate(r)
           p == Jump(u.rs, n)
<1>1. p \in 0 .. Len(u.rs.rows) + 1
  BY UpdateIsSound, JumpIsThere
<1>2. AdoMove(r, n) = Error(u.rs) \/ (u.ok /\ AdoMove(r, n) = Done_(At(u.rs, p)))
  BY MoveIs
<1> HIDE DEF p
<1> QED
  BY <1>1, <1>2, GoesOrNot

LEMMA FindGoes ==
  ASSUME NEW r, IsSound(r), NEW text, NEW direction
  PROVE  Went(r, AdoFind(r, text, direction))
<1> DEFINE u == AdoUpdate(r)
           from == IF u.rs.gone /\ direction = "adSearchBackward" THEN u.rs.pos - 1 ELSE u.rs.pos
           p == Match(u.rs, from, text, direction)
<1>1. from \in Int
  BY UpdateIsSound, SoundParts
<1>2. AdoFind(r, text, direction) = Error(u.rs) \/ (u.ok /\ AdoFind(r, text, direction) = Done_(At(u.rs, p)))
  BY FindIs
<1> HIDE DEF from
<1>3. p \in 0 .. Len(u.rs.rows) + 1
  BY <1>1, UpdateIsSound, MatchIsThere
<1> HIDE DEF p
<1> QED
  BY <1>2, <1>3, GoesOrNot

LEMMA FindFromGoes ==
  ASSUME NEW r, IsSound(r), NEW text, NEW direction, NEW bookmark
  PROVE  Went(r, AdoFindFrom(r, text, direction, bookmark))
<1> DEFINE u == AdoUpdate(r)
           from == Max(IndexOf(u.rs, bookmark)) + IF direction = "adSearchForward" THEN 1 ELSE -1
           p == Match(u.rs, from, text, direction)
<1>1. CASE u.ok /\ u.rs.counted /\ IndexOf(u.rs, bookmark) # {}
  <2>1. from \in Int
    BY <1>1, UpdateIsSound, BookmarkOfOne
  <2>2. AdoFindFrom(r, text, direction, bookmark) = Done_(At(u.rs, p))
    BY <1>1, FindFromIs
  <2> HIDE DEF from
  <2>3. p \in 0 .. Len(u.rs.rows) + 1
    BY <2>1, UpdateIsSound, MatchIsThere
  <2> HIDE DEF p
  <2> QED
    BY <1>1, <2>2, <2>3, GoesOrNot
<1>2. CASE ~(u.ok /\ u.rs.counted /\ IndexOf(u.rs, bookmark) # {})
  <2>1. AdoFindFrom(r, text, direction, bookmark) = Error(u.rs)
    BY <1>2, FindFromIs
  <2> QED
    BY <2>1, GoesOrNot
<1> QED
  BY <1>1, <1>2

\* SetAbsolutePosition.
LEMMA PositionGoes ==
  ASSUME NEW r, IsSound(r), NEW n, NEW outcome,
         outcome = LET u == AdoUpdate(r)
                  IN  IF u.ok /\ n \in DOMAIN u.rs.rows THEN Done_(At(u.rs, n)) ELSE Error(u.rs)
  PROVE  Went(r, outcome)
<1> DEFINE u == AdoUpdate(r)
<1>1. outcome = Error(u.rs) \/ (u.ok /\ n \in DOMAIN u.rs.rows /\ outcome = Done_(At(u.rs, n)))
  OBVIOUS
<1>2. n \in DOMAIN u.rs.rows => n \in 0 .. Len(u.rs.rows) + 1
  BY UpdateIsSound, SoundParts
<1> QED
  BY <1>1, <1>2, GoesOrNot

\* SetBookmark.
LEMMA BookmarkGoes ==
  ASSUME NEW r, IsSound(r), NEW b, IndexOf(r, b) # {}, NEW outcome,
         outcome = LET u == AdoUpdate(r)
                  IN  IF u.ok THEN Done_(At(u.rs, Max(IndexOf(u.rs, b)))) ELSE Error(u.rs)
  PROVE  Went(r, outcome)
<1> DEFINE u == AdoUpdate(r)
           p == Max(IndexOf(u.rs, b))
<1>1. outcome = IF u.ok THEN Done_(At(u.rs, p)) ELSE Error(u.rs)
  OBVIOUS
<1>2. IndexOf(u.rs, b) # {}
  BY UpdateIsSound, WrittenKeepsIds
<1>3. p \in 0 .. Len(u.rs.rows) + 1
  BY <1>2, UpdateIsSound, BookmarkOfOne, SoundParts
<1> HIDE DEF p
<1> QED
  BY <1>1, <1>3, GoesOrNot

-----------------------------------------------------------------------------
(* The other methods keep a record set sound                               *)

LEMMA DiscardedIsSound ==
  ASSUME NEW r, IsSound(r)
  PROVE  IsSound(Discarded(r)) /\ Discarded(r).rows = r.rows /\ Discarded(r).open = r.open /\ Discarded(r).counted = r.counted
<1> DEFINE q == Discarded(r)
<1>1. /\ q \in RecordSets /\ q.rows = r.rows /\ q.pos = r.pos /\ q.gone = r.gone /\ q.edit = "adEditNone"
      /\ q.open = r.open /\ q.counted = r.counted
  BY RowsAssumption DEF IsSound, RecordSets, Discarded, EditModes
<1> HIDE DEF q
<1> QED
  BY <1>1 DEF IsSound, q

LEMMA CancelIsSound ==
  ASSUME NEW r, IsSound(r)
  PROVE  /\ IsSound(CancelUpdate(r)) /\ CancelUpdate(r).rows = r.rows /\ CancelUpdate(r).open = r.open
         /\ CancelUpdate(r).counted = r.counted
BY DiscardedIsSound DEF CancelUpdate

LEMMA LoadedIsSound ==
  ASSUME NEW c \in Seq(Texts), Len(c) <= MaxRows, NEW counted \in BOOLEAN
  PROVE  IsSound(Loaded(c, counted))
<1> DEFINE rows == [i \in 1 .. Len(c) |-> [id |-> i, val |-> c[i]]]
<1>1. Len(c) \in Nat /\ MaxRows \in Nat /\ Empty \in Texts
  BY RowsAssumption
<1>2. \A i \in 1 .. Len(c) : [id |-> i, val |-> c[i]] \in Row
  BY <1>1 DEF Row
<1>3. rows \in Seq(Row) /\ Len(rows) = Len(c) /\ DOMAIN rows = 1 .. Len(c) /\ \A i \in DOMAIN rows : rows[i].id = i
  BY <1>1, <1>2
<1> HIDE DEF rows
<1>4. Loaded(c, counted) = [open |-> TRUE, counted |-> counted, rows |-> rows, pos |-> 1, gone |-> FALSE,
                            edit |-> "adEditNone", pending |-> Empty]
  BY DEF Loaded, rows
<1>5. InOrder(rows)
  BY <1>3 DEF InOrder
<1> QED
  BY <1>1, <1>3, <1>4, <1>5 DEF IsSound, RecordSets, EditModes

LEMMA ClosedIsSound == IsSound(Closed) /\ ~Closed.open
<1> DEFINE q == Loaded(<<>>, TRUE)
<1>1. IsSound(q)
  <2>1. <<>> \in Seq(Texts) /\ Len(<<>>) <= MaxRows /\ TRUE \in BOOLEAN
    BY RowsAssumption
  <2> QED
    BY <2>1, LoadedIsSound
<1>2. q \in RecordSets /\ q.edit = "adEditNone" /\ ~q.gone
  BY <1>1 DEF IsSound, Loaded
<1>3. Closed = [q EXCEPT !.open = FALSE]
  BY DEF Closed
<1> HIDE DEF q
<1>4. /\ Closed \in RecordSets /\ Closed.rows = q.rows /\ Closed.pos = q.pos /\ Closed.gone = q.gone
      /\ Closed.edit = q.edit /\ Closed.open = FALSE
  BY <1>2, <1>3 DEF RecordSets
<1> QED
  BY <1>1, <1>2, <1>4 DEF IsSound

LEMMA CloseSetIsSound ==
  ASSUME NEW r, IsSound(r)
  PROVE  IsSound(CloseSet(r))
<1>1. \A k : AdoClose(k).rs = Closed \/ AdoClose(k).rs = k
  BY ResultOf DEF AdoClose
<1> QED
  BY <1>1, ClosedIsSound, CancelIsSound DEF CloseSet

LEMMA AddNewIsSound ==
  ASSUME NEW r, IsSound(r)
  PROVE  IsSound(AdoAddNew(r).rs) /\ AdoAddNew(r).rs.open = r.open /\ AdoAddNew(r).rs.counted = r.counted
<1> DEFINE u == AdoUpdate(r)
           q == [u.rs EXCEPT !.edit = "adEditAdd"]
<1>1. CASE u.ok /\ NextId(u.rs) <= MaxRows
  <2>1. AdoAddNew(r).rs = q
    BY <1>1 DEF AdoAddNew, Done_
  <2>2. IsSound(u.rs) /\ u.rs.open /\ u.rs \in RecordSets /\ u.rs.open = r.open /\ u.rs.counted = r.counted
    BY <1>1, UpdateIsSound DEF IsSound
  <2>3. /\ q \in RecordSets /\ q.rows = u.rs.rows /\ q.pos = u.rs.pos /\ q.gone = u.rs.gone /\ q.edit = "adEditAdd"
        /\ q.open = u.rs.open /\ q.counted = u.rs.counted
    BY <2>2 DEF RecordSets, EditModes
  <2>4. 0 < MaxRows /\ \A i \in DOMAIN u.rs.rows : u.rs.rows[i].id < MaxRows
    <3>1. \A i \in DOMAIN u.rs.rows : u.rs.rows[i].id \in Nat /\ u.rs.rows[i].id < NextId(u.rs)
      BY <2>2, NextIdIsNew, SoundParts
    <3>2. NextId(u.rs) \in Nat /\ 1 <= NextId(u.rs)
      BY <2>2, NextIdIsNew
    <3> QED
      BY <1>1, <3>1, <3>2, RowsAssumption
  <2> HIDE DEF q, u
  <2> QED
    BY <2>1, <2>2, <2>3, <2>4 DEF IsSound
<1>2. CASE ~(u.ok /\ NextId(u.rs) <= MaxRows)
  BY <1>2, UpdateIsSound, ResultOf DEF AdoAddNew
<1> QED
  BY <1>1, <1>2

LEMMA PutIsSound ==
  ASSUME NEW r, IsSound(r), NEW text \in Texts
  PROVE  IsSound(AdoPutCollect(r, text).rs) /\ AdoPutCollect(r, text).rs.open = r.open /\ AdoPutCollect(r, text).rs.counted = r.counted
<1>1. CASE ~r.open \/ ~OnRow(r)
  BY <1>1, ResultOf DEF AdoPutCollect
<1>2. CASE r.open /\ OnRow(r)
  <2> DEFINE q == [r EXCEPT !.pending = text, !.edit = IF @ = "adEditNone" THEN "adEditInProgress" ELSE @]
  <2>1. AdoPutCollect(r, text).rs = q
    BY <1>2, ResultOf DEF AdoPutCollect
  <2>2. /\ q \in RecordSets /\ q.rows = r.rows /\ q.pos = r.pos /\ q.gone = r.gone /\ q.open = r.open
        /\ q.counted = r.counted
        /\ q.edit = IF r.edit = "adEditNone" THEN "adEditInProgress" ELSE r.edit
    BY DEF IsSound, RecordSets, EditModes
  <2>3. r.edit = "adEditNone" => ~r.gone /\ r.pos \in DOMAIN r.rows
    BY <1>2, SoundParts DEF OnRow
  <2> HIDE DEF q
  <2> QED
    BY <1>2, <2>1, <2>2, <2>3 DEF IsSound
<1> QED
  BY <1>1, <1>2

LEMMA DeleteIsSound ==
  ASSUME NEW r, IsSound(r)
  PROVE  IsSound(AdoDelete(r).rs) /\ AdoDelete(r).rs.open = r.open /\ AdoDelete(r).rs.counted = r.counted
<1>1. CASE ~r.open \/ r.edit # "adEditNone" \/ ~OnRow(r) \/ refused
  BY <1>1, ResultOf DEF AdoDelete
<1>2. CASE ~(~r.open \/ r.edit # "adEditNone" \/ ~OnRow(r) \/ refused)
  <2> DEFINE rows == RemoveAt(r.rows, r.pos)
             q == [r EXCEPT !.rows = rows, !.gone = TRUE]
             n == Len(r.rows)
             p == r.pos
  <2>1. AdoDelete(r).rs = q
    BY <1>2, ResultOf DEF AdoDelete
  <2>2. p \in 1 .. n /\ n \in Nat /\ r.edit = "adEditNone"
    BY <1>2, SoundParts DEF OnRow
  <2>3. /\ rows \in Seq(Row) /\ Len(rows) = n - 1 /\ DOMAIN rows = 1 .. n - 1
        /\ \A i \in 1 .. n - 1 : rows[i] = IF i < p THEN r.rows[i] ELSE r.rows[i + 1]
    <3> HIDE DEF n, p
    <3>1. SubSeq(r.rows, 1, p - 1) \in Seq(Row) /\ Len(SubSeq(r.rows, 1, p - 1)) = p - 1
          /\ \A i \in 1 .. p - 1 : SubSeq(r.rows, 1, p - 1)[i] = r.rows[i]
      <4>1. \A i \in 1 .. p - 1 : r.rows[i] \in Row
        BY <2>2, SoundParts DEF n
      <4>2. p \in Int /\ 1 \in Int /\ p - 1 \in Int /\ p >= 1
        BY <2>2
      <4>3. /\ SubSeq(r.rows, 1, p - 1) \in Seq(Row)
            /\ Len(SubSeq(r.rows, 1, p - 1)) = IF 1 <= p - 1 THEN (p - 1) - 1 + 1 ELSE 0
            /\ \A i \in 1 .. (p - 1) - 1 + 1 : SubSeq(r.rows, 1, p - 1)[i] = r.rows[1 + i - 1]
        BY <4>1, <4>2, SubSeqProperties
      <4>4. (p - 1) - 1 + 1 = p - 1 /\ (IF 1 <= p - 1 THEN (p - 1) - 1 + 1 ELSE 0) = p - 1
        BY <4>2
      <4>5. ASSUME NEW i \in 1 .. p - 1
            PROVE  SubSeq(r.rows, 1, p - 1)[i] = r.rows[i]
        <5>1. 1 + i - 1 = i
          BY <4>2
        <5> QED
          BY <4>3, <4>4, <5>1
      <4> QED
        BY <4>3, <4>4, <4>5
    <3>2. /\ SubSeq(r.rows, p + 1, n) \in Seq(Row) /\ Len(SubSeq(r.rows, p + 1, n)) = n - p
          /\ \A i \in 1 .. n - p : SubSeq(r.rows, p + 1, n)[i] = r.rows[p + i]
      <4>1. \A i \in p + 1 .. n : r.rows[i] \in Row
        BY <2>2, SoundParts DEF n
      <4>2. p \in Int /\ p + 1 \in Int /\ n \in Int /\ p <= n
        BY <2>2
      <4>3. /\ SubSeq(r.rows, p + 1, n) \in Seq(Row)
            /\ Len(SubSeq(r.rows, p + 1, n)) = IF p + 1 <= n THEN n - (p + 1) + 1 ELSE 0
            /\ \A i \in 1 .. n - (p + 1) + 1 : SubSeq(r.rows, p + 1, n)[i] = r.rows[(p + 1) + i - 1]
        BY <4>1, <4>2, SubSeqProperties
      <4>4. n - (p + 1) + 1 = n - p /\ (IF p + 1 <= n THEN n - (p + 1) + 1 ELSE 0) = n - p
        BY <4>2
      <4>5. ASSUME NEW i \in 1 .. n - p
            PROVE  SubSeq(r.rows, p + 1, n)[i] = r.rows[p + i]
        <5>1. (p + 1) + i - 1 = p + i
          BY <4>2
        <5> QED
          BY <4>3, <4>4, <5>1
      <4> QED
        BY <4>3, <4>4, <4>5
    <3>3. rows = SubSeq(r.rows, 1, p - 1) \o SubSeq(r.rows, p + 1, n)
      BY DEF RemoveAt, n, p
    <3>4. rows \in Seq(Row) /\ Len(rows) = (p - 1) + (n - p)
      BY <3>1, <3>2, <3>3, ConcatProperties
    <3>5. \A i \in 1 .. (p - 1) + (n - p) :
            rows[i] = IF i <= p - 1 THEN SubSeq(r.rows, 1, p - 1)[i]
                      ELSE SubSeq(r.rows, p + 1, n)[i - (p - 1)]
      <4> DEFINE a == SubSeq(r.rows, 1, p - 1)
                 z == SubSeq(r.rows, p + 1, n)
      <4>1. a \in Seq(Row) /\ Len(a) = p - 1 /\ z \in Seq(Row) /\ Len(z) = n - p /\ rows = a \o z
        BY <3>1, <3>2, <3>3
      <4> HIDE DEF a, z, rows
      <4>2. \A i \in 1 .. Len(a) + Len(z) : (a \o z)[i] = IF i <= Len(a) THEN a[i] ELSE z[i - Len(a)]
        BY <4>1, ConcatProperties
      <4>3. \A i \in 1 .. (p - 1) + (n - p) : rows[i] = IF i <= p - 1 THEN a[i] ELSE z[i - (p - 1)]
        BY <4>1, <4>2
      <4> QED
        BY <4>3 DEF a, z
    <3> HIDE DEF rows
    <3>6. ASSUME NEW i \in 1 .. n - 1
          PROVE  rows[i] = IF i < p THEN r.rows[i] ELSE r.rows[i + 1]
      <4>1. CASE i < p
        BY <2>2, <3>1, <3>5, <4>1
      <4>2. CASE ~(i < p)
        <5>1. i - (p - 1) \in 1 .. n - p /\ p + (i - (p - 1)) = i + 1 /\ i \in 1 .. (p - 1) + (n - p) /\ ~(i <= p - 1)
          BY <2>2, <4>2
        <5> QED
          BY <3>2, <3>5, <4>2, <5>1
      <4> QED
        BY <4>1, <4>2
    <3> QED
      BY <2>2, <3>4, <3>6
  <2> HIDE DEF rows
  <2>4. InOrder(rows)
    <3>1. \A i \in DOMAIN rows : IF i < p THEN i \in DOMAIN r.rows ELSE i + 1 \in DOMAIN r.rows
      BY <2>2, <2>3, SoundParts
    <3>2. \A i \in DOMAIN r.rows : r.rows[i].id \in Nat
      BY SoundParts
    <3>3. ASSUME NEW i \in DOMAIN rows
          PROVE  i <= rows[i].id
      BY <2>2, <2>3, <3>1, <3>2 DEF IsSound, InOrder
    <3>4. ASSUME NEW i \in DOMAIN rows, NEW j \in DOMAIN rows, i < j
          PROVE  rows[i].id < rows[j].id
      <4>1. rows[i] = (IF i < p THEN r.rows[i] ELSE r.rows[i + 1]) /\ rows[j] = IF j < p THEN r.rows[j] ELSE r.rows[j + 1]
        BY <2>3
      <4>2. i \in Nat /\ j \in Nat /\ i < j + 1 /\ i + 1 < j + 1 /\ p \in Nat
        BY <2>2, <2>3, <3>4
      <4> QED
        BY <3>1, <3>4, <4>1, <4>2 DEF IsSound, InOrder
    <3> QED
      BY <3>3, <3>4 DEF InOrder
  <2>5. /\ q \in RecordSets /\ q.rows = rows /\ q.pos = p /\ q.gone = TRUE /\ q.edit = "adEditNone"
        /\ q.open = r.open /\ q.counted = r.counted
    BY <2>2, <2>3 DEF IsSound, RecordSets
  <2>6. p <= Len(rows) + 1 /\ p > 0
    BY <2>2, <2>3
  <2> HIDE DEF q, p, n
  <2> QED
    BY <2>1, <2>4, <2>5, <2>6 DEF IsSound
<1> QED
  BY <1>1, <1>2

-----------------------------------------------------------------------------
(* The invariant                                                           *)

\* The calls that walk, with what they know.
PlaceOf == [pos : 0 .. MaxRows + 1, kept : BOOLEAN]
Seeks == [name : {"seek"}, value : Texts, back : BOOLEAN, read : Texts, skipped : BOOLEAN]
Counts == [name : {"count"}, count : Int, skipped : BOOLEAN]
Scans == [name : {"locate", "values"}, place : PlaceOf, locked : BOOLEAN, count : Int, values : Nat]
Walks == Seeks \cup Counts \cup Scans

FieldsAreTyped ==
  /\ m_SearchDirection \in Directions /\ m_varBookmark \in 0 .. MaxRows
  /\ last \in 0 .. MaxRows /\ refused \in BOOLEAN
  /\ op = Idle \/ op \in Walks

\* Of the row found last: it is there, and FindNext goes on from it.
FoundIsKept ==
  last # 0 => rs.open /\ rs.counted /\ m_varBookmark = last /\ IndexOf(rs, last) # {}

\* A walk that did not fail at once has saved the edit and is on its way.
OnItsWay == rs.open /\ rs.rows # <<>> /\ rs.edit = "adEditNone" /\ ~rs.gone

\* What lies behind a search has not the value.
SeekIsOnItsWay ==
  op.name = "seek" /\ ~op.skipped =>
    /\ OnItsWay
    /\ op.back =>
         rs.counted /\ rs.pos <= Len(rs.rows) /\ \A i \in DOMAIN rs.rows : rs.pos < i => rs.rows[i].val # op.value
    /\ ~op.back =>
         rs.pos >= 1 /\ \A i \in DOMAIN rs.rows : i < rs.pos => rs.rows[i].val # op.value

CountIsOnItsWay ==
  op.name = "count" /\ ~op.skipped => OnItsWay /\ rs.pos >= 1 /\ op.count = rs.pos - 1

\* A call that is to bring the cursor back knows how far it has gone, or, once
\* it is back, where to go back to; an edit is saved by its first move.
PlaceIsKnown ==
  op \in Scans /\ op.locked /\ op.place.kept =>
    /\ rs.open /\ rs.counted /\ ~rs.gone /\ op.place.pos <= Len(rs.rows) + 1
    /\ op.name = "values" => OnItsWay /\ op.count = op.place.pos - 1
    /\ op.name = "locate" =>
         /\ op.place.pos <= rs.pos /\ op.count = Len(rs.rows) - (rs.pos - op.place.pos)
         /\ rs.rows = <<>> => rs.pos = op.place.pos
         /\ rs.edit = "adEditNone" \/ (rs.edit = "adEditInProgress" /\ rs.pos = op.place.pos)

RsInv ==
  /\ IsSound(rs) /\ FieldsAreTyped /\ FoundIsKept
  /\ SeekIsOnItsWay /\ CountIsOnItsWay /\ PlaceIsKnown

LEMMA IdleIsNoWalk ==
  /\ Idle.name = "idle" /\ \A w \in Walks : w.name # "idle"
  /\ \A w \in Seeks : w.name = "seek" /\ w \notin Scans
  /\ \A w \in Counts : w.name = "count" /\ w \notin Scans
  /\ \A w \in Scans : w.name \in {"locate", "values"} /\ w \notin Seeks /\ w \notin Counts
BY DEF Idle, Walks, Seeks, Counts, Scans

\* Without a walk only the record set and what was found count.
LEMMA InvAtRest ==
  ASSUME IsSound(rs'), FieldsAreTyped', FoundIsKept', op' = Idle
  PROVE  RsInv'
<1>1. op'.name = "idle" /\ op' \notin Scans
  BY IdleIsNoWalk
<1> QED
  BY <1>1 DEF RsInv, SeekIsOnItsWay, CountIsOnItsWay, PlaceIsKnown

\* Rows that have not changed keep what was found.
LEMMA FoundStays ==
  ASSUME RsInv, IsSound(rs'), rs'.open = rs.open, rs'.counted = rs.counted, m_varBookmark' = m_varBookmark,
         last' = IF rs'.rows = rs.rows THEN last ELSE 0
  PROVE  FoundIsKept'
BY DEF RsInv, FoundIsKept, IndexOf

\* A call in one step.
LEMMA CallKeepsInv ==
  ASSUME RsInv, NEW r, Leave(r), UNCHANGED find, IsSound(r), r.open = rs.open, r.counted = rs.counted
  PROVE  RsInv'
<1>1. /\ rs' = r /\ op = Idle /\ op' = Idle /\ last' = IF r.rows = rs.rows THEN last ELSE 0
      /\ UNCHANGED <<refused, m_strFind, m_SearchDirection, m_varBookmark>>
  BY DEF Leave, find
<1>2. FieldsAreTyped'
  BY <1>1, RowsAssumption DEF RsInv, FieldsAreTyped
<1>3. FoundIsKept'
  BY <1>1, FoundStays
<1> QED
  BY <1>1, <1>2, <1>3, InvAtRest

LEMMA WentKeepsInv ==
  ASSUME RsInv, NEW outcome, Call(outcome), Went(rs, outcome)
  PROVE  RsInv'
<1>1. IsSound(outcome.rs) /\ outcome.rs.open = rs.open /\ outcome.rs.counted = rs.counted
  BY WentIsSound DEF RsInv
<1> QED
  BY <1>1, CallKeepsInv DEF Call

LEMMA EditsKeepInv ==
  ASSUME RsInv, Edits
  PROVE  RsInv'
<1>0. IsSound(rs)
  BY DEF RsInv
<1>1. CASE AddNew
  BY <1>0, <1>1, AddNewIsSound, CallKeepsInv DEF AddNew, Call
<1>2. CASE Update
  <2> DEFINE u == AdoUpdate(rs)
             r == IF u.ok THEN u.rs ELSE CancelUpdate(rs)
  <2>1. Leave(r) /\ UNCHANGED find
    BY <1>2 DEF Update, Call
  <2>2. IsSound(r) /\ r.open = rs.open /\ r.counted = rs.counted
    BY <1>0, UpdateIsSound, CancelIsSound
  <2> HIDE DEF r
  <2> QED
    BY <2>1, <2>2, CallKeepsInv
<1>3. CASE UpdateBatch
  BY <1>0, <1>3, UpdateIsSound, CallKeepsInv DEF UpdateBatch, Call
<1>4. CASE Cancels
  <2>1. Leave(CancelUpdate(rs)) /\ UNCHANGED find
    BY <1>4 DEF Cancels, Call
  <2> QED
    BY <1>0, <2>1, CancelIsSound, CallKeepsInv
<1>5. CASE Delete
  BY <1>0, <1>5, DeleteIsSound, CallKeepsInv DEF Delete, Call
<1>6. CASE Resync
  <2>1. Leave(Discarded(rs)) /\ UNCHANGED find
    BY <1>6 DEF Resync, Call
  <2> QED
    BY <1>0, <2>1, DiscardedIsSound, CallKeepsInv
<1>7. ASSUME NEW text \in Texts, PutCollect(text)
      PROVE  RsInv'
  BY <1>0, <1>7, PutIsSound, CallKeepsInv DEF PutCollect, Call
<1> QED
  BY <1>1, <1>2, <1>3, <1>4, <1>5, <1>6, <1>7 DEF Edits

LEMMA MovesKeepInv ==
  ASSUME RsInv, Moves
  PROVE  RsInv'
<1>0. IsSound(rs)
  BY DEF RsInv
<1>1. CASE MoveFirst \/ MoveLast \/ MoveNext \/ MovePrevious
  BY <1>0, <1>1, MovesGo, WentKeepsInv DEF MoveFirst, MoveLast, MoveNext, MovePrevious
<1>2. ASSUME NEW n \in Jumps, Move(n)
      PROVE  RsInv'
  BY <1>0, <1>2, MoveGoes, WentKeepsInv, RowsAssumption DEF Move
<1>3. ASSUME NEW n \in 1 .. MaxRows, SetAbsolutePosition(n)
      PROVE  RsInv'
  <2> DEFINE g == AdoGo(rs, LAMBDA s : n, LAMBDA s : n \in DOMAIN s.rows)
  <2>1. g = LET u == AdoUpdate(rs)
            IN  IF u.ok /\ n \in DOMAIN u.rs.rows THEN Done_(At(u.rs, n)) ELSE Error(u.rs)
    BY DEF AdoGo, At
  <2>2. Call(g)
    BY <1>3 DEF SetAbsolutePosition
  <2> HIDE DEF g
  <2> QED
    BY <1>0, <2>1, <2>2, PositionGoes, WentKeepsInv
<1> QED
  BY <1>1, <1>2, <1>3 DEF Moves

\* Another record set: what was found does not count any more.
LEMMA ReplacedKeepsInv ==
  ASSUME RsInv, NEW r, Replaced(r), IsSound(r)
  PROVE  RsInv'
<1>1. /\ rs' = r /\ op = Idle /\ op' = Idle /\ last' = 0
      /\ UNCHANGED <<refused, m_strFind, m_SearchDirection, m_varBookmark>>
  BY DEF Replaced, find
<1>2. FieldsAreTyped' /\ FoundIsKept'
  BY <1>1, RowsAssumption DEF RsInv, FieldsAreTyped, FoundIsKept
<1> QED
  BY <1>1, <1>2, InvAtRest

LEMMA LoadsKeepInv ==
  ASSUME RsInv, Loads
  PROVE  RsInv'
<1>0. IsSound(rs)
  BY DEF RsInv
<1>1. CASE Close \/ OpenFails
  BY <1>0, <1>1, CloseSetIsSound, ReplacedKeepsInv DEF Close, OpenFails
<1>2. rs.counted \in BOOLEAN
  BY <1>0 DEF IsSound, RecordSets
<1>3. ASSUME NEW c \in Contents, NEW counted \in BOOLEAN, Replaced(Loaded(c, counted))
      PROVE  RsInv'
  BY <1>3, LoadedIsSound, ReplacedKeepsInv, RowsAssumption
<1>4. TRUE \in BOOLEAN
  OBVIOUS
<1> QED
  BY <1>1, <1>2, <1>3, <1>4 DEF Loads, Requery, Load, Assign, Open

-----------------------------------------------------------------------------
(* Find and FindNext keep the place of what they found                     *)

\* A search that found something is on a row, whose bookmark it has.
LEMMA FoundIsThere ==
  ASSUME NEW r, IsSound(r), NEW f, Went(r, f), Found(f)
  PROVE  /\ f.rs.open /\ f.rs.pos \in DOMAIN f.rs.rows /\ f.rs.rows[f.rs.pos].id \in 1 .. MaxRows
         /\ Bookmarked(f.rs) = IF r.counted THEN f.rs.rows[f.rs.pos].id ELSE m_varBookmark
<1>1. f.ok
  BY DEF Found
<1>2. PICK p \in 0 .. Len(Written(r).rows) + 1 : r.open /\ f = Done_(At(Written(r), p))
  BY <1>1, ResultOf DEF Went, At
<1>3. f.rs = At(Written(r), p)
  BY <1>2, ResultOf
<1>4. /\ f.rs.open /\ f.rs.counted = r.counted /\ f.rs.edit = "adEditNone" /\ ~f.rs.gone /\ f.rs.pos = p
      /\ f.rs.rows = Written(r).rows /\ IsSound(f.rs)
  <2>1. /\ IsSound(Written(r)) /\ Written(r).edit = "adEditNone"
        /\ Written(r).open = r.open /\ Written(r).counted = r.counted
    BY WrittenIsSound
  <2>2. /\ f.rs.pos = p /\ f.rs.gone = FALSE /\ f.rs.rows = Written(r).rows /\ f.rs.open = Written(r).open
        /\ f.rs.counted = Written(r).counted /\ f.rs.edit = Written(r).edit
    <3> DEFINE w == Written(r)
               q == At(w, p)
    <3>1. IsSound(w)
      BY <2>1
    <3> HIDE DEF w
    <3>2. /\ q.pos = p /\ q.gone = FALSE /\ q.rows = w.rows /\ q.open = w.open
          /\ q.counted = w.counted /\ q.edit = w.edit
      BY <3>1, AtIsThere
    <3>3. f.rs = q
      BY <1>3 DEF w
    <3> HIDE DEF q
    <3> QED
      BY <3>2, <3>3 DEF w
  <2>3. IsSound(f.rs)
    BY WentIsSound
  <2> QED
    BY <1>2, <2>1, <2>2, <2>3
<1>5. ~adoEOF(f.rs) /\ ~adoBOF(f.rs)
  BY <1>4 DEF Found, IsEOF, IsBOF
<1>6. p \in DOMAIN f.rs.rows
  BY <1>4, <1>5, SoundParts DEF adoEOF, adoBOF
<1>7. f.rs.rows[p].id \in 1 .. MaxRows
  BY <1>4, <1>6, SoundParts DEF Row
<1> QED
  BY <1>4, <1>6, <1>7 DEF Bookmarked, IsOpen

LEMMA FindKeepsInv ==
  ASSUME RsInv, NEW text \in Texts, NEW direction \in Directions, Find(text, direction)
  PROVE  RsInv'
<1> DEFINE f == AdoFind(rs, text, direction)
<1>0. IsSound(rs) /\ Went(rs, f)
  BY FindGoes DEF RsInv
<1> HIDE DEF f
<1>1. /\ op = Idle /\ op' = Idle /\ rs' = f.rs /\ m_SearchDirection' \in Directions /\ refused' = refused
      /\ m_varBookmark' = IF Found(f) THEN Bookmarked(f.rs) ELSE m_varBookmark
      /\ last' = IF Found(f) /\ rs.counted THEN rs'.rows[rs'.pos].id
                 ELSE IF text = m_strFind /\ rs'.rows = rs.rows THEN last ELSE 0
  BY DEF Find, RsInv, FieldsAreTyped, f
<1>2. IsSound(rs') /\ rs'.open = rs.open /\ rs'.counted = rs.counted
  BY <1>0, <1>1, WentIsSound
<1>3. CASE Found(f) /\ rs.counted
  <2>1. /\ rs'.open /\ rs'.pos \in DOMAIN rs'.rows /\ rs'.rows[rs'.pos].id \in 1 .. MaxRows
        /\ m_varBookmark' = rs'.rows[rs'.pos].id
    BY <1>0, <1>1, <1>3, FoundIsThere
  <2>2. last' = rs'.rows[rs'.pos].id /\ rs'.pos \in IndexOf(rs', last')
    BY <1>1, <1>3, <2>1 DEF IndexOf
  <2>3. FieldsAreTyped'
    BY <1>1, <2>1, <2>2, RowsAssumption DEF RsInv, FieldsAreTyped
  <2>4. FoundIsKept'
    BY <1>2, <1>3, <2>1, <2>2 DEF FoundIsKept, IndexOf
  <2> QED
    BY <1>1, <1>2, <2>3, <2>4, InvAtRest
<1>4. CASE ~(Found(f) /\ rs.counted)
  <2>1. m_varBookmark' = m_varBookmark
    BY <1>0, <1>1, <1>4, FoundIsThere
  <2>2. last' = 0 \/ (last' = last /\ rs'.rows = rs.rows)
    BY <1>1, <1>4
  <2>3. FieldsAreTyped'
    BY <1>1, <2>1, <2>2, RowsAssumption DEF RsInv, FieldsAreTyped
  <2>4. FoundIsKept'
    BY <1>2, <2>1, <2>2 DEF RsInv, FoundIsKept, IndexOf
  <2> QED
    BY <1>1, <1>2, <2>3, <2>4, InvAtRest
<1> QED
  BY <1>3, <1>4

LEMMA FindNextKeepsInv ==
  ASSUME RsInv, FindNext
  PROVE  RsInv'
<1> DEFINE f == AdoFindFrom(rs, m_strFind, m_SearchDirection, m_varBookmark)
<1>0. IsSound(rs) /\ Went(rs, f)
  BY FindFromGoes DEF RsInv
<1> HIDE DEF f
<1>1. /\ op = Idle /\ op' = Idle /\ rs' = f.rs /\ m_SearchDirection' \in Directions /\ refused' = refused
      /\ m_varBookmark' = IF Found(f) THEN Bookmarked(f.rs) ELSE m_varBookmark
      /\ last' = IF rs'.rows # rs.rows THEN 0
                 ELSE IF Found(f) /\ last # 0 THEN rs'.rows[rs'.pos].id ELSE last
  BY DEF FindNext, RsInv, FieldsAreTyped, f
<1>2. IsSound(rs') /\ rs'.open = rs.open /\ rs'.counted = rs.counted
  BY <1>0, <1>1, WentIsSound
<1>3. CASE Found(f)
  <2>1. /\ rs'.open /\ rs'.pos \in DOMAIN rs'.rows /\ rs'.rows[rs'.pos].id \in 1 .. MaxRows
        /\ m_varBookmark' = IF rs.counted THEN rs'.rows[rs'.pos].id ELSE m_varBookmark
    BY <1>0, <1>1, <1>3, FoundIsThere
  <2>2. rs'.pos \in IndexOf(rs', rs'.rows[rs'.pos].id)
    BY <2>1 DEF IndexOf
  <2>3. FieldsAreTyped'
    BY <1>1, <2>1, RowsAssumption DEF RsInv, FieldsAreTyped
  <2>4. last' # 0 => last # 0 /\ last' = rs'.rows[rs'.pos].id
    BY <1>1, <1>3
  <2>5. FoundIsKept'
    BY <1>2, <2>1, <2>2, <2>4 DEF RsInv, FoundIsKept, IndexOf
  <2> QED
    BY <1>1, <1>2, <2>3, <2>5, InvAtRest
<1>4. CASE ~Found(f)
  <2>1. m_varBookmark' = m_varBookmark /\ last' = IF rs'.rows = rs.rows THEN last ELSE 0
    BY <1>1, <1>4
  <2>2. FieldsAreTyped'
    BY <1>1, <2>1, RowsAssumption DEF RsInv, FieldsAreTyped
  <2>3. FoundIsKept'
    BY <1>2, <2>1, FoundStays
  <2> QED
    BY <1>1, <1>2, <2>2, <2>3, InvAtRest
<1> QED
  BY <1>3, <1>4

LEMMA SearchesKeepInv ==
  ASSUME RsInv, Searches
  PROVE  RsInv'
<1>0. IsSound(rs)
  BY DEF RsInv
<1>1. CASE GetBookmark
  <2>1. /\ op = Idle /\ m_varBookmark' = Bookmarked(rs) /\ last' = 0
        /\ UNCHANGED <<rs, refused, m_SearchDirection, op>>
    BY <1>1 DEF GetBookmark
  <2>2. Bookmarked(rs) \in 0 .. MaxRows
    BY <1>0, SoundParts, RowsAssumption DEF Bookmarked, Row, RsInv, FieldsAreTyped
  <2>3. FieldsAreTyped' /\ FoundIsKept' /\ IsSound(rs')
    BY <1>0, <2>1, <2>2, RowsAssumption DEF RsInv, FieldsAreTyped, FoundIsKept
  <2> QED
    BY <2>1, <2>3, InvAtRest
<1>2. CASE SetBookmark
  <2> DEFINE b == m_varBookmark
             g == AdoGo(rs, LAMBDA s : Max(IndexOf(s, m_varBookmark)), LAMBDA s : TRUE)
  <2>1. g = LET u == AdoUpdate(rs)
            IN  IF u.ok THEN Done_(At(u.rs, Max(IndexOf(u.rs, b)))) ELSE Error(u.rs)
    BY DEF AdoGo, At
  <2>2. Call(g) /\ IndexOf(rs, b) # {}
    BY <1>2 DEF SetBookmark
  <2> HIDE DEF g
  <2>3. Went(rs, g)
    BY <1>0, <2>1, <2>2, BookmarkGoes
  <2> QED
    BY <2>2, <2>3, WentKeepsInv
<1> QED
  BY <1>1, <1>2, FindKeepsInv, FindNextKeepsInv DEF Searches

-----------------------------------------------------------------------------
(* The moves that the walks make                                           *)

LEMMA DoneAt ==
  ASSUME NEW s, IsSound(s), NEW p, NEW x, x = Done_(At(s, p))
  PROVE  /\ x.ok /\ x.rs.pos = p /\ ~x.rs.gone /\ x.rs.rows = s.rows /\ x.rs.open = s.open
         /\ x.rs.counted = s.counted /\ x.rs.edit = s.edit
<1>1. x.ok /\ x.rs = At(s, p)
  BY ResultOf
<1> DEFINE q == At(s, p)
<1>2. /\ q.pos = p /\ q.gone = FALSE /\ q.rows = s.rows /\ q.open = s.open
      /\ q.counted = s.counted /\ q.edit = s.edit
  BY AtIsThere
<1>3. x.rs = q
  BY <1>1
<1> HIDE DEF q
<1> QED
  BY <1>1, <1>2, <1>3

\* The next row, or the end after the last; a move that fails stays.
LEMMA NextIsNext ==
  ASSUME NEW r, IsSound(r), r.edit # "adEditAdd", ~r.gone
  PROVE  LET n == AdoMoveNext(r)
         IN  /\ IsSound(n.rs) /\ n.rs.open = r.open /\ n.rs.counted = r.counted /\ n.ok \in BOOLEAN
             /\ ~n.rs.gone /\ Len(n.rs.rows) = Len(r.rows)
             /\ r.edit = "adEditNone" => n.rs.rows = r.rows
             /\ n.ok => n.rs.pos = r.pos + 1 /\ n.rs.edit = "adEditNone" /\ r.open /\ r.rows # <<>>
             /\ ~n.ok => n.rs.pos = r.pos
             /\ r.open /\ r.edit = "adEditNone" /\ r.rows # <<>> /\ r.pos <= Len(r.rows) => n.ok
<1> DEFINE n == AdoMoveNext(r)
           u == AdoUpdate(r)
           w == Written(r)
<1>1. /\ IsSound(w) /\ w.edit = "adEditNone" /\ w.open = r.open /\ w.counted = r.counted
      /\ w.pos = r.pos /\ w.gone = r.gone /\ Len(w.rows) = Len(r.rows) /\ (r.edit = "adEditNone" => w.rows = r.rows)
  BY WrittenIsSound
<1>2. /\ IsSound(n.rs) /\ n.rs.open = r.open /\ n.rs.counted = r.counted /\ n.ok \in BOOLEAN
  BY MovesGo, WentIsSound
<1>3. (r.rows # <<>>) = (Len(r.rows) >= 1) /\ (w.rows # <<>>) = (Len(r.rows) >= 1)
      /\ r.pos \in Nat /\ Len(r.rows) \in Nat
  BY <1>1, SoundParts
<1>4. CASE u.ok /\ ~adoEOF(w)
  <2>1. u.rs = w /\ r.open
    BY <1>4, UpdateIsSound
  <2>2. n = Done_(At(w, r.pos + 1))
    BY <1>1, <1>4, <2>1, MoveNextIs
  <2> HIDE DEF w
  <2>3. /\ n.ok /\ n.rs.pos = r.pos + 1 /\ ~n.rs.gone /\ n.rs.rows = w.rows /\ n.rs.edit = "adEditNone"
    BY <1>1, <2>2, DoneAt
  <2>4. r.rows # <<>>
    BY <1>1, <1>3, <1>4 DEF adoEOF
  <2> HIDE DEF n, u
  <2> QED
    BY <1>1, <1>2, <2>1, <2>3, <2>4 DEF n
<1>5. CASE ~(u.ok /\ ~adoEOF(w))
  <2>1. ~n.ok /\ (n.rs = r \/ n.rs = w)
    BY <1>5, UpdateIsSound, MoveNextIs, ResultOf
  <2>2. ~(r.open /\ r.edit = "adEditNone" /\ r.rows # <<>> /\ r.pos <= Len(r.rows))
    <3>1. r.open /\ r.edit = "adEditNone" => u.ok
      BY UpdateGoes, ResultOf
    <3>2. r.rows # <<>> /\ r.pos <= Len(r.rows) => ~adoEOF(w)
      BY <1>1, <1>3 DEF adoEOF
    <3> QED
      BY <1>5, <3>1, <3>2
  <2> HIDE DEF n, u, w
  <2> QED
    BY <1>1, <1>2, <2>1, <2>2 DEF n
<1> QED
  BY <1>4, <1>5

\* The row before, or the end before the first.
LEMMA PreviousIsPrevious ==
  ASSUME NEW r, IsSound(r), r.open, r.counted, r.edit = "adEditNone", ~r.gone, r.rows # <<>>, r.pos # 0
  PROVE  LET b == AdoMovePrevious(r)
         IN  /\ b.ok /\ IsSound(b.rs) /\ b.rs.open = r.open /\ b.rs.counted = r.counted /\ ~b.rs.gone
             /\ b.rs.rows = r.rows /\ b.rs.edit = "adEditNone" /\ b.rs.pos = r.pos - 1
<1> DEFINE b == AdoMovePrevious(r)
           w == Written(r)
<1>1. /\ IsSound(w) /\ w.edit = "adEditNone" /\ w.open = r.open /\ w.counted = r.counted
      /\ w.pos = r.pos /\ w.gone = r.gone /\ w.rows = r.rows
  BY WrittenIsSound
<1>2. /\ IsSound(b.rs) /\ b.rs.open = r.open /\ b.rs.counted = r.counted
  BY MovesGo, WentIsSound
<1>3. AdoUpdate(r) = Done_(w)
  BY UpdateGoes
<1>4. ~adoBOF(w)
  BY <1>1 DEF adoBOF
<1>5. b = Done_(At(w, r.pos - 1))
  BY <1>1, <1>3, <1>4, MovePreviousIs, ResultOf
<1> HIDE DEF w
<1>6. b.ok /\ b.rs.pos = r.pos - 1 /\ ~b.rs.gone /\ b.rs.rows = w.rows /\ b.rs.edit = "adEditNone"
  BY <1>1, <1>5, DoneAt
<1> HIDE DEF b
<1> QED
  BY <1>1, <1>2, <1>6 DEF b

\* A record set on its way, at p.
OnTheWay(r, p) == r.open /\ r.rows # <<>> /\ r.edit = "adEditNone" /\ ~r.gone /\ r.pos = p

LEMMA FirstIsFirst ==
  ASSUME NEW r, IsSound(r)
  PROVE  LET m == AdoMoveFirst(r)
         IN  /\ IsSound(m.rs) /\ m.rs.open = r.open /\ m.rs.counted = r.counted /\ m.ok \in BOOLEAN
             /\ m.ok => OnTheWay(m.rs, 1)
             /\ r.edit = "adEditNone" => m.rs.rows = r.rows
             /\ r.open /\ r.edit = "adEditNone" /\ r.rows # <<>> => m.ok
             /\ ~m.ok /\ r.edit = "adEditNone" => m.rs.pos = r.pos /\ m.rs.gone = r.gone
<1> DEFINE m == AdoMoveFirst(r)
           u == AdoUpdate(r)
           w == Written(r)
<1>1. /\ IsSound(w) /\ w.edit = "adEditNone" /\ w.open = r.open /\ w.counted = r.counted
      /\ r.edit = "adEditNone" => w.rows = r.rows /\ w.pos = r.pos /\ w.gone = r.gone
  BY WrittenIsSound
<1>2. /\ IsSound(m.rs) /\ m.rs.open = r.open /\ m.rs.counted = r.counted /\ m.ok \in BOOLEAN
  BY MovesGo, WentIsSound
<1>3. CASE u.ok /\ w.rows # <<>>
  <2>1. u.rs = w /\ r.open
    BY <1>3, UpdateIsSound
  <2>2. m = Done_(At(w, 1))
    BY <1>3, <2>1, MoveFirstIs
  <2> HIDE DEF w
  <2>3. m.ok /\ m.rs.pos = 1 /\ ~m.rs.gone /\ m.rs.rows = w.rows /\ m.rs.edit = w.edit /\ m.rs.open = w.open
    BY <1>1, <2>2, DoneAt
  <2> HIDE DEF m, u
  <2> QED
    BY <1>1, <1>2, <1>3, <2>1, <2>3 DEF m, OnTheWay
<1>4. CASE ~(u.ok /\ w.rows # <<>>)
  <2>1. ~m.ok /\ (m.rs = r \/ m.rs = w)
    BY <1>4, UpdateIsSound, MoveFirstIs, ResultOf
  <2>2. r.open /\ r.edit = "adEditNone" => u.ok
    BY UpdateGoes, ResultOf
  <2> HIDE DEF m, u, w
  <2> QED
    BY <1>1, <1>2, <1>4, <2>1, <2>2 DEF m
<1> QED
  BY <1>3, <1>4

LEMMA LastIsLast ==
  ASSUME NEW r, IsSound(r)
  PROVE  LET m == AdoMoveLast(r)
         IN  /\ IsSound(m.rs) /\ m.rs.open = r.open /\ m.rs.counted = r.counted /\ m.ok \in BOOLEAN
             /\ m.ok => m.rs.counted /\ OnTheWay(m.rs, Len(m.rs.rows))
<1> DEFINE m == AdoMoveLast(r)
           u == AdoUpdate(r)
           w == Written(r)
<1>1. IsSound(w) /\ w.edit = "adEditNone" /\ w.open = r.open /\ w.counted = r.counted
  BY WrittenIsSound
<1>2. /\ IsSound(m.rs) /\ m.rs.open = r.open /\ m.rs.counted = r.counted /\ m.ok \in BOOLEAN
  BY MovesGo, WentIsSound
<1>3. CASE u.ok /\ w.counted /\ w.rows # <<>>
  <2>1. u.rs = w /\ r.open
    BY <1>3, UpdateIsSound
  <2>2. m = Done_(At(w, Len(w.rows)))
    BY <1>3, <2>1, MoveLastIs
  <2> HIDE DEF w
  <2>3. /\ m.rs.pos = Len(w.rows) /\ ~m.rs.gone /\ m.rs.rows = w.rows /\ m.rs.edit = w.edit
        /\ m.rs.open = w.open /\ m.rs.counted = w.counted
    BY <1>1, <2>2, DoneAt
  <2> HIDE DEF m, u
  <2> QED
    BY <1>1, <1>2, <1>3, <2>1, <2>3 DEF m, OnTheWay
<1>4. CASE ~(u.ok /\ w.counted /\ w.rows # <<>>)
  <2>1. ~m.ok
    BY <1>4, UpdateIsSound, MoveLastIs, ResultOf
  <2> HIDE DEF m, u, w
  <2> QED
    BY <1>2, <2>1 DEF m
<1> QED
  BY <1>3, <1>4

\* The way back: to the first row and on from there.
LEMMA BackToIsSound ==
  ASSUME RsInv, NEW count \in Int
  PROVE  LET b == BackTo(count)
         IN  IsSound(b.rs) /\ b.rs.open = rs.open /\ b.rs.counted = rs.counted /\ b.ok \in BOOLEAN
<1> DEFINE m == AdoMoveFirst(rs)
<1>1. /\ IsSound(m.rs) /\ m.rs.open = rs.open /\ m.rs.counted = rs.counted /\ m.ok \in BOOLEAN
  BY FirstIsFirst DEF RsInv
<1>2. /\ IsSound(AdoMove(m.rs, count).rs) /\ AdoMove(m.rs, count).rs.open = m.rs.open
      /\ AdoMove(m.rs, count).rs.counted = m.rs.counted /\ AdoMove(m.rs, count).ok \in BOOLEAN
  BY <1>1, MoveGoes, WentIsSound
<1>3. BackTo(count) = IF m.ok THEN AdoMove(m.rs, count) ELSE m
  BY DEF BackTo
<1> HIDE DEF m
<1> QED
  BY <1>1, <1>2, <1>3

LEMMA BackToIsBack ==
  ASSUME RsInv, rs.open, rs.counted, rs.edit = "adEditNone", rs.rows # <<>>,
         NEW p \in 0 .. Len(rs.rows) + 1
  PROVE  LET b == BackTo(p - 1)
         IN  b.ok /\ OnTheWay(b.rs, p) /\ b.rs.rows = rs.rows
<1> DEFINE m == AdoMoveFirst(rs)
           b == AdoMove(m.rs, p - 1)
           w == Written(m.rs)
<1>0. IsSound(rs) /\ Len(rs.rows) \in Nat
  BY SoundParts DEF RsInv
<1>1. /\ IsSound(m.rs) /\ m.rs.counted = rs.counted /\ m.ok /\ OnTheWay(m.rs, 1) /\ m.rs.rows = rs.rows
  BY <1>0, FirstIsFirst
<1>2. BackTo(p - 1) = b
  BY <1>1 DEF BackTo
<1>3. /\ IsSound(w) /\ w.edit = "adEditNone" /\ w.open = m.rs.open /\ w.counted = m.rs.counted
      /\ w.pos = m.rs.pos /\ w.gone = m.rs.gone /\ w.rows = m.rs.rows
  BY <1>1, WrittenIsSound DEF OnTheWay
<1>4. AdoUpdate(m.rs) = Done_(w)
  BY <1>1, UpdateGoes DEF OnTheWay
<1>5. w.pos = 1 /\ ~w.gone /\ w.rows = rs.rows /\ w.open /\ w.counted
  BY <1>1, <1>3 DEF OnTheWay
<1>6. Len(rs.rows) >= 1 /\ ~adoBOF(w) /\ ~adoEOF(w)
  BY <1>0, <1>5, SoundParts DEF adoBOF, adoEOF
<1>7. Jump(w, p - 1) = p
  <2>1. p - 1 \in Int /\ w.pos + (p - 1) = p
    BY <1>5
  <2> HIDE DEF w
  <2> QED
    BY <1>3, <1>5, <2>1, JumpIsThere
<1>8. b = Done_(At(w, p))
  BY <1>4, <1>5, <1>6, <1>7, MoveIs, ResultOf
<1> HIDE DEF b, w
<1>9. b.ok /\ b.rs.pos = p /\ ~b.rs.gone /\ b.rs.rows = w.rows /\ b.rs.open = w.open /\ b.rs.edit = w.edit
  BY <1>3, <1>8, DoneAt
<1> QED
  BY <1>2, <1>3, <1>5, <1>9 DEF OnTheWay

-----------------------------------------------------------------------------
(* The calls that walk                                                     *)

\* What a step of a walk leaves to show.
LEMMA KeepKeepsInv ==
  ASSUME RsInv, NEW r, NEW o, Keep(r, o), IsSound(r), r.open = rs.open, r.counted = rs.counted,
         o = Idle \/ o \in Walks, SeekIsOnItsWay', CountIsOnItsWay', PlaceIsKnown'
  PROVE  RsInv'
<1>1. /\ rs' = r /\ op' = o /\ last' = IF r.rows = rs.rows THEN last ELSE 0
      /\ UNCHANGED <<refused, m_strFind, m_SearchDirection, m_varBookmark>>
  BY DEF Keep, find
<1>2. FieldsAreTyped'
  BY <1>1, RowsAssumption DEF RsInv, FieldsAreTyped
<1>3. FoundIsKept'
  BY <1>1, FoundStays
<1> QED
  BY <1>1, <1>2, <1>3 DEF RsInv

LEMMA ReturnKeepsInv ==
  ASSUME RsInv, NEW r, Keep(r, Idle), IsSound(r), r.open = rs.open, r.counted = rs.counted
  PROVE  RsInv'
<1>1. op' = Idle
  BY DEF Keep
<1>2. SeekIsOnItsWay' /\ CountIsOnItsWay' /\ PlaceIsKnown'
  BY <1>1, IdleIsNoWalk DEF SeekIsOnItsWay, CountIsOnItsWay, PlaceIsKnown
<1> QED
  BY <1>2, KeepKeepsInv

\* A seek is no count and no scan, and so on.
LEMMA OneWalk ==
  /\ op' \in Seeks => CountIsOnItsWay' /\ PlaceIsKnown' /\ op' \in Walks
  /\ op' \in Counts => SeekIsOnItsWay' /\ PlaceIsKnown' /\ op' \in Walks
  /\ op' \in Scans => SeekIsOnItsWay' /\ CountIsOnItsWay' /\ op' \in Walks
BY IdleIsNoWalk DEF SeekIsOnItsWay, CountIsOnItsWay, PlaceIsKnown, Walks

LEMMA WalkOfName ==
  ASSUME RsInv
  PROVE  /\ op.name = "seek" => op \in Seeks
         /\ op.name = "count" => op \in Counts
         /\ op.name \in {"locate", "values"} => op \in Scans
BY IdleIsNoWalk DEF RsInv, FieldsAreTyped, Walks

LEMMA CollectedIsText ==
  ASSUME RsInv, NEW text \in Texts
  PROVE  Collected(text) \in Texts
BY SoundParts DEF RsInv, Collected, Field, OnRow

LEMMA SeekBegins ==
  ASSUME RsInv, NEW value \in Texts, NEW back \in BOOLEAN, SeekToFieldValue(value, back)
  PROVE  RsInv'
<1> DEFINE first == IF back THEN AdoMoveLast(rs) ELSE AdoMoveFirst(rs)
           o == [name |-> "seek", value |-> value, back |-> back, read |-> Empty, skipped |-> ~first.ok]
<1>0. IsSound(rs)
  BY DEF RsInv
<1>1. Keep(first.rs, o)
  BY DEF SeekToFieldValue
<1>2. /\ IsSound(first.rs) /\ first.rs.open = rs.open /\ first.rs.counted = rs.counted /\ first.ok \in BOOLEAN
      /\ back /\ first.ok => first.rs.counted /\ OnTheWay(first.rs, Len(first.rs.rows))
      /\ ~back /\ first.ok => OnTheWay(first.rs, 1)
  <2>1. CASE back
    BY <1>0, <2>1, LastIsLast
  <2>2. CASE ~back
    BY <1>0, <2>2, FirstIsFirst
  <2> QED
    BY <2>1, <2>2
<1> HIDE DEF first
<1>3. o \in Seeks /\ o.value = value /\ (o.back <=> back) /\ (~o.skipped => first.ok)
  BY <1>2, RowsAssumption DEF Seeks
<1>4. rs' = first.rs /\ op' = o
  BY <1>1 DEF Keep
<1> HIDE DEF o
<1>5. Len(first.rs.rows) \in Nat /\ DOMAIN first.rs.rows = 1 .. Len(first.rs.rows)
  BY <1>2, SoundParts
<1>6. SeekIsOnItsWay'
  <2> SUFFICES ASSUME first.ok
               PROVE  /\ OnItsWay'
                      /\ back => /\ rs'.counted /\ rs'.pos <= Len(rs'.rows)
                                 /\ \A i \in DOMAIN rs'.rows : rs'.pos < i => rs'.rows[i].val # value
                      /\ ~back => /\ rs'.pos >= 1
                                  /\ \A i \in DOMAIN rs'.rows : i < rs'.pos => rs'.rows[i].val # value
    BY <1>3, <1>4 DEF SeekIsOnItsWay
  <2> QED
    BY <1>2, <1>4, <1>5 DEF OnItsWay, OnTheWay
<1> QED
  BY <1>1, <1>2, <1>3, <1>4, <1>6, OneWalk, KeepKeepsInv

LEMMA CountBegins ==
  ASSUME RsInv, GetRecordCount
  PROVE  RsInv'
<1> DEFINE first == AdoMoveFirst(rs)
           o == [name |-> "count", count |-> 0, skipped |-> ~first.ok]
<1>0. IsSound(rs)
  BY DEF RsInv
<1>1. Keep(first.rs, o)
  BY DEF GetRecordCount
<1>2. /\ IsSound(first.rs) /\ first.rs.open = rs.open /\ first.rs.counted = rs.counted /\ first.ok \in BOOLEAN
      /\ first.ok => OnTheWay(first.rs, 1)
  BY <1>0, FirstIsFirst
<1> HIDE DEF first
<1>3. o \in Counts /\ o.count = 0 /\ (~o.skipped => first.ok)
  <2> DEFINE skipped == ~first.ok
  <2>1. skipped \in BOOLEAN /\ 0 \in Int /\ (~skipped => first.ok)
    OBVIOUS
  <2>2. o = [name |-> "count", count |-> 0, skipped |-> skipped]
    OBVIOUS
  <2> HIDE DEF o, skipped
  <2> QED
    BY <2>1, <2>2 DEF Counts
<1>4. rs' = first.rs /\ op' = o
  BY <1>1 DEF Keep
<1> HIDE DEF o
<1>5. CountIsOnItsWay'
  <2> SUFFICES ASSUME first.ok
               PROVE  OnItsWay' /\ rs'.pos >= 1 /\ 0 = rs'.pos - 1
    BY <1>3, <1>4 DEF CountIsOnItsWay
  <2> QED
    BY <1>2, <1>4 DEF OnItsWay, OnTheWay
<1> QED
  BY <1>1, <1>2, <1>3, <1>4, <1>5, OneWalk, KeepKeepsInv

LEMMA ScanBegins ==
  ASSUME RsInv, NEW values \in Nat, GetCursorPos(values) \/ GetFieldValues(values)
  PROVE  RsInv'
<1>0. /\ IsSound(rs) /\ Len(rs.rows) \in Nat /\ rs.pos \in 0 .. MaxRows + 1 /\ rs.pos <= Len(rs.rows) + 1
      /\ rs.counted \in BOOLEAN /\ rs.gone \in BOOLEAN /\ rs.edit \in EditModes
  BY SoundParts DEF RsInv, IsSound, RecordSets
<1>1. Place \in PlaceOf /\ Place.pos = rs.pos /\ (Place.kept => rs.counted /\ ~rs.gone /\ rs.edit # "adEditAdd")
  BY <1>0 DEF Place, PlaceOf
<1>2. AdoRecordCount \in Int /\ (rs.counted => AdoRecordCount = Len(rs.rows))
  BY <1>0 DEF AdoRecordCount
<1>3. CASE GetCursorPos(values)
  <2> DEFINE o == [name |-> "locate", place |-> Place, locked |-> TRUE, count |-> AdoRecordCount, values |-> values]
  <2>1. Keep(rs, o) /\ rs.open
    BY <1>3 DEF GetCursorPos
  <2>2. /\ o \in Scans /\ o.name = "locate" /\ o.place = Place /\ o.count = AdoRecordCount
    BY <1>1, <1>2 DEF Scans
  <2>3. rs' = rs /\ op' = o
    BY <2>1 DEF Keep
  <2> HIDE DEF o
  <2>4. PlaceIsKnown'
    BY <1>0, <1>1, <1>2, <2>1, <2>2, <2>3 DEF PlaceIsKnown, EditModes
  <2> QED
    BY <1>0, <2>1, <2>2, <2>3, <2>4, OneWalk, KeepKeepsInv
<1>4. CASE GetFieldValues(values)
  <2> DEFINE o == [name |-> "values", place |-> Place, locked |-> FALSE, count |-> 0, values |-> values]
  <2>1. Keep(rs, o)
    BY <1>4 DEF GetFieldValues
  <2>2. o \in Scans /\ ~o.locked
    BY <1>1 DEF Scans
  <2>3. rs' = rs /\ op' = o
    BY <2>1 DEF Keep
  <2> HIDE DEF o
  <2>4. PlaceIsKnown'
    BY <2>2, <2>3 DEF PlaceIsKnown
  <2> QED
    BY <1>0, <2>1, <2>2, <2>3, <2>4, OneWalk, KeepKeepsInv
<1> QED
  BY <1>3, <1>4

LEMMA CallsKeepInv ==
  ASSUME RsInv, Calls
  PROVE  RsInv'
<1>1. {0, 2} \subseteq Nat
  OBVIOUS
<1> QED
  BY <1>1, SeekBegins, CountBegins, ScanBegins DEF Calls

-----------------------------------------------------------------------------
(* The steps inside the walks                                              *)

\* A seek that goes on has read the row that it leaves.
LEMMA SeekGoesOn ==
  ASSUME RsInv, SeekOn
  PROVE  RsInv'
<1> DEFINE next == IF op.back THEN AdoMovePrevious(rs) ELSE AdoMoveNext(rs)
           o == [op EXCEPT !.read = Collected(@)]
<1>0. IsSound(rs) /\ op \in Seeks /\ Len(rs.rows) \in Nat /\ DOMAIN rs.rows = 1 .. Len(rs.rows) /\ rs.pos \in Nat
  BY WalkOfName, SoundParts DEF RsInv, SeekOn
<1>1. Keep(next.rs, o) /\ ~SeekEnds /\ Collected(op.read) # op.value /\ op.name = "seek"
  BY DEF SeekOn
<1>2. Collected(op.read) \in Texts
  BY <1>0, CollectedIsText DEF Seeks
<1>3. o \in Seeks /\ o.value = op.value /\ (o.back <=> op.back) /\ (o.skipped <=> op.skipped)
  BY <1>0, <1>2 DEF Seeks
<1>4. IsSound(next.rs) /\ next.rs.open = rs.open /\ next.rs.counted = rs.counted
  BY <1>0, MovesGo, WentIsSound
<1>5. rs' = next.rs /\ op' = o
  BY <1>1 DEF Keep
<1> HIDE DEF o
<1>6. SeekIsOnItsWay'
  <2> SUFFICES ASSUME ~op.skipped
               PROVE  /\ OnItsWay'
                      /\ op.back => /\ rs'.counted /\ rs'.pos <= Len(rs'.rows)
                                    /\ \A i \in DOMAIN rs'.rows : rs'.pos < i => rs'.rows[i].val # op.value
                      /\ ~op.back => /\ rs'.pos >= 1
                                     /\ \A i \in DOMAIN rs'.rows : i < rs'.pos => rs'.rows[i].val # op.value
    BY <1>3, <1>5 DEF SeekIsOnItsWay
  <2>1. /\ rs.open /\ rs.rows # <<>> /\ rs.edit = "adEditNone" /\ ~rs.gone
        /\ op.back => rs.counted /\ rs.pos <= Len(rs.rows) /\ \A i \in DOMAIN rs.rows : rs.pos < i => rs.rows[i].val # op.value
        /\ ~op.back => rs.pos >= 1 /\ \A i \in DOMAIN rs.rows : i < rs.pos => rs.rows[i].val # op.value
    BY <1>1 DEF RsInv, SeekIsOnItsWay, OnItsWay
  <2>2. rs.pos \in 1 .. Len(rs.rows) => rs.rows[rs.pos].val # op.value
    BY <1>0, <1>1, <2>1 DEF Collected, IsOpen, adoEOF, OnRow, Field
  <2>3. CASE op.back
    <3>1. rs.pos # 0 /\ rs.pos \in 1 .. Len(rs.rows)
      BY <1>0, <1>1, <2>1, <2>3 DEF SeekEnds, IsBOF, adoBOF
    <3>2. /\ rs'.open /\ rs'.counted /\ ~rs'.gone /\ rs'.rows = rs.rows /\ rs'.edit = "adEditNone"
          /\ rs'.pos = rs.pos - 1
      BY <1>0, <1>5, <2>1, <2>3, <3>1, PreviousIsPrevious
    <3>3. \A i \in DOMAIN rs.rows : rs.pos - 1 < i => i = rs.pos \/ rs.pos < i
      BY <1>0
    <3> QED
      BY <1>0, <2>1, <2>2, <2>3, <3>1, <3>2, <3>3 DEF OnItsWay
  <2>4. CASE ~op.back
    <3>1. rs.pos <= Len(rs.rows) /\ rs.pos \in 1 .. Len(rs.rows)
      BY <1>0, <1>1, <2>1, <2>4 DEF SeekEnds, IsEOF, adoEOF
    <3>2. /\ rs'.open /\ ~rs'.gone /\ rs'.rows = rs.rows /\ rs'.edit = "adEditNone" /\ rs'.pos = rs.pos + 1
      BY <1>0, <1>4, <1>5, <2>1, <2>4, <3>1, NextIsNext
    <3>3. \A i \in DOMAIN rs.rows : i < rs.pos + 1 => i = rs.pos \/ i < rs.pos
      BY <1>0
    <3> QED
      BY <1>0, <2>1, <2>2, <2>4, <3>1, <3>2, <3>3 DEF OnItsWay
  <2> QED
    BY <2>3, <2>4
<1> HIDE DEF next
<1> QED
  BY <1>1, <1>3, <1>4, <1>5, <1>6, OneWalk, KeepKeepsInv

LEMMA CountGoesOn ==
  ASSUME RsInv, CountOn
  PROVE  RsInv'
<1> DEFINE next == AdoMoveNext(rs)
           o == [op EXCEPT !.count = Min({@ + 1, MaxRows + 1})]
<1>0. /\ IsSound(rs) /\ op \in Counts /\ Len(rs.rows) \in Nat /\ rs.pos \in Nat /\ Len(rs.rows) <= MaxRows
      /\ MaxRows \in Nat
  BY WalkOfName, SoundParts, RoomForRows, RowsAssumption DEF RsInv, CountOn, IsSound
<1>1. Keep(next.rs, o) /\ ~IsEOF(rs) /\ op.name = "count"
  BY DEF CountOn
<1>2. op.count \in Int /\ Min({op.count + 1, MaxRows + 1}) = IF op.count + 1 <= MaxRows + 1 THEN op.count + 1 ELSE MaxRows + 1
  BY <1>0, MinOfTwo DEF Counts
<1>3. o \in Counts /\ o.count = Min({op.count + 1, MaxRows + 1}) /\ (o.skipped <=> op.skipped)
  <2> DEFINE c == Min({op.count + 1, MaxRows + 1})
  <2>1. c \in Int
    BY <1>0, <1>2
  <2>2. o = [op EXCEPT !.count = c]
    OBVIOUS
  <2> HIDE DEF c, o
  <2> QED
    BY <1>0, <2>1, <2>2 DEF Counts, c
<1>4. IsSound(next.rs) /\ next.rs.open = rs.open /\ next.rs.counted = rs.counted
  BY <1>0, MovesGo, WentIsSound
<1>5. rs' = next.rs /\ op' = o
  BY <1>1 DEF Keep
<1> HIDE DEF o
<1>6. CountIsOnItsWay'
  <2> SUFFICES ASSUME ~op.skipped
               PROVE  OnItsWay' /\ rs'.pos >= 1 /\ Min({op.count + 1, MaxRows + 1}) = rs'.pos - 1
    BY <1>3, <1>5 DEF CountIsOnItsWay
  <2>1. /\ rs.open /\ rs.rows # <<>> /\ rs.edit = "adEditNone" /\ ~rs.gone /\ rs.pos >= 1 /\ op.count = rs.pos - 1
    BY <1>1 DEF RsInv, CountIsOnItsWay, OnItsWay
  <2>2. rs.pos <= Len(rs.rows)
    BY <1>0, <1>1, <2>1 DEF IsEOF, adoEOF
  <2>3. /\ rs'.open /\ ~rs'.gone /\ rs'.rows = rs.rows /\ rs'.edit = "adEditNone" /\ rs'.pos = rs.pos + 1
    BY <1>0, <1>4, <1>5, <2>1, <2>2, NextIsNext
  <2> QED
    BY <1>0, <1>2, <2>1, <2>2, <2>3 DEF OnItsWay
<1> HIDE DEF next
<1> QED
  BY <1>1, <1>3, <1>4, <1>5, <1>6, OneWalk, KeepKeepsInv

\* What is known of a call that is to bring the cursor back.
LEMMA ScanKnows ==
  ASSUME RsInv, op.name \in {"locate", "values"}
  PROVE  /\ IsSound(rs) /\ op \in Scans /\ op.count \in Int /\ op.values \in Nat /\ op.locked \in BOOLEAN
         /\ op.place.pos \in 0 .. MaxRows + 1 /\ op.place.kept \in BOOLEAN
         /\ Len(rs.rows) \in Nat /\ rs.pos \in Nat /\ rs.pos <= Len(rs.rows) + 1
         /\ (rs.rows # <<>> <=> Len(rs.rows) >= 1)
BY WalkOfName, SoundParts DEF RsInv, Scans, PlaceOf

\* At the end of the count the way back is known, or there was none to go.
LEMMA LocatedKnows ==
  ASSUME RsInv, op.name = "locate", adoEOF(rs), op.locked, op.place.kept
  PROVE  LET b == BackTo(op.count)
         IN  /\ b.rs.pos = op.place.pos /\ ~b.rs.gone
             /\ b.ok => /\ OnTheWay(b.rs, op.place.pos) /\ b.rs.counted /\ op.count = op.place.pos - 1
                        /\ op.place.pos <= Len(b.rs.rows) + 1
<1> DEFINE p == op.place.pos
<1>0. /\ IsSound(rs) /\ op \in Scans /\ op.count \in Int /\ p \in 0 .. MaxRows + 1
      /\ Len(rs.rows) \in Nat /\ rs.pos \in Nat /\ rs.pos <= Len(rs.rows) + 1
      /\ (rs.rows # <<>> <=> Len(rs.rows) >= 1)
  BY ScanKnows
<1>1. /\ rs.open /\ rs.counted /\ ~rs.gone /\ p <= Len(rs.rows) + 1
      /\ p <= rs.pos /\ op.count = Len(rs.rows) - (rs.pos - p)
      /\ rs.rows = <<>> => rs.pos = p
      /\ rs.edit = "adEditNone" \/ (rs.edit = "adEditInProgress" /\ rs.pos = p)
  BY <1>0 DEF RsInv, PlaceIsKnown
<1>2. rs.edit = "adEditInProgress" => rs.pos \in 1 .. Len(rs.rows)
  BY <1>0, SoundParts DEF IsSound
<1>3. rs.rows = <<>> \/ rs.pos > Len(rs.rows)
  BY DEF adoEOF
<1>4. rs.edit = "adEditNone"
  BY <1>0, <1>1, <1>2, <1>3
<1>5. CASE rs.rows = <<>>
  <2> DEFINE m == AdoMoveFirst(rs)
  <2>1. ~m.ok
    <3>1. AdoUpdate(rs) = Done_(Written(rs)) /\ Written(rs).rows = <<>>
      BY <1>0, <1>1, <1>4, <1>5, UpdateGoes, WrittenIsSound
    <3> QED
      BY <3>1, MoveFirstIs, ResultOf
  <2>2. m.rs.pos = rs.pos /\ m.rs.gone = rs.gone
    BY <1>0, <1>4, <2>1, FirstIsFirst
  <2>3. BackTo(op.count) = m
    BY <2>1 DEF BackTo
  <2> HIDE DEF m
  <2> QED
    BY <1>1, <1>5, <2>1, <2>2, <2>3
<1>6. CASE rs.rows # <<>>
  <2>1. op.count = p - 1 /\ p \in 0 .. Len(rs.rows) + 1
    BY <1>0, <1>1, <1>3, <1>6
  <2> HIDE DEF p
  <2> DEFINE b == BackTo(p - 1)
  <2>2. b.ok /\ OnTheWay(b.rs, p) /\ b.rs.rows = rs.rows
    BY <1>1, <1>4, <1>6, <2>1, BackToIsBack
  <2>3. b.rs.counted
    <3>1. p - 1 \in Int
      BY <2>1
    <3>2. b.rs.counted = rs.counted
      BY <3>1, BackToIsSound
    <3> QED
      BY <1>1, <3>2
  <2>4. BackTo(op.count) = b
    BY <2>1
  <2> HIDE DEF b
  <2>5. b.rs.pos = p /\ ~b.rs.gone
    BY <2>2 DEF OnTheWay
  <2> QED
    BY <1>0, <2>1, <2>2, <2>3, <2>4, <2>5 DEF p
<1> QED
  BY <1>5, <1>6

LEMMA LocateGoesOn ==
  ASSUME RsInv, LocateOn
  PROVE  RsInv' /\ (op' = Idle /\ op.locked /\ op.place.kept => rs'.pos = op.place.pos /\ ~rs'.gone)
<1> DEFINE next == AdoMoveNext(rs)
           o == [op EXCEPT !.count = @ - 1]
<1>0. /\ IsSound(rs) /\ op \in Scans /\ op.count \in Int /\ op.place.pos \in 0 .. MaxRows + 1
      /\ Len(rs.rows) \in Nat /\ rs.pos \in Nat /\ rs.pos <= Len(rs.rows) + 1
      /\ (rs.rows # <<>> <=> Len(rs.rows) >= 1)
  BY ScanKnows DEF LocateOn
<1>1. op.name = "locate" /\ ~adoEOF(rs) /\ Keep(next.rs, IF next.ok THEN o ELSE Idle)
  BY DEF LocateOn
<1>2. IsSound(next.rs) /\ next.rs.open = rs.open /\ next.rs.counted = rs.counted /\ next.ok \in BOOLEAN
  BY <1>0, MovesGo, WentIsSound
<1>3. o \in Scans /\ o.name = "locate" /\ o.count = op.count - 1 /\ o.place = op.place /\ o.locked = op.locked
  BY <1>0, <1>1 DEF Scans
<1>4. rs' = next.rs /\ op' = IF next.ok THEN o ELSE Idle
  BY <1>1 DEF Keep
<1> HIDE DEF o
<1>5. op.locked /\ op.place.kept =>
        /\ rs.open /\ rs.counted /\ ~rs.gone /\ op.place.pos <= Len(rs.rows) + 1
        /\ op.place.pos <= rs.pos /\ op.count = Len(rs.rows) - (rs.pos - op.place.pos)
        /\ rs.rows = <<>> => rs.pos = op.place.pos
        /\ rs.edit = "adEditNone" \/ (rs.edit = "adEditInProgress" /\ rs.pos = op.place.pos)
  BY <1>0, <1>1 DEF RsInv, PlaceIsKnown
<1>6. op.locked /\ op.place.kept =>
        /\ ~next.rs.gone /\ Len(next.rs.rows) = Len(rs.rows)
        /\ next.ok => next.rs.pos = rs.pos + 1 /\ next.rs.edit = "adEditNone" /\ rs.rows # <<>>
        /\ ~next.ok => next.rs.pos = rs.pos
        /\ rs.open /\ rs.edit = "adEditNone" /\ rs.rows # <<>> /\ rs.pos <= Len(rs.rows) => next.ok
  BY <1>0, <1>5, NextIsNext
<1>7. Len(next.rs.rows) \in Nat /\ (next.rs.rows # <<>> <=> Len(next.rs.rows) >= 1)
  BY <1>2, SoundParts
<1>8. CASE next.ok
  <2>1. op' = o /\ op' # Idle
    BY <1>3, <1>4, <1>8, IdleIsNoWalk
  <2>2. PlaceIsKnown'
    <3> SUFFICES ASSUME op.locked, op.place.kept
                 PROVE  /\ rs'.open /\ rs'.counted /\ ~rs'.gone /\ op.place.pos <= Len(rs'.rows) + 1
                        /\ op.place.pos <= rs'.pos /\ op.count - 1 = Len(rs'.rows) - (rs'.pos - op.place.pos)
                        /\ rs'.rows # <<>> /\ rs'.edit = "adEditNone"
      BY <1>3, <2>1 DEF PlaceIsKnown
    <3> HIDE DEF next
    <3>1. /\ rs.open /\ rs.counted /\ op.place.pos <= Len(rs.rows) + 1 /\ op.place.pos <= rs.pos
          /\ op.count = Len(rs.rows) - (rs.pos - op.place.pos)
      BY <1>5
    <3>2. /\ ~rs'.gone /\ Len(rs'.rows) = Len(rs.rows) /\ rs'.pos = rs.pos + 1 /\ rs'.edit = "adEditNone"
          /\ rs.rows # <<>>
      BY <1>4, <1>6, <1>8
    <3>3. rs'.open /\ rs'.counted
      BY <1>2, <1>4, <3>1
    <3>4. rs'.rows # <<>>
      BY <1>0, <1>4, <1>7, <3>2
    <3>5. op.place.pos <= rs.pos + 1 /\ op.count - 1 = Len(rs.rows) - ((rs.pos + 1) - op.place.pos)
      <4> DEFINE p == op.place.pos
                 q == rs.pos
                 n == Len(rs.rows)
                 c == op.count
      <4>1. p \in Int /\ q \in Int /\ n \in Int /\ c \in Int
        BY <1>0
      <4>2. p <= n + 1 /\ p <= q /\ c = n - (q - p)
        BY <3>1
      <4> HIDE DEF p, q, n, c
      <4>3. p <= q + 1 /\ c - 1 = n - ((q + 1) - p)
        BY <4>1, <4>2
      <4> QED
        BY <4>3 DEF p, q, n, c
    <3> QED
      BY <3>1, <3>2, <3>3, <3>4, <3>5
  <2>3. Keep(next.rs, o)
    BY <1>1, <1>8
  <2> HIDE DEF next
  <2> QED
    BY <1>2, <1>3, <2>1, <2>2, <2>3, OneWalk, KeepKeepsInv
<1>9. CASE ~next.ok
  <2>1. op.locked /\ op.place.kept => rs'.pos = op.place.pos /\ ~rs'.gone
    <3>1. SUFFICES ASSUME op.locked, op.place.kept, rs.edit = "adEditNone"
                   PROVE  FALSE
      BY <1>4, <1>5, <1>6, <1>9
    <3>2. rs.rows # <<>> /\ rs.pos <= Len(rs.rows)
      BY <1>0, <1>1, <1>5, <3>1 DEF adoEOF
    <3> QED
      BY <1>5, <1>6, <1>9, <3>1, <3>2
  <2>2. Keep(next.rs, Idle)
    BY <1>1, <1>9
  <2> HIDE DEF next
  <2> QED
    BY <1>2, <2>1, <2>2, ReturnKeepsInv
<1> QED
  BY <1>2, <1>8, <1>9

LEMMA LocatedKeepsInv ==
  ASSUME RsInv, Located
  PROVE  RsInv' /\ (op' = Idle /\ op.locked /\ op.place.kept => rs'.pos = op.place.pos /\ ~rs'.gone)
<1> DEFINE b == BackTo(op.count)
           o == [op EXCEPT !.name = "values"]
<1>0. IsSound(rs) /\ op \in Scans /\ op.count \in Int
  BY ScanKnows DEF Located
<1>1. op.name = "locate" /\ adoEOF(rs) /\ Keep(b.rs, IF b.ok /\ op.values > 0 THEN o ELSE Idle)
  BY DEF Located
<1>2. IsSound(b.rs) /\ b.rs.open = rs.open /\ b.rs.counted = rs.counted /\ b.ok \in BOOLEAN
  BY <1>0, BackToIsSound
<1>3. /\ o \in Scans /\ o.name = "values" /\ o.count = op.count /\ o.place = op.place
      /\ o.locked = op.locked
  BY <1>0 DEF Scans
<1>4. rs' = b.rs /\ op' = IF b.ok /\ op.values > 0 THEN o ELSE Idle
  BY <1>1 DEF Keep
<1> HIDE DEF o
<1>5. op.locked /\ op.place.kept =>
        /\ b.rs.pos = op.place.pos /\ ~b.rs.gone
        /\ b.ok => /\ OnTheWay(b.rs, op.place.pos) /\ b.rs.counted /\ op.count = op.place.pos - 1
                   /\ op.place.pos <= Len(b.rs.rows) + 1
  BY <1>1, LocatedKnows
<1> HIDE DEF b
<1>6. CASE b.ok /\ op.values > 0
  <2>1. op' = o
    BY <1>4, <1>6
  <2>2. PlaceIsKnown'
    BY <1>3, <1>4, <1>5, <1>6, <2>1 DEF PlaceIsKnown, OnItsWay, OnTheWay
  <2>3. op' # Idle /\ Keep(b.rs, o)
    BY <1>1, <1>3, <1>6, <2>1, IdleIsNoWalk
  <2> QED
    BY <1>2, <1>3, <2>1, <2>2, <2>3, OneWalk, KeepKeepsInv
<1>7. CASE ~(b.ok /\ op.values > 0)
  <2>1. Keep(b.rs, Idle)
    BY <1>1, <1>7
  <2> QED
    BY <1>2, <1>4, <1>5, <2>1, ReturnKeepsInv
<1> QED
  BY <1>6, <1>7

LEMMA ValuesGoOn ==
  ASSUME RsInv, ValuesOn
  PROVE  RsInv' /\ (op' = Idle /\ op.locked /\ op.place.kept => rs'.pos = op.place.pos /\ ~rs'.gone)
<1> DEFINE next == AdoMoveNext(rs)
           o == [op EXCEPT !.values = @ - 1]
<1>0. /\ IsSound(rs) /\ op \in Scans /\ op.values \in Nat /\ rs.pos \in Nat /\ Len(rs.rows) \in Nat
  BY ScanKnows DEF ValuesOn
<1>1. op.name = "values" /\ op.values > 0 /\ OnRow(rs) /\ Keep(next.rs, IF next.ok THEN o ELSE Idle)
  BY DEF ValuesOn
<1>2. IsSound(next.rs) /\ next.rs.open = rs.open /\ next.rs.counted = rs.counted /\ next.ok \in BOOLEAN
  BY <1>0, MovesGo, WentIsSound
<1>3. o \in Scans /\ o.name = "values" /\ o.count = op.count /\ o.place = op.place /\ o.locked = op.locked
  <2> DEFINE v == op.values - 1
  <2>1. v \in Nat
    BY <1>0, <1>1
  <2>2. o = [op EXCEPT !.values = v]
    OBVIOUS
  <2> HIDE DEF o, v
  <2> QED
    BY <1>0, <1>1, <2>1, <2>2 DEF Scans
<1>4. rs' = next.rs /\ op' = IF next.ok THEN o ELSE Idle
  BY <1>1 DEF Keep
<1> HIDE DEF o
<1>5. op.locked /\ op.place.kept =>
        /\ rs.open /\ rs.counted /\ rs.rows # <<>> /\ rs.edit = "adEditNone" /\ ~rs.gone
        /\ op.place.pos <= Len(rs.rows) + 1 /\ op.count = op.place.pos - 1
  BY <1>0, <1>1 DEF RsInv, PlaceIsKnown, OnItsWay
<1>6. op.locked /\ op.place.kept =>
        /\ next.ok /\ ~next.rs.gone /\ next.rs.rows = rs.rows /\ next.rs.edit = "adEditNone"
  <2> SUFFICES ASSUME op.locked, op.place.kept
               PROVE  next.ok /\ ~next.rs.gone /\ next.rs.rows = rs.rows /\ next.rs.edit = "adEditNone"
    OBVIOUS
  <2>1. rs.pos <= Len(rs.rows)
    BY <1>0, <1>1, <1>5 DEF OnRow
  <2> QED
    BY <1>0, <1>5, <2>1, NextIsNext
<1> HIDE DEF next
<1>7. CASE next.ok
  <2>1. op' = o
    BY <1>4, <1>7
  <2>2. PlaceIsKnown'
    <3> SUFFICES ASSUME op.locked, op.place.kept
                 PROVE  /\ rs'.open /\ rs'.counted /\ ~rs'.gone /\ op.place.pos <= Len(rs'.rows) + 1
                        /\ OnItsWay' /\ op.count = op.place.pos - 1
      BY <1>3, <2>1 DEF PlaceIsKnown
    <3> QED
      BY <1>2, <1>4, <1>5, <1>6 DEF OnItsWay
  <2>3. op' # Idle /\ Keep(next.rs, o)
    BY <1>1, <1>3, <1>7, <2>1, IdleIsNoWalk
  <2> QED
    BY <1>2, <1>3, <2>1, <2>2, <2>3, OneWalk, KeepKeepsInv
<1>8. CASE ~next.ok
  <2>1. Keep(next.rs, Idle)
    BY <1>1, <1>8
  <2> QED
    BY <1>2, <1>6, <1>8, <2>1, ReturnKeepsInv
<1> QED
  BY <1>2, <1>7, <1>8

LEMMA ValuesAreAtAnEnd ==
  ASSUME RsInv, ValuesEnd
  PROVE  RsInv' /\ (op' = Idle /\ op.locked /\ op.place.kept => rs'.pos = op.place.pos /\ ~rs'.gone)
<1> DEFINE p == op.place.pos
           r == IF op.locked THEN BackTo(op.count).rs ELSE rs
<1>0. IsSound(rs) /\ op \in Scans /\ op.count \in Int /\ p \in 0 .. MaxRows + 1 /\ Len(rs.rows) \in Nat
  BY ScanKnows DEF ValuesEnd
<1>1. op.name = "values" /\ Keep(r, Idle)
  BY DEF ValuesEnd, Return
<1>2. IsSound(r) /\ r.open = rs.open /\ r.counted = rs.counted
  BY <1>0, BackToIsSound
<1>3. op.locked /\ op.place.kept => r.pos = p /\ ~r.gone
  <2> SUFFICES ASSUME op.locked, op.place.kept
               PROVE  r.pos = p /\ ~r.gone
    OBVIOUS
  <2>1. /\ rs.open /\ rs.counted /\ rs.rows # <<>> /\ rs.edit = "adEditNone"
        /\ p <= Len(rs.rows) + 1 /\ op.count = p - 1
    BY <1>0, <1>1 DEF RsInv, PlaceIsKnown, OnItsWay
  <2>2. p \in 0 .. Len(rs.rows) + 1
    BY <1>0, <2>1
  <2>3. r = BackTo(p - 1).rs
    BY <2>1
  <2> HIDE DEF p, r
  <2>4. OnTheWay(r, p)
    BY <2>1, <2>2, <2>3, BackToIsBack
  <2> QED
    BY <2>4 DEF OnTheWay
<1>4. rs' = r
  BY <1>1 DEF Keep
<1> HIDE DEF r
<1> QED
  BY <1>1, <1>2, <1>3, <1>4, ReturnKeepsInv

LEMMA StepsKeepInv ==
  ASSUME RsInv, Steps
  PROVE  RsInv'
<1>1. CASE SeekMisses \/ SeekHits \/ CountEnds
  <2>1. Keep(rs, Idle) /\ IsSound(rs)
    BY <1>1 DEF SeekMisses, SeekHits, CountEnds, Return, RsInv
  <2> QED
    BY <2>1, ReturnKeepsInv
<1> QED
  BY <1>1, SeekGoesOn, CountGoesOn, LocateGoesOn, LocatedKeepsInv, ValuesGoOn, ValuesAreAtAnEnd DEF Steps

LEMMA RefuseKeepsInv ==
  ASSUME RsInv, Refuse
  PROVE  RsInv'
BY DEF RsInv, Refuse, find, FieldsAreTyped, FoundIsKept, SeekIsOnItsWay, CountIsOnItsWay, PlaceIsKnown, OnItsWay,
       IndexOf

LEMMA StutterKeepsInv ==
  ASSUME RsInv, UNCHANGED vars
  PROVE  RsInv'
BY DEF RsInv, vars, find, FieldsAreTyped, FoundIsKept, SeekIsOnItsWay, CountIsOnItsWay, PlaceIsKnown, OnItsWay,
       IndexOf

LEMMA InitRsInv == Init => RsInv
<1> SUFFICES ASSUME Init
             PROVE  RsInv
  OBVIOUS
<1>1. IsSound(rs) /\ FieldsAreTyped /\ FoundIsKept
  <2>1. IsSound(rs)
    BY ClosedIsSound DEF Init
  <2>2. m_varBookmark \in 0 .. MaxRows /\ last \in 0 .. MaxRows /\ last = 0
    BY RowsAssumption DEF Init
  <2> QED
    BY <2>1, <2>2 DEF Init, FieldsAreTyped, FoundIsKept, Directions
<1>2. op = Idle
  BY DEF Init
<1> QED
  BY <1>1, <1>2, IdleIsNoWalk DEF RsInv, SeekIsOnItsWay, CountIsOnItsWay, PlaceIsKnown

LEMMA NextRsInv == RsInv /\ [Next]_vars => RsInv'
BY EditsKeepInv, MovesKeepInv, LoadsKeepInv, SearchesKeepInv, CallsKeepInv, StepsKeepInv, RefuseKeepsInv,
   StutterKeepsInv DEF Next

-----------------------------------------------------------------------------
(* What the runs check                                                     *)

\* A record set stays a sound one, whatever is called on it.
THEOREM RecordSetIsTyped == Spec => []TypeOK
<1>1. RsInv => TypeOK
  BY DEF RsInv, IsSound, RecordSets, EditModes, InOrder, FieldsAreTyped, TypeOK
<1> QED
  BY <1>1, InitRsInv, NextRsInv, PTL DEF Spec

\* A call that promises to keep the cursor brings it back, whatever ends it.
THEOREM CursorComesBack == Spec => ScanKeepsCursor
<1>1. ASSUME RsInv, [Next]_vars
      PROVE  [(op.name \in {"locate", "values"} /\ op' = Idle /\ op.locked /\ op.place.kept)
                => rs'.pos = op.place.pos /\ ~rs'.gone]_vars
  <2> SUFFICES ASSUME Next, op.name \in {"locate", "values"}, op' = Idle, op.locked, op.place.kept
               PROVE  rs'.pos = op.place.pos /\ ~rs'.gone
    BY <1>1
  <2>1. op # Idle
    BY IdleIsNoWalk
  <2>2. ~(Edits \/ Moves \/ Loads \/ Searches \/ Calls \/ Refuse)
    BY <2>1 DEF Edits, Moves, Loads, Searches, Calls, Refuse, AddNew, Update, UpdateBatch, Cancels, Delete, Resync,
          PutCollect, MoveFirst, MoveLast, MoveNext, MovePrevious, Move, SetAbsolutePosition, Close, OpenFails,
          Requery, Load, Assign, Open, Replaced, Find, FindNext, GetBookmark, SetBookmark, SeekToFieldValue,
          GetRecordCount, GetCursorPos, GetFieldValues, Call, Leave
  <2>3. ~(SeekMisses \/ SeekHits \/ SeekOn \/ CountEnds \/ CountOn)
    BY DEF SeekMisses, SeekHits, SeekOn, CountEnds, CountOn
  <2> QED
    BY <1>1, <2>2, <2>3, LocateGoesOn, LocatedKeepsInv, ValuesGoOn, ValuesAreAtAnEnd DEF Next, Steps
<1> QED
  BY <1>1, InitRsInv, NextRsInv, PTL DEF Spec, ScanKeepsCursor

\* A walk to the value says where it is or that it is not; the count is right.
THEOREM SeekTellsTheTruth == Spec => SeekIsRight
<1> DEFINE Right == /\ SeekHits => op.skipped \/ (OnRow(rs) /\ Field(rs) = op.value)
                    /\ SeekMisses => op.skipped \/ (\A i \in DOMAIN rs.rows : rs.rows[i].val # op.value)
                    /\ CountEnds => op.skipped \/ op.count = Len(rs.rows)
<1>1. ASSUME RsInv
      PROVE  Right
  <2>0. IsSound(rs) /\ Len(rs.rows) \in Nat /\ DOMAIN rs.rows = 1 .. Len(rs.rows) /\ rs.pos \in Nat
        /\ rs.pos <= Len(rs.rows) + 1
    BY <1>1, SoundParts DEF RsInv
  <2>1. op.name = "seek" /\ ~op.skipped =>
          /\ rs.open /\ rs.rows # <<>> /\ rs.edit = "adEditNone" /\ ~rs.gone
          /\ op.back => rs.pos <= Len(rs.rows) /\ \A i \in DOMAIN rs.rows : rs.pos < i => rs.rows[i].val # op.value
          /\ ~op.back => rs.pos >= 1 /\ \A i \in DOMAIN rs.rows : i < rs.pos => rs.rows[i].val # op.value
    BY <1>1 DEF RsInv, SeekIsOnItsWay, OnItsWay
  <2>2. ASSUME SeekHits, ~op.skipped
        PROVE  OnRow(rs) /\ Field(rs) = op.value
    <3>1. op.name = "seek" /\ ~SeekEnds /\ Collected(op.read) = op.value
      BY <2>2 DEF SeekHits
    <3>2. rs.pos \in 1 .. Len(rs.rows)
      BY <2>0, <2>1, <2>2, <3>1 DEF SeekEnds, IsEOF, IsBOF, adoEOF, adoBOF
    <3>3. OnRow(rs) /\ ~adoEOF(rs)
      BY <2>0, <2>1, <2>2, <3>1, <3>2 DEF OnRow, adoEOF
    <3> QED
      BY <2>1, <2>2, <3>1, <3>3 DEF Collected, IsOpen
  <2>3. ASSUME SeekMisses, ~op.skipped
        PROVE  \A i \in DOMAIN rs.rows : rs.rows[i].val # op.value
    <3>1. op.name = "seek" /\ SeekEnds
      BY <2>3 DEF SeekMisses
    <3>2. CASE op.back
      <4>1. rs.pos = 0
        BY <2>1, <2>3, <3>1, <3>2 DEF SeekEnds, IsBOF, adoBOF
      <4> QED
        BY <2>0, <2>1, <2>3, <3>1, <3>2, <4>1
    <3>3. CASE ~op.back
      <4>1. rs.pos > Len(rs.rows)
        BY <2>1, <2>3, <3>1, <3>3 DEF SeekEnds, IsEOF, adoEOF
      <4> QED
        BY <2>0, <2>1, <2>3, <3>1, <3>3, <4>1
    <3> QED
      BY <3>2, <3>3
  <2>4. ASSUME CountEnds, ~op.skipped
        PROVE  op.count = Len(rs.rows)
    <3>1. op.name = "count" /\ IsEOF(rs)
      BY <2>4 DEF CountEnds
    <3>2. rs.rows # <<>> /\ op.count = rs.pos - 1
      BY <1>1, <2>4, <3>1 DEF RsInv, CountIsOnItsWay, OnItsWay
    <3> QED
      BY <2>0, <3>1, <3>2 DEF IsEOF, adoEOF
  <2> QED
    BY <2>2, <2>3, <2>4
<1>2. RsInv => [Right]_vars
  BY <1>1
<1> QED
  BY <1>2, InitRsInv, NextRsInv, PTL DEF Spec, SeekIsRight

\* The rows beyond the one found last, by place instead of by id.
LEMMA BeyondIsBehind ==
  ASSUME RsInv, NEW k \in DOMAIN rs.rows, rs.rows[k].id = last
  PROVE  Beyond(last) = {i \in DOMAIN rs.rows : /\ rs.rows[i].val = m_strFind
                                                /\ IF m_SearchDirection = "adSearchForward" THEN i > k ELSE i < k}
<1>1. ASSUME NEW i \in DOMAIN rs.rows
      PROVE  (rs.rows[i].id > last <=> i > k) /\ (rs.rows[i].id < last <=> i < k)
  <2>1. i \in Nat /\ k \in Nat /\ rs.rows[i].id \in Nat /\ rs.rows[k].id \in Nat
    BY SoundParts DEF RsInv
  <2>2. (i < k => rs.rows[i].id < rs.rows[k].id) /\ (k < i => rs.rows[k].id < rs.rows[i].id)
    BY DEF RsInv, IsSound, InOrder
  <2> QED
    BY <2>1, <2>2
<1> QED
  BY <1>1 DEF Beyond

\* The nearest row that matches, or none, as FindNext leaves it.
LEMMA FindNextGoesOn ==
  ASSUME RsInv, FindNext, last # 0, last' # 0
  PROVE  LET more == Beyond(last)
         IN  \/ (more # {} /\ last' = rs.rows[Nearest(more)].id /\ rs'.pos = Nearest(more))
             \/ (last' = last /\ (more = {} \/ rs' = rs))
<1> DEFINE f == AdoFindFrom(rs, m_strFind, m_SearchDirection, m_varBookmark)
           w == Written(rs)
           more == Beyond(last)
           forward == m_SearchDirection = "adSearchForward"
<1>0. /\ IsSound(rs) /\ rs.open /\ rs.counted /\ m_varBookmark = last /\ IndexOf(rs, last) # {}
      /\ Len(rs.rows) \in Nat /\ DOMAIN rs.rows = 1 .. Len(rs.rows)
  BY SoundParts DEF RsInv, FoundIsKept
<1>1. rs' = f.rs /\ f.rs.rows = rs.rows /\ last' = IF Found(f) THEN rs'.rows[rs'.pos].id ELSE last
  BY DEF FindNext
<1>2. CASE AdoUpdate(rs).ok
  <2>1. AdoUpdate(rs).rs = w
    BY <1>0, <1>2, UpdateIsSound
  <2>2. IsSound(w) /\ w.edit = "adEditNone" /\ w.open /\ w.counted /\ IndexOf(w, last) # {}
    BY <1>0, WrittenIsSound, WrittenKeepsIds
  <2> DEFINE k == Max(IndexOf(w, last))
             from == k + IF forward THEN 1 ELSE -1
             m == Match(w, from, m_strFind, m_SearchDirection)
  <2>3. f = Done_(At(w, m))
    BY <1>0, <1>2, <2>1, <2>2, FindFromIs
  <2>4. k \in DOMAIN w.rows /\ w.rows[k].id = last
    BY <2>2, BookmarkOfOne
  <2> HIDE DEF m
  <2>5. f.ok /\ f.rs.pos = m /\ ~f.rs.gone /\ f.rs.rows = w.rows /\ f.rs.open = w.open /\ f.rs.edit = w.edit
    <3> HIDE DEF w, f
    <3>1. IsSound(w) /\ f = Done_(At(w, m))
      BY <2>2, <2>3
    <3> QED
      BY <3>1, DoneAt
  <2>6. w.rows = rs.rows /\ k \in 1 .. Len(rs.rows) /\ rs.rows[k].id = last
    BY <1>0, <1>1, <2>4, <2>5
  <2> HIDE DEF k
  <2>7. from \in Int /\ from = IF forward THEN k + 1 ELSE k - 1
    BY <2>6
  <2> HIDE DEF from
  <2>8. /\ m \in 0 .. Len(rs.rows) + 1
        /\ forward =>
             /\ m = Len(rs.rows) + 1 \/ (m \in DOMAIN rs.rows /\ rs.rows[m].val = m_strFind /\ from <= m)
             /\ \A i \in DOMAIN rs.rows : rs.rows[i].val = m_strFind /\ from <= i => m <= i
        /\ ~forward =>
             /\ m = 0 \/ (m \in DOMAIN rs.rows /\ rs.rows[m].val = m_strFind /\ m <= from)
             /\ \A i \in DOMAIN rs.rows : rs.rows[i].val = m_strFind /\ i <= from => i <= m
    BY <2>2, <2>6, <2>7, MatchIsThere DEF m
  <2>9. more = {i \in DOMAIN rs.rows : /\ rs.rows[i].val = m_strFind
                                       /\ IF forward THEN i > k ELSE i < k}
    BY <1>0, <2>6, BeyondIsBehind
  <2>10. Found(f) <=> m \in 1 .. Len(rs.rows)
    <3>1. f.rs.open /\ f.rs.edit = "adEditNone" /\ f.rs.rows = rs.rows /\ rs.rows # <<>>
      BY <1>1, <2>2, <2>5, <2>6
    <3> HIDE DEF f
    <3> QED
      BY <1>0, <2>5, <2>8, <3>1 DEF Found, IsEOF, IsBOF, adoEOF, adoBOF
  <2> HIDE DEF more, f
  <2>11. CASE m \in 1 .. Len(rs.rows)
    <3>1. m \in more
      BY <1>0, <2>6, <2>7, <2>8, <2>9, <2>11
    <3>2. more \in SUBSET Nat /\ more # {} /\ \A x \in more : x <= Len(rs.rows)
      BY <1>0, <2>9, <3>1
    <3>3. forward => \A x \in more : m <= x
      BY <1>0, <2>6, <2>7, <2>8, <2>9
    <3>4. ~forward => \A x \in more : x <= m
      BY <1>0, <2>6, <2>7, <2>8, <2>9
    <3>5. Nearest(more) = m
      <4>1. CASE forward
        <5>1. Min(more) \in more /\ Min(more) <= m /\ m <= Min(more) /\ Min(more) \in Nat
          BY <3>1, <3>2, <3>3, <4>1, MinIsLeast
        <5> QED
          BY <2>11, <4>1, <5>1 DEF Nearest
      <4>2. CASE ~forward
        <5>1. Max(more) \in more /\ m <= Max(more) /\ Max(more) <= m /\ Max(more) \in Nat
          BY <1>0, <3>1, <3>2, <3>4, <4>2, MaxIsGreatest
        <5> QED
          BY <2>11, <4>2, <5>1 DEF Nearest
      <4> QED
        BY <4>1, <4>2
    <3>6. rs'.pos = m /\ last' = rs.rows[m].id
      BY <1>1, <2>5, <2>10, <2>11
    <3>7. more # {} /\ last' = rs.rows[Nearest(more)].id /\ rs'.pos = Nearest(more)
      BY <3>2, <3>5, <3>6
    <3> QED
      BY <3>7 DEF more
  <2>12. CASE m \notin 1 .. Len(rs.rows)
    <3>1. more = {}
      BY <1>0, <2>6, <2>7, <2>8, <2>9, <2>12
    <3>2. last' = last
      BY <1>1, <2>10, <2>12
    <3> QED
      BY <3>1, <3>2 DEF more
  <2> QED
    BY <2>11, <2>12
<1>3. CASE ~AdoUpdate(rs).ok
  <2>1. f = Error(rs)
    BY <1>0, <1>3, UpdateIsSound, FindFromIs
  <2>2. ~Found(f) /\ rs' = rs
    BY <1>1, <2>1, ResultOf DEF Found
  <2> QED
    BY <1>1, <2>2
<1> QED
  BY <1>2, <1>3

\* FindNext goes from match to match, wherever the cursor was moved in between.
THEOREM FindGoesFromMatchToMatch == Spec => FindEnumerates
<1> DEFINE GoesOn == (FindNext /\ last # 0 /\ last' # 0)
                       => LET more == Beyond(last)
                          IN  \/ (more # {} /\ last' = rs.rows[Nearest(more)].id /\ rs'.pos = Nearest(more))
                              \/ (last' = last /\ (more = {} \/ rs' = rs))
<1>1. RsInv => [GoesOn]_vars
  BY FindNextGoesOn
<1> HIDE DEF GoesOn
<1>2. Spec => [][GoesOn]_vars
  BY <1>1, InitRsInv, NextRsInv, PTL DEF Spec
<1> QED
  BY <1>2 DEF FindEnumerates, GoesOn

-----------------------------------------------------------------------------
(* Transactions                                                            *)

\* A connection holds work only in a transaction that the server knows of, and
\* only the work of threads it is given to.
Own(i, c) ==
  /\ c.alive => c.open
  /\ c.work # {} => c.alive /\ c.trans
  /\ \A s \in c.work : Ado!ConnId(s.by) = i

WorkIsOwn == \A i \in Ado!Ids : Own(i, m_FreeDbList[i])

Nos(c) == {s.no : s \in c.work}

\* In a transaction the connection has all of it, as long as the server has the
\* connection, and the database has nothing; after it the connection has
\* nothing.
Whole(t, c) ==
  /\ pc[t] \in {"trans", "failed"} => stored[t] = {} /\ result[t] = "none"
  /\ pc[t] = "trans" => c.trans /\ (c.alive => Nos(c) = 1 .. issued[t])
  /\ pc[t] \notin {"trans", "failed"} => c.work = {}
  /\ stored[t] \in {{}, 1 .. issued[t]}
  /\ result[t] = "committed" => stored[t] = 1 .. issued[t]
  /\ result[t] = "rolled back" => stored[t] = {}

\* The inductive invariant.
IInv == Ado!TypeOK /\ WorkIsOwn /\ \A t \in Threads : Ado!Alone(t) => Whole(t, Ado!Conn(t))

-----------------------------------------------------------------------------
(* The types of the transactions                                           *)

\* The connection of a thread is one of the list (GetDBConnnection's index).
LEMMA ConnIdType == ASSUME NEW t \in Threads PROVE Ado!ConnId(t) \in Ado!Ids
<1>1. t \in Nat /\ Connections \in Nat \ {0}
  BY ThreadsAssumption
<1>2. t \div 4 \in Nat
  BY <1>1
<1>3. \A a \in Nat, b \in Nat \ {0} : (a % b) \in 0 .. b - 1
  OBVIOUS
<1>4. ((t \div 4) % Connections) \in 0 .. Connections - 1
  BY <1>1, <1>2, <1>3
<1> QED
  BY <1>4 DEF Ado!ConnId, Ado!Ids

\* What the calls make of a connection is a connection.
LEMMA ConnectionTypes ==
  /\ Ado!Closed \in Ado!Connection /\ Ado!Opened \in Ado!Connection
  /\ \A c \in Ado!Connection : \A trans \in BOOLEAN : \A alive \in BOOLEAN :
       /\ c.trans \in BOOLEAN
       /\ [c EXCEPT !.trans = trans] \in Ado!Connection
       /\ [c EXCEPT !.trans = trans, !.work = {}] \in Ado!Connection
       /\ [c EXCEPT !.trans = trans, !.alive = alive, !.work = {}] \in Ado!Connection
       /\ [c EXCEPT !.alive = alive, !.work = {}] \in Ado!Connection
  /\ \A c \in Ado!Connection : \A s \in Ado!Statement : [c EXCEPT !.work = @ \cup {s}] \in Ado!Connection
BY DEF Ado!Connection, Ado!Closed, Ado!Opened

LEMMA ConnType == ASSUME Ado!TypeOK, NEW t \in Threads PROVE Ado!Conn(t) \in Ado!Connection
BY ConnIdType DEF Ado!TypeOK, Ado!Conn

\* Becomes writes one connection and leaves the others alone.
LEMMA BecomesOne ==
  ASSUME Ado!TypeOK, NEW t \in Threads, NEW c \in Ado!Connection, Ado!Becomes(t, c)
  PROVE  /\ m_FreeDbList' \in [Ado!Ids -> Ado!Connection]
         /\ Ado!Conn(t)' = c
         /\ \A i \in Ado!Ids : m_FreeDbList'[i] = IF i = Ado!ConnId(t) THEN c ELSE m_FreeDbList[i]
<1>1. m_FreeDbList \in [Ado!Ids -> Ado!Connection]
  BY DEF Ado!TypeOK
<1> QED
  BY <1>1, ConnIdType DEF Ado!Becomes, Ado!Conn

\* A step of a thread changes what that thread does, and not what others do.
LEMMA GotoOne ==
  ASSUME Ado!TypeOK, NEW t \in Threads, NEW from,
             NEW to \in {"idle", "probe", "close", "open", "ready", "trans", "failed"},
             Ado!Goto(t, from, to)
  PROVE  /\ pc' \in [Threads -> {"idle", "probe", "close", "open", "ready", "trans", "failed"}]
         /\ pc[t] = from /\ pc'[t] = to
         /\ \A u \in Threads \ {t} : pc'[u] = pc[u]
BY DEF Ado!TypeOK, Ado!Goto

LEMMA StoreType ==
  ASSUME Ado!TypeOK, NEW t \in Threads, Ado!Store(t)
  PROVE  /\ stored' \in [Threads -> SUBSET (1 .. MaxStatements)]
         /\ \A u \in Threads : stored'[u] = stored[u] \cup {s.no : s \in {w \in Ado!Conn(t).work : w.by = u}}
<1>1. Ado!Conn(t).work \subseteq Ado!Statement
  BY ConnType DEF Ado!Connection
<1>2. \A u \in Threads : stored[u] \subseteq 1 .. MaxStatements
  BY DEF Ado!TypeOK
<1>3. \A u \in Threads : {s.no : s \in {w \in Ado!Conn(t).work : w.by = u}} \subseteq 1 .. MaxStatements
  BY <1>1 DEF Ado!Statement
<1> QED
  BY <1>2, <1>3 DEF Ado!Store

LEMMA NumberIsNat == ASSUME Ado!TypeOK, NEW t \in Threads PROVE issued[t] \in Nat
<1>1. issued[t] \in 0 .. MaxStatements /\ MaxStatements \in Nat
  BY ThreadsAssumption DEF Ado!TypeOK
<1> QED
  BY <1>1

LEMMA NextNo ==
  ASSUME Ado!TypeOK, NEW t \in Threads, issued[t] < MaxStatements
  PROVE  /\ issued[t] + 1 \in 1 .. MaxStatements
         /\ [by |-> t, no |-> issued[t] + 1] \in Ado!Statement
<1>1. issued \in [Threads -> 0 .. MaxStatements] /\ MaxStatements \in Nat
  BY ThreadsAssumption DEF Ado!TypeOK
<1>2. issued[t] + 1 \in 1 .. MaxStatements
  BY <1>1
<1> QED
  BY <1>2 DEF Ado!Statement

LEMMA TypeInit == Ado!Init => Ado!TypeOK
<1> SUFFICES ASSUME Ado!Init PROVE Ado!TypeOK
  OBVIOUS
<1>1. m_FreeDbList \in [Ado!Ids -> Ado!Connection]
  BY ConnectionTypes DEF Ado!Init
<1>2. MaxStatements \in Nat
  BY ThreadsAssumption
<1> QED
  BY <1>1, <1>2 DEF Ado!Init, Ado!TypeOK

LEMMA TypeNext == Ado!TypeOK /\ [Ado!Next]_(Ado!vars) => Ado!TypeOK'
<1> SUFFICES ASSUME Ado!TypeOK, [Ado!Next]_(Ado!vars) PROVE Ado!TypeOK'
  OBVIOUS
<1>0. MaxStatements \in Nat
  BY ThreadsAssumption
<1>1. ASSUME NEW t \in Threads, Ado!CallGet(t) PROVE Ado!TypeOK'
  BY <1>1, GotoOne DEF Ado!CallGet, Ado!history, Ado!TypeOK
<1>2. ASSUME NEW t \in Threads, Ado!Probe(t) PROVE Ado!TypeOK'
  BY <1>2, GotoOne DEF Ado!Probe, Ado!history, Ado!TypeOK
<1>3. ASSUME NEW t \in Threads, Ado!CloseOld(t) PROVE Ado!TypeOK'
  <2>1. m_FreeDbList' \in [Ado!Ids -> Ado!Connection]
    BY <1>3, BecomesOne, ConnectionTypes DEF Ado!CloseOld, Ado!TypeOK
  <2> QED
    BY <1>3, <2>1, GotoOne DEF Ado!CloseOld, Ado!history, Ado!TypeOK
<1>4. ASSUME NEW t \in Threads, Ado!Open(t) PROVE Ado!TypeOK'
  <2>1. m_FreeDbList' \in [Ado!Ids -> Ado!Connection]
    BY <1>4, BecomesOne, ConnectionTypes DEF Ado!Open, Ado!TypeOK
  <2> QED
    BY <1>4, <2>1, GotoOne DEF Ado!Open, Ado!history, Ado!TypeOK
<1>5. ASSUME NEW t \in Threads, Ado!BeginTrans(t) PROVE Ado!TypeOK'
  <2>1. m_FreeDbList' \in [Ado!Ids -> Ado!Connection]
    BY <1>5, BecomesOne, ConnectionTypes, ConnType DEF Ado!BeginTrans, Ado!TypeOK
  <2>2. CASE Ado!Works(t) /\ ~Ado!Conn(t).trans
    <3>1. /\ Ado!Goto(t, "ready", "trans") /\ server' = server
          /\ issued' = [issued EXCEPT ![t] = 0]
          /\ stored' = [stored EXCEPT ![t] = {}]
          /\ result' = [result EXCEPT ![t] = "none"]
      BY <1>5, <2>2 DEF Ado!BeginTrans
    <3>2. 0 \in 0 .. MaxStatements
      BY <1>0
    <3> QED
      BY <2>1, <3>1, <3>2, GotoOne DEF Ado!TypeOK
  <2>3. CASE ~(Ado!Works(t) /\ ~Ado!Conn(t).trans)
    BY <1>5, <2>3, GotoOne DEF Ado!BeginTrans, Ado!history, Ado!TypeOK
  <2> QED
    BY <2>2, <2>3
<1>6. ASSUME NEW t \in Threads, Ado!Execute(t) PROVE Ado!TypeOK'
  <2> DEFINE s == [by |-> t, no |-> issued[t] + 1]
  <2>0. issued[t] < MaxStatements /\ issued' = [issued EXCEPT ![t] = issued[t] + 1]
    BY <1>6 DEF Ado!Execute
  <2>i. issued \in [Threads -> 0 .. MaxStatements]
    BY DEF Ado!TypeOK
  <2>1. issued[t] + 1 \in 1 .. MaxStatements
    BY <2>0, NextNo
  <2>2. s \in Ado!Statement
    BY <2>0, NextNo
  <2>3. [Ado!Conn(t) EXCEPT !.work = @ \cup {s}] \in Ado!Connection
    BY <2>2, ConnType, ConnectionTypes
  <2>4. m_FreeDbList' \in [Ado!Ids -> Ado!Connection]
    BY <1>6, <2>3, BecomesOne DEF Ado!Execute, Ado!TypeOK
  <2>5. issued' \in [Threads -> 0 .. MaxStatements]
    BY <1>0, <2>0, <2>1, <2>i
  <2>6. stored' \in [Threads -> SUBSET (1 .. MaxStatements)]
    <3>1. stored' = stored \/ stored' = [stored EXCEPT ![t] = @ \cup {issued[t] + 1}]
      BY <1>6 DEF Ado!Execute
    <3>2. stored \in [Threads -> SUBSET (1 .. MaxStatements)]
      BY DEF Ado!TypeOK
    <3> QED
      BY <2>1, <3>1, <3>2
  <2>7. server' = server /\ result' = result /\ Ado!Goto(t, "trans", "trans")
    BY <1>6 DEF Ado!Execute
  <2> QED
    BY <2>4, <2>5, <2>6, <2>7, GotoOne DEF Ado!TypeOK
<1>7. ASSUME NEW t \in Threads, Ado!ExecuteFails(t) PROVE Ado!TypeOK'
  BY <1>7, GotoOne DEF Ado!ExecuteFails, Ado!history, Ado!TypeOK
<1>8. ASSUME NEW t \in Threads, Ado!CommitTrans(t) PROVE Ado!TypeOK'
  <2>1. m_FreeDbList' \in [Ado!Ids -> Ado!Connection]
    BY <1>8, BecomesOne, ConnectionTypes, ConnType DEF Ado!CommitTrans
  <2>2. Ado!Goto(t, "trans", "ready") /\ Ado!Store(t) /\ UNCHANGED <<server, issued>>
    BY <1>8 DEF Ado!CommitTrans, Ado!End
  <2>3. result' = [result EXCEPT ![t] = "committed"]
    BY <1>8 DEF Ado!CommitTrans, Ado!End
  <2> QED
    BY <2>1, <2>2, <2>3, StoreType, GotoOne DEF Ado!TypeOK
<1>9. ASSUME NEW t \in Threads, Ado!CommitUnheard(t) PROVE Ado!TypeOK'
  <2>1. \A trans \in BOOLEAN : [Ado!Conn(t) EXCEPT !.trans = trans, !.alive = FALSE, !.work = {}] \in Ado!Connection
    BY ConnectionTypes, ConnType
  <2>2. Ado!Goto(t, "trans", "ready") /\ Ado!Store(t) /\ UNCHANGED <<server, issued>>
    BY <1>9 DEF Ado!CommitUnheard, Ado!End
  <2>3. result' = [result EXCEPT ![t] = "failed"]
    BY <1>9 DEF Ado!CommitUnheard, Ado!End
  <2>4. m_FreeDbList' \in [Ado!Ids -> Ado!Connection]
    BY <1>9, <2>1, BecomesOne DEF Ado!CommitUnheard
  <2> QED
    BY <2>2, <2>3, <2>4, StoreType, GotoOne DEF Ado!TypeOK
<1>10. ASSUME NEW t \in Threads, Ado!CommitFails(t) PROVE Ado!TypeOK'
  <2>1. m_FreeDbList' \in [Ado!Ids -> Ado!Connection]
    BY <1>10, BecomesOne, ConnectionTypes, ConnType DEF Ado!CommitFails
  <2> QED
    BY <1>10, <2>1, GotoOne DEF Ado!CommitFails, Ado!End, Ado!TypeOK
<1>11. ASSUME NEW t \in Threads, Ado!RollbackTrans(t) PROVE Ado!TypeOK'
  <2>1. m_FreeDbList' \in [Ado!Ids -> Ado!Connection]
    BY <1>11, BecomesOne, ConnectionTypes, ConnType DEF Ado!RollbackTrans
  <2> QED
    BY <1>11, <2>1, GotoOne DEF Ado!RollbackTrans, Ado!End, Ado!TypeOK
<1>12. ASSUME NEW i \in Ado!Ids, Ado!Break(i) PROVE Ado!TypeOK'
  <2>1. m_FreeDbList' = [m_FreeDbList EXCEPT ![i] = [@ EXCEPT !.alive = FALSE, !.work = {}]]
    BY <1>12 DEF Ado!Break, Ado!TypeOK, Ado!Connection
  <2>2. m_FreeDbList[i] \in Ado!Connection
    BY DEF Ado!TypeOK
  <2>3. m_FreeDbList' \in [Ado!Ids -> Ado!Connection]
    BY <2>1, <2>2, ConnectionTypes DEF Ado!TypeOK
  <2> QED
    BY <1>12, <2>3 DEF Ado!Break, Ado!history, Ado!TypeOK
<1>13. CASE Ado!Serve
  BY <1>13 DEF Ado!Serve, Ado!history, Ado!TypeOK
<1>14. CASE UNCHANGED Ado!vars
  BY <1>14 DEF Ado!vars, Ado!history, Ado!TypeOK
<1> QED
  BY <1>1, <1>2, <1>3, <1>4, <1>5, <1>6, <1>7, <1>8, <1>9, <1>10, <1>11, <1>12, <1>13, <1>14
     DEF Ado!Next, Ado!Get, Ado!Transact

-----------------------------------------------------------------------------
(* The others                                                              *)

\* A thread that is alone has a connection of its own.
LEMMA AloneApart ==
  ASSUME NEW t \in Threads, NEW u \in Threads \ {t}, Ado!Alone(u)
  PROVE  Ado!ConnId(t) # Ado!ConnId(u)
BY DEF Ado!Alone, Ado!ConnId

\* What one thread stores holds nothing of a thread that is alone.
LEMMA StoreApart ==
  ASSUME Ado!TypeOK, WorkIsOwn, NEW t \in Threads, Ado!Store(t), NEW u \in Threads \ {t}, Ado!Alone(u)
  PROVE  stored'[u] = stored[u]
<1>1. \A w \in Ado!Conn(t).work : Ado!ConnId(w.by) = Ado!ConnId(t)
  BY ConnIdType DEF WorkIsOwn, Own, Ado!Conn
<1>2. {w \in Ado!Conn(t).work : w.by = u} = {}
  BY <1>1, AloneApart
<1>3. stored'[u] = stored[u] \cup {s.no : s \in {w \in Ado!Conn(t).work : w.by = u}}
  BY StoreType
<1> QED
  BY <1>2, <1>3

\* A step of one thread leaves another that is alone as it was.
LEMMA OthersStay ==
  ASSUME Ado!TypeOK, WorkIsOwn, NEW t \in Threads, Ado!CallGet(t) \/ Ado!Get(t) \/ Ado!Transact(t),
             NEW u \in Threads \ {t}, Ado!Alone(u)
  PROVE  /\ Ado!Conn(u)' = Ado!Conn(u)
         /\ pc'[u] = pc[u] /\ issued'[u] = issued[u]
         /\ stored'[u] = stored[u] /\ result'[u] = result[u]
<1> USE AloneApart DEF Ado!TypeOK
<1>b. ASSUME NEW c \in Ado!Connection, Ado!Becomes(t, c) PROVE Ado!Conn(u)' = Ado!Conn(u)
  BY <1>b, BecomesOne, ConnIdType DEF Ado!Conn
<1>k. ASSUME UNCHANGED m_FreeDbList PROVE Ado!Conn(u)' = Ado!Conn(u)
  BY <1>k DEF Ado!Conn
<1>1. CASE Ado!CallGet(t)
  BY <1>1, <1>k, GotoOne DEF Ado!CallGet, Ado!history
<1>2. CASE Ado!Probe(t)
  BY <1>2, <1>k, GotoOne DEF Ado!Probe, Ado!history
<1>3. CASE Ado!CloseOld(t)
  <2>1. Ado!Conn(u)' = Ado!Conn(u)
    BY <1>3, <1>b, <1>k, ConnectionTypes DEF Ado!CloseOld
  <2> QED
    BY <1>3, <2>1, GotoOne DEF Ado!CloseOld, Ado!history
<1>4. CASE Ado!Open(t)
  BY <1>4, <1>b, <1>k, ConnectionTypes, GotoOne DEF Ado!Open, Ado!history
<1>5. CASE Ado!BeginTrans(t)
  <2>1. Ado!Conn(u)' = Ado!Conn(u)
    BY <1>5, <1>b, <1>k, ConnType, ConnectionTypes DEF Ado!BeginTrans
  <2>2. pc'[u] = pc[u]
    BY <1>5, GotoOne DEF Ado!BeginTrans
  <2> QED
    BY <1>5, <2>1, <2>2 DEF Ado!BeginTrans, Ado!history
<1>6. CASE Ado!Execute(t)
  <2>1. Ado!Conn(t) \in Ado!Connection
    BY ConnType
  <2>2. issued[t] < MaxStatements
    BY <1>6 DEF Ado!Execute
  <2>3. [by |-> t, no |-> issued[t] + 1] \in Ado!Statement
    BY <2>2, NextNo
  <2>4. [Ado!Conn(t) EXCEPT !.work = @ \cup {[by |-> t, no |-> issued[t] + 1]}] \in Ado!Connection
    BY <2>1, <2>3, ConnectionTypes
  <2>5. Ado!Conn(u)' = Ado!Conn(u)
    <3>1. \/ Ado!Becomes(t, [Ado!Conn(t) EXCEPT !.work = @ \cup {[by |-> t, no |-> issued[t] + 1]}])
          \/ UNCHANGED m_FreeDbList
      BY <1>6 DEF Ado!Execute
    <3> QED
      BY <1>b, <1>k, <2>4, <3>1
  <2>6. pc'[u] = pc[u]
    BY <1>6, GotoOne DEF Ado!Execute
  <2> QED
    BY <1>6, <2>5, <2>6 DEF Ado!Execute
<1>7. CASE Ado!ExecuteFails(t)
  BY <1>7, <1>k, GotoOne DEF Ado!ExecuteFails, Ado!history
<1>8. CASE Ado!CommitTrans(t)
  <2>1. Ado!Conn(u)' = Ado!Conn(u)
    BY <1>8, <1>b, ConnType, ConnectionTypes DEF Ado!CommitTrans
  <2>2. pc'[u] = pc[u] /\ stored'[u] = stored[u]
    BY <1>8, GotoOne, StoreApart DEF Ado!CommitTrans, Ado!End
  <2> QED
    BY <1>8, <2>1, <2>2 DEF Ado!CommitTrans, Ado!End
<1>9. CASE Ado!CommitUnheard(t)
  <2>0. \A trans \in BOOLEAN : [Ado!Conn(t) EXCEPT !.trans = trans, !.alive = FALSE, !.work = {}] \in Ado!Connection
    BY ConnectionTypes, ConnType
  <2>1. Ado!Conn(u)' = Ado!Conn(u)
    <3>1. PICK trans \in BOOLEAN : Ado!Becomes(t, [Ado!Conn(t) EXCEPT !.trans = trans, !.alive = FALSE, !.work = {}])
      BY <1>9 DEF Ado!CommitUnheard
    <3> QED
      BY <1>b, <2>0, <3>1
  <2>2. pc'[u] = pc[u] /\ stored'[u] = stored[u]
    BY <1>9, GotoOne, StoreApart DEF Ado!CommitUnheard, Ado!End
  <2> QED
    BY <1>9, <2>1, <2>2 DEF Ado!CommitUnheard, Ado!End
<1>10. CASE Ado!CommitFails(t)
  <2>1. Ado!Conn(u)' = Ado!Conn(u)
    BY <1>10, <1>b, ConnType, ConnectionTypes DEF Ado!CommitFails
  <2>2. pc'[u] = pc[u]
    BY <1>10, GotoOne DEF Ado!CommitFails, Ado!End
  <2> QED
    BY <1>10, <2>1, <2>2 DEF Ado!CommitFails, Ado!End
<1>11. CASE Ado!RollbackTrans(t)
  <2>1. Ado!Conn(u)' = Ado!Conn(u)
    BY <1>11, <1>b, ConnType, ConnectionTypes DEF Ado!RollbackTrans
  <2>2. pc'[u] = pc[u]
    BY <1>11, GotoOne DEF Ado!RollbackTrans, Ado!End
  <2> QED
    BY <1>11, <2>1, <2>2 DEF Ado!RollbackTrans, Ado!End
<1> QED
  BY <1>1, <1>2, <1>3, <1>4, <1>5, <1>6, <1>7, <1>8, <1>9, <1>10, <1>11 DEF Ado!Get, Ado!Transact

-----------------------------------------------------------------------------
(* Whose work a connection holds                                           *)

LEMMA OwnConn == ASSUME WorkIsOwn, NEW t \in Threads PROVE Own(Ado!ConnId(t), Ado!Conn(t))
BY ConnIdType DEF WorkIsOwn, Ado!Conn

LEMMA BecomesOwn ==
  ASSUME Ado!TypeOK, WorkIsOwn, NEW t \in Threads, NEW c \in Ado!Connection, Ado!Becomes(t, c), Own(Ado!ConnId(t), c)
  PROVE  WorkIsOwn'
<1>1. \A i \in Ado!Ids : m_FreeDbList'[i] = IF i = Ado!ConnId(t) THEN c ELSE m_FreeDbList[i]
  BY BecomesOne
<1>2. \A i \in Ado!Ids : Own(i, m_FreeDbList'[i])
  BY <1>1 DEF WorkIsOwn
<1> QED
  BY <1>2 DEF WorkIsOwn

LEMMA WorkInit == Ado!Init => WorkIsOwn
<1>1. \A i : Own(i, Ado!Closed) /\ Own(i, Ado!Opened)
  BY DEF Own, Ado!Closed, Ado!Opened
<1>2. Ado!Init => \A i \in Ado!Ids : m_FreeDbList[i] \in {Ado!Closed, Ado!Opened}
  BY DEF Ado!Init
<1> QED
  BY <1>1, <1>2 DEF WorkIsOwn

LEMMA WorkNext == Ado!TypeOK /\ WorkIsOwn /\ [Ado!Next]_(Ado!vars) => WorkIsOwn'
<1> SUFFICES ASSUME Ado!TypeOK, WorkIsOwn, [Ado!Next]_(Ado!vars) PROVE WorkIsOwn'
  OBVIOUS
<1>k. ASSUME UNCHANGED m_FreeDbList PROVE WorkIsOwn'
  BY <1>k DEF WorkIsOwn
<1>1. ASSUME NEW t \in Threads, Ado!CallGet(t) \/ Ado!Probe(t) \/ Ado!ExecuteFails(t) PROVE WorkIsOwn'
  BY <1>1, <1>k DEF Ado!CallGet, Ado!Probe, Ado!ExecuteFails
<1>3. ASSUME NEW t \in Threads, Ado!CloseOld(t) PROVE WorkIsOwn'
  <2>1. Own(Ado!ConnId(t), Ado!Closed)
    BY DEF Own, Ado!Closed
  <2>2. Ado!Becomes(t, Ado!Closed) \/ UNCHANGED m_FreeDbList
    BY <1>3 DEF Ado!CloseOld
  <2> QED
    BY <1>k, <2>1, <2>2, BecomesOwn, ConnectionTypes
<1>4. ASSUME NEW t \in Threads, Ado!Open(t) PROVE WorkIsOwn'
  <2>1. Own(Ado!ConnId(t), Ado!Opened)
    BY DEF Own, Ado!Opened, Ado!Closed
  <2>2. Ado!Becomes(t, Ado!Opened) \/ UNCHANGED m_FreeDbList
    BY <1>4 DEF Ado!Open
  <2> QED
    BY <1>k, <2>1, <2>2, BecomesOwn, ConnectionTypes
<1>5. ASSUME NEW t \in Threads, Ado!BeginTrans(t) PROVE WorkIsOwn'
  <2> DEFINE c == [Ado!Conn(t) EXCEPT !.trans = TRUE]
  <2>1. Ado!Conn(t) \in Ado!Connection /\ c \in Ado!Connection
    BY ConnType, ConnectionTypes
  <2>2. Own(Ado!ConnId(t), c)
    BY <2>1, OwnConn DEF Own, Ado!Connection
  <2>3. Ado!Becomes(t, c) \/ UNCHANGED m_FreeDbList
    BY <1>5 DEF Ado!BeginTrans
  <2> QED
    BY <1>k, <2>1, <2>2, <2>3, BecomesOwn
<1>6. ASSUME NEW t \in Threads, Ado!Execute(t) PROVE WorkIsOwn'
  <2> DEFINE s == [by |-> t, no |-> issued[t] + 1]
             c == [Ado!Conn(t) EXCEPT !.work = @ \cup {s}]
  <2>1. issued[t] < MaxStatements /\ Ado!Works(t)
    BY <1>6 DEF Ado!Execute
  <2>2. s \in Ado!Statement
    BY <2>1, NextNo
  <2>3. Ado!Conn(t) \in Ado!Connection /\ c \in Ado!Connection
    BY <2>2, ConnType, ConnectionTypes
  <2>4. ASSUME Ado!Conn(t).trans PROVE Own(Ado!ConnId(t), c)
    <3>1. /\ c.open = Ado!Conn(t).open /\ c.alive = Ado!Conn(t).alive /\ c.trans = Ado!Conn(t).trans
          /\ c.work = Ado!Conn(t).work \cup {s}
      BY <2>3 DEF Ado!Connection
    <3>2. Ado!ConnId(s.by) = Ado!ConnId(t)
      OBVIOUS
    <3>3. c.alive /\ c.open /\ c.trans
      BY <2>1, <2>4, <3>1 DEF Ado!Works
    <3> HIDE DEF c, s
    <3>4. \A w \in c.work : Ado!ConnId(w.by) = Ado!ConnId(t)
      BY <3>1, <3>2, OwnConn DEF Own
    <3> QED
      BY <3>3, <3>4 DEF Own
  <2>5. (Ado!Conn(t).trans /\ Ado!Becomes(t, c)) \/ UNCHANGED m_FreeDbList
    BY <1>6 DEF Ado!Execute
  <2> QED
    BY <1>k, <2>3, <2>4, <2>5, BecomesOwn
<1>8. ASSUME NEW t \in Threads, Ado!CommitTrans(t) PROVE WorkIsOwn'
  <2> DEFINE c == [Ado!Conn(t) EXCEPT !.trans = FALSE, !.work = {}]
  <2>1. Ado!Conn(t) \in Ado!Connection /\ c \in Ado!Connection
    BY ConnType, ConnectionTypes
  <2>2. Own(Ado!ConnId(t), c)
    BY <2>1, OwnConn DEF Own, Ado!Connection
  <2>3. Ado!Becomes(t, c)
    BY <1>8 DEF Ado!CommitTrans
  <2> QED
    BY <2>1, <2>2, <2>3, BecomesOwn
<1>9. ASSUME NEW t \in Threads, Ado!CommitUnheard(t) PROVE WorkIsOwn'
  <2>1. PICK trans \in BOOLEAN : Ado!Becomes(t, [Ado!Conn(t) EXCEPT !.trans = trans, !.alive = FALSE, !.work = {}])
    BY <1>9 DEF Ado!CommitUnheard
  <2> DEFINE c == [Ado!Conn(t) EXCEPT !.trans = trans, !.alive = FALSE, !.work = {}]
  <2>2. Ado!Conn(t) \in Ado!Connection /\ c \in Ado!Connection
    BY ConnType, ConnectionTypes
  <2>3. Own(Ado!ConnId(t), c)
    BY <2>2 DEF Own, Ado!Connection
  <2> QED
    BY <2>1, <2>2, <2>3, BecomesOwn
<1>d. ASSUME NEW t \in Threads, ~(Ado!Works(t) /\ Ado!Conn(t).trans), NEW trans \in {FALSE, Ado!Conn(t).trans},
             Ado!Becomes(t, [Ado!Conn(t) EXCEPT !.trans = trans])
      PROVE  WorkIsOwn'
  <2> DEFINE c == [Ado!Conn(t) EXCEPT !.trans = trans]
  <2>1. Ado!Conn(t) \in Ado!Connection /\ c \in Ado!Connection
    BY ConnType, ConnectionTypes
  <2>2. Ado!Conn(t).work = {} /\ (Ado!Conn(t).alive => Ado!Conn(t).open)
    BY <1>d, OwnConn DEF Own, Ado!Works
  <2>3. Own(Ado!ConnId(t), c)
    BY <2>1, <2>2 DEF Own, Ado!Connection
  <2> QED
    BY <1>d, <2>1, <2>3, BecomesOwn
<1>10. ASSUME NEW t \in Threads, Ado!CommitFails(t) PROVE WorkIsOwn'
  <2>1. /\ ~(Ado!Works(t) /\ Ado!Conn(t).trans)
        /\ \E trans \in {FALSE, Ado!Conn(t).trans} : Ado!Becomes(t, [Ado!Conn(t) EXCEPT !.trans = trans])
    BY <1>10 DEF Ado!CommitFails
  <2> QED
    BY <1>d, <2>1
<1>11. ASSUME NEW t \in Threads, Ado!RollbackTrans(t) PROVE WorkIsOwn'
  <2>1. CASE Ado!Works(t)
    <3> DEFINE c == [Ado!Conn(t) EXCEPT !.trans = FALSE, !.work = {}]
    <3>1. Ado!Conn(t) \in Ado!Connection /\ c \in Ado!Connection
      BY ConnType, ConnectionTypes
    <3>2. Own(Ado!ConnId(t), c)
      BY <3>1, OwnConn DEF Own, Ado!Connection
    <3>3. Ado!Becomes(t, c)
      BY <1>11, <2>1 DEF Ado!RollbackTrans
    <3> QED
      BY <3>1, <3>2, <3>3, BecomesOwn
  <2>2. CASE ~Ado!Works(t)
    <3>1. \E trans \in {FALSE, Ado!Conn(t).trans} : Ado!Becomes(t, [Ado!Conn(t) EXCEPT !.trans = trans])
      BY <1>11, <2>2 DEF Ado!RollbackTrans
    <3> QED
      BY <1>d, <2>2, <3>1
  <2> QED
    BY <2>1, <2>2
<1>12. ASSUME NEW i \in Ado!Ids, Ado!Break(i) PROVE WorkIsOwn'
  <2>1. m_FreeDbList \in [Ado!Ids -> Ado!Connection]
    BY DEF Ado!TypeOK
  <2>2. \A j \in Ado!Ids : \/ m_FreeDbList'[j] = m_FreeDbList[j]
                           \/ ~m_FreeDbList'[j].alive /\ m_FreeDbList'[j].work = {}
    BY <1>12, <2>1 DEF Ado!Break, Ado!Connection
  <2> QED
    BY <2>2 DEF WorkIsOwn, Own
<1>13. CASE Ado!Serve \/ UNCHANGED Ado!vars
  BY <1>13, <1>k DEF Ado!Serve, Ado!vars
<1> QED
  BY <1>1, <1>3, <1>4, <1>5, <1>6, <1>8, <1>9, <1>10, <1>11, <1>12, <1>13 DEF Ado!Next, Ado!Get, Ado!Transact

-----------------------------------------------------------------------------
(* A transaction                                                           *)

\* What a thread that is alone does keeps its transaction whole.
LEMMA WholeNext ==
  ASSUME Ado!TypeOK, WorkIsOwn, NEW t \in Threads, Ado!Alone(t), Whole(t, Ado!Conn(t)),
             Ado!CallGet(t) \/ Ado!Get(t) \/ Ado!Transact(t)
  PROVE  Whole(t, Ado!Conn(t))'
<1>0. /\ m_FreeDbList \in [Ado!Ids -> Ado!Connection]
      /\ pc \in [Threads -> {"idle", "probe", "close", "open", "ready", "trans", "failed"}]
      /\ issued \in [Threads -> 0 .. MaxStatements]
      /\ stored \in [Threads -> SUBSET (1 .. MaxStatements)]
      /\ result \in [Threads -> {"none", "committed", "failed", "rolled back"}]
  BY DEF Ado!TypeOK
<1>c. Ado!Conn(t) \in Ado!Connection
  BY ConnType
<1>o. Own(Ado!ConnId(t), Ado!Conn(t))
  BY OwnConn
\* Steps outside a transaction that leave or empty the connection.
<1>k. ASSUME pc[t] \notin {"trans", "failed"}, pc'[t] \notin {"trans", "failed"},
             Ado!Conn(t)'.work = {}, UNCHANGED Ado!history
      PROVE  Whole(t, Ado!Conn(t))'
  BY <1>k DEF Whole, Ado!history
<1>s. ASSUME UNCHANGED m_FreeDbList PROVE Ado!Conn(t)' = Ado!Conn(t)
  BY <1>s DEF Ado!Conn
<1>e. Ado!Closed.work = {} /\ Ado!Opened.work = {}
  BY DEF Ado!Closed, Ado!Opened
<1>1. ASSUME Ado!CallGet(t) \/ Ado!Probe(t) PROVE Whole(t, Ado!Conn(t))'
  <2>1. pc[t] \in {"idle", "probe"} /\ pc'[t] \in {"probe", "ready", "close"}
    BY <1>1, GotoOne DEF Ado!CallGet, Ado!Probe
  <2>2. Ado!Conn(t)' = Ado!Conn(t) /\ UNCHANGED Ado!history
    BY <1>1, <1>s DEF Ado!CallGet, Ado!Probe
  <2>3. Ado!Conn(t).work = {}
    BY <2>1 DEF Whole
  <2> QED
    BY <1>k, <2>1, <2>2, <2>3
<1>3. ASSUME Ado!CloseOld(t) PROVE Whole(t, Ado!Conn(t))'
  <2>1. pc[t] = "close" /\ pc'[t] = "open"
    BY <1>3, GotoOne DEF Ado!CloseOld
  <2>2. Ado!Conn(t)' = Ado!Closed \/ Ado!Conn(t)' = Ado!Conn(t)
    BY <1>3, <1>s, BecomesOne, ConnectionTypes DEF Ado!CloseOld
  <2>3. Ado!Conn(t).work = {}
    BY <2>1 DEF Whole
  <2>4. UNCHANGED Ado!history
    BY <1>3 DEF Ado!CloseOld
  <2> QED
    BY <1>e, <1>k, <2>1, <2>2, <2>3, <2>4
<1>4. ASSUME Ado!Open(t) PROVE Whole(t, Ado!Conn(t))'
  <2>1. pc[t] = "open" /\ pc'[t] \in {"ready", "idle"}
    BY <1>4, GotoOne DEF Ado!Open
  <2>2. Ado!Conn(t)' = Ado!Opened \/ Ado!Conn(t)' = Ado!Conn(t)
    BY <1>4, <1>s, BecomesOne, ConnectionTypes DEF Ado!Open
  <2>3. Ado!Conn(t).work = {}
    BY <2>1 DEF Whole
  <2>4. UNCHANGED Ado!history
    BY <1>4 DEF Ado!Open
  <2> QED
    BY <1>e, <1>k, <2>1, <2>2, <2>3, <2>4
<1>5. ASSUME Ado!BeginTrans(t) PROVE Whole(t, Ado!Conn(t))'
  <2>0. pc[t] = "ready"
    BY <1>5 DEF Ado!BeginTrans, Ado!Goto
  <2>1. Ado!Conn(t).work = {}
    BY <2>0 DEF Whole
  <2>2. CASE Ado!Works(t) /\ ~Ado!Conn(t).trans
    <3> DEFINE c == [Ado!Conn(t) EXCEPT !.trans = TRUE]
    <3>1. c \in Ado!Connection /\ c.trans /\ c.work = {}
      BY <1>c, <2>1 DEF Ado!Connection
    <3>2. Ado!Conn(t)' = c /\ pc'[t] = "trans"
      BY <1>5, <2>2, <3>1, BecomesOne, GotoOne DEF Ado!BeginTrans
    <3>3. issued'[t] = 0 /\ stored'[t] = {} /\ result'[t] = "none"
      BY <1>0, <1>5, <2>2 DEF Ado!BeginTrans
    <3>4. Nos(c) = {} /\ 1 .. 0 = {}
      BY <3>1 DEF Nos
    <3> HIDE DEF c
    <3> QED
      BY <3>1, <3>2, <3>3, <3>4 DEF Whole
  <2>3. CASE ~(Ado!Works(t) /\ ~Ado!Conn(t).trans)
    <3>1. UNCHANGED Ado!history /\ UNCHANGED m_FreeDbList /\ Ado!Goto(t, "ready", "idle")
      BY <1>5, <2>3 DEF Ado!BeginTrans
    <3>2. pc'[t] = "idle"
      BY <3>1, GotoOne
    <3> QED
      BY <1>k, <1>s, <2>0, <2>1, <3>1, <3>2
  <2> QED
    BY <2>2, <2>3
<1>6. ASSUME Ado!Execute(t) PROVE Whole(t, Ado!Conn(t))'
  <2> DEFINE s == [by |-> t, no |-> issued[t] + 1]
             c == [Ado!Conn(t) EXCEPT !.work = @ \cup {s}]
  <2>1. /\ issued[t] < MaxStatements /\ Ado!Conn(t).alive /\ Ado!Conn(t).open
        /\ Ado!Goto(t, "trans", "trans")
        /\ issued' = [issued EXCEPT ![t] = issued[t] + 1]
        /\ result' = result
    BY <1>6 DEF Ado!Execute, Ado!Works
  <2>2. s \in Ado!Statement /\ issued[t] + 1 \in 1 .. MaxStatements
    BY <2>1, NextNo
  <2>3. pc[t] = "trans" /\ pc'[t] = "trans"
    BY <2>1, GotoOne
  <2>4. Ado!Conn(t).trans /\ Nos(Ado!Conn(t)) = 1 .. issued[t] /\ stored[t] = {} /\ result[t] = "none"
    BY <2>1, <2>3 DEF Whole
  <2>5. c \in Ado!Connection /\ c.trans /\ c.work = Ado!Conn(t).work \cup {s}
    <3>1. c \in Ado!Connection
      BY <1>c, <2>2, ConnectionTypes
    <3> QED
      BY <1>c, <2>4, <3>1 DEF Ado!Connection
  <2>6. Ado!Becomes(t, c) /\ stored' = stored
    BY <1>6, <2>4 DEF Ado!Execute
  <2>7. Ado!Conn(t)' = c
    BY <2>5, <2>6, BecomesOne
  <2>8. Nos(c) = Nos(Ado!Conn(t)) \cup {issued[t] + 1}
    <3>1. s.no = issued[t] + 1
      OBVIOUS
    <3>2. \A W, x : {w.no : w \in W \cup {x}} = {w.no : w \in W} \cup {x.no}
      OBVIOUS
    <3>3. c.work = Ado!Conn(t).work \cup {s}
      BY <2>5
    <3> HIDE DEF s, c
    <3> QED
      BY <3>1, <3>2, <3>3 DEF Nos
  <2>9. issued[t] \in Nat
    BY NumberIsNat
  <2>10. (1 .. issued[t]) \cup {issued[t] + 1} = 1 .. issued[t] + 1
    BY <2>9
  <2>11. issued'[t] = issued[t] + 1
    BY <1>0, <2>1
  <2>12. Nos(c) = 1 .. issued'[t]
    BY <2>4, <2>8, <2>10, <2>11
  <2> HIDE DEF c
  <2> QED
    BY <2>1, <2>3, <2>4, <2>5, <2>6, <2>7, <2>12 DEF Whole
<1>7. ASSUME Ado!ExecuteFails(t) PROVE Whole(t, Ado!Conn(t))'
  <2>1. pc[t] = "trans" /\ pc'[t] = "failed" /\ Ado!Conn(t)' = Ado!Conn(t) /\ UNCHANGED Ado!history
    BY <1>7, <1>s, GotoOne DEF Ado!ExecuteFails
  <2> QED
    BY <2>1 DEF Whole, Ado!history
\* What a commit stores is nothing, or the whole transaction.
<1>t. ASSUME Ado!Works(t), pc[t] = "trans", Ado!Store(t)
      PROVE  stored'[t] = 1 .. issued[t]
  <2>1. stored[t] = {} /\ Nos(Ado!Conn(t)) = 1 .. issued[t]
    BY <1>t DEF Whole, Ado!Works
  <2>2. \A u \in Threads \ {t} : Ado!ConnId(u) # Ado!ConnId(t)
    BY DEF Ado!Alone, Ado!ConnId
  <2>3. \A w \in Ado!Conn(t).work : w.by \in Threads /\ Ado!ConnId(w.by) = Ado!ConnId(t)
    BY <1>c, <1>o DEF Own, Ado!Connection, Ado!Statement
  <2>4. \A w \in Ado!Conn(t).work : w.by = t
    BY <2>2, <2>3
  <2>5. {w \in Ado!Conn(t).work : w.by = t} = Ado!Conn(t).work
    BY <2>4
  <2>6. stored'[t] = stored[t] \cup {s.no : s \in {w \in Ado!Conn(t).work : w.by = t}}
    BY <1>t, StoreType
  <2> QED
    BY <2>1, <2>5, <2>6 DEF Nos
\* The end of a transaction.
<1>w. ASSUME pc'[t] = "ready", Ado!Conn(t)'.work = {}, issued' = issued,
             NEW how \in {"committed", "failed", "rolled back"}, result'[t] = how,
             \/ stored'[t] = 1 .. issued[t] /\ how # "rolled back"
             \/ stored'[t] = {} /\ how # "committed"
      PROVE  Whole(t, Ado!Conn(t))'
  BY <1>w DEF Whole
<1>n. ASSUME NEW from, NEW how, Ado!End(t, from, how)
      PROVE  pc[t] = from /\ pc'[t] = "ready" /\ result'[t] = how /\ issued' = issued
  BY <1>0, <1>n, GotoOne DEF Ado!End
<1>8. ASSUME Ado!CommitTrans(t) PROVE Whole(t, Ado!Conn(t))'
  <2> DEFINE c == [Ado!Conn(t) EXCEPT !.trans = FALSE, !.work = {}]
  <2>1. c \in Ado!Connection /\ c.work = {}
    BY <1>c, ConnectionTypes DEF Ado!Connection
  <2>2. Ado!Conn(t)' = c
    BY <1>8, <2>1, BecomesOne DEF Ado!CommitTrans
  <2>3. pc[t] = "trans" /\ pc'[t] = "ready" /\ result'[t] = "committed" /\ issued' = issued
    BY <1>8, <1>n DEF Ado!CommitTrans
  <2>4. stored'[t] = 1 .. issued[t]
    BY <1>8, <1>t, <2>3 DEF Ado!CommitTrans
  <2> QED
    BY <1>w, <2>1, <2>2, <2>3, <2>4
<1>9. ASSUME Ado!CommitUnheard(t) PROVE Whole(t, Ado!Conn(t))'
  <2>1. PICK trans \in BOOLEAN : Ado!Becomes(t, [Ado!Conn(t) EXCEPT !.trans = trans, !.alive = FALSE, !.work = {}])
    BY <1>9 DEF Ado!CommitUnheard
  <2> DEFINE c == [Ado!Conn(t) EXCEPT !.trans = trans, !.alive = FALSE, !.work = {}]
  <2>2. c \in Ado!Connection /\ c.work = {}
    BY <1>c, ConnectionTypes, ZenonT(30) DEF Ado!Connection
  <2>3. Ado!Conn(t)' = c
    BY <2>1, <2>2, BecomesOne
  <2>4. pc[t] = "trans" /\ pc'[t] = "ready" /\ result'[t] = "failed" /\ issued' = issued
    BY <1>9, <1>n DEF Ado!CommitUnheard
  <2>5. stored'[t] = 1 .. issued[t]
    BY <1>9, <1>t, <2>4 DEF Ado!CommitUnheard
  <2> QED
    BY <1>w, <2>2, <2>3, <2>4, <2>5
<1>d. ASSUME ~(Ado!Works(t) /\ Ado!Conn(t).trans), NEW trans \in {FALSE, Ado!Conn(t).trans},
             Ado!Becomes(t, [Ado!Conn(t) EXCEPT !.trans = trans])
      PROVE  Ado!Conn(t)'.work = {}
  <2> DEFINE c == [Ado!Conn(t) EXCEPT !.trans = trans]
  <2>1. Ado!Conn(t).work = {}
    BY <1>d, <1>o DEF Own, Ado!Works
  <2>2. c \in Ado!Connection /\ c.work = {}
    <3>1. c \in Ado!Connection
      BY <1>c, ConnectionTypes
    <3> QED
      BY <1>c, <2>1, <3>1 DEF Ado!Connection
  <2>3. Ado!Conn(t)' = c
    BY <1>d, <2>2, BecomesOne
  <2> QED
    BY <2>2, <2>3
<1>10. ASSUME Ado!CommitFails(t) PROVE Whole(t, Ado!Conn(t))'
  <2>1. /\ ~(Ado!Works(t) /\ Ado!Conn(t).trans)
        /\ \E trans \in {FALSE, Ado!Conn(t).trans} : Ado!Becomes(t, [Ado!Conn(t) EXCEPT !.trans = trans])
        /\ Ado!End(t, "trans", "failed") /\ stored' = stored
    BY <1>10 DEF Ado!CommitFails
  <2>2. Ado!Conn(t)'.work = {}
    BY <1>d, <2>1
  <2>3. pc[t] = "trans" /\ pc'[t] = "ready" /\ result'[t] = "failed" /\ issued' = issued
    BY <1>n, <2>1
  <2>4. stored'[t] = {}
    BY <2>1, <2>3 DEF Whole
  <2> QED
    BY <1>w, <2>2, <2>3, <2>4
<1>11. ASSUME Ado!RollbackTrans(t) PROVE Whole(t, Ado!Conn(t))'
  <2>1. Ado!End(t, "failed", "rolled back") /\ stored' = stored
    BY <1>11 DEF Ado!RollbackTrans
  <2>2. pc[t] = "failed" /\ pc'[t] = "ready" /\ result'[t] = "rolled back" /\ issued' = issued
    BY <1>n, <2>1
  <2>3. stored'[t] = {}
    BY <2>1, <2>2 DEF Whole
  <2>4. CASE Ado!Works(t)
    <3> DEFINE c == [Ado!Conn(t) EXCEPT !.trans = FALSE, !.work = {}]
    <3>1. c \in Ado!Connection /\ c.work = {}
      BY <1>c, ConnectionTypes DEF Ado!Connection
    <3>2. Ado!Conn(t)' = c
      BY <1>11, <2>4, <3>1, BecomesOne DEF Ado!RollbackTrans
    <3> QED
      BY <1>w, <2>2, <2>3, <3>1, <3>2
  <2>5. CASE ~Ado!Works(t)
    <3>1. \E trans \in {FALSE, Ado!Conn(t).trans} : Ado!Becomes(t, [Ado!Conn(t) EXCEPT !.trans = trans])
      BY <1>11, <2>5 DEF Ado!RollbackTrans
    <3>2. Ado!Conn(t)'.work = {}
      BY <1>d, <2>5, <3>1
    <3> QED
      BY <1>w, <2>2, <2>3, <3>2
  <2> QED
    BY <2>4, <2>5
<1> QED
  BY <1>1, <1>3, <1>4, <1>5, <1>6, <1>7, <1>8, <1>9, <1>10, <1>11 DEF Ado!Get, Ado!Transact

\* A break empties the connection of those who have it.
LEMMA WholeBreak ==
  ASSUME Ado!TypeOK, NEW i \in Ado!Ids, Ado!Break(i), NEW t \in Threads, Whole(t, Ado!Conn(t))
  PROVE  Whole(t, Ado!Conn(t))'
<1>1. m_FreeDbList \in [Ado!Ids -> Ado!Connection] /\ Ado!ConnId(t) \in Ado!Ids
  BY ConnIdType DEF Ado!TypeOK
<1>2. \/ Ado!Conn(t)' = Ado!Conn(t)
      \/ Ado!Conn(t)'.trans = Ado!Conn(t).trans /\ ~Ado!Conn(t)'.alive /\ Ado!Conn(t)'.work = {}
  BY <1>1 DEF Ado!Break, Ado!Connection, Ado!Conn
<1>3. UNCHANGED <<pc, Ado!history>>
  BY DEF Ado!Break
<1> QED
  BY <1>2, <1>3 DEF Whole, Ado!history

-----------------------------------------------------------------------------
(* The theorems                                                            *)

LEMMA IInvInit == Ado!Init => IInv
<1> SUFFICES ASSUME Ado!Init PROVE IInv
  OBVIOUS
<1>1. ASSUME NEW t \in Threads PROVE Whole(t, Ado!Conn(t))
  <2>1. Ado!Conn(t) \in {Ado!Closed, Ado!Opened}
    BY ConnIdType DEF Ado!Init, Ado!Conn
  <2>2. Ado!Conn(t).work = {}
    <3>1. Ado!Closed.work = {} /\ Ado!Opened.work = {}
      BY DEF Ado!Closed, Ado!Opened
    <3> QED
      BY <2>1, <3>1
  <2>3. pc[t] = "idle" /\ stored[t] = {} /\ result[t] = "none"
    BY DEF Ado!Init
  <2> QED
    BY <2>2, <2>3 DEF Whole
<1> QED
  BY <1>1, TypeInit, WorkInit DEF IInv

LEMMA IInvNext == IInv /\ [Ado!Next]_(Ado!vars) => IInv'
<1> SUFFICES ASSUME IInv, [Ado!Next]_(Ado!vars) PROVE IInv'
  OBVIOUS
<1>1. Ado!TypeOK /\ WorkIsOwn
  BY DEF IInv
<1>2. Ado!TypeOK' /\ WorkIsOwn'
  BY <1>1, TypeNext, WorkNext
<1>3. ASSUME NEW u \in Threads, Ado!Alone(u) PROVE Whole(u, Ado!Conn(u))'
  <2>0. Whole(u, Ado!Conn(u))
    BY <1>3 DEF IInv
  <2>1. ASSUME NEW t \in Threads, Ado!CallGet(t) \/ Ado!Get(t) \/ Ado!Transact(t) PROVE Whole(u, Ado!Conn(u))'
    <3>1. CASE t = u
      BY <1>1, <1>3, <2>0, <2>1, <3>1, WholeNext
    <3>2. CASE t # u
      <4>1. /\ Ado!Conn(u)' = Ado!Conn(u)
            /\ pc'[u] = pc[u] /\ issued'[u] = issued[u]
            /\ stored'[u] = stored[u] /\ result'[u] = result[u]
        BY <1>1, <1>3, <2>1, <3>2, OthersStay
      <4> QED
        BY <2>0, <4>1 DEF Whole
    <3> QED
      BY <3>1, <3>2
  <2>2. ASSUME NEW i \in Ado!Ids, Ado!Break(i) PROVE Whole(u, Ado!Conn(u))'
    BY <1>1, <2>0, <2>2, WholeBreak
  <2>3. CASE Ado!Serve \/ UNCHANGED Ado!vars
    <3>1. UNCHANGED <<m_FreeDbList, pc, Ado!history>>
      BY <2>3 DEF Ado!Serve, Ado!vars
    <3> QED
      BY <2>0, <3>1 DEF Whole, Ado!Conn, Ado!history
  <2> QED
    BY <2>1, <2>2, <2>3 DEF Ado!Next
<1>4. \A t \in Threads : Ado!Alone(t) => Whole(t, Ado!Conn(t))'
  BY <1>3
<1>5. \A t \in Threads : Ado!Alone(t)' <=> Ado!Alone(t)
  BY DEF Ado!Alone
<1> QED
  BY <1>2, <1>4, <1>5 DEF IInv

\* Every variable has its type: a connection holds statements of transactions,
\* and no transaction has more of them than it may.
THEOREM SessionsAreTyped == Ado!Spec => []Ado!TypeOK
<1>1. IInv => Ado!TypeOK
  BY DEF IInv
<1> QED
  BY <1>1, IInvInit, IInvNext, PTL DEF Ado!Spec

\* A transaction reaches the database as a whole or not at all (Execute,
\* CommitTrans and RollbackTrans between two calls of GetDBConnnection).
THEOREM TransactionsAreWhole == Ado!Spec => []AllOrNothing
<1>1. IInv => AllOrNothing
  BY DEF IInv, Whole, AllOrNothing, Ado!AllOrNothing
<1> QED
  BY <1>1, IInvInit, IInvNext, PTL DEF Ado!Spec

=============================================================================
