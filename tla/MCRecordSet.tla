----------------------------- MODULE MCRecordSet -----------------------------
(* Three rows at most, a text that two of them share, jumps over both ends; *)
(* bytes of 2 bits, shorts of 3, longs of 4; chunks of 2 bytes.             *)
EXTENDS RecordSet

MCContents == {<<>>, <<"x", "">>, <<"x", "", "x">>}
MCJumps == {-2, 2}

-----------------------------------------------------------------------------
(* The numbers of a C++ type and of a field, reals and currencies in halves *)

Wide == -(2 ^ LongBits) .. 2 ^ LongBits
SignedRange(bits) == -(2 ^ (bits - 1)) .. 2 ^ (bits - 1) - 1

Values(type) ==
  CASE type \in {"BYTE", "adUnsignedTinyInt"} -> 0 .. 2 ^ ByteBits - 1
    [] type \in {"short", "adSmallInt"} -> SignedRange(ShortBits)
    [] type \in {"int", "long", "adInteger"} -> SignedRange(LongBits)
    [] type \in {"DWORD", "adUnsignedInt"} -> 0 .. 2 ^ LongBits - 1
    [] type = "adUnsignedBigInt" -> 0 .. 2 ^ LongBits
    [] type \in {"adSingle", "adDouble"} -> -(2 ^ LongBits) .. 2 ^ LongBits - 2
    [] OTHER -> Wide

Numbers == {"BYTE", "short", "int", "long", "DWORD", "float", "double"}
NumberFields == {"adUnsignedTinyInt", "adSmallInt", "adInteger", "adUnsignedInt", "adBigInt",
                 "adUnsignedBigInt", "adSingle", "adDouble", "adCurrency"}
InHalves == {"float", "double", "adSingle", "adDouble", "adCurrency"}

\* What a field that holds n is as a number of the type, if the type has it.
Exact(type, field, n) ==
  LET halves == IF field \in InHalves THEN n ELSE 2 * n
  IN  IF type \in InHalves THEN {halves}
      ELSE {m \in Values(type) : 2 * m = halves}

Read(type, field, n) == GetValue(type, Var(ProviderType(field), n))

Fits(type, field, n) == Exact(type, field, n) # {}

Outcome(type, field, n) ==
  LET r == Read(type, field, n)
  IN  IF r = Failed THEN "refused" ELSE IF r.value \in Exact(type, field, n) THEN "right" ELSE "wrong"

\* The fields whose every number GetCollect reads right, type by type.
ReadsAll(type) ==
  CASE type = "BYTE" -> {"adUnsignedTinyInt"}
    [] type = "short" -> {"adUnsignedTinyInt", "adSmallInt"}
    [] type \in {"int", "long"} -> {"adUnsignedTinyInt", "adSmallInt", "adInteger"}
    [] type = "DWORD" -> {"adUnsignedInt"}
    [] type = "float" -> {"adUnsignedTinyInt", "adSmallInt", "adSingle"}
    [] type = "double" ->
         {"adUnsignedTinyInt", "adSmallInt", "adInteger", "adSingle", "adDouble", "adCurrency"}

\* Those of which it reads right just the numbers that the type has.
ReadsWhatFits(type) ==
  CASE type \in {"int", "long"} -> {"adUnsignedInt", "adCurrency"}
    [] type = "DWORD" -> {"adInteger"}
    [] OTHER -> {}

\* What it refuses: any other field as a DWORD or a float, and a currency that
\* does not round to a long.
Refuses(type, field, n) ==
  \/ type \in {"DWORD", "float"} /\ field \notin ReadsAll(type) \cup ReadsWhatFits(type)
  \/ type \in {"int", "long"} /\ field = "adCurrency" /\ ~IsLong(ChangeType(n))

Texts_ == {[text |-> "empty", val |-> 0], [text |-> "word", val |-> 0], [text |-> "digits", val |-> 3]}

\* A value put into a field and read again, for the types that are no numbers.
PlainTrips ==
  /\ \A b \in BOOLEAN : Read("bool", "adBoolean", PutValue("bool", b).val) = Done(b)
  /\ \A t \in Texts_ :
       GetValue("CString", Stored("adVarChar", PutValue("CString", t))) = Done(t)
  /\ \A n \in Wide :
       /\ Read("COleDateTime", "adDate", n) = Done([status |-> "valid", val |-> n])
       /\ Read("COleCurrency", "adCurrency", n) = Done([status |-> "valid", val |-> n])

\* A parameter gives back what it was given last.
ParameterTrips ==
  \A type \in Numbers \ {"DWORD", "float"}, n \in Values("BYTE") :
    LET p == SetValue(SetValue(NewParameter, type, 0), type, n)
    IN  GetParameter(p, type) = n /\ Holds(p, type, n)

ChunkTrips ==
  \A n, m \in 1 .. 2 * ChunkSize :
    LET data == [i \in 1 .. n + m |-> i]
    IN  GetChunk(AppendChunk(AppendChunk(<<>>, SubSeq(data, 1, n)), SubSeq(data, n + 1, n + m))) = data

\* A number read from a field is refused, right, or wrong with TRUE, and which of
\* these it is depends on the field, the type and the number exactly as listed:
\* ReadsAll has the fields that are always right, ReadsWhatFits those that are
\* right for just the numbers the type has, and of every other field some number
\* that the type has comes out wrong or is refused.  Whatever is neither right
\* nor in Refuses is a wrong number called a success: -1 of an adInteger as a
\* DWORD, an adUnsignedInt beyond the longs as a long or a double, a currency
\* rounded to a long, a 64-bit field as a long (0), a negative real as a long (one
\* too high).
NumbersAreAsListed ==
  \A type \in Numbers, field \in NumberFields :
    /\ \A n \in Values(field) :
         LET outcome == Outcome(type, field, n)
         IN  /\ field \in ReadsAll(type) => outcome = "right"
             /\ field \in ReadsWhatFits(type) => (outcome = "right" <=> Fits(type, field, n))
             /\ outcome = "refused" <=> Refuses(type, field, n)
    /\ field \in ReadsWhatFits(type) =>
         \E n \in Values(field) : Outcome(type, field, n) = "wrong"
    /\ field \notin ReadsAll(type) \cup ReadsWhatFits(type) =>
         \E n \in Values(field) : Fits(type, field, n) /\ Outcome(type, field, n) # "right"

\* A number that crosses from a field into C++ is what the lists above say, for
\* every value; texts, flags, dates, currencies, parameters and long fields come
\* back as they went.  None of it depends on a state: it is looked at before the
\* first call.
ConversionsAreFaithful ==
  Init => NumbersAreAsListed /\ PlainTrips /\ ParameterTrips /\ ChunkTrips

=============================================================================
