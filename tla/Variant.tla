------------------------------- MODULE Variant -------------------------------
(***************************************************************************)
(* How values cross the border between C++ and ADO.  CAdoRecordSet and     *)
(* CAdoParameter put a C++ value into a _variant_t, the field of a record  *)
(* or the parameter of a command keeps it as its own type, and the varto*  *)
(* functions of AdoConnection.cpp make a C++ value of what comes back.     *)
(*                                                                         *)
(* A variant is [vt, val, text]: its type, the number it holds, and for    *)
(* a string what it spells: a number ("digits", held in val), a word, or   *)
(* nothing.  Floating numbers, currencies and texts count in halves, so    *)
(* that 3 is one and a half.  The members of the union are read by their   *)
(* widths, whatever the type says.                                         *)
(***************************************************************************)
EXTENDS Integers, Sequences

CONSTANTS ByteBits, ShortBits, LongBits,   \* 8, 16 and 32
          ChunkSize                        \* 100

ASSUME WidthAssumption ==
  /\ ByteBits \in Nat \ {0} /\ ShortBits \in Nat /\ LongBits \in Nat
  /\ ByteBits < ShortBits /\ ShortBits < LongBits
  /\ ChunkSize \in Nat \ {0}

Unsigned(n, bits) == n % (2 ^ bits)
Signed(n, bits) == ((n + 2 ^ (bits - 1)) % (2 ^ bits)) - 2 ^ (bits - 1)

\* A double cast to long drops the fraction, towards zero.
Truncated(halves) == IF halves >= 0 THEN halves \div 2 ELSE -((-halves) \div 2)

Var(vt, n) == [vt |-> vt, val |-> n, text |-> "none"]
VarText(text, n) == [vt |-> "VT_BSTR", val |-> n, text |-> text]
Null == Var("VT_NULL", 0)

bVal(v) == Unsigned(v.val, ByteBits)
iVal(v) == Signed(v.val, ShortBits)
lVal(v) == Signed(v.val, LongBits)
ulVal(v) == Unsigned(v.val, LongBits)

Bytes == {"VT_UI1", "VT_I1"}
Shorts == {"VT_UI2", "VT_I2"}
Longs == {"VT_UI4", "VT_I4", "VT_INT"}
Reals == {"VT_R4", "VT_R8"}
Scaled == {"VT_DECIMAL", "VT_CY"}
Nothing == {"VT_NULL", "VT_EMPTY"}

-----------------------------------------------------------------------------
(* From a variant to a C++ value                                           *)

vartodate(v) ==
  IF v.vt = "VT_DATE" THEN [status |-> "valid", val |-> v.val]
                      ELSE [status |-> "null", val |-> 0]

vartocy(v) ==
  IF v.vt = "VT_CY" THEN [status |-> "valid", val |-> v.val]
                    ELSE [status |-> "null", val |-> 0]

vartobool(v) == v.vt = "VT_BOOL" /\ v.val # 0

vartoby(v) == IF v.vt \in Bytes THEN bVal(v) ELSE 0

vartoi(v) ==
  CASE v.vt = "VT_BOOL"  -> v.val
    [] v.vt \in Bytes    -> bVal(v)
    [] v.vt \in Shorts   -> iVal(v)
    [] OTHER             -> 0

\* What Windows makes of a decimal or a currency converted to a long: the
\* nearest number, the even one of two, or an error when that is no long.
ChangeType(halves) ==
  LET down == halves \div 2
  IN  IF halves % 2 = 0 \/ down % 2 = 0 THEN down ELSE down + 1

IsLong(n) == Signed(n, LongBits) = n
Overflows(v) == v.vt \in Scaled /\ ~IsLong(ChangeType(v.val))

\* Mutant: a real is cut instead of rounded, a short read as a byte.
vartolCut(v) ==
  CASE v.vt \in Bytes \union Shorts -> bVal(v)
    [] v.vt \in Longs -> lVal(v)
    [] OTHER -> Truncated(v.val)

\* Not for a real whose half more is beyond the longs: its cast is undefined; nor
\* when ChangeType overflows, which GetWhole tells.
vartol(v) ==
  CASE v.vt = "VT_BOOL"  -> v.val
    [] v.vt \in Bytes    -> bVal(v)
    [] v.vt \in Shorts   -> iVal(v)
    [] v.vt \in Longs    -> lVal(v)
    [] v.vt \in Reals    -> Truncated(v.val + 1)
    [] v.vt \in Scaled   -> ChangeType(v.val)
    [] v.text = "digits" -> Truncated(v.val)
    [] OTHER             -> 0

\* In halves.
vartof(v) ==
  CASE v.vt \in Reals \union Scaled -> v.val
    [] v.vt = "VT_BOOL"  -> 2 * v.val
    [] v.vt \in Bytes    -> 2 * bVal(v)
    [] v.vt \in Shorts   -> 2 * iVal(v)
    [] v.vt \in Longs    -> 2 * lVal(v)
    [] v.text = "digits" -> v.val
    [] OTHER             -> 0

\* The text of a variant.  "%d" prints the low bits of a long as signed,
\* whatever the type of the number is.
Spelled(halves) == [text |-> "digits", val |-> halves]
Word(w) == [text |-> w, val |-> 0]

vartostr(v) ==
  CASE v.vt = "VT_BSTR"   -> [text |-> v.text, val |-> v.val]
    [] v.vt \in Bytes     -> Spelled(2 * bVal(v))
    [] v.vt = "VT_I2"     -> Spelled(2 * iVal(v))
    [] v.vt = "VT_UI2"    -> Spelled(2 * Unsigned(v.val, ShortBits))
    [] v.vt \in Longs \union {"VT_I8", "VT_UINT", "VT_UI8"} -> Spelled(2 * lVal(v))
    [] v.vt \in Reals \union Scaled -> Spelled(v.val)
    [] v.vt = "VT_BOOL"   -> Word(IF v.val # 0 THEN "TRUE" ELSE "FALSE")
    [] v.vt = "VT_DATE"   -> Word("date")
    [] v.vt \in Nothing   -> Word("empty")
    [] v.vt = "VT_BLOB"   -> Word("[BLOB]")
    [] OTHER              -> Word("UN_KNOW")

-----------------------------------------------------------------------------
(* The overloads of PutCollect and GetCollect, one for each C++ type       *)

CTypes == {"bool", "BYTE", "short", "int", "long", "DWORD", "float",
           "double", "COleDateTime", "COleCurrency", "CString"}

PutNumber(type, value) ==
  Var(CASE type = "BYTE" -> "VT_UI1"
        [] type = "short" -> "VT_I2"
        [] type \in {"int", "long"} -> "VT_I4"
        [] type = "DWORD" -> "VT_UI4"
        [] type = "float" -> "VT_R4"
        [] type = "double" -> "VT_R8", value)

PutText(value) == IF value.text = "empty" THEN Null ELSE VarText(value.text, value.val)

PutDate(value) == Var("VT_DATE", value.val)
PutCurrency(value) == Var("VT_CY", value.val)
PutBool(value) == Var("VT_BOOL", IF value THEN -1 ELSE 0)

PutValue(type, value) ==
  CASE type = "bool" -> PutBool(value)
    [] type = "COleDateTime" -> PutDate(value)
    [] type = "COleCurrency" -> PutCurrency(value)
    [] type = "CString" -> PutText(value)
    [] OTHER -> PutNumber(type, value)

\* The one type of field that PutCollect does not warn about.
FieldType(type) ==
  CASE type = "bool" -> "adBoolean"
    [] type = "BYTE" -> "adUnsignedTinyInt"
    [] type = "short" -> "adSmallInt"
    [] type = "int" -> "adInteger"
    [] type = "long" -> "adBigInt"
    [] type = "DWORD" -> "adUnsignedBigInt"
    [] type = "float" -> "adSingle"
    [] type = "double" -> "adDouble"
    [] type = "COleDateTime" -> "adDate"
    [] type = "COleCurrency" -> "adCurrency"
    [] type = "CString" -> "adVarChar"

Done(value) == [ok |-> TRUE, value |-> value]
Failed == [ok |-> FALSE]

GetDWORD(v) ==
  CASE v.vt \in {"VT_UI4", "VT_I4"} -> Done(ulVal(v))
    [] v.vt \in Nothing -> Done(0)
    [] OTHER -> Failed

GetFloat(v) ==
  CASE v.vt = "VT_R4" -> Done(v.val)
    [] v.vt \in Bytes -> Done(2 * bVal(v))
    [] v.vt \in Shorts -> Done(2 * iVal(v))
    [] v.vt \in Nothing -> Done(0)
    [] OTHER -> Failed

GetStamp(type, v) == Done(IF type = "COleDateTime" THEN vartodate(v) ELSE vartocy(v))

\* The error of ChangeType is caught by GetCollect.
GetWhole(type, v) ==
  IF type \in {"int", "long"} /\ Overflows(v) THEN Failed
  ELSE Done(CASE type = "bool" -> vartobool(v)
              [] type = "BYTE" -> vartoby(v)
              [] type = "short" -> vartoi(v)
              [] type \in {"int", "long"} -> vartol(v))

GetText(v) == Done(vartostr(v))

GetValue(type, v) ==
  CASE type \in {"COleDateTime", "COleCurrency"} -> GetStamp(type, v)
    [] type \in {"bool", "BYTE", "short", "int", "long"} -> GetWhole(type, v)
    [] type = "DWORD" -> GetDWORD(v)
    [] type = "float" -> GetFloat(v)
    [] type = "double" -> Done(vartof(v))
    [] type = "CString" -> GetText(v)

\* The variant that a provider returns for a field of a type.
ProviderType(field) ==
  CASE field = "adBoolean" -> "VT_BOOL"
    [] field = "adUnsignedTinyInt" -> "VT_UI1"
    [] field = "adSmallInt" -> "VT_I2"
    [] field = "adInteger" -> "VT_I4"
    [] field = "adUnsignedInt" -> "VT_UI4"
    [] field = "adBigInt" -> "VT_I8"
    [] field = "adUnsignedBigInt" -> "VT_UI8"
    [] field = "adSingle" -> "VT_R4"
    [] field = "adDouble" -> "VT_R8"
    [] field = "adDate" -> "VT_DATE"
    [] field = "adCurrency" -> "VT_CY"
    [] field = "adVarChar" -> "VT_BSTR"

Stored(field, v) == IF v.vt = "VT_NULL" THEN v ELSE [v EXCEPT !.vt = ProviderType(field)]

-----------------------------------------------------------------------------
(* CAdoParameter: the size is set by the first value only, and a text does *)
(* not fit a size that a shorter one has set.                              *)

SizeOf(type, value) ==
  CASE type \in {"bool", "short"} -> 2
    [] type = "BYTE" -> 1
    [] type \in {"int", "long", "float"} -> 4
    [] type \in {"double", "COleDateTime"} -> 8
    [] type = "CString" -> IF value.text = "empty" THEN 0 ELSE value.length

NewParameter == [size |-> 0, value |-> Var("VT_EMPTY", 0)]

SetValue(param, type, value) ==
  [size |-> IF param.size = 0 THEN SizeOf(type, value) ELSE param.size,
   value |-> PutValue(type, value)]

GetParameter(param, type) == GetValue(type, param.value).value

Holds(param, type, value) == param.size >= SizeOf(type, value)

-----------------------------------------------------------------------------
(* Long fields: AppendChunk gives ADO one array, byte by byte, and GetChunk *)
(* takes at most ChunkSize bytes at a time until it has the actual size.    *)

AppendChunk(field, data) == field \o [i \in 1 .. Len(data) |-> data[i]]

Take(field, index) ==
  SubSeq(field, index + 1, IF index + ChunkSize > Len(field) THEN Len(field) ELSE index + ChunkSize)

GetChunk(field) ==
  LET Rest[index \in 0 .. Len(field) + ChunkSize] ==
        IF index >= Len(field) THEN <<>>
        ELSE Take(field, index) \o Rest[index + Len(Take(field, index))]
  IN  Rest[0]

=============================================================================
