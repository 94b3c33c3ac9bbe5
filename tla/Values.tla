------------------------------ MODULE Values ------------------------------
(***************************************************************************)
(* A FieldValue on its way to a PostgreSQL column and back.  It is bound   *)
(* by ParamSink::bind_one (params/) or written into the text of the query  *)
(* by PostgresDialect::format_value (dialect/), stored in a column of the   *)
(* type SqlTypeMapping names (type_mapping/), sent back as text (PQexec) or *)
(* in binary (PQexecParams, which the executors call with result format 1), *)
(* and decoded by FieldView::as<T> (result/views/).                         *)
(*                                                                         *)
(* A byte has Base values (256), so that the widths and the byte order are  *)
(* those of the code on a small scale.  A float is its bit pattern: a sign,  *)
(* an exponent of two bits and the fraction.  Text is a tuple that says what *)
(* it spells: <<"digits", 12>>, <<"number", pattern>>, <<"NaN">>, <<"t">>.   *)
(***************************************************************************)
EXTENDS Integers, Sequences, SequencesExt

CONSTANTS
    Base,      \* the number of values of a byte
    Texts,     \* the strings: sequences over "a", "quote", "backslash", "nul"
    Blobs      \* the byte strings

VARIABLES
    type,     \* the alternative the FieldValue holds
    given,    \* its value
    sent,     \* what the library sends for it
    stored,   \* what the column holds
    field,    \* the FieldView on the answer, once there is one
    got       \* what as<T>() makes of it

valueVars == <<type, given, sent, stored, field, got>>

Fails == <<"fails">>
Ok(v) == <<"ok", v>>
Null == <<"null">>
Absent == <<"absent">>

(* ------------------------------- integers ------------------------------- *)

Width == [int16 |-> 2, int32 |-> 4, int64 |-> 8, uint16 |-> 2, uint32 |-> 4, uint64 |-> 8,
          float |-> 4, double |-> 8]
Signed == {"int16", "int32", "int64"}
Unsigned == {"uint16", "uint32", "uint64"}
Floats == {"float", "double"}
SignedRange(n) == -(Base ^ n \div 2) .. (Base ^ n \div 2 - 1)

(* Network byte order (htons, htonl, htobe64 and back). *)
ToBytes(v, n) == [i \in 1 .. n |-> (v \div Base ^ (n - i)) % Base]
FromBytes(b) == FoldLeft(LAMBDA acc, byte : acc * Base + byte, 0, b)
AsSigned(v, n) == IF v >= Base ^ n \div 2 THEN v - Base ^ n ELSE v
Cast(v, T) == LET m == v % Base ^ Width[T] IN IF T \in Signed THEN AsSigned(m, Width[T]) ELSE m

FieldValues(T) ==
    CASE T = "null" -> {0}
      [] T = "bool" -> {0, 1}
      [] T = "char" -> {"a", "quote", "backslash", "nul"}
      [] T \in Signed -> SignedRange(Width[T])
      [] T \in Unsigned -> 0 .. Base ^ Width[T] - 1
      [] T \in Floats -> 0 .. Base ^ Width[T] - 1
      [] T \in {"string", "view"} -> Texts
      [] T \in {"bytes", "span"} -> Blobs
Types == {"null", "bool", "char", "string", "view", "bytes", "span"} \cup Signed \cup Unsigned \cup Floats

(* -------------------------------- floats -------------------------------- *)

Half(T) == Base ^ Width[T] \div 2
Negative(T, v) == v >= Half(T)
Magnitude(T, v) == v % Half(T)
Infinity(T) == Half(T) - Half(T) \div 4
QuietNaN(T) == Infinity(T) + Half(T) \div 8
IsNaN(T, v) == Magnitude(T, v) > Infinity(T)
Finite(T, v) == Magnitude(T, v) < Infinity(T)
NegativeZero(T) == Half(T)

(* std::to_chars: the shortest text that std::from_chars reads as the same.  *)
ToChars(T, v) ==
    CASE Finite(T, v) -> <<"number", v>>
      [] IsNaN(T, v) -> IF Negative(T, v) THEN <<"-nan">> ELSE <<"nan">>
      [] OTHER -> IF Negative(T, v) THEN <<"-inf">> ELSE <<"inf">>

(* std::from_chars, and the comparisons that follow when it fails.          *)
FromChars(T, t) ==
    CASE t[1] = "number" -> Ok(t[2])
      [] t[1] \in {"NaN", "nan"} -> Ok(QuietNaN(T))
      [] t[1] \in {"Infinity", "inf"} -> Ok(Infinity(T))
      [] t[1] \in {"-Infinity", "-inf"} -> Ok(Half(T) + Infinity(T))
      [] OTHER -> Fails

(* ------------------------------ column types ---------------------------- *)

SqlType(T) ==
    CASE T = "bool" -> "bool"     [] T = "char" -> "bpchar"  [] T = "int16" -> "int2"
      [] T = "int32" -> "int4"    [] T = "int64" -> "int8"   [] T = "uint16" -> "int4"
      [] T = "uint32" -> "int8"   [] T = "uint64" -> "numeric" [] T = "float" -> "float4"
      [] T = "double" -> "float8" [] T \in {"string", "view"} -> "text"
      [] T \in {"bytes", "span"} -> "bytea" [] T = "null" -> "text"

(* ------------------------------ bound values ---------------------------- *)

(* One entry of Params: the value pointer (null is SQL NULL), its format,    *)
(* its OID, and the bytes or the text it points at.                         *)
Binary(oid, b) == [null |-> FALSE, format |-> "binary", oid |-> oid, data |-> b]
Text(oid, t) == [null |-> FALSE, format |-> "text", oid |-> oid, data |-> t]

(* A text value is passed as a C string: it ends at the first NUL.          *)
CString(s) ==
    LET cut == {i \in 1 .. Len(s) : s[i] = "nul"} IN
    IF cut = {} THEN s ELSE SubSeq(s, 1, (CHOOSE i \in cut : \A j \in cut : i <= j) - 1)

(* The bytes are copied into a vector of their own; that of no byte has no  *)
(* storage, and its data() is the null pointer.                             *)
BindBytes(b) == [Binary("bytea", b) EXCEPT !.null = (b = <<>>)]


(* There is no unsigned type: the next wider signed one is sent.            *)
BindUnsigned(T, v) ==
    IF T = "uint16" THEN Binary("int4", ToBytes(v, 4)) ELSE Binary("int8", ToBytes(v, 8))

BindOne(T, v) ==
    CASE T = "null" -> [Text("unknown", <<>>) EXCEPT !.null = TRUE]
      [] T = "bool" -> Binary("bool", <<v>>)
      [] T = "char" -> Binary("char", <<v>>)
      [] T = "int16" -> Binary("int2", ToBytes(v, 2))
      [] T = "int32" -> Binary("int4", ToBytes(v, 4))
      [] T = "int64" -> Binary("int8", ToBytes(v, 8))
      [] T \in {"uint16", "uint32"} -> BindUnsigned(T, v)
      [] T = "uint64" -> Text("numeric", <<"digits", v>>)
      [] T = "float" -> Binary("float4", ToBytes(v, 4))
      [] T = "double" -> Binary("float8", ToBytes(v, 8))
      [] T \in {"string", "view"} -> Text("text", CString(v))
      [] T \in {"bytes", "span"} -> BindBytes(v)

(* ---------------------------- values in the text ------------------------ *)

EscapeChar(c) ==
    CASE c = "quote" -> <<"quote", "quote">>
      [] c = "backslash" -> <<"backslash", "backslash">>
      [] OTHER -> <<c>>
EscapeString(s) == FlattenSeq([i \in 1 .. Len(s) |-> EscapeChar(s[i])])

(* format_value: a literal, quoted or not. *)
FormatValue(T, v) ==
    CASE T = "null" -> [kind |-> "NULL", data |-> 0]
      [] T = "bool" -> [kind |-> "plain", data |-> IF v = 1 THEN <<"TRUE">> ELSE <<"FALSE">>]
      [] T \in Signed \cup Unsigned -> [kind |-> "plain", data |-> <<"digits", v>>]
      [] T \in Floats -> [kind |-> "plain", data |-> ToChars(T, v)]
      [] T = "char" -> [kind |-> "quoted", data |-> EscapeChar(v)]
      [] T \in {"string", "view"} -> [kind |-> "quoted", data |-> EscapeString(v)]
      [] T \in {"bytes", "span"} -> [kind |-> "hex", data |-> v]

(* ------------------------- the server (external) ------------------------ *)

Fits(col, v) ==
    CASE col = "int2" -> v \in SignedRange(2)
      [] col = "int4" -> v \in SignedRange(4)
      [] col = "int8" -> v \in SignedRange(8)
      [] OTHER -> TRUE

(* A parameter is read by its OID and converted to the column's type.       *)
Received(p) ==
    CASE p.oid = "numeric" -> p.data[2]
      [] p.oid = "int2" -> AsSigned(FromBytes(p.data), 2)
      [] p.oid = "int4" -> AsSigned(FromBytes(p.data), 4)
      [] p.oid = "int8" -> AsSigned(FromBytes(p.data), 8)
      [] p.oid \in {"float4", "float8"} -> FromBytes(p.data)
      [] p.oid \in {"bool"} -> p.data[1]
      [] OTHER -> p.data

(* A quoted literal, with standard_conforming_strings on (the default): a   *)
(* doubled quote is one, a backslash is itself.                             *)
RECURSIVE Unquoted(_)
Unquoted(s) ==
    IF s = <<>> THEN <<>>
    ELSE IF s[1] = "quote" THEN <<"quote">> \o Unquoted(SubSeq(s, 3, Len(s)))
    ELSE <<s[1]>> \o Unquoted(Tail(s))

(* A literal without quotes: nan and inf would be names of columns, and -0   *)
(* is the integer 0 with its sign changed.                                  *)
Plain(T, t) ==
    CASE t[1] \in {"TRUE", "FALSE"} -> Ok(IF t[1] = "TRUE" THEN 1 ELSE 0)
      [] t[1] = "digits" -> Ok(t[2])
      [] t[1] = "number" -> Ok(IF t[2] = NegativeZero(T) THEN 0 ELSE t[2])
      [] OTHER -> Fails

Into(col, v) == IF Fits(col, v) THEN Ok(v) ELSE Fails
StoreParameter(T, p) == IF p.null THEN Null ELSE Into(SqlType(T), Received(p))
(* The query is a C string: with a NUL in it, a quoted literal never ends.   *)
StoreLiteral(T, l) ==
    CASE l.kind = "NULL" -> Null
      [] l.kind = "quoted" -> IF "nul" \in Range(l.data) \/ (T = "char" /\ Len(Unquoted(l.data)) > 1) THEN Fails
                              ELSE Into(SqlType(T), Unquoted(l.data))
      [] l.kind = "plain" -> LET v == Plain(T, l.data) IN IF v = Fails THEN Fails ELSE Into(SqlType(T), v[2])
      [] l.kind = "hex" -> Ok(l.data)

(* What PQgetvalue points at; a numeric has a binary form of its own.       *)
Encoded(col, v) ==
    CASE col \in {"int2"} -> ToBytes(v, 2)
      [] col \in {"int4", "float4"} -> ToBytes(v, 4)
      [] col \in {"int8", "float8"} -> ToBytes(v, 8)
      [] col = "bool" -> <<v>>
      [] col = "numeric" -> <<"words", v>>
      [] OTHER -> v

FloatText(T, v) ==
    CASE Finite(T, v) -> <<"number", v>>
      [] IsNaN(T, v) -> <<"NaN">>
      [] OTHER -> IF Negative(T, v) THEN <<"-Infinity">> ELSE <<"Infinity">>

Spelled(col, v) ==
    CASE col = "bool" -> IF v = 1 THEN <<"t">> ELSE <<"f">>
      [] col \in {"int2", "int4", "int8", "numeric"} -> <<"digits", v>>
      [] col = "float4" -> FloatText("float", v)
      [] col = "float8" -> FloatText("double", v)
      [] col = "bytea" -> <<"hex", v>>
      [] OTHER -> CString(v)

Sent(col, v, format) ==
    [null |-> v = Null, format |-> format, oid |-> col,
     data |-> IF v = Null THEN <<>> ELSE IF format = "text" THEN Spelled(col, v[2]) ELSE Encoded(col, v[2])]

(* -------------------------------- decoding ------------------------------ *)

In(f, oid) == f.format = "binary" /\ f.oid = oid

(* decode_integer_text: from_chars finds no number in a binary field.       *)
DecodeIntegerText(f, T) ==
    IF f.format = "binary" THEN Fails
    ELSE IF f.data[2] = Cast(f.data[2], T) THEN Ok(f.data[2]) ELSE Fails

DecodeInt16(f) == IF In(f, "int2") THEN Ok(Cast(FromBytes(f.data), "int16")) ELSE DecodeIntegerText(f, "int16")
DecodeInt32(f) == IF In(f, "int4") THEN Ok(Cast(FromBytes(f.data), "int32")) ELSE DecodeIntegerText(f, "int32")
DecodeInt64(f) == IF In(f, "int8") THEN Ok(Cast(FromBytes(f.data), "int64")) ELSE DecodeIntegerText(f, "int64")
DecodeUint16(f) ==
    IF In(f, "int4") \/ In(f, "int2") THEN Ok(Cast(FromBytes(f.data), "uint16"))
    ELSE DecodeIntegerText(f, "uint16")
DecodeUint32(f) ==
    IF In(f, "int8") \/ In(f, "int4") THEN Ok(Cast(FromBytes(f.data), "uint32"))
    ELSE DecodeIntegerText(f, "uint32")
DecodeUint64(f) == IF In(f, "int8") THEN Ok(FromBytes(f.data)) ELSE DecodeIntegerText(f, "uint64")
DecodeFloat(f) == IF In(f, "float4") THEN Ok(FromBytes(f.data)) ELSE FromChars("float", f.data)
DecodeDouble(f) == IF In(f, "float8") THEN Ok(FromBytes(f.data)) ELSE FromChars("double", f.data)
DecodeBool(f) ==
    IF In(f, "bool") THEN Ok(f.data[1])
    ELSE Ok(IF f.data[1] \in {"t", "true", "1", "TRUE", "T"} THEN 1 ELSE 0)
DecodeChar(f) == IF f.data = <<>> THEN Ok("nul") ELSE Ok(f.data[1])
DecodeString(f) == Ok(f.data)
DecodeBinarySpan(f) == IF In(f, "bytea") THEN Ok(f.data) ELSE Fails
DecodeHexBytea(f) == IF f.data[1] = "hex" THEN Ok(f.data[2]) ELSE Fails
DecodeBinaryVector(f) == IF In(f, "bytea") THEN Ok(f.data) ELSE DecodeHexBytea(f)

As(T, f) ==
    CASE T = "null" -> Ok(0)
      [] T # "null" /\ f.null -> Fails
      [] T = "bool" -> DecodeBool(f)     [] T = "char" -> DecodeChar(f)
      [] T = "int16" -> DecodeInt16(f)   [] T = "int32" -> DecodeInt32(f)  [] T = "int64" -> DecodeInt64(f)
      [] T = "uint16" -> DecodeUint16(f) [] T = "uint32" -> DecodeUint32(f) [] T = "uint64" -> DecodeUint64(f)
      [] T = "float" -> DecodeFloat(f)   [] T = "double" -> DecodeDouble(f)
      [] T \in {"string", "view"} -> DecodeString(f)
      [] T = "span" -> DecodeBinarySpan(f) [] T = "bytes" -> DecodeBinaryVector(f)

(* ---------------------------- one value's journey ----------------------- *)

ValuesInit ==
    /\ type \in Types
    /\ given \in FieldValues(type)
    /\ sent = Absent /\ stored = Absent /\ field = <<>> /\ got = Absent

Bind ==
    /\ sent = Absent
    /\ sent' = <<"bound", BindOne(type, given)>>
    /\ UNCHANGED <<type, given, stored, field, got>>
Format ==
    /\ sent = Absent
    /\ sent' = <<"inline", FormatValue(type, given)>>
    /\ UNCHANGED <<type, given, stored, field, got>>
Store ==
    /\ sent # Absent /\ stored = Absent
    /\ stored' = IF sent[1] = "bound" THEN StoreParameter(type, sent[2]) ELSE StoreLiteral(type, sent[2])
    /\ UNCHANGED <<type, given, sent, field, got>>
Select(format) ==
    /\ stored # Absent /\ stored # Fails /\ field = <<>>
    /\ field' = <<Sent(SqlType(type), stored, format)>>
    /\ UNCHANGED <<type, given, sent, stored, got>>
Decode ==
    /\ field # <<>> /\ got = Absent
    /\ got' = As(type, field[1])
    /\ UNCHANGED <<type, given, sent, stored, field>>

ValuesNext == Bind \/ Format \/ Store \/ (\E format \in {"text", "binary"} : Select(format)) \/ Decode
ValuesSpec == ValuesInit /\ [][ValuesNext]_valueVars

(* ------------------------------ properties ------------------------------ *)

\* The values and ways known not to survive: see the README.
Known ==
    \/ type \in {"string", "view"} /\ "nul" \in Range(given)
    \/ sent[1] = "inline" /\ type = "char" /\ given \in {"backslash", "nul"}
    \/ sent[1] = "inline" /\ type \in {"string", "view"} /\ "backslash" \in Range(given)
    \/ sent[1] = "inline" /\ type \in Floats /\ (~Finite(type, given) \/ given = NegativeZero(type))
    \/ sent[1] = "bound" /\ type \in {"bytes", "span"} /\ given = <<>>
    \/ got # Absent /\ type = "uint64" /\ field[1].format = "binary"
    \/ got # Absent /\ type = "span" /\ field[1].format = "text"

\* A NaN is read back as some NaN: text does not carry its sign and fraction.
Same(v, w) == v = w \/ (type \in Floats /\ IsNaN(type, v) /\ IsNaN(type, w))

=============================================================================
