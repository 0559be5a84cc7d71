-------------------------------- MODULE Wire --------------------------------
(***************************************************************************)
(* The binary encoding of protocol/encoder.go and protocol/decoder.go.     *)
(*                                                                         *)
(* A message is a function from field names to values, and the code that   *)
(* encodes or decodes it is the list of fields it puts or gets, in order.  *)
(* A wire is a sequence of bytes.  An int64 is the pair of its halves, a   *)
(* string or a byte slice the sequence of its bytes; Nil is the nil slice  *)
(* or pointer.  A time is its whole milliseconds since 1970, an int64, and *)
(* the nanoseconds beyond them.  A decoder that returns an error and one   *)
(* that panics are both Failed.                                            *)
(***************************************************************************)
EXTENDS Integers, Sequences, TLC

Field(kind, name) == [kind |-> kind, name |-> name, of |-> <<>>]

Int8(name) == Field("int8", name)
Int16(name) == Field("int16", name)
Int32(name) == Field("int32", name)
Int64(name) == Field("int64", name)
Time(name) == Field("time", name)
Bool(name) == Field("bool", name)
String(name) == Field("string", name)
MapKey(name) == Field("map key", name)
NullableString(name) == Field("nullable", name)
Bytes(name) == Field("bytes", name)
Array(name, of) == [kind |-> "array", name |-> name, of |-> of]
Int32Array(name) == Array(name, <<Int32("value")>>)
Int64Array(name) == Array(name, <<Int64("value")>>)
StringArray(name) == Array(name, <<String("value")>>)

\* What some messages do instead: put -1 for 0; always put -1; put the elements without their
\* number; get the elements in copies that are thrown away; get them through
\* pointers that are nil; divide a duration by a million instead of
\* multiplying it, which leaves no millisecond of it.
ReplicaID(name) == Field("replica id", name)
MinusOne(name) == Field("minus one", name)
Elements(name, of) == [kind |-> "elements", name |-> name, of |-> of]
Copies(name, of) == [kind |-> "copies", name |-> name, of |-> of]
NilPointers(name, of) == [kind |-> "nil pointers", name |-> name, of |-> of]
Divided(name) == Field("divided", name)

\* Fields of some versions only.
When(condition, fields) == IF condition THEN fields ELSE <<>>

Nil == <<-1>>

\* The time.Time that was never set: the year 1.
ZeroTime == [millis |-> <<-14468, -304928768>>, below |-> 0]

-----------------------------------------------------------------------------
\* ByteEncoder

\* Big endian, in w bytes.
PutInt(w, x) == [i \in 1 .. w |-> (x \div 256 ^ (w - i)) % 256]

\* Mutant: a nil string is put as an empty one.
PutNilAsEmpty(w, x) == IF x = Nil THEN PutInt(w, 0) ELSE PutInt(w, Len(x)) \o x

PutBytes(w, x) == IF x = Nil THEN PutInt(w, -1) ELSE PutInt(w, Len(x)) \o x

\* UnixNano()/int64(time.Millisecond): the milliseconds, if the nanoseconds fit in
\* an int64.  Those of ZeroTime wrap around to a date of 1754.
UnixMillis(t) == IF t = ZeroTime THEN <<-1583, -726316599>> ELSE t.millis

RECURSIVE PutFields(_, _)
RECURSIVE PutElements(_, _)

PutElements(fields, x) ==
  IF x = <<>> THEN <<>> ELSE PutFields(fields, Head(x)) \o PutElements(fields, Tail(x))

\* One field of the message, its value x.
PutField(f, x) ==
  LET elements == PutElements(f.of, x)
  IN  CASE f.kind = "int8" -> PutInt(1, x)
        [] f.kind = "int16" -> PutInt(2, x)
        [] f.kind = "int32" -> PutInt(4, x)
        [] f.kind = "int64" -> PutInt(4, x[1]) \o PutInt(4, x[2])
        [] f.kind = "time" -> PutInt(4, UnixMillis(x)[1]) \o PutInt(4, UnixMillis(x)[2])
        [] f.kind = "bool" -> PutInt(1, IF x THEN 1 ELSE 0)
        [] f.kind \in {"string", "map key", "nullable"} -> PutBytes(2, x)
        [] f.kind = "bytes" -> PutBytes(4, x)
        [] f.kind = "array" -> PutInt(4, Len(x)) \o elements
        [] f.kind = "elements" -> elements
        [] f.kind = "replica id" -> PutInt(4, IF x = 0 THEN -1 ELSE x)
        [] f.kind = "minus one" -> PutInt(4, -1)

PutFields(fields, m) ==
  IF fields = <<>> THEN <<>>
  ELSE PutField(Head(fields), m[Head(fields).name]) \o PutFields(Tail(fields), m)

-----------------------------------------------------------------------------
\* LenEncoder

\* Mutant: no length of its own for a nil string.
LenNothing(w, x) == IF x = Nil THEN 0 ELSE w + Len(x)

LenBytes(w, x) == IF x = Nil THEN w ELSE w + Len(x)

RECURSIVE LenFields(_, _)
RECURSIVE LenElements(_, _)

LenElements(fields, x) ==
  IF x = <<>> THEN 0 ELSE LenFields(fields, Head(x)) + LenElements(fields, Tail(x))

\* The length of one field.
LenField(f, x) ==
  LET elements == LenElements(f.of, x)
  IN  CASE f.kind \in {"int8", "bool"} -> 1
        [] f.kind = "int16" -> 2
        [] f.kind \in {"int32", "replica id", "minus one"} -> 4
        [] f.kind \in {"int64", "time"} -> 8
        [] f.kind \in {"string", "map key", "nullable"} -> LenBytes(2, x)
        [] f.kind = "bytes" -> LenBytes(4, x)
        [] f.kind = "array" -> 4 + elements
        [] f.kind = "elements" -> elements

LenFields(fields, m) ==
  IF fields = <<>> THEN 0
  ELSE LenField(Head(fields), m[Head(fields).name]) + LenFields(Tail(fields), m)

-----------------------------------------------------------------------------
\* ByteDecoder.  A result is the value and the bytes that are left.

Got(v, b) == [ok |-> TRUE, v |-> v, b |-> b]
Failed == [ok |-> FALSE, v |-> Nil, b |-> <<>>]

Drop(b, n) == SubSeq(b, n + 1, Len(b))

\* The two's complement of w bytes, at most four.
MakeInt(w, b) ==
  LET high == IF b[1] < 128 THEN b[1] ELSE b[1] - 256
      at(i) == b[i] * 256 ^ (w - i)
  IN  CASE w = 1 -> high
        [] w = 2 -> high * 256 + at(2)
        [] w = 4 -> high * 256 ^ 3 + at(2) + at(3) + at(4)

GetInt(w, b) == IF Len(b) < w THEN Failed ELSE Got(MakeInt(w, b), Drop(b, w))
GetInt64(b) ==
  IF Len(b) < 8 THEN Failed ELSE Got(<<MakeInt(4, b), MakeInt(4, Drop(b, 4))>>, Drop(b, 8))

\* The next call of a decoder, after "if err != nil { return err }".  The set makes
\* r a value before it is used.
Then(r, F(_)) == CHOOSE t \in {IF q.ok THEN F(q) ELSE Failed : q \in {r}} : TRUE

\* A length of w bytes and as many bytes; what stands for the length -1.
GetBytes(w, b, none) ==
  Then(GetInt(w, b), LAMBDA n :
    CASE n.v < -1 \/ n.v > Len(n.b) -> Failed
      [] n.v = -1 -> Got(none, n.b)
      [] OTHER -> Got(SubSeq(n.b, 1, n.v), Drop(n.b, n.v)))

RECURSIVE GetFields(_, _)
RECURSIVE GetElements(_, _, _)

\* n elements, one after the other.
GetElements(n, fields, b) ==
  IF n = 0 THEN Got(<<>>, b)
  ELSE Then(GetFields(fields, b), LAMBDA e :
         Then(GetElements(n - 1, fields, e.b), LAMBDA r : Got(<<e.v>> \o r.v, r.b)))

\* ArrayLength (which refuses more elements than there are bytes) and the elements.
GetArray(fields, b) ==
  Then(GetInt(4, b), LAMBDA n :
    IF n.v < 0 \/ n.v > Len(n.b) THEN Failed ELSE GetElements(n.v, fields, n.b))

GetField(f, b) ==
  CASE f.kind = "int8" -> GetInt(1, b)
    [] f.kind = "int16" -> GetInt(2, b)
    [] f.kind = "int32" -> GetInt(4, b)
    [] f.kind = "int64" -> GetInt64(b)
    [] f.kind = "time" -> Then(GetInt64(b), LAMBDA n : Got([millis |-> n.v, below |-> 0], n.b))
    [] f.kind = "bool" -> Then(GetInt(1, b), LAMBDA n : Got(n.v = 1, n.b))
    [] f.kind \in {"string", "map key"} -> GetBytes(2, b, <<>>)
    [] f.kind = "nullable" -> GetBytes(2, b, Nil)
    [] f.kind = "bytes" -> GetBytes(4, b, Nil)
    [] f.kind = "array" -> GetArray(f.of, b)
    [] f.kind = "copies" -> Then(GetArray(f.of, b), LAMBDA a : Got([i \in DOMAIN a.v |-> <<>>], a.b))
    [] f.kind = "nil pointers" -> Then(GetArray(<<>>, b), LAMBDA a : IF a.v = <<>> THEN a ELSE Failed)
    [] f.kind = "divided" -> Then(GetInt(4, b), LAMBDA n : Got(0, n.b))

GetFields(fields, b) ==
  IF fields = <<>> THEN Got(<<>>, b)
  ELSE Then(GetField(Head(fields), b), LAMBDA e :
         Then(GetFields(Tail(fields), e.b), LAMBDA r : Got((Head(fields).name :> e.v) @@ r.v, r.b)))
=============================================================================
