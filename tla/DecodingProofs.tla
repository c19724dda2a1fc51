--------------------------- MODULE DecodingProofs ---------------------------
(***************************************************************************)
(* Proofs about the decoding half of Codec, for every type, however deep   *)
(* it nests, every destination, every input and every way its supplier     *)
(* splits it: the loops of the decoders and their recursion through the    *)
(* types have solutions; a decoder stays within the input and asks for no  *)
(* more than the input backs; what encode() has written decode() gives     *)
(* back; and nothing that a destination held before is left in the value,  *)
(* nor, after a failure, anything that should not be there.                *)
(***************************************************************************)
EXTENDS CodecProofs, FiniteSetTheorems

-----------------------------------------------------------------------------
(* Where a decoder may go                                                  *)

(* On in the same input, with an error of the codec's or none              *)
Stays(src, r) == IsResult(r) /\ Onward(src, r.in) /\ r.rx \in Errors

(* A success has taken something.                                          *)
Takes(src, r) == Stays(src, r) /\ (r.rx = "ok" => src.at < r.in.at)

LEMMA StaysOf ==
  ASSUME NEW src, NEW p, Onward(src, p), NEW rx \in Errors, NEW v, NEW n
  PROVE  Stays(src, Result(p, rx, v, n))
BY ResultFields DEF Stays

LEMMA TakesOf ==
  ASSUME NEW src, NEW p, Onward(src, p), NEW rx \in Errors, NEW v, NEW n, rx # "ok" \/ src.at < p.at
  PROVE  Takes(src, Result(p, rx, v, n))
BY ResultFields DEF Stays, Takes

LEMMA StaysAfter ==
  ASSUME NEW src \in Inputs, NEW p, Onward(src, p), NEW r, Stays(p, r)
  PROVE  Stays(src, r)
BY OnwardTwice DEF Stays

LEMMA TakesAfter ==
  ASSUME NEW src \in Inputs, NEW p, Onward(src, p), NEW r, Takes(p, r)
  PROVE  Takes(src, r)
<1>1. Stays(src, r)
  BY StaysAfter DEF Takes
<1>2. p \in Inputs /\ r.in \in Inputs /\ src.at <= p.at /\ p.at <= r.in.at
  BY DEF Takes, Stays, Onward
<1>3. src.at \in Nat /\ p.at \in Nat /\ r.in.at \in Nat
  BY <1>2, InputIs
<1> QED
  BY <1>1, <1>2, <1>3 DEF Takes

LEMMA TakesFirst ==
  ASSUME NEW src \in Inputs, NEW p, Onward(src, p), src.at < p.at, NEW r, Stays(p, r)
  PROVE  Takes(src, r)
<1>1. Stays(src, r)
  BY StaysAfter
<1>2. p \in Inputs /\ r.in \in Inputs /\ p.at <= r.in.at
  BY DEF Stays, Onward
<1>3. src.at \in Nat /\ p.at \in Nat /\ r.in.at \in Nat
  BY <1>2, InputIs
<1> QED
  BY <1>1, <1>2, <1>3 DEF Takes

LEMMA AllErrors ==
  /\ "ok" \in Errors /\ "bad" \in Errors /\ "end_of_stream" \in Errors
  /\ "not_enough_memory" \in Errors /\ "undefined" \in Errors
  /\ "invalid_additional_information" \in Errors /\ "item_type_mismatch" \in Errors
  /\ "item_value_out_of_range" \in Errors /\ "indefinite_item" \in Errors
  /\ "invalid_indefinite_subitem" \in Errors /\ "missing_data" \in Errors
  /\ "string_exceeds_size_limit" \in Errors /\ "tuple_size_mismatch" \in Errors
  /\ "duplicate_key" \in Errors /\ "more" \notin Errors
BY DEF Errors

LEMMA RequireStays ==
  ASSUME NEW src \in Inputs, NEW n \in Nat, NEW r \in RequireInput(src, n)
  PROVE  Stays(src, r)
BY RequireOutcome, AllErrors DEF Stays

LEMMA BulkReadStays ==
  ASSUME NEW src \in Inputs, NEW n \in Nat, NEW r \in BulkRead(src, n)
  PROVE  Stays(src, r)
BY BulkReadOutcome, AllErrors DEF Stays

(* A head's value is a number, and taking one takes a byte.                *)
LEMMA ParseHeadTakes ==
  ASSUME NEW src \in Inputs, NEW r \in ParseHead(src)
  PROVE  Takes(src, r) /\ (r.rx = "ok" => r.value.value \in Nat)
<1>1. HeadParsed(src, r)
  BY ParseHeadOutcome
<1>2. Stays(src, r)
  BY <1>1, AllErrors DEF HeadParsed, Stays
<1>3. ASSUME r.rx = "ok"
      PROVE  src.at < r.in.at /\ r.value.value \in Nat
  <2> DEFINE byte == src.bytes[src.at + 1]
  <2>1. /\ src.at < Len(src.bytes) /\ src.at + LengthOf(byte) <= Len(src.bytes)
        /\ r.value = ItemHead(byte, ValueAt(src.bytes, src.at)) /\ r.in.at = src.at + LengthOf(byte)
    BY <1>1, <1>3 DEF HeadParsed
  <2>2. src.bytes \in Seq(Bytes) /\ src.at \in Nat
    BY InputIs
  <2>3. byte \in Bytes /\ ValueAt(src.bytes, src.at) \in Nat
    BY <2>1, <2>2, HeadAtIs
  <2>4. LengthOf(byte) \in 1 .. 9
    BY <2>3, FirstByteSays
  <2> QED
    BY <2>1, <2>2, <2>3, <2>4 DEF ItemHead
<1> QED
  BY <1>2, <1>3 DEF Takes

(* The outcomes of expect_item_head                                        *)
LEMMA ExpectHeadIs ==
  ASSUME NEW src, NEW type, NEW value, NEW r \in ExpectHead(src, type, value)
  PROVE  \E s \in ParseHead(src) :
           \/ s.rx # "ok" /\ r = s
           \/ /\ s.rx = "ok" /\ \E rx \in {"item_type_mismatch", "indefinite_item", "item_value_out_of_range"} :
                                  r = Result(s.in, rx, s.value, 0)
              /\ ~(s.value.type = type /\ s.value.value = value /\ ~s.value.ind)
           \/ s.rx = "ok" /\ r = Result(s.in, "ok", s.value, 0)
<1>1. PICK s \in ParseHead(src) :
        r \in IF s.rx = "ok"
              THEN IF s.value.type # type THEN Fail(s.in, "item_type_mismatch", s.value)
                   ELSE IF s.value.ind /\ type = "special"
                   THEN IF value = IndefiniteInfo THEN Ok(s.in, s.value)
                        ELSE Fail(s.in, "item_type_mismatch", s.value)
                   ELSE IF s.value.ind THEN Fail(s.in, "indefinite_item", s.value)
                   ELSE IF s.value.value # value THEN Fail(s.in, "item_value_out_of_range", s.value)
                   ELSE Ok(s.in, s.value)
              ELSE {s}
  BY Zenon DEF ExpectHead, Then
<1> QED
  BY <1>1, OkIs, FailIs

LEMMA ExpectHeadTakes ==
  ASSUME NEW src \in Inputs, NEW type, NEW value, NEW r \in ExpectHead(src, type, value)
  PROVE  Takes(src, r)
<1>1. PICK s \in ParseHead(src) :
        \/ s.rx # "ok" /\ r = s
        \/ \E rx \in Errors : \E v : s.rx = "ok" /\ r = Result(s.in, rx, v, 0)
  BY ExpectHeadIs, AllErrors
<1>2. Takes(src, s)
  BY <1>1, ParseHeadTakes
<1> QED
  BY <1>1, <1>2, TakesOf DEF Takes, Stays

(* The outcomes of parse_integer                                           *)
LEMMA ParseIntegerIs ==
  ASSUME NEW src, NEW t, NEW dest, NEW r \in ParseInteger(src, t, dest)
  PROVE  \E s \in ParseHead(src) :
           \/ s.rx # "ok" /\ r = Result(s.in, s.rx, dest, 0)
           \/ /\ s.rx = "ok" /\ s.value.type \notin (IF t.flag THEN {"posint", "negint"} ELSE {"posint"})
              /\ r = Result(s.in, "item_type_mismatch", dest, 0)
           \/ /\ s.rx = "ok" /\ s.value.value > LimitOf(t.n, t.flag)
              /\ r = Result(s.in, "item_value_out_of_range", dest, 0)
           \/ /\ s.rx = "ok" /\ s.value.type \in (IF t.flag THEN {"posint", "negint"} ELSE {"posint"})
              /\ r = Result(s.in, "ok", IF s.value.type = "negint" THEN -1 - s.value.value
                                        ELSE s.value.value, 0)
<1>1. PICK s \in ParseHead(src) :
        r \in IF s.rx = "ok"
              THEN IF s.value.type \notin (IF t.flag THEN {"posint", "negint"} ELSE {"posint"})
                   THEN Fail(s.in, "item_type_mismatch", dest)
                   ELSE IF s.value.value > LimitOf(t.n, t.flag)
                   THEN Fail(s.in, "item_value_out_of_range", dest)
                   ELSE Ok(s.in, IF s.value.type = "negint" THEN -1 - s.value.value ELSE s.value.value)
              ELSE Fail(s.in, s.rx, dest)
  BY Zenon DEF ParseInteger, Try
<1> QED
  BY <1>1, OkIs, FailIs

(* The outcomes of parse_boolean                                           *)
LEMMA ParseBooleanIs ==
  ASSUME NEW src, NEW dest, NEW r \in ParseBoolean(src, dest)
  PROVE  \E s \in IF src.window = 0 THEN RequireInput(src, 1) ELSE Ok(src, <<>>) :
           \/ s.rx # "ok" /\ r = Result(s.in, s.rx, dest, 0)
           \/ /\ s.rx = "ok" /\ s.in.bytes[s.in.at + 1] \notin {False, True}
              /\ r = Result(s.in, "item_type_mismatch", dest, 0)
           \/ /\ s.rx = "ok"
              /\ r = Result(DiscardBuffered(s.in, 1), "ok", s.in.bytes[s.in.at + 1] = True, 0)
<1>1. PICK s \in IF src.window = 0 THEN RequireInput(src, 1) ELSE Ok(src, <<>>) :
        r \in IF s.rx = "ok"
              THEN IF s.in.bytes[s.in.at + 1] \notin {False, True}
                   THEN Fail(s.in, "item_type_mismatch", dest)
                   ELSE Ok(DiscardBuffered(s.in, 1), s.in.bytes[s.in.at + 1] = True)
              ELSE Fail(s.in, s.rx, dest)
  BY Zenon DEF ParseBoolean, Try
<1> QED
  BY <1>1, OkIs, FailIs

(* The outcomes of parse_floating_point                                    *)
FloatOf(h) == <<h.length - 1, h.value>>

LEMMA ParseFloatIs ==
  ASSUME NEW src, NEW t, NEW dest, NEW r \in ParseFloat(src, t, dest)
  PROVE  \E s \in ParseHead(src) :
           \/ s.rx # "ok" /\ r = Result(s.in, s.rx, dest, 0)
           \/ /\ s.rx = "ok" /\ (s.value.type # "special" \/ s.value.length < 3)
              /\ r = Result(s.in, "item_type_mismatch", dest, 0)
           \/ /\ s.rx = "ok" /\ t.n < s.value.length - 1
              /\ r = Result(s.in, "item_value_out_of_range", dest, 0)
           \/ s.rx = "ok" /\ r = Result(s.in, "ok", FloatOf(s.value), 0)
<1>1. PICK s \in ParseHead(src) :
        r \in IF s.rx = "ok"
              THEN IF s.value.type # "special" \/ s.value.length < 3
                   THEN Fail(s.in, "item_type_mismatch", dest)
                   ELSE IF t.n < s.value.length - 1 THEN Fail(s.in, "item_value_out_of_range", dest)
                   ELSE Ok(s.in, FloatOf(s.value))
              ELSE Fail(s.in, s.rx, dest)
  BY Zenon DEF ParseFloat, Try, FloatOf
<1> QED
  BY <1>1, OkIs, FailIs

LEMMA ScalarsTake ==
  ASSUME NEW src \in Inputs, NEW t, NEW dest,
         NEW r, r \in ParseInteger(src, t, dest) \/ r \in ParseFloat(src, t, dest)
  PROVE  Takes(src, r)
<1>1. PICK s \in ParseHead(src) :
        \/ \E v : s.rx # "ok" /\ r = Result(s.in, s.rx, v, 0)
        \/ \E rx \in Errors : \E v : s.rx = "ok" /\ r = Result(s.in, rx, v, 0)
  <2>1. CASE r \in ParseInteger(src, t, dest)
    BY <2>1, ParseIntegerIs, AllErrors
  <2>2. CASE r \in ParseFloat(src, t, dest)
    BY <2>2, ParseFloatIs, AllErrors
  <2> QED
    BY <2>1, <2>2
<1>2. Takes(src, s)
  BY <1>1, ParseHeadTakes
<1> QED
  BY <1>1, <1>2, TakesOf DEF Takes, Stays

(* A byte is shown, if there is one.                                       *)
LEMMA ShowByte ==
  ASSUME NEW src \in Inputs, NEW s \in IF src.window = 0 THEN RequireInput(src, 1) ELSE Ok(src, <<>>)
  PROVE  /\ Stays(src, s) /\ s.in.at = src.at
         /\ \/ s.rx = "ok" /\ s.in.window > 0 /\ src.at < Len(src.bytes)
            \/ s.rx = "end_of_stream" /\ ~(src.at < Len(src.bytes))
            \/ s.rx = "bad" /\ src.kind = "stream"
<1>1. /\ src.at \in Nat /\ src.window \in Nat /\ Len(src.bytes) \in Nat
      /\ src.at + src.window <= Len(src.bytes) /\ InputSize(src) = Len(src.bytes) - src.at
  BY InputIs
<1>2. CASE src.window = 0
  <2>1. s \in RequireInput(src, 1) /\ 1 \in Nat
    BY <1>2
  <2>2. /\ s.in.at = src.at /\ Stays(src, s)
        /\ \/ s.rx = "ok" /\ 1 <= s.in.window
           \/ s.rx = "end_of_stream" /\ 1 > InputSize(src)
           \/ s.rx = "bad" /\ src.kind = "stream"
    BY <2>1, RequireOutcome, RequireStays
  <2>3. s.in \in Inputs /\ s.in.bytes = src.bytes
    BY <2>2 DEF Stays, Onward
  <2>4. s.in.window \in Nat /\ s.in.at + s.in.window <= Len(s.in.bytes)
    BY <2>3, InputIs
  <2> QED
    BY <1>1, <2>2, <2>3, <2>4
<1>3. CASE src.window # 0
  <2>1. s = Result(src, "ok", <<>>, 0)
    BY <1>3, OkIs
  <2>2. src.window > 0 /\ src.at < Len(src.bytes)
    BY <1>1, <1>3
  <2>3. Onward(src, src)
    BY OnwardItself
  <2> QED
    BY <2>1, <2>2, <2>3, StaysOf, ResultFields, AllErrors
<1> QED
  BY <1>2, <1>3

LEMMA BooleansTake ==
  ASSUME NEW src \in Inputs, NEW dest, NEW r \in ParseBoolean(src, dest)
  PROVE  Takes(src, r)
<1>1. PICK s \in IF src.window = 0 THEN RequireInput(src, 1) ELSE Ok(src, <<>>) :
        \/ s.rx # "ok" /\ r = Result(s.in, s.rx, dest, 0)
        \/ s.rx = "ok" /\ r = Result(s.in, "item_type_mismatch", dest, 0)
        \/ s.rx = "ok" /\ \E v : r = Result(DiscardBuffered(s.in, 1), "ok", v, 0)
  BY ParseBooleanIs
<1>2. Stays(src, s) /\ s.in.at = src.at /\ (s.rx = "ok" => s.in.window > 0)
  BY ShowByte, AllErrors
<1>3. s.in \in Inputs /\ Onward(src, s.in) /\ s.rx \in Errors
  BY <1>2 DEF Stays, Onward
<1>4. s.in.window \in Nat /\ src.at \in Nat
  BY <1>3, InputIs
<1>5. CASE s.rx # "ok"
  BY <1>1, <1>3, <1>5, TakesOf
<1>6. CASE s.rx = "ok" /\ r = Result(s.in, "item_type_mismatch", dest, 0)
  BY <1>3, <1>6, TakesOf, AllErrors
<1>7. ASSUME s.rx = "ok", NEW v, r = Result(DiscardBuffered(s.in, 1), "ok", v, 0)
      PROVE  Takes(src, r)
  <2>1. 1 <= s.in.window /\ 1 \in Nat
    BY <1>2, <1>4, <1>7
  <2>2. Onward(s.in, DiscardBuffered(s.in, 1)) /\ DiscardBuffered(s.in, 1).at = s.in.at + 1
    BY <1>3, <2>1, DiscardIs
  <2>3. Onward(src, DiscardBuffered(s.in, 1)) /\ src.at < DiscardBuffered(s.in, 1).at
    BY <1>2, <1>3, <1>4, <2>2, OnwardTwice
  <2> QED
    BY <1>7, <2>3, TakesOf, AllErrors
<1> QED
  BY <1>1, <1>5, <1>6, <1>7

-----------------------------------------------------------------------------
(* Strings                                                                 *)

LEMMA AskIs ==
  ASSUME NEW src \in Inputs, NEW n \in Nat, n = 0 \/ n < Len(src.bytes)
  PROVE  Onward(src, Ask(src, n)) /\ Ask(src, n).at = src.at /\ Ask(src, n).window = src.window
<1> DEFINE a == IF n > src.asked THEN n ELSE src.asked
           p == [src EXCEPT !.asked = a]
<1>1. src.asked \in Nat /\ src.at \in Nat
  BY InputIs
<1>2. a \in Nat /\ (a = src.asked \/ a < Len(src.bytes))
  BY <1>1
<1>3. Ask(src, n) = p
  BY Zenon DEF Ask
<1> HIDE DEF a
<1>4. /\ p \in Inputs /\ p.kind = src.kind /\ p.bytes = src.bytes /\ p.buf = src.buf
      /\ p.at = src.at /\ p.window = src.window /\ p.asked = a
  BY <1>2 DEF Inputs
<1> HIDE DEF p
<1> QED
  BY <1>1, <1>2, <1>3, <1>4 DEF Onward

(* The outcomes of container_resize                                        *)
LEMMA ResizeIs ==
  ASSUME NEW src, NEW t, NEW dest, NEW n, NEW r \in Resize(src, t, dest, n)
  PROVE  \/ IsSpan(t) /\ n <= Len(dest) /\ r = Result(src, "ok", dest, 0)
         \/ IsSpan(t) /\ ~(n <= Len(dest)) /\ r = Result(src, "not_enough_memory", dest, 0)
         \/ ~IsSpan(t) /\ r = Result(Ask(src, n), "ok", Resized(dest, n, 0), 0)
         \/ ~IsSpan(t) /\ r = Result(Ask(src, n), "not_enough_memory", dest, 0)
<1>1. CASE IsSpan(t)
  BY <1>1, OkIs, FailIs DEF Resize
<1>2. CASE ~IsSpan(t)
  <2>1. \/ r \in Ok(Ask(src, n), Resized(dest, n, 0))
        \/ r \in Fail(Ask(src, n), "not_enough_memory", dest)
    BY <1>2 DEF Resize
  <2> QED
    BY <1>2, <2>1, OkIs, FailIs
<1> QED
  BY <1>1, <1>2

LEMMA ResizeStays ==
  ASSUME NEW src \in Inputs, NEW t, NEW dest, NEW n \in Nat, n = 0 \/ n < Len(src.bytes),
         NEW r \in Resize(src, t, dest, n)
  PROVE  Stays(src, r) /\ r.in.at = src.at
<1>1. \E p \in {src, Ask(src, n)}, rx \in Errors : \E v : r = Result(p, rx, v, 0)
  BY ResizeIs, AllErrors
<1>2. \A p \in {src, Ask(src, n)} : Onward(src, p) /\ p.at = src.at
  BY AskIs, OnwardItself
<1> QED
  BY <1>1, <1>2, StaysOf, ResultFields

(* The outcomes of reading into a destination                              *)
LEMMA ReadIntoIs ==
  ASSUME NEW src \in Inputs, NEW dest, NEW at, NEW n \in Nat, NEW r \in ReadInto(src, dest, at, n)
  PROVE  \E b \in BulkRead(src, n) : r = Result(b.in, b.rx, Overwrite(dest, at, b.value), b.n)
<1>1. PICK b \in BulkRead(src, n) : r = [b EXCEPT !.value = Overwrite(dest, at, b.value)]
  BY Zenon DEF ReadInto
<1>2. IsResult(b)
  BY BulkReadOutcome
<1>3. \A v : [b EXCEPT !.value = v] = Result(b.in, b.rx, v, b.n)
  BY <1>2, ResultExcept
<1> QED
  BY <1>1, <1>3, Zenon

LEMMA ReadIntoStays ==
  ASSUME NEW src \in Inputs, NEW dest, NEW at, NEW n \in Nat, NEW r \in ReadInto(src, dest, at, n)
  PROVE  /\ Stays(src, r)
         /\ \/ r.rx = "ok" /\ r.in.at = src.at + n
            \/ r.rx = "end_of_stream" /\ n > InputSize(src)
            \/ r.rx = "bad" /\ src.kind = "stream"
<1>1. PICK b \in BulkRead(src, n) : r = Result(b.in, b.rx, Overwrite(dest, at, b.value), b.n)
  BY ReadIntoIs
<1>2. /\ Onward(src, b.in)
      /\ \/ b.rx = "ok" /\ b.in.at = src.at + n
         \/ b.rx = "end_of_stream" /\ n > InputSize(src)
         \/ b.rx = "bad" /\ src.kind = "stream"
  BY BulkReadOutcome
<1>3. Stays(src, r)
  BY <1>1, <1>2, StaysOf, AllErrors
<1> QED
  BY <1>1, <1>2, <1>3, ResultFields

(* The outcomes of a round of parse_blob_indefinite                        *)
LEMMA NextChunkIs ==
  ASSUME NEW r, NEW t, NEW q \in NextChunk(r, t)
  PROVE  \E s \in ParseHead(r.in) :
           LET h == s.value  newSize == r.n + h.value IN
           \/ s.rx # "ok" /\ q = Result(s.in, s.rx, r.value, 0)
           \/ s.rx = "ok" /\ h.type = "special" /\ q = Result(s.in, "ok", r.value, r.n)
           \/ s.rx = "ok" /\ \E rx \in {"invalid_indefinite_subitem", "missing_data",
                                        "string_exceeds_size_limit"} : q = Result(s.in, rx, r.value, 0)
           \/ /\ s.rx = "ok" /\ ~MissingData(s.in, h.value)
              /\ \E u \in Resize(s.in, t, r.value, newSize) :
                   \/ u.rx # "ok" /\ q = u
                   \/ /\ u.rx = "ok"
                      /\ \E b \in ReadInto(u.in, u.value, r.n, h.value) :
                           \/ b.rx # "ok" /\ q = b
                           \/ b.rx = "ok" /\ q = Result(b.in, "more", b.value, newSize)
<1> DEFINE chunk(s) ==
             UNION {IF u.rx = "ok"
                    THEN UNION {IF b.rx = "ok"
                                THEN {Result(b.in, "more", b.value, r.n + s.value.value)} ELSE {b}
                                  : b \in ReadInto(u.in, u.value, r.n, s.value.value)}
                    ELSE {u} : u \in Resize(s.in, t, r.value, r.n + s.value.value)}
<1>1. PICK s \in ParseHead(r.in) :
        q \in IF s.rx = "ok"
              THEN IF s.value.type = "special" /\ s.value.ind THEN {Result(s.in, "ok", r.value, r.n)}
                   ELSE IF s.value.type # StringType(t)
                   THEN Fail(s.in, "invalid_indefinite_subitem", r.value)
                   ELSE IF MissingData(s.in, s.value.value) THEN Fail(s.in, "missing_data", r.value)
                   ELSE IF r.n + s.value.value > MaxSize(t)
                   THEN Fail(s.in, "string_exceeds_size_limit", r.value)
                   ELSE chunk(s)
              ELSE Fail(s.in, s.rx, r.value)
  BY Zenon DEF NextChunk, Try, Then
<1>2. ASSUME q \in chunk(s)
      PROVE  \E u \in Resize(s.in, t, r.value, r.n + s.value.value) :
               \/ u.rx # "ok" /\ q = u
               \/ /\ u.rx = "ok"
                  /\ \E b \in ReadInto(u.in, u.value, r.n, s.value.value) :
                       \/ b.rx # "ok" /\ q = b
                       \/ b.rx = "ok" /\ q = Result(b.in, "more", b.value, r.n + s.value.value)
  BY <1>2
<1> HIDE DEF chunk
<1>3. \/ s.rx # "ok" /\ q = Result(s.in, s.rx, r.value, 0)
      \/ s.rx = "ok" /\ s.value.type = "special" /\ q = Result(s.in, "ok", r.value, r.n)
      \/ s.rx = "ok" /\ \E rx \in {"invalid_indefinite_subitem", "missing_data",
                                   "string_exceeds_size_limit"} : q = Result(s.in, rx, r.value, 0)
      \/ s.rx = "ok" /\ ~MissingData(s.in, s.value.value) /\ q \in chunk(s)
  BY <1>1, FailIs
<1> QED
  BY <1>2, <1>3

(* After k chunks, what was read is less than what was taken, heads and    *)
(* all, so that no chunk makes the string outgrow the input.               *)
ChunkRound(src, k, r) ==
  /\ IsResult(r) /\ Onward(src, r.in) /\ r.rx \in Errors \union {"more"}
  /\ r.rx = "more" => r.n \in Nat /\ r.n < r.in.at /\ src.at + k <= r.in.at

LEMMA NextChunkRound ==
  ASSUME NEW src \in Inputs, NEW k \in Nat, NEW r, ChunkRound(src, k, r), r.rx = "more",
         NEW t, NEW q \in NextChunk(r, t)
  PROVE  ChunkRound(src, k + 1, q)
<1>1. Onward(src, r.in) /\ r.n \in Nat /\ r.n < r.in.at /\ src.at + k <= r.in.at /\ r.in \in Inputs
  BY DEF ChunkRound, Onward
<1> DEFINE size(s) == r.n + s.value.value
<1>2. PICK s \in ParseHead(r.in) :
        \/ \E rx \in Errors : \E v, n : (rx # "ok" \/ s.rx = "ok") /\ q = Result(s.in, rx, v, n)
        \/ /\ s.rx = "ok" /\ ~MissingData(s.in, s.value.value)
           /\ \E u \in Resize(s.in, t, r.value, size(s)) :
                \/ u.rx # "ok" /\ q = u
                \/ /\ u.rx = "ok"
                   /\ \E b \in ReadInto(u.in, u.value, r.n, s.value.value) :
                        \/ b.rx # "ok" /\ q = b
                        \/ b.rx = "ok" /\ q = Result(b.in, "more", b.value, size(s))
  <2>1. \A s \in ParseHead(r.in) : s.rx \in Errors
    BY <1>1, ParseHeadTakes DEF Takes, Stays
  <2>2. PICK s \in ParseHead(r.in) :
           LET h == s.value  newSize == r.n + h.value IN
           \/ s.rx # "ok" /\ q = Result(s.in, s.rx, r.value, 0)
           \/ s.rx = "ok" /\ h.type = "special" /\ q = Result(s.in, "ok", r.value, r.n)
           \/ s.rx = "ok" /\ \E rx \in {"invalid_indefinite_subitem", "missing_data",
                                        "string_exceeds_size_limit"} : q = Result(s.in, rx, r.value, 0)
           \/ /\ s.rx = "ok" /\ ~MissingData(s.in, h.value)
              /\ \E u \in Resize(s.in, t, r.value, newSize) :
                   \/ u.rx # "ok" /\ q = u
                   \/ /\ u.rx = "ok"
                      /\ \E b \in ReadInto(u.in, u.value, r.n, h.value) :
                           \/ b.rx # "ok" /\ q = b
                           \/ b.rx = "ok" /\ q = Result(b.in, "more", b.value, newSize)
    BY NextChunkIs
  <2>3. /\ s.rx \in Errors
        /\ {"ok", "invalid_indefinite_subitem", "missing_data",
            "string_exceeds_size_limit"} \subseteq Errors
    BY <2>1, AllErrors
  <2>4. CASE s.rx # "ok" /\ q = Result(s.in, s.rx, r.value, 0)
    BY <2>3, <2>4
  <2>5. CASE s.rx = "ok" /\ s.value.type = "special" /\ q = Result(s.in, "ok", r.value, r.n)
    BY <2>3, <2>5
  <2>6. CASE s.rx = "ok" /\ \E rx \in {"invalid_indefinite_subitem", "missing_data",
                                        "string_exceeds_size_limit"} : q = Result(s.in, rx, r.value, 0)
    BY <2>3, <2>6
  <2> QED
    BY Zenon, <2>2, <2>4, <2>5, <2>6
<1>3. Takes(r.in, s) /\ (s.rx = "ok" => s.value.value \in Nat)
  BY <1>1, <1>2, ParseHeadTakes
<1>4. Onward(r.in, s.in) /\ s.in \in Inputs /\ Onward(src, s.in)
  BY <1>1, <1>3, OnwardTwice DEF Takes, Stays, Onward
<1>5. ASSUME NEW p, Onward(src, p), NEW rx \in Errors, NEW v, NEW n
      PROVE  ChunkRound(src, k + 1, Result(p, rx, v, n))
  <2>1. rx # "more"
    BY AllErrors
  <2> QED
    BY <1>5, <2>1, ResultFields DEF ChunkRound
<1>6. CASE \E rx \in Errors : \E v, n : q = Result(s.in, rx, v, n)
  BY <1>4, <1>5, <1>6
<1>7. ASSUME s.rx = "ok", ~MissingData(s.in, s.value.value),
             NEW u \in Resize(s.in, t, r.value, size(s)),
             \/ u.rx # "ok" /\ q = u
             \/ /\ u.rx = "ok"
                /\ \E b \in ReadInto(u.in, u.value, r.n, s.value.value) :
                     \/ b.rx # "ok" /\ q = b
                     \/ b.rx = "ok" /\ q = Result(b.in, "more", b.value, size(s))
      PROVE  ChunkRound(src, k + 1, q)
  <2> DEFINE v == s.value.value
  <2>1. v \in Nat /\ r.in.at < s.in.at
    BY <1>3, <1>7 DEF Takes
  <2>2. /\ s.in.at \in Nat /\ InputSize(s.in) = Len(s.in.bytes) - s.in.at /\ Len(s.in.bytes) \in Nat
        /\ r.in.at \in Nat /\ src.at \in Nat
    BY <1>1, <1>4, InputIs
  <2>3. v <= Len(s.in.bytes) - s.in.at
    BY <1>7, <2>1, <2>2 DEF MissingData
  <2> HIDE DEF v
  <2>4. size(s) = r.n + v
    BY DEF v
  <2> HIDE DEF size
  <2>5. size(s) \in Nat /\ size(s) < Len(s.in.bytes)
    <3>1. r.n < s.in.at /\ r.n \in Nat
      BY <1>1, <2>1, <2>2
    <3>2. \A a, b, c, e \in Nat : a < b /\ e <= c - b => a + e \in Nat /\ a + e < c
      OBVIOUS
    <3>3. v \in Nat /\ s.in.at \in Nat /\ Len(s.in.bytes) \in Nat
      BY <2>1, <2>2
    <3>4. r.n + v \in Nat /\ r.n + v < Len(s.in.bytes)
      BY <2>3, <3>1, <3>2, <3>3
    <3> QED
      BY Zenon, <2>4, <3>4
  <2>6. Stays(s.in, u) /\ u.in.at = s.in.at
    BY <1>4, <1>7, <2>5, ResizeStays
  <2>7. Onward(src, u.in) /\ u.in \in Inputs /\ IsResult(u) /\ u.rx \in Errors
    BY <1>4, <2>6, OnwardTwice DEF Stays, Onward
  <2>8. CASE u.rx # "ok" /\ q = u
    BY <1>5, <2>7, <2>8 DEF IsResult
  <2>9. ASSUME NEW b \in ReadInto(u.in, u.value, r.n, v),
               \/ b.rx # "ok" /\ q = b
               \/ b.rx = "ok" /\ q = Result(b.in, "more", b.value, size(s))
        PROVE  ChunkRound(src, k + 1, q)
    <3>1. Stays(u.in, b) /\ (b.rx = "ok" => b.in.at = u.in.at + v)
      BY <2>1, <2>7, ReadIntoStays, AllErrors
    <3>2. Onward(src, b.in) /\ IsResult(b) /\ b.rx \in Errors
      BY <2>7, <3>1, OnwardTwice DEF Stays
    <3>3. CASE b.rx # "ok" /\ q = b
      BY <1>5, <3>2, <3>3 DEF IsResult
    <3>4. CASE b.rx = "ok" /\ q = Result(b.in, "more", b.value, size(s))
      <4>1. b.in.at = s.in.at + v
        BY <2>6, <3>1, <3>4
      <4>2. size(s) < b.in.at /\ src.at + (k + 1) <= b.in.at
        <5>1. r.n \in Nat /\ r.n < s.in.at /\ src.at + k <= r.in.at
          BY <1>1, <2>1, <2>2
        <5>2. size(s) < b.in.at
          BY <2>1, <2>2, <2>4, <4>1, <5>1
        <5>3. src.at + (k + 1) <= b.in.at
          BY <2>1, <2>2, <4>1, <5>1
        <5> QED
          BY <5>2, <5>3
      <4> QED
        BY <2>5, <3>2, <3>4, <4>2, ResultFields DEF ChunkRound
    <3> QED
      BY <2>9, <3>3, <3>4
  <2> QED
    BY <1>7, <2>8, <2>9 DEF v
<1> QED
  BY <1>2, <1>6, <1>7

(* The loop of parse_blob_indefinite for n rounds                          *)
IsChunks(src, t, dest, n, f) ==
  f = [k \in 0 .. n |-> IF k = 0 THEN {Result(src, "more", dest, 0)}
                        ELSE UNION {IF r.rx = "more" THEN NextChunk(r, t) ELSE {r} : r \in f[k - 1]}]

LEMMA ChunksDefined ==
  ASSUME NEW src, NEW t, NEW dest, NEW n \in Nat
  PROVE  \E f : IsChunks(src, t, dest, n, f)
<1> DEFINE first == {Result(src, "more", dest, 0)}
           step(S) == UNION {IF r.rx = "more" THEN NextChunk(r, t) ELSE {r} : r \in S}
           Loop(m, f) == f = [k \in 0 .. m |-> IF k = 0 THEN first ELSE step(f[k - 1])]
           T == {m \in Nat : \E f : Loop(m, f)}
<1>1. \A f : IsChunks(src, t, dest, n, f) <=> Loop(n, f)
  BY Zenon DEF IsChunks
<1> HIDE DEF first, step
<1>2. 0 \in T
  <2> DEFINE f == [k \in 0 .. 0 |-> first]
  <2>1. Loop(0, f)
    OBVIOUS
  <2> QED
    BY <2>1
<1>3. ASSUME NEW m \in Nat, m \in T PROVE m + 1 \in T
  <2>1. PICK g : Loop(m, g)
    BY <1>3
  <2> DEFINE f == [k \in 0 .. m + 1 |-> IF k = m + 1 THEN step(g[m]) ELSE g[k]]
  <2>2. ASSUME NEW k \in 0 .. m + 1 PROVE f[k] = IF k = 0 THEN first ELSE step(f[k - 1])
    <3>1. CASE k = 0
      BY <2>1, <3>1
    <3>2. CASE k # 0 /\ k # m + 1
      <4>1. k \in 0 .. m /\ k - 1 \in 0 .. m + 1 /\ k - 1 # m + 1 /\ k \in 0 .. m + 1
        BY <3>2
      <4>2. f[k] = g[k] /\ f[k - 1] = g[k - 1] /\ g[k] = step(g[k - 1])
        BY <2>1, <3>2, <4>1
      <4> HIDE DEF f
      <4> QED
        BY <3>2, <4>2
    <3>3. CASE k = m + 1
      <4>1. f[m + 1] = step(g[m]) /\ f[m] = g[m] /\ k - 1 = m /\ k # 0
        BY <3>3
      <4> HIDE DEF f
      <4> QED
        BY <3>3, <4>1
    <3> QED
      BY <3>1, <3>2, <3>3
  <2>3. f = [k \in 0 .. m + 1 |-> f[k]]
    OBVIOUS
  <2> HIDE DEF f
  <2>4. Loop(m + 1, f)
    BY <2>2, <2>3
  <2> QED
    BY <2>4
<1> HIDE DEF T
<1>4. n \in T
  BY <1>2, <1>3, NumberInduction
<1> QED
  BY <1>1, <1>4 DEF T

(* Each result of a round comes from one before it, and each goes on.      *)
ChunksRun(src, t, dest, n, f) ==
  /\ f[0] = {Result(src, "more", dest, 0)}
  /\ \A k \in 1 .. n :
       /\ \A q \in f[k] : \E r \in f[k - 1] : \/ r.rx = "more" /\ q \in NextChunk(r, t)
                                              \/ r.rx # "more" /\ q = r
       /\ \A r \in f[k - 1] : IF r.rx = "more" THEN NextChunk(r, t) \subseteq f[k] ELSE r \in f[k]

LEMMA BlobChunksIs ==
  ASSUME NEW src \in Inputs, NEW t, NEW dest
  PROVE  \E f : /\ BlobChunks(src, t, dest) = f[Rounds(src)]
                /\ ChunksRun(src, t, dest, Rounds(src), f)
<1> DEFINE n == Rounds(src)
           P(f) == IsChunks(src, t, dest, n, f)
           h == CHOOSE f : P(f)
<1>1. n \in Nat
  BY InputIs DEF Rounds
<1>2. BlobChunks(src, t, dest) = h[n]
  BY Zenon DEF BlobChunks, IsChunks
<1> HIDE DEF n
<1>3. P(h)
  <2> HIDE DEF P
  <2>1. \E f : P(f)
    BY <1>1, ChunksDefined DEF P
  <2> QED
    BY <2>1
<1> HIDE DEF h
<1>4. h[0] = {Result(src, "more", dest, 0)}
  BY <1>1, <1>3 DEF IsChunks
<1>5. ASSUME NEW k \in 1 .. n
      PROVE  /\ \A q \in h[k] : \E r \in h[k - 1] : \/ r.rx = "more" /\ q \in NextChunk(r, t)
                                                    \/ r.rx # "more" /\ q = r
             /\ \A r \in h[k - 1] :
                  IF r.rx = "more" THEN NextChunk(r, t) \subseteq h[k] ELSE r \in h[k]
  <2>1. k \in 0 .. n /\ k # 0
    BY <1>1
  <2>2. h[k] = UNION {IF r.rx = "more" THEN NextChunk(r, t) ELSE {r} : r \in h[k - 1]}
    BY <1>3, <2>1 DEF IsChunks
  <2> QED
    BY <2>2
<1>6. ChunksRun(src, t, dest, n, h)
  BY <1>4, <1>5 DEF ChunksRun
<1> QED
  BY <1>2, <1>6 DEF n

(* What a round leaves                                                     *)
LEMMA ChunkRounds ==
  ASSUME NEW src \in Inputs, src.at > 0, NEW t, NEW dest, NEW f, ChunksRun(src, t, dest, Rounds(src), f)
  PROVE  \A k \in Nat : k <= Rounds(src) => \A q \in f[k] : ChunkRound(src, k, q)
<1>2. Rounds(src) \in Nat /\ src.at \in Nat
  BY InputIs DEF Rounds
<1> DEFINE T == {k \in Nat : k <= Rounds(src) => \A q \in f[k] : ChunkRound(src, k, q)}
<1>3. 0 \in T
  <2> SUFFICES ASSUME NEW q \in f[0] PROVE ChunkRound(src, 0, q)
    OBVIOUS
  <2>1. q = Result(src, "more", dest, 0)
    BY DEF ChunksRun
  <2>2. IsResult(q) /\ q.in = src /\ q.rx = "more" /\ q.n = 0
    BY <2>1, ResultFields
  <2>3. Onward(src, src)
    BY OnwardItself
  <2> QED
    BY <1>2, <2>2, <2>3 DEF ChunkRound
<1>4. ASSUME NEW k \in Nat, k \in T PROVE k + 1 \in T
  <2> SUFFICES ASSUME k + 1 <= Rounds(src), NEW q \in f[k + 1] PROVE ChunkRound(src, k + 1, q)
    OBVIOUS
  <2>1. k + 1 \in 1 .. Rounds(src) /\ (k + 1) - 1 = k /\ k <= Rounds(src)
    BY <1>2
  <2>2. PICK s \in f[k] : \/ s.rx = "more" /\ q \in NextChunk(s, t)
                          \/ s.rx # "more" /\ q = s
    BY <2>1 DEF ChunksRun
  <2>3. ChunkRound(src, k, s)
    BY <1>4, <2>1, <2>2
  <2>4. CASE s.rx = "more" /\ q \in NextChunk(s, t)
    BY <2>3, <2>4, NextChunkRound
  <2>5. CASE s.rx # "more" /\ q = s
    BY <2>3, <2>5 DEF ChunkRound
  <2> QED
    BY <2>2, <2>4, <2>5
<1> HIDE DEF T
<1>5. \A k \in Nat : k \in T
  BY <1>3, <1>4, NumberInduction
<1> QED
  BY <1>5 DEF T

(* The loop ends before its rounds do.                                     *)
LEMMA BlobChunksStay ==
  ASSUME NEW src \in Inputs, src.at > 0, NEW t, NEW dest, NEW r \in BlobChunks(src, t, dest)
  PROVE  Stays(src, r)
<1>1. PICK f : /\ BlobChunks(src, t, dest) = f[Rounds(src)]
               /\ ChunksRun(src, t, dest, Rounds(src), f)
  BY BlobChunksIs
<1>2. /\ Rounds(src) = Len(src.bytes) - src.at + 1 /\ Rounds(src) \in Nat
      /\ src.at \in Nat /\ Len(src.bytes) \in Nat
  BY InputIs DEF Rounds
<1>6. ChunkRound(src, Rounds(src), r)
  <2>1. \A k \in Nat : k <= Rounds(src) => \A p \in f[k] : ChunkRound(src, k, p)
    BY <1>1, ChunkRounds
  <2> QED
    BY <1>1, <1>2, <2>1
<1>7. r.rx # "more"
  <2> SUFFICES ASSUME r.rx = "more" PROVE FALSE
    OBVIOUS
  <2>1. src.at + Rounds(src) <= r.in.at /\ r.in \in Inputs /\ r.in.bytes = src.bytes
    BY <1>6 DEF ChunkRound, Onward
  <2>2. r.in.at <= Len(src.bytes)
    <3>1. r.in.at \in Nat /\ r.in.window \in Nat /\ r.in.at + r.in.window <= Len(r.in.bytes)
      BY <2>1, InputIs
    <3> QED
      BY <1>2, <2>1, <3>1
  <2>3. r.in.at \in Nat
    BY <2>1, InputIs
  <2> QED
    BY <1>2, <2>1, <2>2, <2>3
<1> QED
  BY <1>6, <1>7 DEF ChunkRound, Stays

(* The outcomes of parse_blob                                              *)
LEMMA ParseBlobIs ==
  ASSUME NEW src, NEW t, NEW dest, NEW r \in ParseBlob(src, t, dest)
  PROVE  \E s \in ParseHead(src) :
           LET h == s.value IN
           \/ s.rx # "ok" /\ r = Result(s.in, s.rx, dest, 0)
           \/ /\ s.rx = "ok" /\ \E rx \in {"item_type_mismatch", "indefinite_item", "missing_data",
                                           "string_exceeds_size_limit"} : r = Result(s.in, rx, dest, 0)
              /\ ~(/\ h.type = StringType(t) /\ ~h.ind /\ ~MissingData(s.in, h.value)
                   /\ ~(h.value > MaxSize(t)))
           \/ /\ s.rx = "ok" /\ h.ind
              /\ \E u \in Resize(s.in, t, dest, 0) :
                   \/ u.rx # "ok" /\ r = u
                   \/ u.rx = "ok" /\ r \in BlobChunks(u.in, t, u.value)
           \/ /\ s.rx = "ok" /\ h.type = StringType(t) /\ ~h.ind /\ ~MissingData(s.in, h.value)
              /\ \E u \in Resize(s.in, t, dest, h.value) :
                   \/ u.rx # "ok" /\ r = u
                   \/ /\ u.rx = "ok"
                      /\ \E b \in ReadInto(u.in, u.value, 0, h.value) :
                           \/ b.rx # "ok" /\ r = b
                           \/ b.rx = "ok" /\ r = Result(b.in, "ok", b.value, h.value)
<1> DEFINE chunks(s) == UNION {IF u.rx = "ok" THEN BlobChunks(u.in, t, u.value) ELSE {u}
                                 : u \in Resize(s.in, t, dest, 0)}
           whole(s) ==
             UNION {IF u.rx = "ok"
                    THEN UNION {IF b.rx = "ok"
                                THEN {Result(b.in, "ok", b.value, s.value.value)} ELSE {b}
                                  : b \in ReadInto(u.in, u.value, 0, s.value.value)}
                    ELSE {u} : u \in Resize(s.in, t, dest, s.value.value)}
<1>1. PICK s \in ParseHead(src) :
        r \in IF s.rx = "ok"
              THEN IF s.value.type # StringType(t) THEN Fail(s.in, "item_type_mismatch", dest)
                   ELSE IF s.value.ind /\ t.kind = "fixedtext" THEN Fail(s.in, "indefinite_item", dest)
                   ELSE IF s.value.ind THEN chunks(s)
                   ELSE IF MissingData(s.in, s.value.value) THEN Fail(s.in, "missing_data", dest)
                   ELSE IF s.value.value > MaxSize(t)
                   THEN Fail(s.in, "string_exceeds_size_limit", dest)
                   ELSE whole(s)
              ELSE Fail(s.in, s.rx, dest)
  BY Zenon DEF ParseBlob, Try, Then
<1>2. ASSUME r \in chunks(s)
      PROVE  \E u \in Resize(s.in, t, dest, 0) :
               \/ u.rx # "ok" /\ r = u
               \/ u.rx = "ok" /\ r \in BlobChunks(u.in, t, u.value)
  BY <1>2
<1>3. ASSUME r \in whole(s)
      PROVE  \E u \in Resize(s.in, t, dest, s.value.value) :
               \/ u.rx # "ok" /\ r = u
               \/ /\ u.rx = "ok"
                  /\ \E b \in ReadInto(u.in, u.value, 0, s.value.value) :
                       \/ b.rx # "ok" /\ r = b
                       \/ b.rx = "ok" /\ r = Result(b.in, "ok", b.value, s.value.value)
  BY <1>3
<1> HIDE DEF chunks, whole
<1>4. \/ s.rx # "ok" /\ r = Result(s.in, s.rx, dest, 0)
      \/ /\ s.rx = "ok" /\ \E rx \in {"item_type_mismatch", "indefinite_item", "missing_data",
                                      "string_exceeds_size_limit"} : r = Result(s.in, rx, dest, 0)
         /\ ~(/\ s.value.type = StringType(t) /\ ~s.value.ind /\ ~MissingData(s.in, s.value.value)
              /\ ~(s.value.value > MaxSize(t)))
      \/ s.rx = "ok" /\ s.value.ind /\ r \in chunks(s)
      \/ /\ s.rx = "ok" /\ s.value.type = StringType(t) /\ ~s.value.ind
         /\ ~MissingData(s.in, s.value.value) /\ r \in whole(s)
  BY <1>1, FailIs
<1> QED
  BY <1>2, <1>3, <1>4

(* A string that is not missing is shorter than the input.                 *)
LEMMA NotMissing ==
  ASSUME NEW src \in Inputs, NEW s, Takes(src, s), s.rx = "ok", NEW n \in Nat, ~MissingData(s.in, n)
  PROVE  n < Len(s.in.bytes) /\ s.in.at > 0 /\ s.in.at + n <= Len(s.in.bytes)
<1>1. src.at < s.in.at /\ s.in \in Inputs
  BY DEF Takes, Stays, Onward
<1>2. /\ src.at \in Nat /\ s.in.at \in Nat /\ Len(s.in.bytes) \in Nat
      /\ InputSize(s.in) = Len(s.in.bytes) - s.in.at
  BY <1>1, InputIs
<1>3. n <= InputSize(s.in)
  BY <1>2 DEF MissingData
<1> QED
  BY <1>1, <1>2, <1>3

LEMMA ParseBlobTakes ==
  ASSUME NEW src \in Inputs, NEW t, NEW dest, NEW r \in ParseBlob(src, t, dest)
  PROVE  Takes(src, r)
<1> DEFINE n(s) == s.value.value
<1>1. PICK s \in ParseHead(src) :
        \/ s.rx # "ok" /\ r = Result(s.in, s.rx, dest, 0)
        \/ s.rx = "ok" /\ \E rx \in {"item_type_mismatch", "indefinite_item", "missing_data",
                                     "string_exceeds_size_limit"} : r = Result(s.in, rx, dest, 0)
        \/ /\ s.rx = "ok"
           /\ \E u \in Resize(s.in, t, dest, 0) :
                \/ u.rx # "ok" /\ r = u
                \/ u.rx = "ok" /\ r \in BlobChunks(u.in, t, u.value)
        \/ /\ s.rx = "ok" /\ ~MissingData(s.in, n(s))
           /\ \E u \in Resize(s.in, t, dest, n(s)) :
                \/ u.rx # "ok" /\ r = u
                \/ /\ u.rx = "ok"
                   /\ \E b \in ReadInto(u.in, u.value, 0, n(s)) :
                        \/ b.rx # "ok" /\ r = b
                        \/ b.rx = "ok" /\ r = Result(b.in, "ok", b.value, n(s))
  BY ParseBlobIs
<1>2. Takes(src, s) /\ Onward(src, s.in) /\ s.in \in Inputs /\ s.rx \in Errors
  <2>1. Takes(src, s)
    BY <1>1, ParseHeadTakes
  <2> QED
    BY <2>1 DEF Takes, Stays, Onward
<1>3. s.rx = "ok" => n(s) \in Nat /\ src.at < s.in.at /\ s.in.at > 0
  <2>1. src.at \in Nat /\ s.in.at \in Nat
    BY <1>2, InputIs
  <2> QED
    BY <1>1, <1>2, <2>1, ParseHeadTakes DEF Takes
<1> HIDE DEF n
<1>4. ASSUME NEW rx \in Errors, rx # "ok", NEW v, r = Result(s.in, rx, v, 0) PROVE Takes(src, r)
  BY <1>2, <1>4, TakesOf
<1>5. CASE s.rx # "ok" /\ r = Result(s.in, s.rx, dest, 0)
  BY <1>2, <1>4, <1>5
<1>6. CASE \E rx \in {"item_type_mismatch", "indefinite_item", "missing_data",
                      "string_exceeds_size_limit"} : r = Result(s.in, rx, dest, 0)
  <2>1. \A rx \in {"item_type_mismatch", "indefinite_item", "missing_data",
                   "string_exceeds_size_limit"} : rx \in Errors /\ rx # "ok"
    BY AllErrors
  <2> QED
    BY <1>4, <1>6, <2>1
<1>7. ASSUME s.rx = "ok", NEW u \in Resize(s.in, t, dest, 0),
             \/ u.rx # "ok" /\ r = u
             \/ u.rx = "ok" /\ r \in BlobChunks(u.in, t, u.value)
      PROVE  Takes(src, r)
  <2>1. Stays(s.in, u) /\ u.in.at = s.in.at
    BY <1>2, ResizeStays
  <2>2. u.in \in Inputs /\ Onward(s.in, u.in) /\ u.in.at > 0
    BY <1>3, <1>7, <2>1 DEF Stays, Onward
  <2>3. CASE u.rx # "ok" /\ r = u
    BY <1>2, <1>3, <1>7, <2>1, <2>3, TakesFirst
  <2>4. CASE u.rx = "ok" /\ r \in BlobChunks(u.in, t, u.value)
    <3>1. Stays(u.in, r)
      BY <2>2, <2>4, BlobChunksStay
    <3>2. Stays(s.in, r)
      BY <1>2, <2>2, <3>1, StaysAfter
    <3> QED
      BY <1>2, <1>3, <1>7, <3>2, TakesFirst
  <2> QED
    BY <1>7, <2>3, <2>4
<1>8. ASSUME s.rx = "ok", ~MissingData(s.in, n(s)), NEW u \in Resize(s.in, t, dest, n(s)),
             \/ u.rx # "ok" /\ r = u
             \/ /\ u.rx = "ok"
                /\ \E b \in ReadInto(u.in, u.value, 0, n(s)) :
                     \/ b.rx # "ok" /\ r = b
                     \/ b.rx = "ok" /\ r = Result(b.in, "ok", b.value, n(s))
      PROVE  Takes(src, r)
  <2>1. n(s) \in Nat /\ n(s) < Len(s.in.bytes)
    BY <1>2, <1>3, <1>8, NotMissing
  <2>2. Stays(s.in, u) /\ u.in \in Inputs /\ Onward(s.in, u.in)
    <3>1. Stays(s.in, u)
      BY <1>2, <2>1, ResizeStays
    <3> QED
      BY <3>1 DEF Stays, Onward
  <2>3. CASE u.rx # "ok" /\ r = u
    BY <1>2, <1>3, <1>8, <2>2, <2>3, TakesFirst
  <2>4. ASSUME NEW b \in ReadInto(u.in, u.value, 0, n(s)),
               \/ b.rx # "ok" /\ r = b
               \/ b.rx = "ok" /\ r = Result(b.in, "ok", b.value, n(s))
        PROVE  Takes(src, r)
    <3>1. Stays(u.in, b)
      BY <2>1, <2>2, ReadIntoStays
    <3>2. Stays(s.in, b)
      BY <1>2, <2>2, <3>1, StaysAfter
    <3>3. Stays(s.in, r)
      <4>1. Onward(s.in, b.in)
        BY <3>2 DEF Stays
      <4> QED
        BY <2>4, <3>2, <4>1, StaysOf, AllErrors
    <3> QED
      BY <1>2, <1>3, <1>8, <3>3, TakesFirst
  <2> QED
    BY <1>8, <2>3, <2>4
<1> QED
  BY <1>1, <1>5, <1>6, <1>7, <1>8

-----------------------------------------------------------------------------
(* The string codecs                                                       *)

(* Another value, count or error than "ok" does not matter.                *)
LEMMA TakesStill ==
  ASSUME NEW src, NEW s, Takes(src, s), NEW rx \in Errors, rx # "ok" \/ s.rx = "ok", NEW v, NEW n
  PROVE  Takes(src, Result(s.in, rx, v, n))
<1>1. Onward(src, s.in) /\ (s.rx = "ok" => src.at < s.in.at)
  BY DEF Takes, Stays
<1> QED
  BY <1>1, TakesOf

LEMMA DecodeBlobIs ==
  ASSUME NEW src \in Inputs, NEW t, NEW dest, NEW r \in DecodeBlob(src, t, dest)
  PROVE  \E s \in ParseBlob(src, t, dest) :
           \/ s.rx = "ok" /\ r = s
           \/ s.rx # "ok" /\ r = Result(s.in, s.rx, <<>>, s.n)
<1>1. PICK s \in ParseBlob(src, t, dest) : r = IF s.rx = "ok" THEN s ELSE [s EXCEPT !.value = <<>>]
  BY Zenon DEF DecodeBlob
<1>2. IsResult(s)
  BY <1>1, ParseBlobTakes DEF Takes, Stays
<1>3. [s EXCEPT !.value = <<>>] = Result(s.in, s.rx, <<>>, s.n)
  BY Zenon, <1>2, ResultExcept
<1> QED
  BY Zenon, <1>1, <1>3

LEMMA DecodeFixedBlobIs ==
  ASSUME NEW src \in Inputs, NEW t, NEW dest, NEW r \in DecodeFixedBlob(src, t, dest)
  PROVE  \E s \in ParseBlob(src, t, dest) :
           \/ s.rx # "ok" /\ r = Result(s.in, s.rx, Default[t], s.n)
           \/ s.rx = "ok" /\ s.n # t.n /\ r = Result(s.in, "tuple_size_mismatch", Default[t], s.n)
           \/ s.rx = "ok" /\ s.n = t.n /\ r = s
<1>1. PICK s \in ParseBlob(src, t, dest) :
        r = IF s.rx # "ok" THEN [s EXCEPT !.value = Default[t]]
            ELSE IF s.n # t.n THEN Result(s.in, "tuple_size_mismatch", Default[t], s.n)
            ELSE s
  BY Zenon DEF DecodeFixedBlob
<1>2. IsResult(s)
  BY <1>1, ParseBlobTakes DEF Takes, Stays
<1>3. [s EXCEPT !.value = Default[t]] = Result(s.in, s.rx, Default[t], s.n)
  BY Zenon, <1>2, ResultExcept
<1> QED
  BY Zenon, <1>1, <1>3

(* What decode_fixed_u8string makes of what parse_blob yields              *)
UnitsRead(s) == [size |-> IF s.rx = "ok" THEN s.n ELSE 0, units |-> s.value]

LEMMA DecodeFixedTextIs ==
  ASSUME NEW src \in Inputs, NEW t, NEW dest, NEW r \in DecodeFixedText(src, t, dest)
  PROVE  \E s \in ParseBlob(src, t, dest.units) : r = Result(s.in, s.rx, UnitsRead(s), s.n)
<1>1. PICK s \in ParseBlob(src, t, dest.units) : r = [s EXCEPT !.value = UnitsRead(s)]
  BY Zenon DEF DecodeFixedText, UnitsRead
<1>2. IsResult(s)
  BY <1>1, ParseBlobTakes DEF Takes, Stays
<1> QED
  BY Zenon, <1>1, <1>2, ResultExcept

LEMMA DecodeUuidIs ==
  ASSUME NEW src, NEW t, NEW dest, NEW r \in DecodeUuid(src, t, dest)
  PROVE  \E s \in ExpectHead(src, "binary", t.n) :
           \/ s.rx # "ok" /\ r = Result(s.in, s.rx, dest, 0)
           \/ /\ s.rx = "ok"
              /\ \E b \in BulkRead(s.in, t.n) : \/ b.rx # "ok" /\ r = Result(b.in, b.rx, dest, 0)
                                                \/ b.rx = "ok" /\ r = b
<1> DEFINE whole(s) == UNION {IF b.rx = "ok" THEN {b} ELSE Fail(b.in, b.rx, dest)
                                : b \in BulkRead(s.in, t.n)}
<1>1. PICK s \in ExpectHead(src, "binary", t.n) :
        r \in IF s.rx = "ok" THEN whole(s) ELSE Fail(s.in, s.rx, dest)
  BY Zenon DEF DecodeUuid, Try
<1>2. ASSUME r \in whole(s)
      PROVE  \E b \in BulkRead(s.in, t.n) : \/ b.rx # "ok" /\ r = Result(b.in, b.rx, dest, 0)
                                            \/ b.rx = "ok" /\ r = b
  <2>1. PICK b \in BulkRead(s.in, t.n) : r \in IF b.rx = "ok" THEN {b} ELSE Fail(b.in, b.rx, dest)
    BY <1>2
  <2> QED
    BY <2>1, FailIs
<1> HIDE DEF whole
<1> QED
  BY <1>1, <1>2, FailIs

LEMMA DecodePathIs ==
  ASSUME NEW src, NEW t, NEW dest, NEW r \in DecodePath(src, t, dest)
  PROVE  \E s \in ParseBlob(src, t, <<>>) :
           \/ s.rx # "ok" /\ r = Result(s.in, s.rx, dest, 0)
           \/ s.rx = "ok" /\ r = s
           \/ s.rx = "ok" /\ r = Result(s.in, "not_enough_memory", dest, 0)
<1>1. PICK s \in ParseBlob(src, t, <<>>) :
        r \in IF s.rx = "ok" THEN {s} \union Fail(s.in, "not_enough_memory", dest)
              ELSE Fail(s.in, s.rx, dest)
  BY Zenon DEF DecodePath, Try
<1> QED
  BY <1>1, FailIs

LEMMA StringsTake ==
  ASSUME NEW src \in Inputs, NEW t, NEW dest, NEW r,
         \/ r \in DecodeBlob(src, t, dest)
         \/ r \in DecodeFixedBlob(src, t, dest)
         \/ r \in DecodeFixedText(src, t, dest)
         \/ r \in DecodePath(src, t, dest)
         \/ r \in DecodeUuid(src, t, dest) /\ t.n \in Nat
  PROVE  Takes(src, r)
<1>1. ASSUME NEW v, NEW s \in ParseBlob(src, t, v), NEW rx \in Errors, rx # "ok" \/ s.rx = "ok",
             NEW w, NEW n
      PROVE  Takes(src, Result(s.in, rx, w, n)) /\ Takes(src, s) /\ s.rx \in Errors
  <2>1. Takes(src, s)
    BY ParseBlobTakes
  <2> QED
    BY <1>1, <2>1, TakesStill DEF Takes, Stays
<1>2. \A v : \A s \in ParseBlob(src, t, v) : Takes(src, s) /\ s.rx \in Errors
  <2> SUFFICES ASSUME NEW v, NEW s \in ParseBlob(src, t, v) PROVE Takes(src, s) /\ s.rx \in Errors
    OBVIOUS
  <2>1. Takes(src, s)
    BY ParseBlobTakes
  <2> QED
    BY <2>1 DEF Takes, Stays
<1>3. CASE r \in DecodeBlob(src, t, dest)
  <2>1. PICK s \in ParseBlob(src, t, dest) : \/ s.rx = "ok" /\ r = s
                                             \/ s.rx # "ok" /\ r = Result(s.in, s.rx, <<>>, s.n)
    BY <1>3, DecodeBlobIs
  <2> QED
    BY <1>1, <1>2, <2>1
<1>4. CASE r \in DecodeFixedBlob(src, t, dest)
  <2> DEFINE v == Default[t]
  <2>1. PICK s \in ParseBlob(src, t, dest) :
           \/ s.rx # "ok" /\ r = Result(s.in, s.rx, v, s.n)
           \/ s.rx = "ok" /\ s.n # t.n /\ r = Result(s.in, "tuple_size_mismatch", v, s.n)
           \/ s.rx = "ok" /\ s.n = t.n /\ r = s
    BY <1>4, DecodeFixedBlobIs
  <2> HIDE DEF v
  <2>2. "tuple_size_mismatch" \in Errors /\ "tuple_size_mismatch" # "ok"
    BY AllErrors
  <2> QED
    BY <1>1, <1>2, <2>1, <2>2
<1>5. CASE r \in DecodeFixedText(src, t, dest)
  <2>1. PICK s \in ParseBlob(src, t, dest.units) : r = Result(s.in, s.rx, UnitsRead(s), s.n)
    BY <1>5, DecodeFixedTextIs
  <2> QED
    BY <1>1, <1>2, <2>1
<1>6. CASE r \in DecodePath(src, t, dest)
  <2>1. PICK s \in ParseBlob(src, t, <<>>) :
           \/ s.rx # "ok" /\ r = Result(s.in, s.rx, dest, 0)
           \/ s.rx = "ok" /\ r = s
           \/ s.rx = "ok" /\ r = Result(s.in, "not_enough_memory", dest, 0)
    BY <1>6, DecodePathIs
  <2>2. "not_enough_memory" \in Errors /\ "not_enough_memory" # "ok"
    BY AllErrors
  <2> QED
    BY <1>1, <1>2, <2>1, <2>2
<1>7. CASE r \in DecodeUuid(src, t, dest) /\ t.n \in Nat
  <2>1. PICK s \in ExpectHead(src, "binary", t.n) :
           \/ s.rx # "ok" /\ r = Result(s.in, s.rx, dest, 0)
           \/ /\ s.rx = "ok"
              /\ \E b \in BulkRead(s.in, t.n) : \/ b.rx # "ok" /\ r = Result(b.in, b.rx, dest, 0)
                                                \/ b.rx = "ok" /\ r = b
    BY <1>7, DecodeUuidIs
  <2>2. Takes(src, s) /\ s.rx \in Errors /\ Onward(src, s.in) /\ s.in \in Inputs
    <3>1. Takes(src, s)
      BY <2>1, ExpectHeadTakes
    <3> QED
      BY <3>1 DEF Takes, Stays, Onward
  <2>3. CASE s.rx # "ok" /\ r = Result(s.in, s.rx, dest, 0)
    BY <2>2, <2>3, TakesStill
  <2>4. ASSUME s.rx = "ok", NEW b \in BulkRead(s.in, t.n),
               (b.rx # "ok" /\ r = Result(b.in, b.rx, dest, 0)) \/ (b.rx = "ok" /\ r = b)
        PROVE  Takes(src, r)
    <3>1. Stays(s.in, b)
      BY <1>7, <2>2, BulkReadStays
    <3>2. Takes(src, b) /\ b.rx \in Errors
      BY <2>2, <2>4, <3>1, TakesFirst DEF Takes, Stays
    <3> QED
      BY <2>4, <3>2, TakesStill
  <2> QED
    BY <2>1, <2>3, <2>4
<1> QED
  BY <1>3, <1>4, <1>5, <1>6, <1>7

-----------------------------------------------------------------------------
(* Containers.  What the components are decoded into                       *)
Children(d) ==
  IF d.type.kind \in {"array", "tuple"} THEN {Member(d, k) : k \in 1 .. d.type.n}
  ELSE {Fresh(d.type.of[k]) : k \in DOMAIN d.type.of}

(* The components' decoders take from the input and go on.                 *)
PartsTake(d, decoders) ==
  \A e \in Children(d) : \A src \in Inputs : \A r \in decoders[e][src] : Takes(src, r)

(* A vector with one more element, an array with another                   *)
Longer(v, w) == Append(v, w)

Placed(v, k, w) == [v EXCEPT ![k] = w]

ElementDecoded(src, d, dest, decoders, r) ==
  \/ r = Result(src, "not_enough_memory", dest, 0)
  \/ \E s \in decoders[Fresh(d.type.of[1])][src] :
       Takes(src, s) /\ r = Result(s.in, s.rx, Longer(dest, s.value), s.n)

LEMMA DecodeElementIs ==
  ASSUME NEW src \in Inputs, NEW d, Fresh(d.type.of[1]) \in Children(d), NEW dest,
         NEW decoders, PartsTake(d, decoders), NEW r \in DecodeElement(src, d.type, dest, decoders)
  PROVE  ElementDecoded(src, d, dest, decoders, r)
<1> DEFINE e == Fresh(d.type.of[1])
<1>1. e \in Children(d)
  OBVIOUS
<1>2. \/ r = Result(src, "not_enough_memory", dest, 0)
      \/ \E s \in decoders[e][src] : r = [s EXCEPT !.value = Longer(dest, s.value)]
  <2>1. \/ r \in Fail(src, "not_enough_memory", dest)
        \/ r \in {[s EXCEPT !.value = Longer(dest, s.value)] : s \in decoders[e][src]}
    BY Zenon DEF DecodeElement, Longer
  <2> QED
    BY <2>1, FailIs
<1> HIDE DEF e
<1>3. ASSUME NEW s \in decoders[e][src], r = [s EXCEPT !.value = Longer(dest, s.value)]
      PROVE  Takes(src, s) /\ r = Result(s.in, s.rx, Longer(dest, s.value), s.n)
  <2>1. Takes(src, s)
    BY <1>1 DEF PartsTake
  <2>2. IsResult(s)
    BY <2>1 DEF Takes, Stays
  <2>3. [s EXCEPT !.value = Longer(dest, s.value)] = Result(s.in, s.rx, Longer(dest, s.value), s.n)
    BY Zenon, <2>2, ResultExcept
  <2> QED
    BY Zenon, <1>3, <2>1, <2>3
<1> QED
  BY Zenon, <1>2, <1>3 DEF e, ElementDecoded

(* The key k of a set has been decoded; r is what comes of inserting it.   *)
KeyDecoded(k, dest, r) ==
  \/ k.rx # "ok" /\ r = Result(k.in, k.rx, dest, 0)
  \/ k.rx = "ok" /\ k.value \in dest /\ r = Result(k.in, "duplicate_key", {}, 0)
  \/ k.rx = "ok" /\ r = Result(k.in, "ok", dest \union {k.value}, 0)
  \/ k.rx = "ok" /\ r = Result(k.in, "not_enough_memory", dest, 0)

LEMMA DecodeKeyIs ==
  ASSUME NEW src, NEW t, NEW dest, NEW decoders, NEW r \in DecodeKey(src, t, dest, decoders)
  PROVE  \E k \in decoders[Fresh(t.of[1])][src] : KeyDecoded(k, dest, r)
<1> DEFINE added(k) == dest \union {k.value}
<1>1. PICK k \in decoders[Fresh(t.of[1])][src] :
        r \in IF k.rx = "ok"
              THEN (IF k.value \in dest THEN Fail(k.in, "duplicate_key", {})
                    ELSE Ok(k.in, added(k))) \union Fail(k.in, "not_enough_memory", dest)
              ELSE Fail(k.in, k.rx, dest)
  BY Zenon DEF DecodeKey, Try
<1> HIDE DEF added
<1>2. \/ k.rx # "ok" /\ r = Result(k.in, k.rx, dest, 0)
      \/ k.rx = "ok" /\ k.value \in dest /\ r = Result(k.in, "duplicate_key", {}, 0)
      \/ k.rx = "ok" /\ r = Result(k.in, "ok", added(k), 0)
      \/ k.rx = "ok" /\ r = Result(k.in, "not_enough_memory", dest, 0)
  BY <1>1, OkIs, FailIs
<1> QED
  BY Zenon, <1>2 DEF added, KeyDecoded

LEMMA DecodePairIs ==
  ASSUME NEW src, NEW t, NEW dest, NEW decoders, NEW r \in DecodePair(src, t, dest, decoders)
  PROVE  \E k \in decoders[Fresh(t.of[1])][src] :
           \/ k.rx # "ok" /\ r = Result(k.in, k.rx, dest, 0)
           \/ /\ k.rx = "ok"
              /\ \E m \in decoders[Fresh(t.of[2])][k.in] :
                   \/ m.rx # "ok" /\ r = Result(m.in, m.rx, dest, 0)
                   \/ m.rx = "ok" /\ k.value \in DOMAIN dest /\ r = Result(m.in, "duplicate_key", <<>>, 0)
                   \/ m.rx = "ok" /\ r = Result(m.in, "ok", WithEntry(dest, k.value, m.value), 0)
                   \/ m.rx = "ok" /\ r = Result(m.in, "not_enough_memory", dest, 0)
<1> DEFINE added(k, m) == WithEntry(dest, k.value, m.value)
           stored(k) ==
             UNION {IF m.rx = "ok"
                    THEN (IF k.value \in DOMAIN dest THEN Fail(m.in, "duplicate_key", <<>>)
                          ELSE Ok(m.in, added(k, m))) \union Fail(m.in, "not_enough_memory", dest)
                    ELSE Fail(m.in, m.rx, dest) : m \in decoders[Fresh(t.of[2])][k.in]}
<1>1. PICK k \in decoders[Fresh(t.of[1])][src] :
        r \in IF k.rx = "ok" THEN stored(k) ELSE Fail(k.in, k.rx, dest)
  BY Zenon DEF DecodePair, Try
<1> HIDE DEF added
<1>2. ASSUME r \in stored(k)
      PROVE  \E m \in decoders[Fresh(t.of[2])][k.in] :
                   \/ m.rx # "ok" /\ r = Result(m.in, m.rx, dest, 0)
                   \/ m.rx = "ok" /\ k.value \in DOMAIN dest /\ r = Result(m.in, "duplicate_key", <<>>, 0)
                   \/ m.rx = "ok" /\ r = Result(m.in, "ok", added(k, m), 0)
                   \/ m.rx = "ok" /\ r = Result(m.in, "not_enough_memory", dest, 0)
  <2>1. PICK m \in decoders[Fresh(t.of[2])][k.in] :
          r \in IF m.rx = "ok"
                THEN (IF k.value \in DOMAIN dest THEN Fail(m.in, "duplicate_key", <<>>)
                      ELSE Ok(m.in, added(k, m))) \union Fail(m.in, "not_enough_memory", dest)
                ELSE Fail(m.in, m.rx, dest)
    BY <1>2
  <2> QED
    BY <2>1, OkIs, FailIs
<1> HIDE DEF stored
<1>3. \/ k.rx # "ok" /\ r = Result(k.in, k.rx, dest, 0)
      \/ k.rx = "ok" /\ r \in stored(k)
  BY <1>1, FailIs
<1> QED
  BY Zenon, <1>2, <1>3 DEF added

MemberDecoded(src, d, dest, i, decoders, r) ==
  \/ i + 1 \notin 1 .. d.type.n /\ r = Result(src, "undefined", dest, 0)
  \/ /\ i + 1 \in 1 .. d.type.n
     /\ \E s \in decoders[Member(d, i + 1)][src] :
          Takes(src, s) /\ r = Result(s.in, s.rx, Placed(dest, i + 1, s.value), s.n)

LEMMA DecodeMemberIs ==
  ASSUME NEW src \in Inputs, NEW d, d.type.kind \in {"array", "tuple"}, d.type.n \in Nat, NEW dest,
         NEW i \in Nat, NEW decoders, PartsTake(d, decoders),
         NEW r \in DecodeMember(src, d, dest, i, decoders)
  PROVE  MemberDecoded(src, d, dest, i, decoders, r)
<1> DEFINE e == Member(d, i + 1)
           v(s) == Placed(dest, i + 1, s.value)
<1>1. r \in IF i + 1 \notin 1 .. d.type.n THEN Fail(src, "undefined", dest)
            ELSE {[s EXCEPT !.value = v(s)] : s \in decoders[e][src]}
  BY Zenon DEF DecodeMember, Placed
<1>2. CASE i + 1 \notin 1 .. d.type.n
  BY Zenon, <1>1, <1>2, FailIs DEF MemberDecoded
<1>3. CASE i + 1 \in 1 .. d.type.n
  <2>1. i + 1 \in 1 .. d.type.n
    BY <1>3
  <2>2. e \in Children(d)
    BY <2>1 DEF Children
  <2> HIDE DEF e, v
  <2>3. PICK s \in decoders[e][src] : r = [s EXCEPT !.value = v(s)]
    BY Zenon, <1>1, <1>3
  <2>4. Takes(src, s)
    BY Zenon, <2>2, <2>3 DEF PartsTake
  <2>5. IsResult(s)
    BY Zenon, <2>4 DEF Takes, Stays
  <2>6. [s EXCEPT !.value = v(s)] = Result(s.in, s.rx, v(s), s.n)
    BY Zenon, <2>5, ResultExcept
  <2> QED
    BY Zenon, <2>1, <2>3, <2>4, <2>6 DEF e, v, MemberDecoded
<1> QED
  BY Zenon, <1>2, <1>3

(* The types of which a destination is a container                         *)
IsHolder(d) ==
  /\ d.type.kind \in ContainerKinds
  /\ d.type.kind \in {"vector", "set"} => DOMAIN d.type.of = {1}
  /\ d.type.kind = "map" => DOMAIN d.type.of = {1, 2}
  /\ d.type.kind \in {"array", "tuple"} => d.type.n \in Nat

LEMMA DecodeItemTakes ==
  ASSUME NEW src \in Inputs, NEW d, IsHolder(d), NEW dest, NEW i \in Nat, NEW decoders,
         PartsTake(d, decoders), NEW r \in DecodeItem(src, d, dest, i, decoders)
  PROVE  Takes(src, r)
<1>1. d.type.kind \in {"vector", "set", "map", "array", "tuple"}
  BY DEF IsHolder, ContainerKinds
<1>2. Onward(src, src)
  BY OnwardItself
<1>3. /\ "not_enough_memory" \in Errors /\ "not_enough_memory" # "ok" /\ "undefined" \in Errors
      /\ "duplicate_key" \in Errors /\ "undefined" # "ok" /\ "duplicate_key" # "ok"
  BY AllErrors
<1>4. CASE d.type.kind = "vector"
  <2>1. r \in DecodeElement(src, d.type, dest, decoders)
    BY <1>4 DEF DecodeItem
  <2>2. \/ r = Result(src, "not_enough_memory", dest, 0)
        \/ \E s : \E v : Takes(src, s) /\ r = Result(s.in, s.rx, v, s.n)
    <3>1. Fresh(d.type.of[1]) \in Children(d)
      BY <1>4 DEF IsHolder, Children
    <3>2. ElementDecoded(src, d, dest, decoders, r)
      BY <2>1, <3>1, DecodeElementIs
    <3> QED
      BY Zenon, <3>2 DEF ElementDecoded
  <2>3. CASE r = Result(src, "not_enough_memory", dest, 0)
    BY <1>2, <1>3, <2>3, TakesOf
  <2>4. ASSUME NEW s, NEW v, Takes(src, s), r = Result(s.in, s.rx, v, s.n) PROVE Takes(src, r)
    <3>1. s.rx \in Errors
      BY <2>4 DEF Takes, Stays
    <3> QED
      BY <2>4, <3>1, TakesStill
  <2> QED
    BY <2>2, <2>3, <2>4
<1>5. CASE d.type.kind = "set"
  <2>1. r \in DecodeKey(src, d.type, dest, decoders)
    BY <1>5 DEF DecodeItem
  <2>2. PICK k \in decoders[Fresh(d.type.of[1])][src] :
          \/ \E v : k.rx # "ok" /\ r = Result(k.in, k.rx, v, 0)
          \/ \E rx \in Errors : \E v : k.rx = "ok" /\ r = Result(k.in, rx, v, 0)
    <3>1. PICK k \in decoders[Fresh(d.type.of[1])][src] : KeyDecoded(k, dest, r)
      BY Zenon, <2>1, DecodeKeyIs
    <3>2. "ok" \in Errors
      BY AllErrors
    <3> QED
      BY Zenon, <1>3, <3>1, <3>2 DEF KeyDecoded
  <2>3. Takes(src, k) /\ k.rx \in Errors
    <3>1. Fresh(d.type.of[1]) \in Children(d)
      BY <1>5 DEF IsHolder, Children
    <3>2. Takes(src, k)
      BY <3>1 DEF PartsTake
    <3> QED
      BY <3>2 DEF Takes, Stays
  <2> QED
    BY <2>2, <2>3, TakesStill
<1>6. CASE d.type.kind = "map"
  <2>1. r \in DecodePair(src, d.type, dest, decoders)
    BY <1>6 DEF DecodeItem
  <2>2. PICK k \in decoders[Fresh(d.type.of[1])][src] :
          \/ \E v : k.rx # "ok" /\ r = Result(k.in, k.rx, v, 0)
          \/ /\ k.rx = "ok"
             /\ \E m \in decoders[Fresh(d.type.of[2])][k.in] :
                  \/ \E v : m.rx # "ok" /\ r = Result(m.in, m.rx, v, 0)
                  \/ \E rx \in Errors : \E v : m.rx = "ok" /\ r = Result(m.in, rx, v, 0)
    <3>1. "ok" \in Errors
      BY AllErrors
    <3>2. PICK k \in decoders[Fresh(d.type.of[1])][src] :
           \/ k.rx # "ok" /\ r = Result(k.in, k.rx, dest, 0)
           \/ /\ k.rx = "ok"
              /\ \E m \in decoders[Fresh(d.type.of[2])][k.in] :
                   \/ m.rx # "ok" /\ r = Result(m.in, m.rx, dest, 0)
                   \/ m.rx = "ok" /\ k.value \in DOMAIN dest /\ r = Result(m.in, "duplicate_key", <<>>, 0)
                   \/ m.rx = "ok" /\ r = Result(m.in, "ok", WithEntry(dest, k.value, m.value), 0)
                   \/ m.rx = "ok" /\ r = Result(m.in, "not_enough_memory", dest, 0)
      BY <2>1, DecodePairIs
    <3> QED
      BY <1>3, <3>1, <3>2
  <2>3. Fresh(d.type.of[1]) \in Children(d) /\ Fresh(d.type.of[2]) \in Children(d)
    BY <1>6 DEF IsHolder, Children
  <2>4. Takes(src, k) /\ k.rx \in Errors /\ Onward(src, k.in) /\ k.in \in Inputs
    <3>1. Takes(src, k)
      BY <2>3 DEF PartsTake
    <3> QED
      BY <3>1 DEF Takes, Stays, Onward
  <2>5. CASE \E v : k.rx # "ok" /\ r = Result(k.in, k.rx, v, 0)
    BY <2>4, <2>5, TakesStill
  <2>6. ASSUME k.rx = "ok", NEW m \in decoders[Fresh(d.type.of[2])][k.in],
               \/ \E v : m.rx # "ok" /\ r = Result(m.in, m.rx, v, 0)
               \/ \E rx \in Errors : \E v : m.rx = "ok" /\ r = Result(m.in, rx, v, 0)
        PROVE  Takes(src, r)
    <3>1. Takes(k.in, m)
      BY <2>3, <2>4 DEF PartsTake
    <3>2. Takes(src, m) /\ m.rx \in Errors
      BY <2>4, <3>1, TakesAfter DEF Takes, Stays
    <3> QED
      BY <2>6, <3>2, TakesStill
  <2> QED
    BY <2>2, <2>5, <2>6
<1>7. CASE d.type.kind \in {"array", "tuple"}
  <2>1. r \in DecodeMember(src, d, dest, i, decoders)
    BY <1>7 DEF DecodeItem
  <2>2. \/ r = Result(src, "undefined", dest, 0)
        \/ \E s : \E v : Takes(src, s) /\ r = Result(s.in, s.rx, v, s.n)
    <3>1. d.type.n \in Nat
      BY <1>7 DEF IsHolder
    <3>2. MemberDecoded(src, d, dest, i, decoders, r)
      BY <1>7, <2>1, <3>1, DecodeMemberIs
    <3> QED
      BY Zenon, <3>2 DEF MemberDecoded
  <2>3. CASE r = Result(src, "undefined", dest, 0)
    BY <1>2, <1>3, <2>3, TakesOf
  <2>4. ASSUME NEW s, NEW v, Takes(src, s), r = Result(s.in, s.rx, v, s.n) PROVE Takes(src, r)
    <3>1. s.rx \in Errors
      BY <2>4 DEF Takes, Stays
    <3> QED
      BY <2>4, <3>1, TakesStill
  <2> QED
    BY <2>2, <2>3, <2>4
<1> QED
  BY <1>1, <1>4, <1>5, <1>6, <1>7

(* The loop of parse_array_like for n elements                             *)
IsItems(src, d, dest, n, decoders, f) ==
  f = [k \in 0 .. n |->
         IF k = 0 THEN Ok(src, dest)
         ELSE Then(f[k - 1], LAMBDA r : DecodeItem(r.in, d, r.value, k - 1, decoders))]

LEMMA ItemsDefined ==
  ASSUME NEW src, NEW d, NEW dest, NEW n \in Nat, NEW decoders
  PROVE  \E f : IsItems(src, d, dest, n, decoders, f)
<1> DEFINE first == Ok(src, dest)
           step(k, S) == Then(S, LAMBDA r : DecodeItem(r.in, d, r.value, k - 1, decoders))
           Loop(m, f) == f = [k \in 0 .. m |-> IF k = 0 THEN first ELSE step(k, f[k - 1])]
           T == {m \in Nat : \E f : Loop(m, f)}
<1>1. \A f : IsItems(src, d, dest, n, decoders, f) <=> Loop(n, f)
  BY Zenon DEF IsItems, Then
<1> HIDE DEF first, step
<1>2. 0 \in T
  <2> DEFINE f == [k \in 0 .. 0 |-> first]
  <2>1. Loop(0, f)
    OBVIOUS
  <2> QED
    BY <2>1
<1>3. ASSUME NEW m \in Nat, m \in T PROVE m + 1 \in T
  <2>1. PICK g : Loop(m, g)
    BY <1>3
  <2> DEFINE f == [k \in 0 .. m + 1 |-> IF k = m + 1 THEN step(m + 1, g[m]) ELSE g[k]]
  <2>2. ASSUME NEW k \in 0 .. m + 1 PROVE f[k] = IF k = 0 THEN first ELSE step(k, f[k - 1])
    <3>1. CASE k = 0
      BY <2>1, <3>1
    <3>2. CASE k # 0 /\ k # m + 1
      <4>1. k \in 0 .. m /\ k - 1 \in 0 .. m + 1 /\ k - 1 # m + 1 /\ k \in 0 .. m + 1
        BY <3>2
      <4>2. f[k] = g[k] /\ f[k - 1] = g[k - 1] /\ g[k] = step(k, g[k - 1])
        BY <2>1, <3>2, <4>1
      <4> HIDE DEF f
      <4> QED
        BY <3>2, <4>2
    <3>3. CASE k = m + 1
      <4>1. f[m + 1] = step(m + 1, g[m]) /\ f[m] = g[m] /\ k - 1 = m /\ k # 0
        BY <3>3
      <4> HIDE DEF f
      <4> QED
        BY <3>3, <4>1
    <3> QED
      BY <3>1, <3>2, <3>3
  <2>3. f = [k \in 0 .. m + 1 |-> f[k]]
    OBVIOUS
  <2> HIDE DEF f
  <2>4. Loop(m + 1, f)
    BY <2>2, <2>3
  <2> QED
    BY <2>4
<1> HIDE DEF T
<1>4. n \in T
  BY <1>2, <1>3, NumberInduction
<1> QED
  BY <1>1, <1>4 DEF T

(* Each result of an element comes from one before it, and each goes on.   *)
ItemsRun(src, d, dest, n, decoders, f) ==
  /\ \A q : q \in f[0] <=> q = Result(src, "ok", dest, 0)
  /\ \A k \in 1 .. n :
       /\ \A q \in f[k] : \E r \in f[k - 1] :
            \/ r.rx = "ok" /\ q \in DecodeItem(r.in, d, r.value, k - 1, decoders)
            \/ r.rx # "ok" /\ q = r
       /\ \A r \in f[k - 1] :
            IF r.rx = "ok" THEN DecodeItem(r.in, d, r.value, k - 1, decoders) \subseteq f[k] ELSE r \in f[k]

LEMMA ItemsIs ==
  ASSUME NEW src, NEW d, NEW dest, NEW n \in Nat, NEW decoders
  PROVE  \E f : /\ Items(src, d, dest, n, decoders) = {[r EXCEPT !.n = n] : r \in f[n]}
                /\ ItemsRun(src, d, dest, n, decoders, f)
<1> DEFINE P(f) == IsItems(src, d, dest, n, decoders, f)
           h == CHOOSE f : P(f)
<1>1. Items(src, d, dest, n, decoders) = {[r EXCEPT !.n = n] : r \in h[n]}
  BY Zenon DEF Items, IsItems, Then
<1>2. P(h)
  <2> HIDE DEF P
  <2>1. \E f : P(f)
    BY ItemsDefined DEF P
  <2> QED
    BY <2>1
<1> HIDE DEF h
<1>3. ASSUME NEW q PROVE q \in h[0] <=> q = Result(src, "ok", dest, 0)
  <2>1. 0 \in 0 .. n
    OBVIOUS
  <2>2. h[0] = Ok(src, dest)
    BY Zenon, <1>2, <2>1 DEF IsItems
  <2> QED
    BY Zenon, <2>2, OkIs
<1>4. ASSUME NEW k \in 1 .. n
      PROVE  /\ \A q \in h[k] : \E r \in h[k - 1] :
                  \/ r.rx = "ok" /\ q \in DecodeItem(r.in, d, r.value, k - 1, decoders)
                  \/ r.rx # "ok" /\ q = r
             /\ \A r \in h[k - 1] :
                  IF r.rx = "ok" THEN DecodeItem(r.in, d, r.value, k - 1, decoders) \subseteq h[k]
                  ELSE r \in h[k]
  <2> DEFINE item(r) == DecodeItem(r.in, d, r.value, k - 1, decoders)
  <2>1. k \in 0 .. n /\ k # 0
    OBVIOUS
  <2>2. h[k] = UNION {IF r.rx = "ok" THEN item(r) ELSE {r} : r \in h[k - 1]}
    BY Zenon, <1>2, <2>1 DEF IsItems, Then
  <2> HIDE DEF item
  <2>3. /\ \A q \in h[k] : \E r \in h[k - 1] : \/ r.rx = "ok" /\ q \in item(r)
                                               \/ r.rx # "ok" /\ q = r
        /\ \A r \in h[k - 1] : IF r.rx = "ok" THEN item(r) \subseteq h[k] ELSE r \in h[k]
    BY <2>2
  <2> QED
    BY Zenon, <2>3 DEF item
<1>5. ItemsRun(src, d, dest, n, decoders, h)
  BY Zenon, <1>3, <1>4 DEF ItemsRun
<1> QED
  BY Zenon, <1>1, <1>5

LEMMA ItemsRounds ==
  ASSUME NEW src \in Inputs, NEW d, IsHolder(d), NEW dest, NEW n \in Nat, NEW decoders,
         PartsTake(d, decoders), NEW f, ItemsRun(src, d, dest, n, decoders, f)
  PROVE  \A k \in Nat : k <= n => \A q \in f[k] : Stays(src, q)
<1> DEFINE T == {k \in Nat : k <= n => \A q \in f[k] : Stays(src, q)}
<1>2. 0 \in T
  <2> SUFFICES ASSUME NEW q \in f[0] PROVE Stays(src, q)
    OBVIOUS
  <2>1. q = Result(src, "ok", dest, 0)
    BY DEF ItemsRun
  <2>2. Onward(src, src)
    BY OnwardItself
  <2> QED
    BY <2>1, <2>2, StaysOf, AllErrors
<1>3. ASSUME NEW k \in Nat, k \in T PROVE k + 1 \in T
  <2> SUFFICES ASSUME k + 1 <= n, NEW q \in f[k + 1] PROVE Stays(src, q)
    OBVIOUS
  <2>1. k + 1 \in 1 .. n /\ (k + 1) - 1 = k /\ k <= n
    OBVIOUS
  <2>2. PICK s \in f[k] : \/ s.rx = "ok" /\ q \in DecodeItem(s.in, d, s.value, k, decoders)
                          \/ s.rx # "ok" /\ q = s
    BY <2>1 DEF ItemsRun
  <2>3. Stays(src, s) /\ Onward(src, s.in) /\ s.in \in Inputs
    BY <1>3, <2>1 DEF Stays, Onward
  <2>4. CASE s.rx = "ok" /\ q \in DecodeItem(s.in, d, s.value, k, decoders)
    <3>1. Takes(s.in, q)
      BY <2>3, <2>4, DecodeItemTakes
    <3> QED
      BY <2>3, <3>1, StaysAfter DEF Takes
  <2>5. CASE s.rx # "ok" /\ q = s
    BY <2>3, <2>5
  <2> QED
    BY <2>2, <2>4, <2>5
<1> HIDE DEF T
<1>4. \A k \in Nat : k \in T
  BY <1>2, <1>3, NumberInduction
<1> QED
  BY <1>4 DEF T

LEMMA ItemsStay ==
  ASSUME NEW src \in Inputs, NEW d, IsHolder(d), NEW dest, NEW n \in Nat, NEW decoders,
         PartsTake(d, decoders), NEW r \in Items(src, d, dest, n, decoders)
  PROVE  Stays(src, r)
<1>1. PICK f : /\ Items(src, d, dest, n, decoders) = {[q EXCEPT !.n = n] : q \in f[n]}
               /\ ItemsRun(src, d, dest, n, decoders, f)
  BY ItemsIs
<1>5. PICK q \in f[n] : r = [q EXCEPT !.n = n]
  BY Zenon, <1>1
<1>6. Stays(src, q)
  <2>1. \A k \in Nat : k <= n => \A p \in f[k] : Stays(src, p)
    BY <1>1, ItemsRounds
  <2> QED
    BY <1>5, <2>1
<1>7. r = Result(q.in, q.rx, q.value, n)
  <2>1. IsResult(q)
    BY <1>6 DEF Stays
  <2> QED
    BY Zenon, <1>5, <2>1, ResultExcept
<1> QED
  BY <1>6, <1>7, StaysOf DEF Stays

(* The outcomes of a round of parse_indefinite_array_like                  *)
ItemRoundFrom(r, d, max, decoders, s, q) ==
  \/ s.rx # "ok" /\ q = Result(s.in, s.rx, r.value, 0)
  \/ /\ s.rx = "ok" /\ s.in.bytes[s.in.at + 1] = Break
     /\ q = Result(DiscardBuffered(s.in, 1), "ok", r.value, r.n)
  \/ s.rx = "ok" /\ r.n > max /\ q = Result(s.in, "item_value_out_of_range", r.value, 0)
  \/ /\ s.rx = "ok" /\ s.in.bytes[s.in.at + 1] # Break
     /\ \E e \in DecodeItem(s.in, d, r.value, r.n, decoders) :
          \/ e.rx # "ok" /\ q = e
          \/ e.rx = "ok" /\ q = Result(e.in, "more", e.value, r.n + 1)

LEMMA NextItemIs ==
  ASSUME NEW r, NEW d, NEW max, NEW decoders, NEW q \in NextItem(r, d, max, decoders)
  PROVE  \E s \in RequireInput(r.in, 1) : ItemRoundFrom(r, d, max, decoders, s, q)
<1> DEFINE item(s) == UNION {IF e.rx = "ok" THEN {Result(e.in, "more", e.value, r.n + 1)} ELSE {e}
                               : e \in DecodeItem(s.in, d, r.value, r.n, decoders)}
<1>1. PICK s \in RequireInput(r.in, 1) :
        q \in IF s.rx = "ok"
              THEN IF s.in.bytes[s.in.at + 1] = Break
                   THEN {Result(DiscardBuffered(s.in, 1), "ok", r.value, r.n)}
                   ELSE IF r.n > max THEN Fail(s.in, "item_value_out_of_range", r.value)
                   ELSE item(s)
              ELSE Fail(s.in, s.rx, r.value)
  BY Zenon DEF NextItem, Try, Then
<1>2. ASSUME q \in item(s)
      PROVE  \E e \in DecodeItem(s.in, d, r.value, r.n, decoders) :
               \/ e.rx # "ok" /\ q = e
               \/ e.rx = "ok" /\ q = Result(e.in, "more", e.value, r.n + 1)
  BY <1>2
<1> HIDE DEF item
<1>3. \/ s.rx # "ok" /\ q = Result(s.in, s.rx, r.value, 0)
      \/ /\ s.rx = "ok" /\ s.in.bytes[s.in.at + 1] = Break
         /\ q = Result(DiscardBuffered(s.in, 1), "ok", r.value, r.n)
      \/ s.rx = "ok" /\ r.n > max /\ q = Result(s.in, "item_value_out_of_range", r.value, 0)
      \/ s.rx = "ok" /\ s.in.bytes[s.in.at + 1] # Break /\ q \in item(s)
  BY <1>1, FailIs
<1> QED
  BY <1>2, <1>3 DEF ItemRoundFrom

(* After k elements at least k bytes are taken.                            *)
ItemRound(src, k, r) ==
  /\ IsResult(r) /\ Onward(src, r.in) /\ r.rx \in Errors \union {"more"}
  /\ r.rx = "more" => r.n \in Nat /\ src.at + k <= r.in.at

LEMMA NextItemRound ==
  ASSUME NEW src \in Inputs, NEW k \in Nat, NEW r, ItemRound(src, k, r), r.rx = "more",
         NEW d, IsHolder(d), NEW max, NEW decoders, PartsTake(d, decoders),
         NEW q \in NextItem(r, d, max, decoders)
  PROVE  ItemRound(src, k + 1, q)
<1>1. Onward(src, r.in) /\ r.n \in Nat /\ src.at + k <= r.in.at /\ r.in \in Inputs
  BY DEF ItemRound, Onward
<1>2. PICK s \in RequireInput(r.in, 1) : ItemRoundFrom(r, d, max, decoders, s, q)
  BY NextItemIs
<1>3. /\ Stays(r.in, s) /\ s.in.at = r.in.at /\ s.in \in Inputs /\ s.rx \in Errors
      /\ s.rx = "ok" => 1 <= s.in.window
  <2>1. 1 \in Nat
    OBVIOUS
  <2>2. Stays(r.in, s)
    BY <1>1, <2>1, RequireStays
  <2>3. s.in.at = r.in.at /\ (s.rx = "ok" => 1 <= s.in.window)
    BY <1>1, <2>1, RequireOutcome
  <2> QED
    BY <2>2, <2>3 DEF Stays, Onward
<1>4. Onward(src, s.in)
  BY <1>1, <1>3, OnwardTwice DEF Stays
<1>5. ASSUME NEW p, Onward(src, p), NEW rx \in Errors, NEW v, NEW n
      PROVE  ItemRound(src, k + 1, Result(p, rx, v, n))
  <2>1. rx # "more"
    BY AllErrors
  <2> QED
    BY <1>5, <2>1, ResultFields DEF ItemRound
<1>6. CASE s.rx # "ok" /\ q = Result(s.in, s.rx, r.value, 0)
  BY <1>3, <1>4, <1>5, <1>6
<1>7. CASE /\ s.rx = "ok" /\ s.in.bytes[s.in.at + 1] = Break
           /\ q = Result(DiscardBuffered(s.in, 1), "ok", r.value, r.n)
  <2>1. Onward(s.in, DiscardBuffered(s.in, 1))
    BY <1>3, <1>7, DiscardIs
  <2>2. Onward(src, DiscardBuffered(s.in, 1))
    BY <1>4, <2>1, OnwardTwice
  <2> QED
    BY <1>5, <1>7, <2>2, AllErrors
<1>8. CASE s.rx = "ok" /\ r.n > max /\ q = Result(s.in, "item_value_out_of_range", r.value, 0)
  BY <1>4, <1>5, <1>8, AllErrors
<1>9. ASSUME NEW e \in DecodeItem(s.in, d, r.value, r.n, decoders),
             \/ e.rx # "ok" /\ q = e
             \/ e.rx = "ok" /\ q = Result(e.in, "more", e.value, r.n + 1)
      PROVE  ItemRound(src, k + 1, q)
  <2>1. Takes(s.in, e)
    BY <1>1, <1>3, DecodeItemTakes
  <2>2. Onward(src, e.in) /\ IsResult(e) /\ e.rx \in Errors /\ e.in \in Inputs
    <3>1. Onward(s.in, e.in) /\ IsResult(e) /\ e.rx \in Errors
      BY <2>1 DEF Takes, Stays
    <3>2. Onward(src, e.in)
      BY <1>4, <3>1, OnwardTwice
    <3> QED
      BY <3>1, <3>2 DEF Onward
  <2>3. CASE e.rx # "ok" /\ q = e
    BY <1>5, <2>2, <2>3 DEF IsResult
  <2>4. CASE e.rx = "ok" /\ q = Result(e.in, "more", e.value, r.n + 1)
    <3>1. e.in.at > r.in.at
      BY <1>3, <2>1, <2>4 DEF Takes
    <3>2. src.at \in Nat /\ r.in.at \in Nat /\ e.in.at \in Nat
      BY <1>1, <2>2, InputIs
    <3>3. src.at + (k + 1) <= e.in.at /\ r.n + 1 \in Nat
      BY <1>1, <3>1, <3>2
    <3> QED
      BY <2>2, <2>4, <3>3, ResultFields DEF ItemRound
  <2> QED
    BY <1>9, <2>3, <2>4
<1> QED
  BY <1>2, <1>6, <1>7, <1>8, <1>9 DEF ItemRoundFrom

(* The loop of parse_indefinite_array_like for n rounds                    *)
IsIndefinite(src, d, dest, max, decoders, n, f) ==
  f = [k \in 0 .. n |->
         IF k = 0 THEN {Result(src, "more", dest, 0)}
         ELSE UNION {IF r.rx = "more" THEN NextItem(r, d, max, decoders) ELSE {r} : r \in f[k - 1]}]

LEMMA IndefiniteDefined ==
  ASSUME NEW src, NEW d, NEW dest, NEW max, NEW decoders, NEW n \in Nat
  PROVE  \E f : IsIndefinite(src, d, dest, max, decoders, n, f)
<1> DEFINE first == {Result(src, "more", dest, 0)}
           step(S) == UNION {IF r.rx = "more" THEN NextItem(r, d, max, decoders) ELSE {r} : r \in S}
           Loop(m, f) == f = [k \in 0 .. m |-> IF k = 0 THEN first ELSE step(f[k - 1])]
           T == {m \in Nat : \E f : Loop(m, f)}
<1>1. \A f : IsIndefinite(src, d, dest, max, decoders, n, f) <=> Loop(n, f)
  BY Zenon DEF IsIndefinite
<1> HIDE DEF first, step
<1>2. 0 \in T
  <2> DEFINE f == [k \in 0 .. 0 |-> first]
  <2>1. Loop(0, f)
    OBVIOUS
  <2> QED
    BY <2>1
<1>3. ASSUME NEW m \in Nat, m \in T PROVE m + 1 \in T
  <2>1. PICK g : Loop(m, g)
    BY <1>3
  <2> DEFINE f == [k \in 0 .. m + 1 |-> IF k = m + 1 THEN step(g[m]) ELSE g[k]]
  <2>2. ASSUME NEW k \in 0 .. m + 1 PROVE f[k] = IF k = 0 THEN first ELSE step(f[k - 1])
    <3>1. CASE k = 0
      BY <2>1, <3>1
    <3>2. CASE k # 0 /\ k # m + 1
      <4>1. k \in 0 .. m /\ k - 1 \in 0 .. m + 1 /\ k - 1 # m + 1 /\ k \in 0 .. m + 1
        BY <3>2
      <4>2. f[k] = g[k] /\ f[k - 1] = g[k - 1] /\ g[k] = step(g[k - 1])
        BY <2>1, <3>2, <4>1
      <4> HIDE DEF f
      <4> QED
        BY <3>2, <4>2
    <3>3. CASE k = m + 1
      <4>1. f[m + 1] = step(g[m]) /\ f[m] = g[m] /\ k - 1 = m /\ k # 0
        BY <3>3
      <4> HIDE DEF f
      <4> QED
        BY <3>3, <4>1
    <3> QED
      BY <3>1, <3>2, <3>3
  <2>3. f = [k \in 0 .. m + 1 |-> f[k]]
    OBVIOUS
  <2> HIDE DEF f
  <2>4. Loop(m + 1, f)
    BY <2>2, <2>3
  <2> QED
    BY <2>4
<1> HIDE DEF T
<1>4. n \in T
  BY <1>2, <1>3, NumberInduction
<1> QED
  BY <1>1, <1>4 DEF T

IndefiniteRun(src, d, dest, max, decoders, n, f) ==
  /\ f[0] = {Result(src, "more", dest, 0)}
  /\ \A k \in 1 .. n :
       /\ \A q \in f[k] : \E r \in f[k - 1] : \/ r.rx = "more" /\ q \in NextItem(r, d, max, decoders)
                                              \/ r.rx # "more" /\ q = r
       /\ \A r \in f[k - 1] :
            IF r.rx = "more" THEN NextItem(r, d, max, decoders) \subseteq f[k] ELSE r \in f[k]

LEMMA IndefiniteIs ==
  ASSUME NEW src \in Inputs, NEW d, NEW dest, NEW max, NEW decoders
  PROVE  \E f : /\ IndefiniteItems(src, d, dest, max, decoders) = f[Rounds(src)]
                /\ IndefiniteRun(src, d, dest, max, decoders, Rounds(src), f)
<1> DEFINE n == Rounds(src)
           P(f) == IsIndefinite(src, d, dest, max, decoders, n, f)
           h == CHOOSE f : P(f)
<1>1. n \in Nat
  BY InputIs DEF Rounds
<1>2. IndefiniteItems(src, d, dest, max, decoders) = h[n]
  BY Zenon DEF IndefiniteItems, IsIndefinite
<1> HIDE DEF n
<1>3. P(h)
  <2> HIDE DEF P
  <2>1. \E f : P(f)
    BY <1>1, IndefiniteDefined DEF P
  <2> QED
    BY <2>1
<1> HIDE DEF h
<1>4. h[0] = {Result(src, "more", dest, 0)}
  BY <1>1, <1>3 DEF IsIndefinite
<1>5. ASSUME NEW k \in 1 .. n
      PROVE  /\ \A q \in h[k] : \E r \in h[k - 1] : \/ r.rx = "more" /\ q \in NextItem(r, d, max, decoders)
                                                    \/ r.rx # "more" /\ q = r
             /\ \A r \in h[k - 1] :
                  IF r.rx = "more" THEN NextItem(r, d, max, decoders) \subseteq h[k] ELSE r \in h[k]
  <2>1. k \in 0 .. n /\ k # 0
    BY <1>1
  <2>2. h[k] = UNION {IF r.rx = "more" THEN NextItem(r, d, max, decoders) ELSE {r} : r \in h[k - 1]}
    BY <1>3, <2>1 DEF IsIndefinite
  <2> QED
    BY <2>2
<1> QED
  BY <1>2, <1>4, <1>5 DEF n, IndefiniteRun

LEMMA IndefiniteRounds ==
  ASSUME NEW src \in Inputs, NEW d, IsHolder(d), NEW dest, NEW max, NEW decoders,
         PartsTake(d, decoders), NEW f, IndefiniteRun(src, d, dest, max, decoders, Rounds(src), f)
  PROVE  \A k \in Nat : k <= Rounds(src) => \A q \in f[k] : ItemRound(src, k, q)
<1>2. Rounds(src) \in Nat /\ src.at \in Nat
  BY InputIs DEF Rounds
<1> DEFINE T == {k \in Nat : k <= Rounds(src) => \A q \in f[k] : ItemRound(src, k, q)}
<1>3. 0 \in T
  <2> SUFFICES ASSUME NEW q \in f[0] PROVE ItemRound(src, 0, q)
    OBVIOUS
  <2>1. q = Result(src, "more", dest, 0)
    BY DEF IndefiniteRun
  <2>2. IsResult(q) /\ q.in = src /\ q.rx = "more" /\ q.n = 0
    BY <2>1, ResultFields
  <2>3. Onward(src, src)
    BY OnwardItself
  <2> QED
    BY <1>2, <2>2, <2>3 DEF ItemRound
<1>4. ASSUME NEW k \in Nat, k \in T PROVE k + 1 \in T
  <2> SUFFICES ASSUME k + 1 <= Rounds(src), NEW q \in f[k + 1] PROVE ItemRound(src, k + 1, q)
    OBVIOUS
  <2>1. k + 1 \in 1 .. Rounds(src) /\ (k + 1) - 1 = k /\ k <= Rounds(src)
    BY <1>2
  <2>2. PICK s \in f[k] : \/ s.rx = "more" /\ q \in NextItem(s, d, max, decoders)
                          \/ s.rx # "more" /\ q = s
    BY <2>1 DEF IndefiniteRun
  <2>3. ItemRound(src, k, s)
    BY <1>4, <2>1, <2>2
  <2>4. CASE s.rx = "more" /\ q \in NextItem(s, d, max, decoders)
    BY <2>3, <2>4, NextItemRound
  <2>5. CASE s.rx # "more" /\ q = s
    BY <2>3, <2>5 DEF ItemRound
  <2> QED
    BY <2>2, <2>4, <2>5
<1> HIDE DEF T
<1>5. \A k \in Nat : k \in T
  BY <1>3, <1>4, NumberInduction
<1> QED
  BY <1>5 DEF T

LEMMA IndefiniteStays ==
  ASSUME NEW src \in Inputs, NEW d, IsHolder(d), NEW dest, NEW max, NEW decoders,
         PartsTake(d, decoders), NEW r \in IndefiniteItems(src, d, dest, max, decoders)
  PROVE  Stays(src, r)
<1>1. PICK f : /\ IndefiniteItems(src, d, dest, max, decoders) = f[Rounds(src)]
               /\ IndefiniteRun(src, d, dest, max, decoders, Rounds(src), f)
  BY IndefiniteIs
<1>2. /\ Rounds(src) = Len(src.bytes) - src.at + 1 /\ Rounds(src) \in Nat
      /\ src.at \in Nat /\ Len(src.bytes) \in Nat
  BY InputIs DEF Rounds
<1>6. ItemRound(src, Rounds(src), r)
  <2>1. \A k \in Nat : k <= Rounds(src) => \A p \in f[k] : ItemRound(src, k, p)
    BY <1>1, IndefiniteRounds
  <2> QED
    BY <1>1, <1>2, <2>1
<1>7. r.rx # "more"
  <2> SUFFICES ASSUME r.rx = "more" PROVE FALSE
    OBVIOUS
  <2>1. src.at + Rounds(src) <= r.in.at /\ r.in \in Inputs /\ r.in.bytes = src.bytes
    BY <1>6 DEF ItemRound, Onward
  <2>2. r.in.at \in Nat /\ r.in.at <= Len(src.bytes)
    <3>1. r.in.at \in Nat /\ r.in.window \in Nat /\ r.in.at + r.in.window <= Len(r.in.bytes)
      BY <2>1, InputIs
    <3> QED
      BY <1>2, <2>1, <3>1
  <2>3. src.at + Rounds(src) = Len(src.bytes) + 1
    BY <1>2
  <2>4. Len(src.bytes) + 1 <= r.in.at
    BY Zenon, <2>1, <2>3
  <2> QED
    BY <1>2, <2>2, <2>4
<1> QED
  BY <1>6, <1>7 DEF ItemRound, Stays

LEMMA ReserveIs ==
  ASSUME NEW src, NEW t, NEW dest, NEW n, NEW r \in Reserve(src, t, dest, n)
  PROVE  \/ t.kind = "array" /\ r = Result(src, "ok", dest, 0)
         \/ t.kind # "array" /\ r = Result(Ask(src, n), "ok", dest, 0)
         \/ t.kind # "array" /\ n > 0 /\ r = Result(Ask(src, n), "not_enough_memory", dest, 0)
<1>1. \/ t.kind = "array" /\ r \in Ok(src, dest)
      \/ t.kind # "array" /\ r \in Ok(Ask(src, n), dest)
      \/ t.kind # "array" /\ n > 0 /\ r \in Fail(Ask(src, n), "not_enough_memory", dest)
  BY Zenon DEF Reserve
<1> QED
  BY <1>1, OkIs, FailIs

(* The outcomes of parse_array_like                                        *)
ContainerType(d) == IF d.type.kind = "map" THEN "map" ELSE "array"

PerItem(d) == IF d.type.kind = "map" THEN 2 ELSE 1

ArrayParsed(d, dest, max, decoders, s, r) ==
  LET h == s.value IN
  \/ s.rx # "ok" /\ r = Result(s.in, s.rx, dest, 0)
  \/ s.rx = "ok" /\ h.type # ContainerType(d) /\ r = Result(s.in, "item_type_mismatch", dest, 0)
  \/ s.rx = "ok" /\ h.ind /\ r \in IndefiniteItems(s.in, d, dest, max, decoders)
  \/ /\ s.rx = "ok" /\ ~h.ind /\ InputSize(s.in) \div PerItem(d) < h.value
     /\ r = Result(s.in, "missing_data", dest, 0)
  \/ s.rx = "ok" /\ ~h.ind /\ h.value > max /\ r = Result(s.in, "item_value_out_of_range", dest, 0)
  \/ /\ s.rx = "ok" /\ ~h.ind /\ ~(InputSize(s.in) \div PerItem(d) < h.value)
     /\ \E u \in Reserve(s.in, d.type, dest, h.value) :
          \/ u.rx # "ok" /\ r = u
          \/ u.rx = "ok" /\ r \in Items(u.in, d, u.value, h.value, decoders)

LEMMA ParseArrayLikeIs ==
  ASSUME NEW src, NEW d, NEW dest, NEW max, NEW decoders,
         NEW r \in ParseArrayLike(src, d, dest, max, decoders)
  PROVE  \E s \in ParseHead(src) : ArrayParsed(d, dest, max, decoders, s, r)
<1> DEFINE items(s) == UNION {IF u.rx = "ok" THEN Items(u.in, d, u.value, s.value.value, decoders) ELSE {u}
                                : u \in Reserve(s.in, d.type, dest, s.value.value)}
           short(s) == InputSize(s.in) \div PerItem(d) < s.value.value
<1>1. PICK s \in ParseHead(src) :
        r \in IF s.rx = "ok"
              THEN IF s.value.type # ContainerType(d) THEN Fail(s.in, "item_type_mismatch", dest)
                   ELSE IF s.value.ind THEN IndefiniteItems(s.in, d, dest, max, decoders)
                   ELSE IF short(s) THEN Fail(s.in, "missing_data", dest)
                   ELSE IF s.value.value > max THEN Fail(s.in, "item_value_out_of_range", dest)
                   ELSE items(s)
              ELSE Fail(s.in, s.rx, dest)
  BY Zenon DEF ParseArrayLike, Try, Then, ContainerType, PerItem
<1>2. ASSUME r \in items(s)
      PROVE  \E u \in Reserve(s.in, d.type, dest, s.value.value) :
               \/ u.rx # "ok" /\ r = u
               \/ u.rx = "ok" /\ r \in Items(u.in, d, u.value, s.value.value, decoders)
  BY <1>2
<1> HIDE DEF items, short
<1>3. \/ s.rx # "ok" /\ r = Result(s.in, s.rx, dest, 0)
      \/ s.rx = "ok" /\ s.value.type # ContainerType(d) /\ r = Result(s.in, "item_type_mismatch", dest, 0)
      \/ s.rx = "ok" /\ s.value.ind /\ r \in IndefiniteItems(s.in, d, dest, max, decoders)
      \/ s.rx = "ok" /\ ~s.value.ind /\ short(s) /\ r = Result(s.in, "missing_data", dest, 0)
      \/ /\ s.rx = "ok" /\ ~s.value.ind /\ s.value.value > max
         /\ r = Result(s.in, "item_value_out_of_range", dest, 0)
      \/ s.rx = "ok" /\ ~s.value.ind /\ ~short(s) /\ r \in items(s)
  BY <1>1, FailIs
<1> QED
  BY Zenon, <1>2, <1>3 DEF ArrayParsed, short

LEMMA ReserveStays ==
  ASSUME NEW src \in Inputs, NEW t, NEW dest, NEW n \in Nat, n = 0 \/ n < Len(src.bytes),
         NEW r \in Reserve(src, t, dest, n)
  PROVE  Stays(src, r)
<1>1. Onward(src, src) /\ Onward(src, Ask(src, n))
  BY OnwardItself, AskIs
<1>2. \/ r = Result(src, "ok", dest, 0)
      \/ r = Result(Ask(src, n), "ok", dest, 0)
      \/ r = Result(Ask(src, n), "not_enough_memory", dest, 0)
  BY ReserveIs
<1> QED
  BY <1>1, <1>2, StaysOf, AllErrors

(* A length the input can back is less than the input's.                   *)
LEMMA LengthBacked ==
  ASSUME NEW src \in Inputs, NEW s, Takes(src, s), s.rx = "ok", NEW d, NEW n \in Nat,
         ~(InputSize(s.in) \div PerItem(d) < n)
  PROVE  n < Len(s.in.bytes)
<1> DEFINE size == InputSize(s.in)
           q == size \div PerItem(d)
<1>1. s.in \in Inputs /\ src.at < s.in.at
  BY DEF Takes, Stays, Onward
<1>2. /\ src.at \in Nat /\ s.in.at \in Nat /\ size \in Nat /\ size = Len(s.in.bytes) - s.in.at
      /\ Len(s.in.bytes) \in Nat
  BY <1>1, InputIs
<1>3. ~(q < n)
  OBVIOUS
<1> HIDE DEF size
<1>4. q \in Nat /\ q <= size
  <2>1. PerItem(d) \in {1, 2}
    BY DEF PerItem
  <2>2. \A a \in Nat : a \div 1 <= a /\ a \div 2 <= a /\ a \div 1 \in Nat /\ a \div 2 \in Nat
    OBVIOUS
  <2> QED
    BY <1>2, <2>1, <2>2
<1> DEFINE total == Len(s.in.bytes)
           from == s.in.at
<1> HIDE DEF q, total, from
<1>5. from \in Nat /\ total \in Nat /\ size = total - from /\ 0 < from
  BY <1>1, <1>2 DEF total, from
<1>6. n < total
  BY <1>3, <1>4, <1>5
<1> QED
  BY <1>6 DEF total

LEMMA ParseArrayLikeTakes ==
  ASSUME NEW src \in Inputs, NEW d, IsHolder(d), NEW dest, NEW max, NEW decoders,
         PartsTake(d, decoders), NEW r \in ParseArrayLike(src, d, dest, max, decoders)
  PROVE  Takes(src, r)
<1>1. PICK s \in ParseHead(src) : ArrayParsed(d, dest, max, decoders, s, r)
  BY ParseArrayLikeIs
<1>2. /\ Takes(src, s) /\ Onward(src, s.in) /\ s.in \in Inputs /\ s.rx \in Errors
      /\ s.rx = "ok" => s.value.value \in Nat /\ src.at < s.in.at
  <2>1. Takes(src, s) /\ (s.rx = "ok" => s.value.value \in Nat)
    BY <1>1, ParseHeadTakes
  <2> QED
    BY <2>1 DEF Takes, Stays, Onward
<1>3. ASSUME NEW rx \in Errors, rx # "ok", NEW v, r = Result(s.in, rx, v, 0) PROVE Takes(src, r)
  BY <1>2, <1>3, TakesOf
<1>4. /\ "item_type_mismatch" \in Errors /\ "missing_data" \in Errors
      /\ "item_value_out_of_range" \in Errors
  BY AllErrors
<1>5. CASE s.rx = "ok" /\ r \in IndefiniteItems(s.in, d, dest, max, decoders)
  <2>1. Stays(s.in, r)
    BY <1>2, <1>5, IndefiniteStays
  <2> QED
    BY <1>2, <1>5, <2>1, TakesFirst
<1>6. ASSUME s.rx = "ok", ~(InputSize(s.in) \div PerItem(d) < s.value.value),
             NEW u \in Reserve(s.in, d.type, dest, s.value.value),
             \/ u.rx # "ok" /\ r = u
             \/ u.rx = "ok" /\ r \in Items(u.in, d, u.value, s.value.value, decoders)
      PROVE  Takes(src, r)
  <2> DEFINE n == s.value.value
  <2>1. n \in Nat /\ s.in.at > 0 /\ src.at < s.in.at
    <3>1. src.at \in Nat /\ s.in.at \in Nat
      BY <1>2, InputIs
    <3> QED
      BY <1>2, <1>6, <3>1
  <2>2. n < Len(s.in.bytes)
    BY <1>2, <1>6, <2>1, LengthBacked
  <2> HIDE DEF n
  <2>3. Stays(s.in, u)
    <3>1. u \in Reserve(s.in, d.type, dest, n)
      BY DEF n
    <3> QED
      BY <1>2, <2>1, <2>2, <3>1, ReserveStays
  <2>4. CASE u.rx # "ok" /\ r = u
    BY <1>2, <2>1, <2>3, <2>4, TakesFirst
  <2>5. CASE u.rx = "ok" /\ r \in Items(u.in, d, u.value, n, decoders)
    <3>1. u.in \in Inputs /\ Onward(s.in, u.in)
      BY <2>3 DEF Stays, Onward
    <3>2. Stays(u.in, r)
      BY <2>1, <2>5, <3>1, ItemsStay
    <3>3. Stays(s.in, r)
      BY <1>2, <3>1, <3>2, StaysAfter
    <3> QED
      BY <1>2, <2>1, <3>3, TakesFirst
  <2> QED
    BY <1>6, <2>4, <2>5 DEF n
<1>7. \/ s.rx # "ok" /\ r = Result(s.in, s.rx, dest, 0)
      \/ \E rx \in {"item_type_mismatch", "missing_data", "item_value_out_of_range"} :
           r = Result(s.in, rx, dest, 0)
      \/ s.rx = "ok" /\ r \in IndefiniteItems(s.in, d, dest, max, decoders)
      \/ /\ s.rx = "ok" /\ ~(InputSize(s.in) \div PerItem(d) < s.value.value)
         /\ \E u \in Reserve(s.in, d.type, dest, s.value.value) :
              \/ u.rx # "ok" /\ r = u
              \/ u.rx = "ok" /\ r \in Items(u.in, d, u.value, s.value.value, decoders)
  <2> DEFINE short == InputSize(s.in) \div PerItem(d) < s.value.value
  <2> HIDE DEF short
  <2>1. ArrayParsed(d, dest, max, decoders, s, r) =>
          \/ s.rx # "ok" /\ r = Result(s.in, s.rx, dest, 0)
          \/ r = Result(s.in, "item_type_mismatch", dest, 0)
          \/ s.rx = "ok" /\ r \in IndefiniteItems(s.in, d, dest, max, decoders)
          \/ r = Result(s.in, "missing_data", dest, 0)
          \/ r = Result(s.in, "item_value_out_of_range", dest, 0)
          \/ /\ s.rx = "ok" /\ ~short
             /\ \E u \in Reserve(s.in, d.type, dest, s.value.value) :
                  \/ u.rx # "ok" /\ r = u
                  \/ u.rx = "ok" /\ r \in Items(u.in, d, u.value, s.value.value, decoders)
    BY Zenon DEF ArrayParsed, short
  <2> QED
    BY Zenon, <1>1, <2>1 DEF short
<1> QED
  BY <1>2, <1>3, <1>4, <1>5, <1>6, <1>7

(* fixed_size_container_codec and decode_varargs                           *)
LEMMA DecodeArrayIs ==
  ASSUME NEW src, NEW d, NEW decoders, NEW r \in DecodeArray(src, d, decoders)
  PROVE  \E s \in ParseArrayLike(src, d, d.value, d.type.n, decoders) :
           \/ r = s /\ (s.rx = "ok" => s.n = d.type.n)
           \/ s.rx = "ok" /\ s.n # d.type.n /\ r = Result(s.in, "tuple_size_mismatch", s.value, 0)
<1>1. PICK s \in ParseArrayLike(src, d, d.value, d.type.n, decoders) :
        r \in IF s.rx = "ok"
              THEN IF s.n = d.type.n THEN {s} ELSE Fail(s.in, "tuple_size_mismatch", s.value)
              ELSE {s}
  BY Zenon DEF DecodeArray, Then
<1>2. \/ r = s /\ (s.rx = "ok" => s.n = d.type.n)
      \/ s.rx = "ok" /\ s.n # d.type.n /\ r = Result(s.in, "tuple_size_mismatch", s.value, 0)
  BY <1>1, FailIs
<1> QED
  BY Zenon, <1>2

LEMMA DecodeTupleIs ==
  ASSUME NEW src, NEW d, NEW decoders, NEW r \in DecodeTuple(src, d, decoders)
  PROVE  \E s \in ExpectHead(src, "array", d.type.n) :
           \/ s.rx # "ok" /\ r = Result(s.in, s.rx, d.value, 0)
           \/ s.rx = "ok" /\ r \in Items(s.in, d, d.value, d.type.n, decoders)
<1>1. PICK s \in ExpectHead(src, "array", d.type.n) :
        r \in IF s.rx = "ok" THEN Items(s.in, d, d.value, d.type.n, decoders)
              ELSE Fail(s.in, s.rx, d.value)
  BY Zenon DEF DecodeTuple, Try
<1>2. \/ s.rx # "ok" /\ r = Result(s.in, s.rx, d.value, 0)
      \/ s.rx = "ok" /\ r \in Items(s.in, d, d.value, d.type.n, decoders)
  BY <1>1, FailIs
<1> QED
  BY Zenon, <1>2

(* codec<T>::decode by the kind of the type                                *)
LEMMA DecodeByKind ==
  ASSUME NEW src, NEW d, NEW g
  PROVE  LET t == d.type IN
         /\ t.kind \in IntegerKinds => DecodeWith(src, d, g) = ParseInteger(src, t, d.value)
         /\ t.kind = "bool" => DecodeWith(src, d, g) = ParseBoolean(src, d.value)
         /\ t.kind = "float" => DecodeWith(src, d, g) = ParseFloat(src, t, d.value)
         /\ t.kind = "blob" => DecodeWith(src, d, g) = DecodeBlob(src, t, d.value)
         /\ t.kind = "fixedblob" => DecodeWith(src, d, g) = DecodeFixedBlob(src, t, d.value)
         /\ t.kind = "uuid" => DecodeWith(src, d, g) = DecodeUuid(src, t, d.value)
         /\ t.kind = "text" => DecodeWith(src, d, g) = ParseBlob(src, t, d.value)
         /\ t.kind = "path" => DecodeWith(src, d, g) = DecodePath(src, t, d.value)
         /\ t.kind = "fixedtext" => DecodeWith(src, d, g) = DecodeFixedText(src, t, d.value)
         /\ t.kind = "set" => DecodeWith(src, d, g) = ParseArrayLike(src, d, {}, Huge, g)
         /\ t.kind \in {"vector", "map"} => DecodeWith(src, d, g) = ParseArrayLike(src, d, <<>>, Huge, g)
         /\ t.kind = "array" => DecodeWith(src, d, g) = DecodeArray(src, d, g)
         /\ t.kind = "tuple" => DecodeWith(src, d, g) = DecodeTuple(src, d, g)
<1> DEFINE empty == <<>>
           none == {}
<1> HIDE DEF empty, none
<1>1. DecodeWith(src, d, g) =
        CASE d.type.kind \in IntegerKinds -> ParseInteger(src, d.type, d.value)
          [] d.type.kind = "bool" -> ParseBoolean(src, d.value)
          [] d.type.kind = "float" -> ParseFloat(src, d.type, d.value)
          [] d.type.kind = "blob" -> DecodeBlob(src, d.type, d.value)
          [] d.type.kind = "fixedblob" -> DecodeFixedBlob(src, d.type, d.value)
          [] d.type.kind = "uuid" -> DecodeUuid(src, d.type, d.value)
          [] d.type.kind = "text" -> ParseBlob(src, d.type, d.value)
          [] d.type.kind = "path" -> DecodePath(src, d.type, d.value)
          [] d.type.kind = "fixedtext" -> DecodeFixedText(src, d.type, d.value)
          [] d.type.kind = "set" -> ParseArrayLike(src, d, none, Huge, g)
          [] d.type.kind \in {"vector", "map"} -> ParseArrayLike(src, d, empty, Huge, g)
          [] d.type.kind = "array" -> DecodeArray(src, d, g)
          [] d.type.kind = "tuple" -> DecodeTuple(src, d, g)
  BY Zenon DEF DecodeWith, empty, none
<1>2. d.type.kind \in IntegerKinds <=> d.type.kind \in {"int", "enum", "duration"}
  BY DEF IntegerKinds
<1>3. LET t == d.type IN
         /\ t.kind \in IntegerKinds => DecodeWith(src, d, g) = ParseInteger(src, t, d.value)
         /\ t.kind = "bool" => DecodeWith(src, d, g) = ParseBoolean(src, d.value)
         /\ t.kind = "float" => DecodeWith(src, d, g) = ParseFloat(src, t, d.value)
         /\ t.kind = "blob" => DecodeWith(src, d, g) = DecodeBlob(src, t, d.value)
         /\ t.kind = "fixedblob" => DecodeWith(src, d, g) = DecodeFixedBlob(src, t, d.value)
         /\ t.kind = "uuid" => DecodeWith(src, d, g) = DecodeUuid(src, t, d.value)
         /\ t.kind = "text" => DecodeWith(src, d, g) = ParseBlob(src, t, d.value)
         /\ t.kind = "path" => DecodeWith(src, d, g) = DecodePath(src, t, d.value)
         /\ t.kind = "fixedtext" => DecodeWith(src, d, g) = DecodeFixedText(src, t, d.value)
         /\ t.kind = "set" => DecodeWith(src, d, g) = ParseArrayLike(src, d, none, Huge, g)
         /\ t.kind \in {"vector", "map"} => DecodeWith(src, d, g) = ParseArrayLike(src, d, empty, Huge, g)
         /\ t.kind = "array" => DecodeWith(src, d, g) = DecodeArray(src, d, g)
         /\ t.kind = "tuple" => DecodeWith(src, d, g) = DecodeTuple(src, d, g)
  BY <1>1, <1>2
<1> QED
  BY Zenon, <1>3 DEF empty, none

(* A destination has a type, and one of a container holds its elements.    *)
LEMMA DestinationIs ==
  ASSUME NEW d \in Destinations
  PROVE  /\ d.type \in Types /\ IsType(d.type) /\ Level[d.type] \in Nat
         /\ d.type.kind \in ContainerKinds =>
              /\ IsHolder(d)
              /\ \A e \in Children(d) : e \in Destinations /\ Level[e.type] < Level[d.type]
<1>1. d.type \in Types /\ IsType(d.type) /\ Level[d.type] \in Nat
  BY DestinationAssumption, LevelAssumption
<1>2. ASSUME d.type.kind \in ContainerKinds PROVE IsHolder(d)
  BY <1>1, <1>2 DEF IsType, IsHolder, IntegerKinds, ContainerKinds
<1>3. ASSUME d.type.kind \in ContainerKinds
      PROVE  \A k \in DOMAIN d.type.of : d.type.of[k] \in Types /\ Level[d.type.of[k]] < Level[d.type]
  BY <1>1, <1>3, LevelAssumption
<1>4. ASSUME d.type.kind \in {"array", "tuple"}, NEW k \in 1 .. d.type.n
      PROVE  /\ Member(d, k) \in Destinations
             /\ Level[Member(d, k).type] < Level[d.type]
  <2>1. d.type.kind \in ContainerKinds
    BY <1>4 DEF ContainerKinds
  <2>2. Member(d, k) \in Destinations
    BY <1>4, DestinationAssumption
  <2>3. CASE d.type.kind = "tuple"
    <3>1. DOMAIN d.type.of = 1 .. d.type.n
      BY <1>1, <2>3 DEF IsType, IntegerKinds
    <3>2. Member(d, k).type = d.type.of[k]
      BY <2>3 DEF Member, Object
    <3> QED
      BY <1>3, <2>1, <2>2, <3>1, <3>2
  <2>4. CASE d.type.kind = "array"
    <3>1. DOMAIN d.type.of = {1}
      BY <1>1, <2>4 DEF IsType, IntegerKinds
    <3>2. Member(d, k).type = d.type.of[1]
      BY <2>4 DEF Member, Object
    <3> QED
      BY <1>3, <2>1, <2>2, <3>1, <3>2
  <2> QED
    BY <1>4, <2>3, <2>4
<1>5. ASSUME d.type.kind \in {"vector", "set", "map"}, NEW k \in DOMAIN d.type.of
      PROVE  /\ Fresh(d.type.of[k]) \in Destinations
             /\ Level[Fresh(d.type.of[k]).type] < Level[d.type]
  <2>1. d.type.kind \in ContainerKinds
    BY <1>5 DEF ContainerKinds
  <2>2. Fresh(d.type.of[k]) \in Destinations
    BY <1>5, DestinationAssumption
  <2>3. Fresh(d.type.of[k]).type = d.type.of[k]
    BY DEF Fresh, Object
  <2> QED
    BY <1>3, <2>1, <2>2, <2>3
<1>6. ASSUME d.type.kind \in ContainerKinds, NEW e \in Children(d)
      PROVE  e \in Destinations /\ Level[e.type] < Level[d.type]
  <2>1. CASE d.type.kind \in {"array", "tuple"}
    BY <1>4, <1>6, <2>1 DEF Children
  <2>2. CASE d.type.kind \notin {"array", "tuple"}
    <3>1. d.type.kind \in {"vector", "set", "map"}
      BY <1>6, <2>2 DEF ContainerKinds
    <3> QED
      BY <1>5, <1>6, <2>2, <3>1 DEF Children
  <2> QED
    BY <2>1, <2>2
<1> QED
  BY <1>1, <1>2, <1>6

LEMMA ChildrenPlain ==
  ASSUME NEW d \in Destinations, d.type.kind \in ContainerKinds, NEW e \in Children(d)
  PROVE  e.type.kind # "fixedtext"
<1>1. d.type \in Types /\ IsHolder(d)
  BY DestinationIs
<1>2. \A k \in DOMAIN d.type.of : d.type.of[k].kind # "fixedtext"
  BY <1>1, LevelAssumption
<1>3. CASE d.type.kind \in {"array", "tuple"}
  <2>1. PICK k \in 1 .. d.type.n : e = Member(d, k)
    BY <1>3 DEF Children
  <2>2. IF d.type.kind = "tuple" THEN DOMAIN d.type.of = 1 .. d.type.n ELSE DOMAIN d.type.of = {1}
    BY <1>1, <1>3, LevelAssumption DEF IsType, IntegerKinds
  <2>3. e.type = IF d.type.kind = "tuple" THEN d.type.of[k] ELSE d.type.of[1]
    BY <2>1 DEF Member, Object
  <2> QED
    BY <1>2, <2>2, <2>3
<1>4. CASE d.type.kind \notin {"array", "tuple"}
  BY <1>2, <1>4 DEF Children, Fresh, Object
<1> QED
  BY <1>3, <1>4

LEMMA DecodeWithTakes ==
  ASSUME NEW src \in Inputs, NEW d \in Destinations, NEW g,
         d.type.kind \in ContainerKinds => PartsTake(d, g), NEW r \in DecodeWith(src, d, g)
  PROVE  Takes(src, r)
<1>1. IsType(d.type) /\ (d.type.kind \in ContainerKinds => IsHolder(d))
  BY DestinationIs
<1>2. \/ d.type.kind \in IntegerKinds
      \/ d.type.kind \in {"bool", "float", "blob", "fixedblob", "text", "path", "fixedtext"}
      \/ d.type.kind = "uuid" /\ d.type.n \in Nat
      \/ d.type.kind \in {"vector", "set", "map", "array", "tuple"}
  BY <1>1 DEF IsType
<1>3. CASE d.type.kind \in IntegerKinds \/ d.type.kind = "float"
  BY <1>3, DecodeByKind, ScalarsTake
<1>4. CASE d.type.kind = "bool"
  BY <1>4, DecodeByKind, BooleansTake
<1>5. CASE d.type.kind = "text"
  BY <1>5, DecodeByKind, ParseBlobTakes
<1>6. CASE d.type.kind \in {"blob", "fixedblob", "path", "fixedtext"}
  <2>1. \/ r \in DecodeBlob(src, d.type, d.value)
        \/ r \in DecodeFixedBlob(src, d.type, d.value)
        \/ r \in DecodeFixedText(src, d.type, d.value)
        \/ r \in DecodePath(src, d.type, d.value)
    BY <1>6, DecodeByKind
  <2> QED
    BY <2>1, StringsTake
<1>7. CASE d.type.kind = "uuid" /\ d.type.n \in Nat
  <2>1. r \in DecodeUuid(src, d.type, d.value)
    BY <1>7, DecodeByKind
  <2> QED
    BY <1>7, <2>1, StringsTake
<1>8. CASE d.type.kind \in {"vector", "set", "map", "array", "tuple"}
  <2>1. IsHolder(d) /\ PartsTake(d, g)
    BY <1>1, <1>8 DEF ContainerKinds
  <2>2. CASE d.type.kind \in {"vector", "set", "map"}
    <3>1. \E v : r \in ParseArrayLike(src, d, v, Huge, g)
      BY <2>2, DecodeByKind
    <3> QED
      BY <2>1, <3>1, ParseArrayLikeTakes
  <2>3. CASE d.type.kind = "array"
    <3>1. r \in DecodeArray(src, d, g)
      BY <2>3, DecodeByKind
    <3>2. PICK s \in ParseArrayLike(src, d, d.value, d.type.n, g) :
             \/ r = s /\ (s.rx = "ok" => s.n = d.type.n)
             \/ s.rx = "ok" /\ s.n # d.type.n /\ r = Result(s.in, "tuple_size_mismatch", s.value, 0)
      BY <3>1, DecodeArrayIs
    <3>3. Takes(src, s)
      BY <2>1, <3>2, ParseArrayLikeTakes
    <3> QED
      BY <3>2, <3>3, TakesStill, AllErrors
  <2>4. CASE d.type.kind = "tuple"
    <3>1. r \in DecodeTuple(src, d, g) /\ d.type.n \in Nat
      BY <2>1, <2>4, DecodeByKind DEF IsHolder
    <3>2. PICK s \in ExpectHead(src, "array", d.type.n) :
            \/ s.rx # "ok" /\ r = Result(s.in, s.rx, d.value, 0)
            \/ s.rx = "ok" /\ r \in Items(s.in, d, d.value, d.type.n, g)
      BY <3>1, DecodeTupleIs
    <3>3. Takes(src, s) /\ s.rx \in Errors /\ Onward(src, s.in) /\ s.in \in Inputs
      <4>1. Takes(src, s)
        BY <3>2, ExpectHeadTakes
      <4> QED
        BY <4>1 DEF Takes, Stays, Onward
    <3>4. CASE s.rx # "ok" /\ r = Result(s.in, s.rx, d.value, 0)
      BY <3>3, <3>4, TakesStill
    <3>5. CASE s.rx = "ok" /\ r \in Items(s.in, d, d.value, d.type.n, g)
      <4>1. Stays(s.in, r)
        BY <2>1, <3>1, <3>3, <3>5, ItemsStay
      <4> QED
        BY <3>3, <3>5, <4>1, TakesFirst DEF Takes
    <3> QED
      BY <3>2, <3>4, <3>5
  <2> QED
    BY <1>8, <2>2, <2>3, <2>4
<1> QED
  BY <1>2, <1>3, <1>4, <1>5, <1>6, <1>7, <1>8

-----------------------------------------------------------------------------
(* decode descends into what the components are decoded into only, so that *)
(* its definition has a solution.                                          *)
Agree(d, g, h) == \A e \in Children(d) : g[e] = h[e]

LEMMA SameItem ==
  ASSUME NEW d, IsHolder(d), NEW g, NEW h, Agree(d, g, h), NEW src, NEW dest, NEW i
  PROVE  DecodeItem(src, d, dest, i, g) = DecodeItem(src, d, dest, i, h)
<1>1. d.type.kind \in {"vector", "set", "map", "array", "tuple"}
  BY DEF IsHolder, ContainerKinds
<1>2. CASE d.type.kind = "vector"
  <2>1. Fresh(d.type.of[1]) \in Children(d)
    BY <1>2 DEF IsHolder, Children
  <2>2. g[Fresh(d.type.of[1])] = h[Fresh(d.type.of[1])]
    BY <2>1 DEF Agree
  <2>3. DecodeElement(src, d.type, dest, g) = DecodeElement(src, d.type, dest, h)
    BY Zenon, <2>2 DEF DecodeElement
  <2> QED
    BY <1>2, <2>3 DEF DecodeItem
<1>3. CASE d.type.kind = "set"
  <2>1. Fresh(d.type.of[1]) \in Children(d)
    BY <1>3 DEF IsHolder, Children
  <2>2. g[Fresh(d.type.of[1])] = h[Fresh(d.type.of[1])]
    BY <2>1 DEF Agree
  <2>3. DecodeKey(src, d.type, dest, g) = DecodeKey(src, d.type, dest, h)
    BY Zenon, <2>2 DEF DecodeKey, Try
  <2> QED
    BY <1>3, <2>3 DEF DecodeItem
<1>4. CASE d.type.kind = "map"
  <2>1. Fresh(d.type.of[1]) \in Children(d) /\ Fresh(d.type.of[2]) \in Children(d)
    BY <1>4 DEF IsHolder, Children
  <2>2. /\ g[Fresh(d.type.of[1])] = h[Fresh(d.type.of[1])]
        /\ g[Fresh(d.type.of[2])] = h[Fresh(d.type.of[2])]
    BY <2>1 DEF Agree
  <2>3. DecodePair(src, d.type, dest, g) = DecodePair(src, d.type, dest, h)
    BY Zenon, <2>2 DEF DecodePair, Try
  <2> QED
    BY <1>4, <2>3 DEF DecodeItem
<1>5. CASE d.type.kind \in {"array", "tuple"}
  <2> DEFINE M == Member(d, i + 1)
             stored(S) == {[r EXCEPT !.value = [dest EXCEPT ![i + 1] = r.value]] : r \in S}
             outside == i + 1 \notin 1 .. d.type.n
  <2>0. \A f : DecodeMember(src, d, dest, i, f)
                 = IF outside THEN Fail(src, "undefined", dest) ELSE stored(f[M][src])
    BY Zenon DEF DecodeMember
  <2>1. ASSUME ~outside PROVE g[M] = h[M]
    <3>1. M \in Children(d)
      BY <1>5, <2>1 DEF Children
    <3> QED
      BY <3>1 DEF Agree
  <2> HIDE DEF stored, M, outside
  <2>2. DecodeMember(src, d, dest, i, g) = DecodeMember(src, d, dest, i, h)
    BY <2>0, <2>1
  <2> QED
    BY <1>5, <2>2 DEF DecodeItem
<1> QED
  BY <1>1, <1>2, <1>3, <1>4, <1>5

(* The decoders g for the elements of d do what h do for those of e.       *)
AlikeItems(d, e, g, h) ==
  \A src, dest, i : DecodeItem(src, d, dest, i, g) = DecodeItem(src, e, dest, i, h)

LEMMA SameItems ==
  ASSUME NEW d, NEW e, NEW g, NEW h, AlikeItems(d, e, g, h), NEW src, NEW dest, NEW n
  PROVE  Items(src, d, dest, n, g) = Items(src, e, dest, n, h)
<1> DEFINE x(r, k) == DecodeItem(r.in, d, r.value, k - 1, g)
           y(r, k) == DecodeItem(r.in, e, r.value, k - 1, h)
           v(k, S) == UNION {IF r.rx = "ok" THEN x(r, k) ELSE {r} : r \in S}
           w(k, S) == UNION {IF r.rx = "ok" THEN y(r, k) ELSE {r} : r \in S}
           p(f) == f = [k \in 0 .. n |-> IF k = 0 THEN Ok(src, dest) ELSE v(k, f[k - 1])]
           q(f) == f = [k \in 0 .. n |-> IF k = 0 THEN Ok(src, dest) ELSE w(k, f[k - 1])]
           a == CHOOSE f : p(f)
           b == CHOOSE f : q(f)
<1>1. \A r, k : x(r, k) = y(r, k)
  BY DEF AlikeItems
<1>2. /\ Items(src, d, dest, n, g) = {[r EXCEPT !.n = n] : r \in a[n]}
      /\ Items(src, e, dest, n, h) = {[r EXCEPT !.n = n] : r \in b[n]}
  BY Zenon DEF Items, Then
<1> HIDE DEF x, y, a, b
<1>3. \A k, S : v(k, S) = w(k, S)
  BY <1>1
<1> HIDE DEF v, w
<1>4. \A f : p(f) <=> q(f)
  BY Zenon, <1>3
<1> HIDE DEF p, q
<1>5. a = b
  BY Zenon, <1>4 DEF a, b
<1> QED
  BY Zenon, <1>2, <1>5

LEMMA SameIndefinite ==
  ASSUME NEW d, NEW e, NEW g, NEW h, AlikeItems(d, e, g, h), NEW src, NEW dest, NEW max
  PROVE  IndefiniteItems(src, d, dest, max, g) = IndefiniteItems(src, e, dest, max, h)
<1> DEFINE x(r) == NextItem(r, d, max, g)
           y(r) == NextItem(r, e, max, h)
           p(f) == f = [k \in 0 .. Rounds(src) |-> IF k = 0 THEN {Result(src, "more", dest, 0)}
                          ELSE UNION {IF r.rx = "more" THEN x(r) ELSE {r} : r \in f[k - 1]}]
           q(f) == f = [k \in 0 .. Rounds(src) |-> IF k = 0 THEN {Result(src, "more", dest, 0)}
                          ELSE UNION {IF r.rx = "more" THEN y(r) ELSE {r} : r \in f[k - 1]}]
           a == CHOOSE f : p(f)
           b == CHOOSE f : q(f)
<1>1. ASSUME NEW r PROVE x(r) = y(r)
  <2> DEFINE v(s) == DecodeItem(s.in, d, r.value, r.n, g)
             w(s) == DecodeItem(s.in, e, r.value, r.n, h)
             more(u) == IF u.rx = "ok" THEN {Result(u.in, "more", u.value, r.n + 1)} ELSE {u}
  <2>1. \A s : v(s) = w(s)
    BY DEF AlikeItems
  <2>2. /\ x(r) = UNION {IF s.rx = "ok"
                         THEN IF s.in.bytes[s.in.at + 1] = Break
                              THEN {Result(DiscardBuffered(s.in, 1), "ok", r.value, r.n)}
                              ELSE IF r.n > max THEN Fail(s.in, "item_value_out_of_range", r.value)
                              ELSE UNION {more(u) : u \in v(s)}
                         ELSE Fail(s.in, s.rx, r.value) : s \in RequireInput(r.in, 1)}
        /\ y(r) = UNION {IF s.rx = "ok"
                         THEN IF s.in.bytes[s.in.at + 1] = Break
                              THEN {Result(DiscardBuffered(s.in, 1), "ok", r.value, r.n)}
                              ELSE IF r.n > max THEN Fail(s.in, "item_value_out_of_range", r.value)
                              ELSE UNION {more(u) : u \in w(s)}
                         ELSE Fail(s.in, s.rx, r.value) : s \in RequireInput(r.in, 1)}
    BY Zenon DEF NextItem, Try, Then
  <2> HIDE DEF v, w, more, x, y
  <2> QED
    BY Zenon, <2>1, <2>2
<1>2. /\ IndefiniteItems(src, d, dest, max, g) = a[Rounds(src)]
      /\ IndefiniteItems(src, e, dest, max, h) = b[Rounds(src)]
  BY Zenon DEF IndefiniteItems
<1> HIDE DEF x, y, a, b
<1>3. \A S : UNION {IF r.rx = "more" THEN x(r) ELSE {r} : r \in S}
              = UNION {IF r.rx = "more" THEN y(r) ELSE {r} : r \in S}
  BY <1>1
<1>4. \A f : p(f) <=> q(f)
  BY Zenon, <1>3
<1> HIDE DEF p, q
<1>5. a = b
  BY Zenon, <1>4 DEF a, b
<1> QED
  BY Zenon, <1>2, <1>5

LEMMA SameArray ==
  ASSUME NEW d, NEW e, d.type = e.type, NEW g, NEW h, AlikeItems(d, e, g, h),
         NEW src, NEW dest, NEW max
  PROVE  ParseArrayLike(src, d, dest, max, g) = ParseArrayLike(src, e, dest, max, h)
<1> DEFINE x(s, u) == Items(u.in, d, u.value, s.value.value, g)
           y(s, u) == Items(u.in, e, u.value, s.value.value, h)
           v(s) == IndefiniteItems(s.in, d, dest, max, g)
           w(s) == IndefiniteItems(s.in, e, dest, max, h)
           short(s) == InputSize(s.in) \div PerItem(d) < s.value.value
           a(s) ==
             IF s.rx = "ok"
             THEN IF s.value.type # ContainerType(d) THEN Fail(s.in, "item_type_mismatch", dest)
                  ELSE IF s.value.ind THEN v(s)
                  ELSE IF short(s) THEN Fail(s.in, "missing_data", dest)
                  ELSE IF s.value.value > max THEN Fail(s.in, "item_value_out_of_range", dest)
                  ELSE UNION {IF u.rx = "ok" THEN x(s, u) ELSE {u}
                                : u \in Reserve(s.in, d.type, dest, s.value.value)}
             ELSE Fail(s.in, s.rx, dest)
           b(s) ==
             IF s.rx = "ok"
             THEN IF s.value.type # ContainerType(d) THEN Fail(s.in, "item_type_mismatch", dest)
                  ELSE IF s.value.ind THEN w(s)
                  ELSE IF short(s) THEN Fail(s.in, "missing_data", dest)
                  ELSE IF s.value.value > max THEN Fail(s.in, "item_value_out_of_range", dest)
                  ELSE UNION {IF u.rx = "ok" THEN y(s, u) ELSE {u}
                                : u \in Reserve(s.in, d.type, dest, s.value.value)}
             ELSE Fail(s.in, s.rx, dest)
<1>1. \A s, u : x(s, u) = y(s, u)
  BY SameItems
<1>2. \A s : v(s) = w(s)
  BY SameIndefinite
<1>3. /\ ParseArrayLike(src, d, dest, max, g) = UNION {a(s) : s \in ParseHead(src)}
      /\ ParseArrayLike(src, e, dest, max, h) = UNION {b(s) : s \in ParseHead(src)}
  BY Zenon DEF ParseArrayLike, Try, Then, ContainerType, PerItem
<1> HIDE DEF x, y, v, w, short
<1>4. ASSUME NEW s PROVE a(s) = b(s)
  <2>1. UNION {IF u.rx = "ok" THEN x(s, u) ELSE {u} : u \in Reserve(s.in, d.type, dest, s.value.value)}
          = UNION {IF u.rx = "ok" THEN y(s, u) ELSE {u} : u \in Reserve(s.in, d.type, dest, s.value.value)}
    BY <1>1
  <2> QED
    BY Zenon, <1>2, <2>1
<1> HIDE DEF a, b
<1> QED
  BY Zenon, <1>3, <1>4

(* codec<T>::decode into d, as a function of the input                     *)
Body(d, g) == [src \in Inputs |-> DecodeWith(src, d, g)]

LEMMA SameBody ==
  ASSUME NEW d \in Destinations, NEW g, NEW h,
         \A e \in Destinations : Level[e.type] < Level[d.type] => g[e] = h[e]
  PROVE  Body(d, g) = Body(d, h)
<1> SUFFICES ASSUME NEW src PROVE DecodeWith(src, d, g) = DecodeWith(src, d, h)
  BY Zenon DEF Body
<1>1. d.type.kind \in ContainerKinds => IsHolder(d) /\ Agree(d, g, h)
  BY DestinationIs DEF Agree
<1>2. \/ d.type.kind \in IntegerKinds
      \/ d.type.kind \in {"bool", "float", "blob", "fixedblob", "uuid", "text", "path", "fixedtext"}
      \/ d.type.kind \in ContainerKinds
  BY DestinationIs DEF IsType, ContainerKinds
<1>3. CASE d.type.kind \in IntegerKinds
  BY <1>3, DecodeByKind
<1>4. CASE d.type.kind \in {"bool", "float", "blob", "fixedblob", "uuid", "text", "path", "fixedtext"}
  BY <1>4, DecodeByKind
<1>5. CASE d.type.kind \in ContainerKinds
  <2>0. AlikeItems(d, d, g, h)
    BY <1>1, <1>5, SameItem DEF AlikeItems
  <2>1. \A dest, max : ParseArrayLike(src, d, dest, max, g) = ParseArrayLike(src, d, dest, max, h)
    BY <2>0, SameArray
  <2>2. \A p, n : Items(p, d, d.value, n, g) = Items(p, d, d.value, n, h)
    BY <2>0, SameItems
  <2>3. DecodeArray(src, d, g) = DecodeArray(src, d, h)
    BY Zenon, <2>1 DEF DecodeArray, Then
  <2>4. DecodeTuple(src, d, g) = DecodeTuple(src, d, h)
    BY Zenon, <2>2 DEF DecodeTuple, Try
  <2>5. d.type.kind \in {"vector", "set", "map", "array", "tuple"}
    BY <1>5 DEF ContainerKinds
  <2>6. CASE d.type.kind = "set"
    BY <2>1, <2>6, DecodeByKind
  <2>7. CASE d.type.kind \in {"vector", "map"}
    BY <2>1, <2>7, DecodeByKind
  <2>8. CASE d.type.kind = "array"
    BY <2>3, <2>8, DecodeByKind
  <2>9. CASE d.type.kind = "tuple"
    BY <2>4, <2>9, DecodeByKind
  <2> QED
    BY <2>5, <2>6, <2>7, <2>8, <2>9
<1> QED
  BY <1>2, <1>3, <1>4, <1>5

LEMMA DecodeDefined == Decode = [d \in Destinations |-> Body(d, Decode)]
<1> DEFINE lev(d) == Level[d.type]
           m == [d \in Destinations |-> lev(d)]
           Upto(n, g) == \A d \in Destinations : lev(d) < n => g[d] = Body(d, g)
<1>1. \A d \in Destinations : lev(d) \in Nat
  BY DestinationIs
<1>2. ASSUME NEW d \in Destinations, NEW g, NEW h, \A e \in Destinations : lev(e) < lev(d) => g[e] = h[e]
      PROVE  Body(d, g) = Body(d, h)
  BY <1>2, SameBody
<1>3. \A d \in Destinations : m[d] = lev(d)
  OBVIOUS
<1>4. m \in [Destinations -> Nat]
  BY <1>1
<1> HIDE DEF lev, m
<1>5. \A n \in Nat : \E g : Upto(n, g)
  <2> DEFINE T == {n \in Nat : \E g : Upto(n, g)}
  <2>1. 0 \in T
    <3>1. \A g : Upto(0, g)
      BY <1>1
    <3> QED
      BY <3>1
  <2>2. ASSUME NEW n \in Nat, n \in T PROVE n + 1 \in T
    <3>1. PICK g : Upto(n, g)
      BY <2>2
    <3> DEFINE h == [d \in Destinations |-> Body(d, g)]
    <3>2. \A d \in Destinations : h[d] = Body(d, g)
      OBVIOUS
    <3> HIDE DEF h
    <3>3. ASSUME NEW d \in Destinations, lev(d) < n + 1 PROVE h[d] = Body(d, h)
      <4>1. \A e \in Destinations : lev(e) < lev(d) => lev(e) < n
        BY <1>1, <3>3
      <4>2. \A e \in Destinations : lev(e) < lev(d) => g[e] = h[e]
        BY <3>1, <3>2, <4>1
      <4>3. Body(d, g) = Body(d, h)
        BY <1>2, <4>2
      <4> QED
        BY <3>2, <4>3
    <3>4. Upto(n + 1, h)
      BY <3>3
    <3> QED
      BY <3>4
  <2> HIDE DEF T
  <2>3. \A n \in Nat : n \in T
    BY <2>1, <2>2, NumberInduction
  <2> QED
    BY <2>3 DEF T
<1>6. ASSUME NEW n \in Nat, NEW k \in Nat, NEW g, NEW h, Upto(n, g), Upto(k, h)
      PROVE  \A d \in Destinations : lev(d) < n /\ lev(d) < k => g[d] = h[d]
  <2> DEFINE T == {d \in Destinations : lev(d) < n /\ lev(d) < k => g[d] = h[d]}
  <2>1. ASSUME NEW d \in Destinations, \A e \in Destinations : m[e] < m[d] => e \in T
        PROVE  d \in T
    <3> SUFFICES ASSUME lev(d) < n, lev(d) < k PROVE g[d] = h[d]
      OBVIOUS
    <3>1. \A e \in Destinations : lev(e) < lev(d) => lev(e) < n /\ lev(e) < k
      BY <1>1
    <3>2. \A e \in Destinations : lev(e) < lev(d) => g[e] = h[e]
      BY <1>3, <2>1, <3>1
    <3>3. Body(d, g) = Body(d, h)
      BY <1>2, <3>2
    <3> QED
      BY <1>6, <3>3
  <2> HIDE DEF T
  <2>2. \A d \in Destinations : d \in T
    BY <1>4, <2>1, MeasureInduction
  <2> QED
    BY <2>2 DEF T
<1> DEFINE A(n) == CHOOSE g : Upto(n, g)
           f == [d \in Destinations |-> Body(d, A(lev(d)))]
<1>7. \A n \in Nat : Upto(n, A(n))
  <2> SUFFICES ASSUME NEW n \in Nat PROVE Upto(n, A(n))
    OBVIOUS
  <2>1. \E g : Upto(n, g)
    BY <1>5
  <2> HIDE DEF Upto
  <2> QED
    BY Zenon, <2>1
<1>8. \A d \in Destinations : f[d] = Body(d, A(lev(d)))
  OBVIOUS
<1> HIDE DEF A
<1>9. ASSUME NEW d \in Destinations PROVE f[d] = Body(d, f)
  <2> DEFINE g == A(lev(d))
  <2>1. lev(d) \in Nat /\ Upto(lev(d), g)
    BY <1>1, <1>7
  <2>2. ASSUME NEW e \in Destinations, lev(e) < lev(d) PROVE g[e] = f[e]
    <3> DEFINE h == A(lev(e))
    <3>1. lev(e) \in Nat /\ Upto(lev(e), h)
      BY <1>1, <1>7
    <3>2. g[e] = Body(e, g)
      BY <2>1, <2>2
    <3>3. f[e] = Body(e, h)
      BY <1>8
    <3> HIDE DEF g, h, f
    <3>4. \A z \in Destinations : lev(z) < lev(e) => lev(z) < lev(d)
      BY <1>1, <2>1, <2>2, <3>1
    <3>5. \A z \in Destinations : lev(z) < lev(d) /\ lev(z) < lev(e) => g[z] = h[z]
      <4> HIDE DEF Upto
      <4> QED
        BY <1>6, <2>1, <3>1
    <3>6. \A z \in Destinations : lev(z) < lev(e) => g[z] = h[z]
      BY <3>4, <3>5
    <3>7. Body(e, g) = Body(e, h)
      BY <1>2, <3>6
    <3> QED
      BY <3>2, <3>3, <3>7
  <2> HIDE DEF g, f
  <2>3. Body(d, g) = Body(d, f)
    BY <1>2, <2>2
  <2>4. f[d] = Body(d, g)
    BY <1>8 DEF f, g
  <2> QED
    BY <2>3, <2>4
<1>10. f = [d \in Destinations |-> f[d]]
  OBVIOUS
<1> HIDE DEF f
<1>11. f = [d \in Destinations |-> Body(d, f)]
  BY Zenon, <1>9, <1>10
<1> DEFINE P(x) == x = [d \in Destinations |-> Body(d, x)]
<1>12. \E x : P(x)
  BY <1>11
<1>13. Decode = CHOOSE x : P(x)
  BY Zenon DEF Decode, Body
<1> HIDE DEF P
<1>14. P(Decode)
  BY Zenon, <1>12, <1>13
<1> QED
  BY Zenon, <1>14 DEF P

LEMMA DecodeIs ==
  ASSUME NEW d \in Destinations, NEW src \in Inputs
  PROVE  Decode[d][src] = DecodeWith(src, d, Decode)
<1>1. Decode[d] = Body(d, Decode)
  <2> DEFINE f == Decode
  <2>1. f = [e \in Destinations |-> Body(e, f)]
    BY DecodeDefined
  <2> HIDE DEF f
  <2>2. f[d] = Body(d, f)
    BY <2>1
  <2> QED
    BY <2>2 DEF f
<1> QED
  BY <1>1 DEF Body

(* Whatever the bytes are and however the input shows them, decode goes on *)
(* from where it was, within the input, takes something if it succeeds,    *)
(* and asks for no more than the input has; only the errors listed come    *)
(* of it.                                                                  *)
THEOREM DecodeTakes ==
  \A d \in Destinations : \A src \in Inputs : \A r \in Decode[d][src] : Takes(src, r)
<1> DEFINE m == [d \in Destinations |-> Level[d.type]]
           T == {d \in Destinations : \A src \in Inputs : \A r \in Decode[d][src] : Takes(src, r)}
<1>1. m \in [Destinations -> Nat] /\ \A d \in Destinations : m[d] = Level[d.type]
  BY DestinationIs
<1> HIDE DEF m
<1>2. ASSUME NEW d \in Destinations, \A e \in Destinations : m[e] < m[d] => e \in T
      PROVE  d \in T
  <2> SUFFICES ASSUME NEW src \in Inputs, NEW r \in Decode[d][src] PROVE Takes(src, r)
    OBVIOUS
  <2>1. d.type.kind \in ContainerKinds => PartsTake(d, Decode)
    <3>1. d.type.kind \in ContainerKinds => \A e \in Children(d) : e \in T
      BY <1>1, <1>2, DestinationIs
    <3> QED
      BY <3>1 DEF PartsTake
  <2>2. r \in DecodeWith(src, d, Decode)
    BY DecodeIs
  <2> QED
    BY <2>1, <2>2, DecodeWithTakes
<1> HIDE DEF T
<1>3. \A d \in Destinations : d \in T
  BY <1>1, <1>2, MeasureInduction
<1> QED
  BY <1>3 DEF T

-----------------------------------------------------------------------------
(* The sessions                                                            *)

LEMMA FreshInput ==
  ASSUME NEW kind \in {"memory", "stream", "legacy"}, NEW bytes \in Seq(Bytes),
         NEW w \in Windows(kind, Len(bytes))
  PROVE  LET src == Input(kind, bytes, w) IN
         /\ src \in Inputs /\ src.kind = kind /\ src.bytes = bytes
         /\ src.at = 0 /\ src.asked = 0 /\ src.buf.begin = 0
<1> DEFINE buf == WholeBuffer(IF kind = "legacy" THEN Len(bytes) ELSE 0)
           src == Input(kind, bytes, w)
<1>1. Len(bytes) \in Nat
  OBVIOUS
<1>2. w \in Nat /\ w <= Len(bytes) /\ (kind # "stream" => w = Len(bytes))
  BY <1>1 DEF Windows
<1>3. /\ buf \in [begin : Nat, size : Nat, alloc : Nat] /\ buf.begin = 0 /\ buf.begin + buf.size = buf.alloc
      /\ kind = "legacy" => buf.alloc = Len(bytes)
  BY <1>1 DEF WholeBuffer
<1>4. src = [kind |-> kind, bytes |-> bytes, at |-> 0, window |-> w, asked |-> 0, buf |-> buf]
  BY DEF Input
<1> HIDE DEF buf, src
<1>5. /\ src \in [kind : {"memory", "stream", "legacy"}, bytes : Seq(Bytes), at : Nat, window : Nat,
                  asked : Nat, buf : [begin : Nat, size : Nat, alloc : Nat]]
      /\ src.kind = kind /\ src.bytes = bytes /\ src.at = 0 /\ src.window = w /\ src.asked = 0 /\ src.buf = buf
  BY <1>2, <1>3, <1>4
<1>6. src \in Inputs
  BY <1>1, <1>2, <1>3, <1>5 DEF Inputs
<1> QED
  BY <1>3, <1>5, <1>6 DEF src

LEMMA OpenedInput ==
  ASSUME NEW src \in Inputs
  PROVE  LET p == OpenInput(src) IN
         /\ p \in Inputs /\ p.kind = src.kind /\ p.bytes = src.bytes /\ p.buf = src.buf
         /\ p.asked = src.asked /\ p.at = IF src.kind = "legacy" THEN src.buf.begin ELSE src.at
<1>1. CASE src.kind # "legacy"
  BY <1>1 DEF OpenInput
<1>2. CASE src.kind = "legacy"
  <2>1. /\ src.buf.begin \in Nat /\ src.buf.size \in Nat
        /\ src.buf.begin + src.buf.size = Len(src.bytes)
    BY <1>2, InputIs DEF Bufs
  <2>2. OpenInput(src) = MovedTo(src, src.buf.begin, src.buf.size)
    BY <1>2, Zenon DEF OpenInput, MovedTo
  <2>3. src.buf.begin + src.buf.size <= Len(src.bytes)
    BY <2>1, InputIs
  <2> QED
    BY <1>2, <2>1, <2>2, <2>3, Moved
<1> QED
  BY <1>1, <1>2

(* A window of a legacy buffer, moved                                      *)
LEMMA BufferIs ==
  ASSUME NEW b \in Bufs, NEW x, NEW y
  PROVE  LET d == [b EXCEPT !.begin = x, !.size = y] IN
         d = [begin |-> x, size |-> y, alloc |-> b.alloc]
<1> DEFINE d == [b EXCEPT !.begin = x, !.size = y]
<1>1. b = [begin |-> b.begin, size |-> b.size, alloc |-> b.alloc]
  BY DEF Bufs
<1>2. DOMAIN b = {"begin", "size", "alloc"}
  BY <1>1
<1>3. DOMAIN d = {"begin", "size", "alloc"} /\ d = [k \in DOMAIN d |-> d[k]]
  BY <1>2
<1>4. d.begin = x /\ d.size = y /\ d.alloc = b.alloc
  BY <1>2
<1> HIDE DEF d
<1>5. d = [begin |-> x, size |-> y, alloc |-> b.alloc]
  BY <1>3, <1>4
<1> QED
  BY Zenon, <1>5 DEF d

(* The same input with another buffer                                      *)
LEMMA Rebuffered ==
  ASSUME NEW src \in Inputs, NEW b \in Bufs, b.begin + b.size = b.alloc,
         src.kind = "legacy" => b.alloc = Len(src.bytes)
  PROVE  LET p == [src EXCEPT !.buf = b] IN
         /\ p \in Inputs /\ p.kind = src.kind /\ p.bytes = src.bytes /\ p.at = src.at
         /\ p.asked = src.asked /\ p.buf = b
BY DEF Inputs, Bufs

LEMMA SyncedInput ==
  ASSUME NEW src \in Inputs
  PROVE  LET p == SyncInput(src) IN
         /\ p \in Inputs /\ p.kind = src.kind /\ p.bytes = src.bytes /\ p.at = src.at
         /\ p.asked = src.asked
         /\ p.buf.begin = IF src.kind = "legacy" THEN src.at ELSE src.buf.begin
<1>1. CASE src.kind # "legacy"
  BY <1>1 DEF SyncInput
<1>2. CASE src.kind = "legacy"
  <2> DEFINE b == src.buf
             bb == b.begin
             bs == b.size
             w == src.at
             x == bb + (w - bb)
             y == bs - (w - bb)
             d == [begin |-> x, size |-> y, alloc |-> b.alloc]
  <2>1. /\ b \in Bufs /\ bb \in Nat /\ bs \in Nat /\ b.alloc \in Nat /\ bb + bs = b.alloc
        /\ b.alloc = Len(src.bytes) /\ w \in Nat /\ w <= Len(src.bytes)
    BY <1>2, InputIs DEF Bufs
  <2>2. MoveConsumer(b, w - bb) = [b EXCEPT !.begin = x, !.size = y]
    BY Zenon DEF MoveConsumer
  <2>3. MoveConsumer(b, w - bb) = d
    <3> HIDE DEF b, x, y
    <3> QED
      BY <2>1, <2>2, BufferIs DEF d
  <2>4. x = w /\ y = b.alloc - w /\ y \in Nat
    <3> HIDE DEF b, bb, bs, w
    <3> QED
      BY <2>1
  <2>5. d.begin = x /\ d.size = y /\ d.alloc = b.alloc
    BY DEF d
  <2> HIDE DEF x, y
  <2>6. d \in Bufs /\ d.begin + d.size = d.alloc /\ d.alloc = Len(src.bytes) /\ d.begin = w
    <3> HIDE DEF b, w
    <3> QED
      BY <2>1, <2>4, <2>5 DEF Bufs
  <2>7. SyncInput(src) = [src EXCEPT !.buf = d]
    <3>1. SyncInput(src) = [src EXCEPT !.buf = MoveConsumer(src.buf, src.at - src.buf.begin)]
      BY <1>2, Zenon DEF SyncInput
    <3> QED
      BY <2>3, <3>1, Zenon DEF b, w, bb
  <2> HIDE DEF b, d, w
  <2>8. LET p == [src EXCEPT !.buf = d] IN
        /\ p \in Inputs /\ p.kind = src.kind /\ p.bytes = src.bytes /\ p.at = src.at
        /\ p.asked = src.asked /\ p.buf = d
    BY <2>6, Rebuffered
  <2>9. w = src.at
    BY DEF w
  <2> QED
    BY <1>2, <2>6, <2>7, <2>8, <2>9
<1> QED
  BY <1>1, <1>2

(* decode(stream, value): a legacy buffer moves to where a success ended,  *)
(* and stays after a failure.                                              *)
LEMMA DecodedFrom ==
  ASSUME NEW src \in Inputs, NEW d \in Destinations, NEW r \in DecodeFrom(src, d)
  PROVE  /\ r.rx \in Errors /\ r.in \in Inputs /\ r.in.kind = src.kind /\ r.in.bytes = src.bytes
         /\ r.in.asked = src.asked \/ r.in.asked < Len(src.bytes)
         /\ src.kind = "legacy" => r.in.buf.begin = IF r.rx = "ok" THEN r.in.at ELSE src.buf.begin
<1> DEFINE o == OpenInput(src)
<1>1. PICK p \in Decode[d][o] : r = IF p.rx = "ok" THEN [p EXCEPT !.in = SyncInput(p.in)] ELSE p
  BY Zenon DEF DecodeFrom
<1>2. /\ o \in Inputs /\ o.kind = src.kind /\ o.bytes = src.bytes /\ o.buf = src.buf
      /\ o.asked = src.asked
  BY OpenedInput
<1> HIDE DEF o
<1>3. Takes(o, p)
  BY <1>1, <1>2, DecodeTakes
<1>4. IsResult(p) /\ p.rx \in Errors /\ Onward(o, p.in)
  BY <1>3 DEF Takes, Stays
<1>5. /\ p.in \in Inputs /\ p.in.kind = src.kind /\ p.in.bytes = src.bytes /\ p.in.buf = src.buf
      /\ p.in.asked = src.asked \/ p.in.asked < Len(src.bytes)
  BY <1>2, <1>4 DEF Onward
<1>6. CASE p.rx # "ok"
  BY <1>1, <1>4, <1>5, <1>6
<1>7. CASE p.rx = "ok"
  <2> DEFINE s == SyncInput(p.in)
  <2>1. /\ s \in Inputs /\ s.kind = p.in.kind /\ s.bytes = p.in.bytes /\ s.at = p.in.at
        /\ s.asked = p.in.asked
        /\ s.buf.begin = IF p.in.kind = "legacy" THEN p.in.at ELSE p.in.buf.begin
    BY <1>5, SyncedInput
  <2> HIDE DEF s
  <2>2. r = Result(s, p.rx, p.value, p.n)
    <3>1. r = [p EXCEPT !.in = s]
      BY Zenon, <1>1, <1>7 DEF s
    <3>2. [p EXCEPT !.in = s] = Result(s, p.rx, p.value, p.n)
      BY <1>4, ResultExcept
    <3> QED
      BY Zenon, <3>1, <3>2
  <2>3. r.in = s /\ r.rx = p.rx
    BY <2>2, ResultFields
  <2> QED
    BY <1>4, <1>5, <1>7, <2>1, <2>3
<1> QED
  BY <1>6, <1>7

(* The bytes that are opened as input: what was sent, and what follows     *)
Begins(s, q) == Len(q) <= Len(s) /\ \A k \in 1 .. Len(q) : s[k] = q[k]

LEMMA OpenedBytes ==
  ASSUME IInv, out.kind # "void", NEW leftover \in Leftovers
  PROVE  /\ Written(out) \in Seq(Bytes) /\ Begins(Written(out), SentOf(log))
         /\ Read(out.mem, leftover) \in Seq(Bytes) /\ Len(Read(out.mem, leftover)) = Len(out.mem)
         /\ out.kind = "legacy" => Begins(Read(out.mem, leftover), SentOf(log))
<1>1. IsStream(out) /\ log \in Seq(Entries) /\ Kept(out, log) /\ SentOf(log) \in Seq(Bytes)
  BY SentIs DEF IInv
<1>2. out.kind \in {"memory", "dynamic", "legacy"} /\ out.mem \in Seq(Stored) /\ Len(out.mem) \in Nat
  BY <1>1 DEF IsStream
<1> DEFINE q == SentOf(log)
<1>3. /\ Written(out) \in Seq(Bytes) /\ Begins(Written(out), q)
  <2>1. Begins(q, q)
    <3> HIDE DEF q
    <3> QED
      BY <1>1 DEF Begins, q
  <2>2. CASE out.kind = "legacy"
    <3>1. Consumed(out, SentOf(log))
      BY <1>1, <2>2 DEF Kept
    <3>2. Written(out) = q
      BY <1>1, <2>2, <3>1, WhatIsWritten
    <3> QED
      BY <1>1, <2>1, <3>2
  <2>3. CASE out.kind # "legacy" /\ Whole(log)
    <3>1. Holds(out, SentOf(log))
      BY <1>1, <2>3 DEF Kept
    <3>2. Written(out) = q
      BY <1>1, <1>2, <2>3, <3>1, WhatIsWritten
    <3> QED
      BY <1>1, <2>1, <3>2
  <2>4. CASE out.kind # "legacy" /\ ~Whole(log)
    <3>1. Partly(out, SentOf(log), Encoding(log[Len(log)].item))
      BY <1>1, <2>4 DEF Kept
    <3>2. PICK a \in Seq(Bytes) : Holds(out, SentOf(log) \o a)
      BY <3>1 DEF Partly
    <3>3. /\ q \o a \in Seq(Bytes) /\ Len(q \o a) = Len(q) + Len(a) /\ Len(q) \in Nat /\ Len(a) \in Nat
          /\ \A k \in 1 .. Len(q) + Len(a) : (q \o a)[k] = IF k <= Len(q) THEN q[k] ELSE a[k - Len(q)]
      BY <1>1, ConcatIs
    <3>4. Written(out) = q \o a
      BY <1>1, <1>2, <2>4, <3>2, <3>3, WhatIsWritten
    <3>5. Begins(q \o a, q)
      <4> HIDE DEF q
      <4>1. Len(q) <= Len(q \o a) /\ \A k \in 1 .. Len(q) : (q \o a)[k] = q[k]
        BY <3>3
      <4> QED
        BY <4>1 DEF Begins
    <3> QED
      BY <3>3, <3>4, <3>5
  <2> QED
    BY <2>2, <2>3, <2>4
<1>4. /\ Read(out.mem, leftover) \in Seq(Bytes)
      /\ Len(Read(out.mem, leftover)) = Len(out.mem)
      /\ out.kind = "legacy" => Begins(Read(out.mem, leftover), q)
  <2> DEFINE m == out.mem
             f(k) == IF m[k] = Junk THEN leftover ELSE m[k]
             s == [k \in 1 .. Len(m) |-> f(k)]
  <2>1. DOMAIN m = 1 .. Len(m) /\ \A k \in 1 .. Len(m) : m[k] \in Stored
    BY <1>2
  <2>2. leftover \in Bytes /\ Junk \notin Bytes
    BY SessionAssumption
  <2>3. \A k \in 1 .. Len(m) : f(k) \in Bytes /\ (m[k] \in Bytes => f(k) = m[k])
    BY <2>1, <2>2 DEF Stored
  <2>4. ASSUME out.kind = "legacy"
        PROVE  Len(q) <= Len(m) /\ \A k \in 1 .. Len(q) : m[k] = q[k] /\ q[k] \in Bytes
    <3>1. Consumed(out, q)
      BY <1>1, <2>4 DEF Kept
    <3>2. out.buf.begin \in Nat /\ out.buf.size \in Nat
      BY <1>1 DEF IsStream
    <3> HIDE DEF q
    <3>3. Len(q) <= Len(m) /\ \A k \in 1 .. Len(q) : m[k] = q[k]
      BY <1>2, <3>1, <3>2 DEF Consumed
    <3>4. \A k \in 1 .. Len(q) : q[k] \in Bytes
      BY <1>1 DEF q
    <3> QED
      BY <3>3, <3>4
  <2> HIDE DEF f
  <2>5. s \in Seq(Bytes) /\ Len(s) = Len(m) /\ \A k \in 1 .. Len(m) : s[k] = f(k)
    BY <1>2, <2>3
  <2>6. Read(m, leftover) = s
    BY Zenon, <2>1 DEF Read, f
  <2> HIDE DEF s, m, q
  <2>7. out.kind = "legacy" => Begins(s, q)
    <3> SUFFICES ASSUME out.kind = "legacy" PROVE Begins(s, q)
      OBVIOUS
    <3>1. Len(q) \in Nat /\ Len(m) \in Nat /\ Len(q) <= Len(m)
      BY <1>1, <1>2, <2>4 DEF q, m
    <3>2. \A k \in 1 .. Len(q) : k \in 1 .. Len(m)
      BY <3>1
    <3>3. \A k \in 1 .. Len(q) : s[k] = q[k]
      BY <2>3, <2>4, <2>5, <3>2
    <3> QED
      BY <2>5, <3>1, <3>3 DEF Begins
  <2> QED
    BY Zenon, <2>5, <2>6, <2>7 DEF m
<1> QED
  BY <1>3, <1>4

(* A legacy buffer that is rewound is its whole allocation.                *)
LEMMA ResetIs ==
  ASSUME NEW b \in Bufs, b.begin + b.size = b.alloc
  PROVE  /\ ResetBuffer(b) \in Bufs /\ ResetBuffer(b).begin = 0
         /\ ResetBuffer(b).begin + ResetBuffer(b).size = ResetBuffer(b).alloc
         /\ ResetBuffer(b).alloc = b.alloc
         /\ MoveConsumerTo(b, 0) = ResetBuffer(b)
<1> DEFINE x == b.begin + b.size - b.alloc
           y == b.alloc
           z == b.begin + b.size - (b.alloc - 0)
           d == [begin |-> x, size |-> y, alloc |-> b.alloc]
<1>1. b.begin \in Nat /\ b.size \in Nat /\ b.alloc \in Nat
  BY DEF Bufs
<1>2. x = 0 /\ z = 0 /\ b.alloc - 0 = y
  BY <1>1
<1>3. ResetBuffer(b) = [b EXCEPT !.begin = x, !.size = y]
  BY Zenon DEF ResetBuffer
<1>4. MoveConsumerTo(b, 0) = [b EXCEPT !.begin = z, !.size = b.alloc - 0]
  BY Zenon DEF MoveConsumerTo
<1>5. x = z
  BY <1>2
<1> HIDE DEF x, z
<1>6. MoveConsumerTo(b, 0) = ResetBuffer(b)
  BY Zenon, <1>2, <1>3, <1>4, <1>5
<1>7. ResetBuffer(b) = d
  BY <1>3, BufferIs
<1>8. d \in Bufs /\ d.begin = 0 /\ d.begin + d.size = d.alloc /\ d.alloc = b.alloc
  BY <1>1, <1>2 DEF Bufs
<1> HIDE DEF d
<1> QED
  BY <1>6, <1>7, <1>8

LEMMA SeqWider ==
  ASSUME NEW S, NEW T, S \subseteq T, NEW s \in Seq(S) PROVE s \in Seq(T)
OBVIOUS

(* t is s with e behind it.                                                *)
Appended(t, s, e) ==
  /\ \E T : t \in Seq(T)
  /\ Len(t) = Len(s) + 1 /\ t[Len(s) + 1] = e /\ Len(s) \in Nat
  /\ DOMAIN s = 1 .. Len(s) /\ DOMAIN t = 1 .. Len(s) + 1
  /\ \A k \in 1 .. Len(s) : t[k] = s[k]

LEMMA AppendIs ==
  ASSUME NEW S, NEW s \in Seq(S), NEW e PROVE Appended(Append(s, e), s, e)
<1> DEFINE T == S \union {e}
<1>1. s \in Seq(T) /\ e \in T
  BY SeqWider
<1> HIDE DEF T
<1>2. Append(s, e) \in Seq(T)
  BY <1>1
<1> QED
  BY <1>1, <1>2 DEF Appended

(* What the asking of a length and the calls of decode() leave behind      *)
InputRight ==
  /\ in \in Inputs
  /\ in.asked = 0 \/ in.asked < Len(in.bytes)
  /\ \E S : got \in Seq(S)
  /\ \A k \in 1 .. Len(got) : got[k].rx \in Errors
  /\ phase = "encode" => got = <<>>

DInv ==
  /\ IInv
  /\ phase \in {"encode", "decode"}
  /\ out.buf.begin + out.buf.size = out.buf.alloc
  /\ InputRight
  /\ LegacyInputAtomic

(* Nothing has been taken from a buffer that is at its beginning.          *)
LEMMA NothingTaken ==
  ASSUME got = <<>>, in.buf.begin = 0
  PROVE  LegacyInputAtomic /\ (\E S : got \in Seq(S)) /\ \A k \in 1 .. Len(got) : got[k].rx \in Errors
<1>1. <<>> \in Seq({}) /\ Len(<<>>) = 0 /\ DOMAIN <<>> = {}
  OBVIOUS
<1>2. {k \in DOMAIN got : got[k].rx = "ok"} = {}
  BY <1>1
<1> QED
  BY <1>1, <1>2 DEF LegacyInputAtomic

LEMMA InitDInv == Init => DInv
<1> SUFFICES ASSUME Init PROVE DInv
  OBVIOUS
<1>1. IInv /\ phase \in {"encode", "decode"} /\ got = <<>>
  BY InitIInv DEF Init
<1>2. \E kind \in {"memory", "dynamic", "void", "legacy"}, n \in Nat : out = Output(kind, n)
  <2>1. CASE phase = "encode" /\ setup \in Setups /\ out = Output(setup.out, setup.n)
    <3>1. setup.out \in {"memory", "dynamic", "void", "legacy"} /\ setup.n \in Nat
      BY <2>1, SessionAssumption
    <3> QED
      BY <2>1, <3>1
  <2>2. CASE out = Output("memory", 0)
    BY <2>2
  <2> QED
    BY <2>1, <2>2 DEF Init
<1>3. out.buf.begin + out.buf.size = out.buf.alloc
  <2>1. PICK kind \in {"memory", "dynamic", "void", "legacy"}, n \in Nat : out = Output(kind, n)
    BY <1>2
  <2> DEFINE m == IF kind = "legacy" THEN n ELSE 0
  <2>2. out.buf = WholeBuffer(m)
    BY <2>1 DEF Output
  <2>3. m \in Nat
    OBVIOUS
  <2> HIDE DEF m
  <2> QED
    BY <2>2, <2>3 DEF WholeBuffer
<1>4. \E kind \in {"memory", "stream", "legacy"}, bytes \in Seq(Bytes) :
        \E w \in Windows(kind, Len(bytes)) : in = Input(kind, bytes, w)
  <2>1. CASE in = NoInput
    <3>1. <<>> \in Seq(Bytes) /\ Len(<<>>) = 0
      OBVIOUS
    <3>2. 0 \in Windows("memory", 0)
      BY DEF Windows
    <3> QED
      BY <2>1, <3>1, <3>2 DEF NoInput
  <2>2. ASSUME NEW f \in Foreign, NEW w \in Windows(f.kind, Len(f.bytes)), in = Input(f.kind, f.bytes, w)
        PROVE  \E kind \in {"memory", "stream", "legacy"}, bytes \in Seq(Bytes) :
                 \E v \in Windows(kind, Len(bytes)) : in = Input(kind, bytes, v)
    <3>1. f.kind \in {"memory", "stream", "legacy"} /\ f.bytes \in Seq(Bytes)
      BY SessionAssumption
    <3> QED
      BY <2>2, <3>1
  <2> QED
    BY <2>1, <2>2 DEF Init
<1>5. in \in Inputs /\ in.asked = 0 /\ in.buf.begin = 0
  BY <1>4, FreshInput
<1> QED
  BY <1>1, <1>3, <1>5, NothingTaken DEF DInv, InputRight

LEMMA EncodeValueDInv ==
  ASSUME DInv, EncodeValue PROVE out'.buf.begin + out'.buf.size = out'.buf.alloc
<1> DEFINE entry(x, r) == [item |-> x, rx |-> r.rx, room |-> OpenOutput(out).room,
                           size |-> Position(r.out) - Position(OpenOutput(out))]
<1>1. IsStream(out) /\ log \in Seq(Entries) /\ Kept(out, log) /\ setup \in Setups
  BY DEF DInv, IInv, EncodeValue
<1>2. Whole(log) \/ out.kind = "legacy"
  <2>1. log = <<>> \/ Last(log).rx = "ok" \/ out.kind = "legacy"
    BY DEF EncodeValue
  <2> QED
    BY <2>1 DEF Whole, Last
<1>3. PICK x \in Values[setup.values] : \E r \in EncodeTo(out, x) : out' = r.out
  BY DEF EncodeValue
<1>4. PICK r \in EncodeTo(out, x) : out' = r.out
  BY <1>3
<1>5. x \in Encodable
  BY <1>1, SessionAssumption
<1>6. /\ IsStream(r.out) /\ r.out.kind = out.kind /\ Kept(r.out, Append(log, entry(x, r)))
      /\ out.kind # "legacy" => r.out.buf = out.buf
  BY <1>1, <1>2, <1>5, EncodeToOutcome
<1> HIDE DEF entry
<1>7. CASE out.kind = "legacy"
  BY <1>4, <1>6, <1>7 DEF Kept, Consumed
<1>8. CASE out.kind # "legacy"
  BY <1>4, <1>6, <1>8 DEF DInv
<1> QED
  BY <1>7, <1>8

(* What is opened begins with what was sent, and nothing of it is read.    *)
LEMMA OpenedFresh ==
  ASSUME DInv, Open
  PROVE  /\ in' \in Inputs /\ in'.asked = 0 /\ in'.at = 0 /\ in'.buf.begin = 0
         /\ Begins(in'.bytes, SentOf(log))
<1>1. IInv /\ out.kind # "void" /\ phase = "encode"
  BY DEF DInv, Open
<1>2. setup \in Setups /\ setup.in \in {"memory", "stream", "legacy"}
  BY <1>1, SessionAssumption DEF IInv
<1>3. PICK leftover \in Leftovers :
        LET bytes == IF setup.in = "legacy" /\ out.kind = "legacy" THEN Read(out.mem, leftover)
                     ELSE Written(out) IN
        \E w \in Windows(setup.in, Len(bytes)) :
          in' = IF out.kind = "legacy" /\ setup.in = "legacy"
                THEN [Input("legacy", bytes, w) EXCEPT !.buf = ResetBuffer(out.buf)]
                ELSE Input(setup.in, bytes, w)
  BY DEF Open
<1> DEFINE bytes == IF setup.in = "legacy" /\ out.kind = "legacy" THEN Read(out.mem, leftover)
                    ELSE Written(out)
<1>4. PICK w \in Windows(setup.in, Len(bytes)) :
        in' = IF out.kind = "legacy" /\ setup.in = "legacy"
              THEN [Input("legacy", bytes, w) EXCEPT !.buf = ResetBuffer(out.buf)]
              ELSE Input(setup.in, bytes, w)
  BY <1>3
<1>5. bytes \in Seq(Bytes) /\ Begins(bytes, SentOf(log))
  BY <1>1, OpenedBytes
<1>6. out.kind = "legacy" /\ setup.in = "legacy" => Len(bytes) = Len(out.mem)
  BY <1>1, OpenedBytes
<1> HIDE DEF bytes
<1> DEFINE kind == setup.in
           src == Input(kind, bytes, w)
<1>7. /\ src \in Inputs /\ src.kind = kind /\ src.bytes = bytes
      /\ src.at = 0 /\ src.asked = 0 /\ src.buf.begin = 0
  BY <1>2, <1>4, <1>5, FreshInput
<1>8. /\ in' \in Inputs /\ in'.asked = 0 /\ in'.at = 0 /\ in'.buf.begin = 0
      /\ Begins(in'.bytes, SentOf(log))
  <2>1. CASE ~(out.kind = "legacy" /\ setup.in = "legacy")
    BY <1>4, <1>5, <1>7, <2>1
  <2>2. CASE out.kind = "legacy" /\ setup.in = "legacy"
    <3> DEFINE b == ResetBuffer(out.buf)
    <3>1. out.buf \in Bufs /\ out.buf.begin + out.buf.size = out.buf.alloc
      BY <1>1 DEF IInv, IsStream, Bufs, DInv
    <3>2. out.buf.alloc = Len(out.mem)
      BY <1>1, <2>2 DEF IInv, Kept, Consumed
    <3>3. b \in Bufs /\ b.begin = 0 /\ b.begin + b.size = b.alloc /\ b.alloc = Len(bytes)
      BY <1>6, <2>2, <3>1, <3>2, ResetIs
    <3> HIDE DEF b, src
    <3>4. in' = [src EXCEPT !.buf = b]
      BY <1>4, <2>2 DEF b, src
    <3>5. LET p == [src EXCEPT !.buf = b] IN
          /\ p \in Inputs /\ p.asked = src.asked /\ p.buf = b
          /\ p.at = src.at /\ p.bytes = src.bytes
      BY <1>7, <3>3, Rebuffered
    <3> QED
      BY <1>5, <1>7, <3>3, <3>4, <3>5
  <2> QED
    BY <2>1, <2>2
<1> QED
  BY <1>8

LEMMA OpenDInv ==
  ASSUME DInv, Open PROVE InputRight' /\ LegacyInputAtomic'
<1>1. phase' = "decode" /\ got' = <<>>
  BY DEF DInv, Open, InputRight
<1>2. in' \in Inputs /\ in'.asked = 0 /\ in'.buf.begin = 0
  BY OpenedFresh
<1>3. LegacyInputAtomic' /\ (\E S : got' \in Seq(S)) /\ \A k \in 1 .. Len(got') : got'[k].rx \in Errors
  <2>1. DOMAIN <<>> = {} /\ <<>> \in Seq({}) /\ Len(<<>>) = 0
    OBVIOUS
  <2>2. {k \in DOMAIN got' : got'[k].rx = "ok"} = {}
    BY <1>1, <2>1
  <2> QED
    BY <1>1, <1>2, <2>1, <2>2 DEF LegacyInputAtomic
<1> QED
  BY <1>1, <1>2, <1>3 DEF InputRight

LEMMA DecodeValueDInv ==
  ASSUME DInv, DecodeValue PROVE InputRight' /\ LegacyInputAtomic'
<1> DEFINE start == OpenInput(in)
           entry(d, r) == [type |-> d.type, rx |-> r.rx, before |-> d.value, value |-> r.value,
                           from |-> start.at, to |-> r.in.at]
<1>1. PICK d \in Destinations : \E r \in DecodeFrom(in, d) :
        in' = r.in /\ got' = Append(got, entry(d, r))
  BY Zenon DEF DecodeValue
<1>2. PICK r \in DecodeFrom(in, d) : in' = r.in /\ got' = Append(got, entry(d, r))
  BY <1>1
<1> DEFINE e == entry(d, r)
<1>3. e.rx = r.rx /\ e.to = r.in.at
  OBVIOUS
<1>4. got' = Append(got, e)
  BY <1>2
<1> HIDE DEF e, entry, start
<1>5. in \in Inputs /\ (in.asked = 0 \/ in.asked < Len(in.bytes)) /\ phase' = "decode"
  BY DEF DInv, InputRight, DecodeValue
<1>6. /\ r.rx \in Errors /\ in' \in Inputs /\ in'.kind = in.kind /\ in'.bytes = in.bytes
      /\ in'.asked = in.asked \/ in'.asked < Len(in.bytes)
      /\ in.kind = "legacy" => in'.buf.begin = IF r.rx = "ok" THEN r.in.at ELSE in.buf.begin
  BY <1>2, <1>5, DecodedFrom
<1> DEFINE n == Len(got)
<1>7. /\ \E S : got' \in Seq(S)
      /\ Len(got') = n + 1 /\ got'[n + 1] = e /\ n \in Nat
      /\ DOMAIN got = 1 .. n /\ DOMAIN got' = 1 .. n + 1
      /\ \A k \in 1 .. n : got'[k] = got[k]
  <2>1. PICK S : got \in Seq(S)
    BY DEF DInv, InputRight
  <2>2. Appended(Append(got, e), got, e)
    BY Zenon, <2>1, AppendIs
  <2>3. Appended(got', got, e)
    BY Zenon, <1>4, <2>2
  <2> QED
    BY <2>3 DEF Appended
<1> HIDE DEF n
<1>8. \A k \in 1 .. n : got[k].rx \in Errors
  BY DEF DInv, InputRight, n
<1>9. \A k \in 1 .. n + 1 : k \in 1 .. n \/ k = n + 1
  BY <1>7
<1>10. \A k \in 1 .. Len(got') : got'[k].rx \in Errors
  BY <1>3, <1>6, <1>7, <1>8, <1>9
<1>11. InputRight'
  BY <1>5, <1>6, <1>7, <1>10 DEF InputRight
<1>12. LegacyInputAtomic'
  <2> SUFFICES ASSUME in'.kind = "legacy"
               PROVE  LET taken == {k \in DOMAIN got' : got'[k].rx = "ok"} IN
                      IF taken = {} THEN in'.buf.begin = 0
                      ELSE \E k \in taken : (\A j \in taken : j <= k) /\ in'.buf.begin = got'[k].to
    BY DEF LegacyInputAtomic
  <2> DEFINE old == {k \in DOMAIN got : got[k].rx = "ok"}
             new == {k \in DOMAIN got' : got'[k].rx = "ok"}
  <2>1. IF old = {} THEN in.buf.begin = 0
        ELSE \E k \in old : (\A j \in old : j <= k) /\ in.buf.begin = got[k].to
    BY <1>6 DEF DInv, LegacyInputAtomic
  <2>2. old \subseteq 1 .. n
    BY <1>7
  <2>3. CASE r.rx = "ok"
    <3>1. n + 1 \in new /\ \A j \in new : j <= n + 1
      BY <1>3, <1>7, <2>3
    <3>2. in'.buf.begin = got'[n + 1].to
      BY <1>3, <1>6, <1>7, <2>3
    <3> QED
      BY <3>1, <3>2
  <2>4. CASE r.rx # "ok"
    <3>1. new = old
      BY <1>3, <1>7, <1>9, <2>4
    <3>2. \A k \in old : got'[k] = got[k]
      BY <1>7, <2>2
    <3>3. in'.buf.begin = in.buf.begin
      BY <1>6, <2>4
    <3> HIDE DEF old, new
    <3>4. IF new = {} THEN in'.buf.begin = 0
          ELSE \E k \in new : (\A j \in new : j <= k) /\ in'.buf.begin = got'[k].to
      BY <2>1, <3>1, <3>2, <3>3
    <3> QED
      BY <3>4 DEF new
  <2> QED
    BY <2>3, <2>4
<1> QED
  BY <1>11, <1>12

LEMMA RewindDInv ==
  ASSUME DInv, Rewind PROVE InputRight' /\ LegacyInputAtomic'
<1> DEFINE b == MoveConsumerTo(in.buf, 0)
<1>1. in \in Inputs /\ (in.asked = 0 \/ in.asked < Len(in.bytes)) /\ in.kind = "legacy"
  BY DEF DInv, InputRight, Rewind
<1>2. b \in Bufs /\ b.begin = 0 /\ b.begin + b.size = b.alloc /\ b.alloc = Len(in.bytes)
  <2>1. /\ in.buf \in Bufs /\ in.buf.begin + in.buf.size = in.buf.alloc
        /\ in.buf.alloc = Len(in.bytes)
    BY <1>1, InputIs
  <2> QED
    BY <2>1, ResetIs
<1> HIDE DEF b
<1>3. in' = [in EXCEPT !.buf = b] /\ got' = <<>> /\ phase' = "decode"
  BY DEF Rewind, b
<1>4. in' \in Inputs /\ in'.asked = in.asked /\ in'.bytes = in.bytes /\ in'.buf = b
  <2>1. LET p == [in EXCEPT !.buf = b] IN
        p \in Inputs /\ p.asked = in.asked /\ p.bytes = in.bytes /\ p.buf = b
    BY <1>1, <1>2, Rebuffered
  <2> QED
    BY <1>3, <2>1
<1>5. LegacyInputAtomic' /\ (\E S : got' \in Seq(S)) /\ \A k \in 1 .. Len(got') : got'[k].rx \in Errors
  <2>1. DOMAIN <<>> = {} /\ <<>> \in Seq({}) /\ Len(<<>>) = 0
    OBVIOUS
  <2>2. {k \in DOMAIN got' : got'[k].rx = "ok"} = {}
    BY <1>3, <2>1
  <2> QED
    BY <1>2, <1>3, <1>4, <2>1, <2>2 DEF LegacyInputAtomic
<1> QED
  BY <1>1, <1>3, <1>4, <1>5 DEF InputRight

LEMMA NextDInv == DInv /\ [Next]_vars => DInv'
<1> SUFFICES ASSUME DInv, [Next]_vars PROVE DInv'
  OBVIOUS
<1>1. IInv'
  BY NextIInv DEF DInv
<1>2. CASE EncodeValue
  <2>1. phase' = phase /\ in' = in /\ got' = got
    BY <1>2 DEF EncodeValue
  <2>2. InputRight' /\ LegacyInputAtomic'
    BY <2>1 DEF DInv, InputRight, LegacyInputAtomic
  <2> QED
    BY <1>1, <1>2, <2>1, <2>2, EncodeValueDInv DEF DInv
<1>3. CASE Open
  <2>1. phase' = "decode" /\ out' = out
    BY <1>3 DEF Open
  <2> QED
    BY <1>1, <1>3, <2>1, OpenDInv DEF DInv
<1>4. CASE DecodeValue
  <2>1. phase' = phase /\ out' = out
    BY <1>4 DEF DecodeValue
  <2> QED
    BY <1>1, <1>4, <2>1, DecodeValueDInv DEF DInv
<1>5. CASE Rewind
  <2>1. phase' = phase /\ out' = out
    BY <1>5 DEF Rewind
  <2> QED
    BY <1>1, <1>5, <2>1, RewindDInv DEF DInv
<1>6. CASE UNCHANGED vars
  <2>1. phase' = phase /\ in' = in /\ got' = got /\ out' = out
    BY <1>6 DEF vars
  <2>2. InputRight' /\ LegacyInputAtomic'
    BY <2>1 DEF DInv, InputRight, LegacyInputAtomic
  <2> QED
    BY <1>1, <2>1, <2>2 DEF DInv
<1> QED
  BY <1>2, <1>3, <1>4, <1>5, <1>6 DEF Next

(* At every moment of every session the output is a stream that holds what *)
(* the log says, the input is within its bytes, and a legacy buffer is     *)
(* where the last success left it.                                         *)
THEOREM SessionStays == Spec => []DInv
<1> QED
  BY InitDInv, NextDInv, PTL DEF Spec

(* Windows, positions and buffers fit together in every state, and only    *)
(* the errors listed are ever returned.                                    *)
THEOREM SessionTypes == Spec => []TypeOK
<1>1. DInv => TypeOK
  <2> SUFFICES ASSUME DInv PROVE TypeOK
    OBVIOUS
  <2>1. /\ IsStream(out) /\ log \in Seq(Entries) /\ in \in Inputs /\ phase \in {"encode", "decode"}
        /\ out.buf.begin + out.buf.size = out.buf.alloc
    BY DEF DInv, IInv, InputRight
  <2>2. /\ out.at + out.room = Len(out.mem) /\ out.room >= 0 /\ out.total >= 0 /\ out.buf.size >= 0
    BY <2>1 DEF IsStream
  <2>3. /\ in.at + in.window \in 0 .. Len(in.bytes) /\ in.window >= 0
        /\ in.buf.begin + in.buf.size = in.buf.alloc /\ in.buf.size >= 0
    <3>1. in.at \in Nat /\ in.window \in Nat /\ in.at + in.window <= Len(in.bytes) /\ Len(in.bytes) \in Nat
      BY <2>1, InputIs
    <3>2. in.buf.begin + in.buf.size = in.buf.alloc /\ in.buf.size \in Nat
      BY <2>1, InputIs DEF Bufs
    <3> QED
      BY <3>1, <3>2
  <2>4. \A k \in DOMAIN log : log[k].rx \in Errors
    <3>1. \A k \in DOMAIN log : log[k] \in Entries
      BY <2>1, EntriesOf
    <3> QED
      BY <3>1 DEF Entries, Errors
  <2>5. \A k \in DOMAIN got : got[k].rx \in Errors
    <3>1. PICK S : got \in Seq(S)
      BY DEF DInv, InputRight
    <3>2. DOMAIN got = 1 .. Len(got)
      BY <3>1
    <3> QED
      BY <3>2 DEF DInv, InputRight
  <2> QED
    BY <2>1, <2>2, <2>3, <2>4, <2>5 DEF TypeOK
<1> QED
  BY <1>1, SessionStays, PTL

(* However deep the containers of an input nest and whatever lengths it    *)
(* claims, none is asked to make room for as many elements as the input    *)
(* has bytes.                                                              *)
THEOREM LengthsBacked == Spec => []Backed
<1>1. DInv => Backed
  BY DEF DInv, InputRight, Backed
<1> QED
  BY <1>1, SessionStays, PTL

(* A legacy buffer moves past every value that was decoded from it, and    *)
(* past nothing of one whose decode() failed, wherever it failed.          *)
THEOREM LegacyInputMoves == Spec => []LegacyInputAtomic
<1>1. DInv => LegacyInputAtomic
  BY DEF DInv
<1> QED
  BY <1>1, SessionStays, PTL

-----------------------------------------------------------------------------
(* What is read of the bytes of an encoding                                *)

(* The bytes s are the next of the input.                                  *)
Ahead(src, s) ==
  src.at + Len(s) <= Len(src.bytes) /\ \A k \in 1 .. Len(s) : src.bytes[src.at + k] = s[k]

(* What keeps a call from reading bytes that are there                     *)
Faults(src) == {"not_enough_memory"} \union (IF src.kind = "stream" THEN {"bad"} ELSE {})

(* A call has read n bytes, which say v.                                   *)
Reads(src, n, v, r) ==
  \/ r.rx \in Faults(src)
  \/ r.rx = "ok" /\ r.value = v /\ r.in.at = src.at + n

LEMMA FaultsStay ==
  ASSUME NEW src, NEW p, Onward(src, p) PROVE Faults(p) = Faults(src)
BY DEF Onward, Faults

LEMMA NoFaultIsOk ==
  ASSUME NEW src PROVE "ok" \notin Faults(src) /\ "more" \notin Faults(src) /\ "not_enough_memory" \in Faults(src)
BY DEF Faults

LEMMA AheadParts ==
  ASSUME NEW src \in Inputs, NEW a \in Seq(Bytes), NEW b \in Seq(Bytes), Ahead(src, a \o b)
  PROVE  /\ Ahead(src, a)
         /\ \A p : Onward(src, p) /\ p.at = src.at + Len(a) => Ahead(p, b)
<1> DEFINE c == a \o b
           m == Len(a)
           n == Len(b)
           w == src.at
           s == src.bytes
<1>1. /\ c \in Seq(Bytes) /\ Len(c) = m + n /\ m \in Nat /\ n \in Nat
      /\ \A k \in 1 .. m + n : c[k] = IF k <= m THEN a[k] ELSE b[k - m]
  BY ConcatIs
<1>2. w \in Nat /\ Len(s) \in Nat
  BY InputIs
<1>3. w + Len(c) <= Len(s) /\ \A k \in 1 .. Len(c) : s[w + k] = c[k]
  BY DEF Ahead
<1> HIDE DEF c, m, n, w, s
<1>4. w + m <= Len(s) /\ w + m + n <= Len(s)
  BY <1>1, <1>2, <1>3
<1>5. \A k \in 1 .. m : s[w + k] = a[k]
  BY <1>1, <1>3
<1>6. ASSUME NEW k \in 1 .. n PROVE s[w + m + k] = b[k]
  <2>1. m + k \in 1 .. m + n /\ ~(m + k <= m) /\ (m + k) - m = k /\ w + (m + k) = w + m + k
    BY <1>1, <1>2
  <2>2. s[w + (m + k)] = c[m + k]
    BY <1>1, <1>3, <2>1
  <2>3. c[m + k] = b[(m + k) - m]
    BY <1>1, <2>1
  <2> QED
    BY <2>1, <2>2, <2>3
<1>7. Ahead(src, a)
  BY <1>4, <1>5 DEF Ahead, m, w, s
<1>8. ASSUME NEW p, Onward(src, p), p.at = src.at + Len(a) PROVE Ahead(p, b)
  <2>1. p.bytes = s /\ p.at = w + m
    BY <1>8 DEF Onward, w, m, s
  <2>2. p.at + n <= Len(p.bytes) /\ \A k \in 1 .. n : p.bytes[p.at + k] = b[k]
    BY <1>4, <1>6, <2>1
  <2> QED
    BY <2>2 DEF Ahead, n
<1> QED
  BY <1>7, <1>8

LEMMA HeadFields ==
  ASSUME NEW byte, NEW v
  PROVE  LET h == ItemHead(byte, v) IN
         /\ h.type = TypeOf(byte) /\ h.value = v /\ h.length = LengthOf(byte)
         /\ InfoOf(byte) # IndefiniteInfo => ~h.ind
         /\ InfoOf(byte) = IndefiniteInfo => h.ind
BY Zenon DEF ItemHead

(* A head that is there is taken for what it says.                         *)
LEMMA HeadTaken ==
  ASSUME NEW src \in Inputs, NEW h \in Seq(Bytes), Len(h) >= 1, LengthOf(h[1]) = Len(h),
         WellFormedInfo(h[1]), ~Forbidden(h[1], SlowValue(h)),
         Ahead(src, h), NEW r \in ParseHead(src)
  PROVE  \/ r.rx \in Faults(src)
         \/ /\ r.rx = "ok" /\ r.in.at = src.at + Len(h)
            /\ r.value = ItemHead(h[1], SlowValue(h))
<1> DEFINE s == src.bytes
           w == src.at
           byte == s[w + 1]
           v == SlowValue(h)
<1>1. Len(h) \in Nat
  OBVIOUS
<1>2. s \in Seq(Bytes) /\ w \in Nat /\ Len(s) \in Nat
  BY InputIs
<1>3. w + Len(h) <= Len(s) /\ \A k \in 1 .. Len(h) : s[w + k] = h[k]
  BY DEF Ahead
<1> HIDE DEF s, w, v
<1>4. byte = h[1] /\ w < Len(s) /\ w + LengthOf(byte) <= Len(s)
  BY <1>1, <1>2, <1>3
<1>5. HeadAt(s, w) = h
  <2> DEFINE n == Len(h)
             p == SubSeq(s, w + 1, w + n)
  <2>1. n \in Nat /\ w + n <= Len(s)
    BY <1>1, <1>3
  <2>2. HeadAt(s, w) = p
    BY <1>4 DEF HeadAt
  <2> HIDE DEF n
  <2>4. p \in Seq(Bytes) /\ Len(p) = n /\ \A k \in 1 .. n : p[k] = s[w + k]
    BY <1>2, <2>1, PartOf
  <2> HIDE DEF p
  <2>5. p \in Seq(Bytes) /\ Len(p) = Len(h) /\ \A k \in 1 .. Len(h) : p[k] = s[w + k]
    BY <2>4 DEF n
  <2>3. p = h
    BY <1>3, <2>5, SeqEqual
  <2> QED
    BY <2>2, <2>3
<1>6. ValueAt(s, w) = v
  BY <1>5 DEF ValueAt, v
<1>7. HeadParsed(src, r)
  BY ParseHeadOutcome
<1>8. WellFormedInfo(byte) /\ ~Forbidden(byte, ValueAt(s, w))
  BY <1>4, <1>6, Zenon DEF v
<1>9. \/ r.rx = "ok" /\ r.value = ItemHead(byte, v) /\ r.in.at = w + LengthOf(byte)
      \/ r.rx = "bad" /\ src.kind = "stream"
  BY <1>4, <1>6, <1>7, <1>8 DEF HeadParsed, s, w
<1>10. CASE r.rx = "bad" /\ src.kind = "stream"
  BY <1>10 DEF Faults
<1>11. CASE r.rx = "ok" /\ r.value = ItemHead(byte, v) /\ r.in.at = w + LengthOf(byte)
  <2>1. r.value = ItemHead(h[1], v)
    BY <1>4, <1>11, Zenon
  <2>2. r.in.at = w + Len(h)
    BY <1>4, <1>11
  <2> QED
    BY <1>11, <2>1, <2>2, Zenon DEF v, w
<1> QED
  BY <1>9, <1>10, <1>11

(* A head that was written is read as it was written.                      *)
LEMMA HeadRead ==
  ASSUME NEW src \in Inputs, NEW type \in TypeNames, type # "special", NEW v \in Nat, v <= Huge,
         Ahead(src, HeadBytes(type, v)), NEW r \in ParseHead(src)
  PROVE  \/ r.rx \in Faults(src)
         \/ /\ r.rx = "ok" /\ r.in.at = src.at + Len(HeadBytes(type, v))
            /\ r.value.type = type /\ r.value.value = v /\ ~r.value.ind
<1> DEFINE h == HeadBytes(type, v)
<1>1. /\ h \in Seq(Bytes) /\ Len(h) \in Nat /\ Len(h) >= 1
      /\ TypeOf(h[1]) = type /\ WellFormedInfo(h[1]) /\ InfoOf(h[1]) # IndefiniteInfo
      /\ LengthOf(h[1]) = Len(h) /\ SlowValue(h) = v /\ ~Forbidden(h[1], v)
  BY HeadLength, HeadsReadBack
<1> HIDE DEF h
<1>2. \/ r.rx \in Faults(src)
      \/ /\ r.rx = "ok" /\ r.in.at = src.at + Len(h)
         /\ r.value = ItemHead(h[1], SlowValue(h))
  <2>1. ~Forbidden(h[1], SlowValue(h))
    BY <1>1, Zenon
  <2>2. Ahead(src, h)
    BY DEF h
  <2> QED
    BY <1>1, <2>1, <2>2, HeadTaken
<1> DEFINE g == ItemHead(h[1], v)
<1>3. g.type = TypeOf(h[1]) /\ g.value = v /\ ~g.ind
  BY Zenon, <1>1, HeadFields
<1> HIDE DEF g
<1>4. g.type = type /\ g.value = v /\ ~g.ind
  BY <1>1, <1>3, Zenon
<1>5. r.value = ItemHead(h[1], SlowValue(h)) => r.value = g
  BY <1>1, Zenon DEF g
<1> QED
  BY <1>2, <1>4, <1>5, Zenon DEF h

-----------------------------------------------------------------------------
(* What the bytes of a value are                                           *)

SignOf(v) == IF v < 0 THEN "negint" ELSE "posint"

LEMMA EncodingOf ==
  ASSUME NEW x \in Encodable
  PROVE  Encoding(x) = BytesOf(EmitWith(x, Emit)) /\ Encoding(x) \in Seq(Bytes)
<1>1. Emit[x] = EmitWith(x, Emit)
  BY EmitDefined, Zenon
<1> QED
  BY <1>1, SizeOfIsLength DEF Encoding

LEMMA IntegerBytes ==
  ASSUME NEW x \in Encodable, x.type.kind \in IntegerKinds
  PROVE  /\ Encoding(x) = HeadBytes(SignOf(x.value), Complement(x.value))
         /\ Complement(x.value) \in Nat /\ Complement(x.value) <= Huge /\ SignOf(x.value) \in TypeNames
<1> DEFINE t == x.type
           v == x.value
           u == Complement(v)
           width == IF t.n <= 4 THEN 4 ELSE 8
<1>1. t.n \in {1, 2, 4, 8} /\ t.flag \in BOOLEAN /\ v \in Int /\ u <= LimitOf(t.n, t.flag)
  BY ScalarKinds
<1>2. u \in Nat /\ u <= Huge /\ (t.n <= 4 => u # Huge)
  BY <1>1, Limits
<1>3. SignOf(v) \in TypeNames /\ width \in {4, 8} /\ (width = 4 => t.n <= 4)
  BY DEF SignOf, TypeNames
<1>4. EmitInteger(t, v) = VarUint(SignOf(v), u, width)
  BY DEF EmitInteger, SignOf
<1>5. Encoding(x) = BytesOf(EmitInteger(t, v))
  BY EncodingOf, OneKind
<1> HIDE DEF t, v, u, width
<1>6. BytesOf(VarUint(SignOf(v), u, width)) = HeadBytes(SignOf(v), u)
  BY <1>2, <1>3, VarUintCall
<1> QED
  BY <1>2, <1>3, <1>4, <1>5, <1>6 DEF u, v

LEMMA SimpleBytes ==
  ASSUME NEW x \in Encodable
  PROVE  /\ x.type.kind = "null" => Encoding(x) = <<Null>>
         /\ x.type.kind = "bool" =>
              x.value \in BOOLEAN /\ Encoding(x) = <<IF x.value THEN True ELSE False>>
<1>1. Null \in Bytes /\ True \in Bytes /\ False \in Bytes
  BY DEF Bytes, Null, True, False
<1>2. ASSUME x.type.kind = "null" PROVE Encoding(x) = <<Null>>
  BY <1>1, <1>2, EncodingOf, OneKind, InlineCall
<1>3. ASSUME x.type.kind = "bool"
      PROVE  x.value \in BOOLEAN /\ Encoding(x) = <<IF x.value THEN True ELSE False>>
  <2>1. x.value \in BOOLEAN
    BY <1>3, Kinds DEF IntegerKinds, StringKinds, ContainerKinds, IsContainer
  <2> DEFINE b == IF x.value THEN True ELSE False
  <2>2. b \in Bytes
    BY <1>1
  <2>3. Encoding(x) = BytesOf(Inline(b))
    BY <1>3, EncodingOf, OneKind
  <2> HIDE DEF b
  <2>4. Encoding(x) = <<b>>
    BY <2>2, <2>3, InlineCall
  <2> QED
    BY <2>1, <2>4 DEF b
<1> QED
  BY <1>2, <1>3

FloatByte(n) == IF n = 4 THEN FloatSingle ELSE FloatDouble

LEMMA FloatBytes ==
  ASSUME NEW x \in Encodable, x.type.kind = "float"
  PROVE  /\ x.type.n \in {4, 8} /\ x.value = <<x.type.n, x.value[2]>>
         /\ x.value[2] \in Nat /\ x.value[2] <= Huge /\ (x.value[2] = Huge => x.type.n = 8)
         /\ Encoding(x) = <<FloatByte(x.type.n)>> \o Store(x.value[2], x.type.n)
<1>1. HasType(x)
  BY NestingAssumption
<1>2. /\ x.type.n \in {4, 8} /\ x.value = <<x.type.n, x.value[2]>>
      /\ x.value[2] \in Nat /\ x.value[2] <= Huge /\ (x.value[2] = Huge => x.type.n = 8)
  BY <1>1 DEF HasType, IntegerKinds, StringKinds, ContainerKinds
<1> DEFINE n == x.type.n
           w == x.value[2]
           first == <<FloatByte(n)>>
           rest == Store(w, n)
<1>3. EmitFloat(x.type, x.value) = <<Call("float", "special", 0, first \o rest)>>
  BY DEF EmitFloat, FloatByte
<1>4. first \in Seq(Bytes) /\ Len(first) = 1
  BY DEF Bytes, FloatByte, FloatSingle, FloatDouble
<1>5. rest \in Seq(Bytes) /\ Len(rest) = n /\ n \in {4, 8}
  BY <1>2, StoreType
<1> HIDE DEF n, w, first, rest
<1> DEFINE all == first \o rest
<1>6. all \in Seq(Bytes) /\ Len(all) <= 9
  <2>1. all \in Seq(Bytes) /\ Len(all) = Len(first) + Len(rest)
    BY <1>4, <1>5, ConcatIs
  <2> QED
    BY <1>4, <1>5, <2>1
<1>7. Encoding(x) = BytesOf(<<Call("float", "special", 0, all)>>)
  BY <1>3, EncodingOf, OneKind
<1> HIDE DEF all
<1>8. Encoding(x) = all
  BY <1>6, <1>7, StoreCall
<1> QED
  BY <1>2, <1>8 DEF all, first, rest, n, w

LEMMA StringBytes ==
  ASSUME NEW x \in Encodable, x.type.kind \in StringKinds
  PROVE  /\ x.value \in Seq(Bytes) /\ Len(x.value) <= Huge
         /\ x.type.kind \in {"fixedblob", "uuid"} => Len(x.value) = x.type.n
         /\ x.type.kind = "fixedtext" => Len(x.value) <= x.type.n
         /\ StringType(x.type) \in TypeNames /\ StringType(x.type) # "special"
         /\ Encoding(x) = HeadBytes(StringType(x.type), Len(x.value)) \o x.value
<1> DEFINE t == x.type
           v == x.value
           type == StringType(t)
           a == IF t.kind = "path" THEN <<Call("allocate", "text", 0, <<>>)>> ELSE <<>>
           h == VarUint(type, Len(v), 8)
           c == Call("bulk", type, 0, v)
<1>1. HasType(x)
  BY NestingAssumption
<1>2. /\ v \in Seq(Bytes) /\ Len(v) <= Huge
      /\ t.kind \in {"fixedblob", "uuid"} => Len(v) = t.n
      /\ t.kind = "fixedtext" => Len(v) <= t.n
  BY <1>1 DEF HasType, IntegerKinds, StringKinds, ContainerKinds
<1>3. type \in TypeNames /\ type # "special"
  BY DEF StringType, TypeNames
<1>4. a \in Seq(Calls) /\ BytesOf(a) = <<>>
  <2>1. CASE t.kind = "path"
    <3> DEFINE d == Call("allocate", "text", 0, <<>>)
    <3>1. d \in Calls /\ CallBytes(d) = <<>>
      BY DEF Call, Calls, Allocations, TypeNames, CallBytes
    <3>2. a = <<d>>
      BY <2>1
    <3> HIDE DEF d, a
    <3> QED
      BY <3>1, <3>2, SingleCall
  <2>2. CASE t.kind # "path"
    BY <2>2, FlattenEmpty DEF BytesOf
  <2> QED
    BY <2>1, <2>2
<1>5. Len(v) \in Nat
  BY <1>2
<1>6. h \in Seq(Calls) /\ BytesOf(h) = HeadBytes(type, Len(v))
  <2> HIDE DEF type, v
  <2> QED
    BY <1>2, <1>3, <1>5, VarUintCall
<1>7. c \in Calls /\ CallBytes(c) = v
  <2> HIDE DEF type, v
  <2> QED
    BY <1>2, <1>3 DEF Call, Calls, Bulks, CallBytes
<1>8. Encoding(x) = BytesOf((a \o h) \o <<c>>)
  BY EncodingOf, OneKind DEF EmitString
<1> HIDE DEF a, h, c, type, v, t
<1>9. <<c>> \in Seq(Calls) /\ BytesOf(<<c>>) = v
  BY <1>7, SingleCall
<1>10. a \o h \in Seq(Calls)
  BY <1>4, <1>6, ConcatIs
<1>11. BytesOf((a \o h) \o <<c>>) = BytesOf(a \o h) \o v
  BY <1>9, <1>10, BytesOfConcat
<1>12. BytesOf(a \o h) = BytesOf(a) \o BytesOf(h)
  BY <1>4, <1>6, BytesOfConcat
<1>13. BytesOf(h) \in Seq(Bytes)
  BY <1>6, BytesOfType
<1>14. BytesOf(a \o h) = HeadBytes(type, Len(v))
  BY <1>4, <1>6, <1>12, <1>13, EmptyIsUnit
<1>15. Encoding(x) = HeadBytes(type, Len(v)) \o v
  BY <1>8, <1>11, <1>14
<1> QED
  BY <1>2, <1>3, <1>15 DEF type, v, t

LEMMA BytesOfFlattened ==
  ASSUME NEW s \in Seq(Seq(Calls)), NEW b \in Seq(Seq(Bytes)), Len(b) = Len(s),
         \A k \in 1 .. Len(s) : b[k] = BytesOf(s[k])
  PROVE  FlattenSeq(s) \in Seq(Calls) /\ BytesOf(FlattenSeq(s)) = FlattenSeq(b)
<1>1. PICK f : IsFlattening(f, Calls, s)
  BY FlatteningExists
<1>2. PICK g : IsFlattening(g, Bytes, b)
  BY FlatteningExists
<1>3. FlattenSeq(s) = f[Len(s)] /\ FlattenSeq(s) \in Seq(Calls)
  BY <1>1, FlattenIs
<1>4. FlattenSeq(b) = g[Len(s)]
  BY <1>2, FlattenIs
<1>5. Len(s) \in Nat
  OBVIOUS
<1> DEFINE T == {k \in Nat : k <= Len(s) => BytesOf(f[k]) = g[k]}
<1>6. 0 \in T
  <2>1. f[0] = <<>> /\ g[0] = <<>>
    BY <1>1, <1>2 DEF IsFlattening
  <2>2. BytesOf(<<>>) = <<>>
    BY FlattenEmpty DEF BytesOf
  <2> QED
    BY <2>1, <2>2
<1>7. ASSUME NEW k \in Nat, k \in T PROVE k + 1 \in T
  <2> SUFFICES ASSUME k + 1 <= Len(s) PROVE BytesOf(f[k + 1]) = g[k + 1]
    OBVIOUS
  <2>1. k + 1 \in 1 .. Len(s) /\ (k + 1) - 1 = k /\ k \in 0 .. Len(s)
    BY <1>5
  <2>2. f[k + 1] = f[k] \o s[k + 1] /\ f[k] \in Seq(Calls)
    BY <1>1, <2>1 DEF IsFlattening
  <2>3. g[k + 1] = g[k] \o b[k + 1] /\ b[k + 1] = BytesOf(s[k + 1])
    BY <1>2, <2>1 DEF IsFlattening
  <2>4. s[k + 1] \in Seq(Calls)
    BY <2>1
  <2>5. BytesOf(f[k + 1]) = BytesOf(f[k]) \o BytesOf(s[k + 1])
    BY <2>2, <2>4, BytesOfConcat
  <2>6. BytesOf(f[k]) = g[k]
    BY <1>7, <2>1
  <2> QED
    BY <2>3, <2>5, <2>6
<1> HIDE DEF T
<1>8. Len(s) \in T
  BY <1>5, <1>6, <1>7, NumberInduction
<1> QED
  BY <1>3, <1>4, <1>5, <1>8 DEF T

HeadType(t) == IF t.kind = "map" THEN "map" ELSE "array"
Opening(x) == BytesOf(EmitBegin(x.type, NumElements(x)))
Closing(x) == BytesOf(EmitEnd(x.type))
Inside(x) == [k \in DOMAIN Parts(x) |-> Encoding(Parts(x)[k])]

LEMMA ContainerCodes == Code("array") = 128 /\ Code("map") = 160
<1>1. ASSUME NEW type \in {"array", "map"}
      PROVE  Code(type) = IF type = "map" THEN 160 ELSE 128
  <2>1. type \in TypeNames
    BY DEF TypeNames
  <2>2. PICK n \in 1 .. 8 : MajorTypes[n] = type /\ Code(type) = 32 * (n - 1)
    BY <2>1, CodeOf
  <2>3. n = IF type = "map" THEN 6 ELSE 5
    BY <2>2 DEF MajorTypes
  <2> QED
    BY <2>2, <2>3
<1> QED
  BY <1>1

LEMMA OpeningIs ==
  ASSUME NEW x, IsContainer(x)
  PROVE  /\ HeadType(x.type) \in {"array", "map"}
         /\ ~x.type.flag => /\ Opening(x) = HeadBytes(HeadType(x.type), NumElements(x))
                            /\ Closing(x) = <<>>
         /\ x.type.flag => /\ Opening(x) = <<Code(HeadType(x.type)) + IndefiniteInfo>>
                           /\ Code(HeadType(x.type)) + IndefiniteInfo \in Bytes
                           /\ Closing(x) = <<Break>> /\ Break \in Bytes
         /\ Opening(x) \in Seq(Bytes) /\ Closing(x) \in Seq(Bytes)
<1> DEFINE t == x.type
           n == NumElements(x)
           type == HeadType(t)
           byte == Code(type) + IndefiniteInfo
<1>1. t.flag \in BOOLEAN /\ n \in Nat /\ n <= Huge
  BY DEF IsContainer
<1>2. type \in {"array", "map"} /\ type \in TypeNames
  BY DEF HeadType, TypeNames
<1>3. ASSUME t.flag
      PROVE  Opening(x) = <<byte>> /\ byte \in Bytes /\ Closing(x) = <<Break>> /\ Break \in Bytes
  <2>1. byte \in Bytes
    BY ContainerCodes DEF HeadType, IndefiniteInfo, Bytes
  <2>2. Break \in Bytes
    BY DEF Break, Bytes
  <2>3. EmitBegin(t, n) = Inline(byte) /\ EmitEnd(t) = Inline(Break)
    BY <1>3 DEF EmitBegin, EmitEnd, HeadType
  <2> HIDE DEF t, n, byte
  <2> QED
    BY <2>1, <2>2, <2>3, InlineCall DEF Opening, Closing, t, n
<1>4. ASSUME ~t.flag PROVE Opening(x) = HeadBytes(type, n) /\ Closing(x) = <<>>
  <2>1. EmitBegin(t, n) = VarUint(type, n, 8) /\ EmitEnd(t) = <<>>
    BY <1>4 DEF EmitBegin, EmitEnd, HeadType
  <2>2. BytesOf(<<>>) = <<>>
    BY FlattenEmpty DEF BytesOf
  <2> HIDE DEF t, n, type
  <2>3. BytesOf(VarUint(type, n, 8)) = HeadBytes(type, n)
    BY <1>1, <1>2, VarUintCall
  <2> QED
    BY <2>1, <2>2, <2>3 DEF Opening, Closing, t, n
<1>5. EmitBegin(t, n) \in Seq(Calls) /\ EmitEnd(t) \in Seq(Calls)
  <2> HIDE DEF t, n
  <2> QED
    BY <1>1, ContainerCalls
<1>6. Opening(x) \in Seq(Bytes) /\ Closing(x) \in Seq(Bytes)
  BY <1>5, BytesOfType DEF Opening, Closing
<1> QED
  BY <1>1, <1>2, <1>3, <1>4, <1>6

LEMMA InsideIs ==
  ASSUME NEW x \in Encodable, IsContainer(x)
  PROVE  /\ Inside(x) \in Seq(Seq(Bytes)) /\ Len(Inside(x)) = Len(Parts(x))
         /\ DOMAIN Inside(x) = 1 .. Len(Parts(x)) /\ Len(Parts(x)) \in Nat
         /\ \A k \in 1 .. Len(Parts(x)) :
              /\ Parts(x)[k] \in Encodable /\ Inside(x)[k] = Encoding(Parts(x)[k])
              /\ Inside(x)[k] \in Seq(Bytes)
<1> DEFINE p == Parts(x)
<1>1. p \in Seq(Encodable)
  BY DEF IsContainer
<1>2. Inside(x) = [k \in DOMAIN p |-> Encoding(p[k])]
  BY DEF Inside
<1> HIDE DEF p
<1>3. DOMAIN p = 1 .. Len(p) /\ Len(p) \in Nat /\ \A k \in 1 .. Len(p) : p[k] \in Encodable
  BY <1>1
<1>4. \A k \in 1 .. Len(p) : Encoding(p[k]) \in Seq(Bytes)
  BY <1>3, SizeOfIsLength
<1>5. Inside(x) = [k \in 1 .. Len(p) |-> Encoding(p[k])]
  BY <1>2, <1>3
<1> QED
  BY <1>3, <1>4, <1>5 DEF p

LEMMA ContainerBytes ==
  ASSUME NEW x \in Encodable, IsContainer(x)
  PROVE  /\ FlattenSeq(Inside(x)) \in Seq(Bytes)
         /\ Encoding(x) = (Opening(x) \o FlattenSeq(Inside(x))) \o Closing(x)
<1> DEFINE p == Parts(x)
           s == [k \in DOMAIN p |-> Emit[p[k]]]
           b == EmitBegin(x.type, NumElements(x))
           e == EmitEnd(x.type)
<1>1. Encoding(x) = BytesOf((b \o FlattenSeq(s)) \o e)
  BY EncodingOf, OneKind DEF IsContainer
<1>2. /\ s \in Seq(Seq(Calls)) /\ Len(s) = Len(p)
      /\ \A k \in 1 .. Len(p) : p[k] \in Encodable /\ s[k] = Emit[p[k]]
  <2>1. Emit \in [Encodable -> Seq(Calls)]
    BY EmitType
  <2> HIDE DEF s
  <2>2. s = [k \in DOMAIN Parts(x) |-> Emit[Parts(x)[k]]]
    BY DEF s
  <2> QED
    BY <2>1, <2>2, OfParts, Zenon DEF p
<1>3. b \in Seq(Calls) /\ e \in Seq(Calls)
  <2> DEFINE t == x.type
             m == NumElements(x)
  <2>1. t.flag \in BOOLEAN /\ m \in Nat /\ m <= Huge
    BY DEF IsContainer
  <2> HIDE DEF t, m
  <2>2. EmitBegin(t, m) \in Seq(Calls) /\ EmitEnd(t) \in Seq(Calls)
    BY <2>1, ContainerCalls
  <2> QED
    BY <2>2 DEF t, m
<1>4. \A k \in 1 .. Len(p) : BytesOf(s[k]) = Encoding(p[k])
  BY <1>2 DEF Encoding
<1> HIDE DEF s, b, e
<1>5. /\ Inside(x) \in Seq(Seq(Bytes)) /\ Len(Inside(x)) = Len(p)
      /\ \A k \in 1 .. Len(p) : Inside(x)[k] = Encoding(p[k])
  BY InsideIs
<1> HIDE DEF p
<1>6. FlattenSeq(s) \in Seq(Calls) /\ BytesOf(FlattenSeq(s)) = FlattenSeq(Inside(x))
  <2>1. \A k \in 1 .. Len(s) : Inside(x)[k] = BytesOf(s[k])
    BY <1>2, <1>4, <1>5
  <2> QED
    BY <1>2, <1>5, <2>1, BytesOfFlattened
<1>7. /\ BytesOf(b \o FlattenSeq(s)) = BytesOf(b) \o FlattenSeq(Inside(x))
      /\ b \o FlattenSeq(s) \in Seq(Calls)
  BY <1>3, <1>6, BytesOfConcat, ConcatIs
<1>8. BytesOf((b \o FlattenSeq(s)) \o e) = (BytesOf(b) \o FlattenSeq(Inside(x))) \o BytesOf(e)
  BY <1>3, <1>7, BytesOfConcat
<1>9. FlattenSeq(Inside(x)) \in Seq(Bytes)
  BY <1>6, BytesOfType
<1>10. BytesOf(b) = Opening(x) /\ BytesOf(e) = Closing(x)
  BY DEF b, e, Opening, Closing
<1> QED
  BY <1>1, <1>8, <1>9, <1>10

(* No value begins like the end of an indefinite container.                *)
LEMMA FirstByte ==
  ASSUME NEW x \in Encodable
  PROVE  Encoding(x) \in Seq(Bytes) /\ Len(Encoding(x)) >= 1 /\ Encoding(x)[1] # Break
<1>1. InfoOf(Break) = 31 /\ IndefiniteInfo = 31
  BY DEF Break, InfoOf, IndefiniteInfo
<1>2. ASSUME NEW type \in TypeNames, NEW v \in Nat, v <= Huge
      PROVE  LET h == HeadBytes(type, v) IN h \in Seq(Bytes) /\ Len(h) >= 1 /\ h[1] # Break
  BY <1>1, <1>2, HeadLength, HeadsReadBack
<1>3. ASSUME NEW a \in Seq(Bytes), Len(a) >= 1, a[1] # Break, NEW b \in Seq(Bytes)
      PROVE  Len(a \o b) >= 1 /\ (a \o b)[1] # Break /\ a \o b \in Seq(Bytes)
  BY <1>3, ConcatIs
<1>4. Encoding(x) \in Seq(Bytes)
  BY EncodingOf
<1>5. CASE x.type.kind \in IntegerKinds
  BY <1>2, <1>5, IntegerBytes
<1>6. CASE x.type.kind \in {"null", "bool"}
  BY <1>4, <1>6, SimpleBytes DEF Null, True, False, Break
<1>7. CASE x.type.kind = "float"
  <2> DEFINE a == <<FloatByte(x.type.n)>>
             b == Store(x.value[2], x.type.n)
  <2>1. a \in Seq(Bytes) /\ Len(a) >= 1 /\ a[1] # Break
    BY DEF FloatByte, FloatSingle, FloatDouble, Bytes, Break
  <2>2. b \in Seq(Bytes) /\ Encoding(x) = a \o b
    BY <1>7, FloatBytes, StoreType
  <2> HIDE DEF a, b
  <2> QED
    BY <1>3, <2>1, <2>2
<1>8. CASE x.type.kind \in StringKinds
  <2> DEFINE a == HeadBytes(StringType(x.type), Len(x.value))
  <2>1. x.value \in Seq(Bytes) /\ Encoding(x) = a \o x.value
    BY <1>8, StringBytes
  <2>2. a \in Seq(Bytes) /\ Len(a) >= 1 /\ a[1] # Break
    <3>1. /\ StringType(x.type) \in TypeNames
          /\ x.value \in Seq(Bytes) /\ Len(x.value) <= Huge
      BY <1>8, StringBytes
    <3>2. Len(x.value) \in Nat
      BY <3>1
    <3> QED
      BY <1>2, <3>1, <3>2
  <2> HIDE DEF a
  <2> QED
    BY <1>3, <2>1, <2>2
<1>9. CASE IsContainer(x)
  <2> DEFINE a == Opening(x)
             b == FlattenSeq(Inside(x))
             c == Closing(x)
  <2>1. Encoding(x) = (a \o b) \o c /\ b \in Seq(Bytes) /\ c \in Seq(Bytes)
    BY <1>9, ContainerBytes, OpeningIs
  <2>2. a \in Seq(Bytes) /\ Len(a) >= 1 /\ a[1] # Break
    <3>1. HeadType(x.type) \in TypeNames /\ NumElements(x) \in Nat /\ NumElements(x) <= Huge
      BY <1>9 DEF IsContainer, HeadType, TypeNames
    <3>2. CASE x.type.flag
      <4>1. a = <<Code(HeadType(x.type)) + IndefiniteInfo>> /\ a \in Seq(Bytes)
        BY <1>9, <3>2, OpeningIs
      <4>2. Code(HeadType(x.type)) + IndefiniteInfo # Break
        BY ContainerCodes DEF HeadType, IndefiniteInfo, Break
      <4> QED
        BY <4>1, <4>2
    <3>3. CASE ~x.type.flag
      BY <1>2, <1>9, <3>1, <3>3, OpeningIs
    <3> QED
      BY <3>2, <3>3
  <2> HIDE DEF a, b, c
  <2>3. Len(a \o b) >= 1 /\ (a \o b)[1] # Break /\ a \o b \in Seq(Bytes)
    BY <1>3, <2>1, <2>2
  <2> QED
    BY <1>3, <2>1, <2>3
<1> QED
  BY <1>4, <1>5, <1>6, <1>7, <1>8, <1>9, Kinds

-----------------------------------------------------------------------------
(* Scalars and strings are read back                                       *)

LEMMA IntegerReads ==
  ASSUME NEW src \in Inputs, NEW x \in Encodable, x.type.kind \in IntegerKinds,
         Ahead(src, Encoding(x)), NEW dest, NEW r \in ParseInteger(src, x.type, dest)
  PROVE  Reads(src, Len(Encoding(x)), x.value, r)
<1> DEFINE t == x.type
           v == x.value
           u == Complement(v)
           n == Len(Encoding(x))
           types == IF t.flag THEN {"posint", "negint"} ELSE {"posint"}
<1>1. /\ Encoding(x) = HeadBytes(SignOf(v), u)
      /\ u \in Nat /\ u <= Huge /\ SignOf(v) \in TypeNames
  BY IntegerBytes
<1>2. v \in Int /\ u <= LimitOf(t.n, t.flag) /\ (v < 0 => t.flag) /\ t.flag \in BOOLEAN
  <2>1. HasType(x)
    BY NestingAssumption
  <2> QED
    BY <2>1, KindsDiffer DEF HasType
<1>3. SignOf(v) # "special" /\ SignOf(v) \in types /\ (SignOf(v) = "negint" <=> v < 0)
  BY <1>2 DEF SignOf
<1>4. v < 0 => v = -1 - u
  BY <1>2 DEF Complement
<1>5. ~(v < 0) => v = u
  BY <1>2 DEF Complement
<1>6. LimitOf(t.n, t.flag) \in Int
  <2>1. t.n \in {1, 2, 4, 8}
    BY ScalarKinds
  <2> QED
    BY <1>2, <2>1 DEF LimitOf, Huge
<1> HIDE DEF t, v, u, n, types
<1>7. PICK s \in ParseHead(src) :
           \/ s.rx # "ok" /\ r = Result(s.in, s.rx, dest, 0)
           \/ /\ s.rx = "ok" /\ s.value.type \notin types
              /\ r = Result(s.in, "item_type_mismatch", dest, 0)
           \/ /\ s.rx = "ok" /\ s.value.value > LimitOf(t.n, t.flag)
              /\ r = Result(s.in, "item_value_out_of_range", dest, 0)
           \/ /\ s.rx = "ok" /\ s.value.type \in types
              /\ r = Result(s.in, "ok", IF s.value.type = "negint" THEN -1 - s.value.value
                                        ELSE s.value.value, 0)
  BY ParseIntegerIs DEF t, types
<1>8. \/ s.rx \in Faults(src)
      \/ /\ s.rx = "ok" /\ s.in.at = src.at + n
         /\ s.value.type = SignOf(v) /\ s.value.value = u /\ ~s.value.ind
  BY <1>1, <1>3, HeadRead DEF n
<1>9. CASE s.rx \in Faults(src)
  BY <1>7, <1>9, NoFaultIsOk, ResultFields DEF Reads
<1>10. CASE /\ s.rx = "ok" /\ s.in.at = src.at + n
            /\ s.value.type = SignOf(v) /\ s.value.value = u /\ ~s.value.ind
  <2>1. ~(s.value.value > LimitOf(t.n, t.flag))
    BY <1>1, <1>2, <1>6, <1>10
  <2>2. (IF s.value.type = "negint" THEN -1 - s.value.value ELSE s.value.value) = v
    BY <1>1, <1>3, <1>4, <1>5, <1>10
  <2>3. r = Result(s.in, "ok", v, 0)
    BY <1>3, <1>7, <1>10, <2>1, <2>2
  <2> QED
    BY <1>10, <2>3, ResultFields DEF Reads, v, n
<1> QED
  BY <1>8, <1>9, <1>10

LEMMA BooleanReads ==
  ASSUME NEW src \in Inputs, NEW x \in Encodable, x.type.kind = "bool",
         Ahead(src, Encoding(x)), NEW dest, NEW r \in ParseBoolean(src, dest)
  PROVE  Reads(src, Len(Encoding(x)), x.value, r)
<1> DEFINE b == IF x.value THEN True ELSE False
<1>1. x.value \in BOOLEAN /\ Encoding(x) = <<b>>
  BY SimpleBytes
<1>2. b \in {False, True} /\ (b = True) = x.value
  BY <1>1 DEF True, False
<1> HIDE DEF b
<1>3. Len(Encoding(x)) = 1 /\ src.at < Len(src.bytes) /\ src.bytes[src.at + 1] = b
  BY <1>1, InputIs DEF Ahead
<1>4. PICK s \in IF src.window = 0 THEN RequireInput(src, 1) ELSE Ok(src, <<>>) :
           \/ s.rx # "ok" /\ r = Result(s.in, s.rx, dest, 0)
           \/ /\ s.rx = "ok" /\ s.in.bytes[s.in.at + 1] \notin {False, True}
              /\ r = Result(s.in, "item_type_mismatch", dest, 0)
           \/ /\ s.rx = "ok"
              /\ r = Result(DiscardBuffered(s.in, 1), "ok", s.in.bytes[s.in.at + 1] = True, 0)
  BY ParseBooleanIs
<1>5. /\ Stays(src, s) /\ s.in.at = src.at
      /\ \/ s.rx = "ok" /\ s.in.window > 0
         \/ s.rx = "bad" /\ src.kind = "stream"
  BY <1>3, <1>4, ShowByte
<1>6. s.in \in Inputs /\ s.in.bytes = src.bytes
  BY <1>5 DEF Stays, Onward
<1>7. CASE s.rx = "bad" /\ src.kind = "stream"
  BY <1>4, <1>7, ResultFields DEF Reads, Faults
<1>8. CASE s.rx = "ok" /\ s.in.window > 0
  <2>1. DiscardBuffered(s.in, 1).at = src.at + 1
    <3>1. 1 <= s.in.window
      BY <1>6, <1>8, InputIs
    <3> QED
      BY <1>5, <1>6, <3>1, DiscardIs
  <2>2. (s.in.bytes[s.in.at + 1] = True) = x.value
    BY <1>2, <1>3, <1>5, <1>6, Zenon
  <2>3. s.in.bytes[s.in.at + 1] \in {False, True}
    BY <1>2, <1>3, <1>5, <1>6, Zenon
  <2>4. r = Result(DiscardBuffered(s.in, 1), "ok", s.in.bytes[s.in.at + 1] = True, 0)
    BY <1>4, <1>8, <2>3, Zenon
  <2>5. r = Result(DiscardBuffered(s.in, 1), "ok", x.value, 0)
    BY <2>2, <2>4, Zenon
  <2> QED
    BY <1>3, <2>1, <2>5, ResultFields DEF Reads
<1> QED
  BY <1>5, <1>7, <1>8

LEMMA FloatHead ==
  ASSUME NEW n \in {4, 8}
  PROVE  LET byte == FloatByte(n) IN
         /\ byte \in Bytes /\ TypeOf(byte) = "special" /\ WellFormedInfo(byte)
         /\ InfoOf(byte) # IndefiniteInfo /\ LengthOf(byte) = 1 + n
         /\ \A v : ~Forbidden(byte, v)
<1> DEFINE byte == FloatByte(n)
           i == IF n = 4 THEN 26 ELSE 27
<1>1. byte = 224 + i /\ byte \in Bytes
  BY DEF FloatByte, FloatSingle, FloatDouble, Bytes
<1>2. byte \div 32 + 1 = 8 /\ byte % 32 = i /\ i \in 24 .. 27
  BY <1>1
<1>3. TypeOf(byte) = "special" /\ InfoOf(byte) = i
  BY <1>2 DEF TypeOf, InfoOf, MajorTypes
<1>4. 2^(i - 24) = n
  BY SMT
<1> HIDE DEF byte
<1>5. LengthOf(byte) = 1 + n
  BY <1>2, <1>3, <1>4 DEF LengthOf
<1>6. WellFormedInfo(byte) /\ InfoOf(byte) # IndefiniteInfo
  BY <1>2, <1>3 DEF WellFormedInfo, IndefiniteInfo
<1>7. 1 + n # 2
  OBVIOUS
<1>8. \A v : ~Forbidden(byte, v)
  BY <1>5, <1>7, Zenon DEF Forbidden
<1> QED
  BY <1>1, <1>3, <1>5, <1>6, <1>8 DEF byte

LEMMA FloatReads ==
  ASSUME NEW src \in Inputs, NEW x \in Encodable, x.type.kind = "float",
         Ahead(src, Encoding(x)), NEW dest, NEW r \in ParseFloat(src, x.type, dest)
  PROVE  Reads(src, Len(Encoding(x)), x.value, r)
<1> DEFINE n == x.type.n
           v == x.value[2]
           first == FloatByte(n)
           rest == Store(v, n)
           h == Encoding(x)
<1>1. /\ n \in {4, 8} /\ x.value = <<n, v>> /\ v \in Nat /\ v <= Huge /\ (v = Huge => n = 8)
      /\ h = <<first>> \o rest
  BY FloatBytes
<1>2. /\ first \in Bytes /\ TypeOf(first) = "special" /\ WellFormedInfo(first)
      /\ InfoOf(first) # IndefiniteInfo /\ LengthOf(first) = 1 + n /\ \A w : ~Forbidden(first, w)
  BY <1>1, FloatHead
<1>3. rest \in Seq(Bytes) /\ Len(rest) = n /\ Load(rest) = v
  <2>1. n \in {1, 2, 4, 8} /\ Fits(v, n)
    BY <1>1 DEF Fits
  <2> QED
    BY <1>1, <2>1, StoreType, LoadOfStore
<1>4. Ahead(src, h)
  OBVIOUS
<1> HIDE DEF first, rest, n, v, h
<1>5. h \in Seq(Bytes) /\ Len(h) = 1 + n /\ h[1] = first /\ SubSeq(h, 2, Len(h)) = rest
  BY <1>1, <1>2, <1>3
<1>6. SlowValue(h) = v
  <2>1. Len(h) # 1
    BY <1>1, <1>5
  <2> QED
    BY <1>3, <1>5, <2>1, Zenon DEF SlowValue
<1>7. PICK s \in ParseHead(src) :
           \/ s.rx # "ok" /\ r = Result(s.in, s.rx, dest, 0)
           \/ /\ s.rx = "ok" /\ (s.value.type # "special" \/ s.value.length < 3)
              /\ r = Result(s.in, "item_type_mismatch", dest, 0)
           \/ /\ s.rx = "ok" /\ n < s.value.length - 1
              /\ r = Result(s.in, "item_value_out_of_range", dest, 0)
           \/ s.rx = "ok" /\ r = Result(s.in, "ok", FloatOf(s.value), 0)
  BY ParseFloatIs DEF n
<1>8. \/ s.rx \in Faults(src)
      \/ s.rx = "ok" /\ s.in.at = src.at + Len(h) /\ s.value = ItemHead(first, v)
  <2>1. LengthOf(h[1]) = Len(h) /\ WellFormedInfo(h[1]) /\ ~Forbidden(h[1], SlowValue(h))
    BY <1>2, <1>5, Zenon
  <2>2. Len(h) >= 1
    BY <1>1, <1>5
  <2>3. \/ s.rx \in Faults(src)
        \/ s.rx = "ok" /\ s.in.at = src.at + Len(h) /\ s.value = ItemHead(h[1], SlowValue(h))
    BY <1>4, <1>5, <2>1, <2>2, HeadTaken
  <2> QED
    BY <1>5, <1>6, <2>3, Zenon
<1>9. CASE s.rx \in Faults(src)
  BY <1>7, <1>9, NoFaultIsOk, ResultFields DEF Reads
<1>10. CASE s.rx = "ok" /\ s.in.at = src.at + Len(h) /\ s.value = ItemHead(first, v)
  <2> DEFINE g == ItemHead(first, v)
  <2>1. g.type = "special" /\ g.value = v /\ g.length = 1 + n
    BY Zenon, <1>2, HeadFields
  <2> HIDE DEF g
  <2>2. s.value = g
    BY <1>10, Zenon DEF g
  <2>3. g.length - 1 = n /\ ~(g.length < 3) /\ ~(n < g.length - 1)
    BY <1>1, <2>1
  <2>4. FloatOf(g) = x.value
    BY <1>1, <2>1, <2>3, Zenon DEF FloatOf
  <2>5. r = Result(s.in, "ok", x.value, 0)
    BY <1>7, <1>10, <2>1, <2>2, <2>3, <2>4, Zenon
  <2> QED
    BY <1>10, <2>5, ResultFields DEF Reads, h
<1> QED
  BY <1>8, <1>9, <1>10

LEMMA AheadIs ==
  ASSUME NEW src \in Inputs, NEW v \in Seq(Bytes), Ahead(src, v)
  PROVE  /\ Len(v) \in Nat /\ Len(v) <= InputSize(src)
         /\ SubSeq(src.bytes, src.at + 1, src.at + Len(v)) = v
<1> DEFINE n == Len(v)
           s == src.bytes
           w == src.at
           p == SubSeq(s, w + 1, w + n)
<1>1. s \in Seq(Bytes) /\ w \in Nat /\ Len(s) \in Nat /\ InputSize(src) = Len(s) - w
  BY InputIs
<1>2. n \in Nat /\ w + n <= Len(s) /\ \A k \in 1 .. n : s[w + k] = v[k]
  BY DEF Ahead
<1>3. p \in Seq(Bytes) /\ Len(p) = n /\ \A k \in 1 .. n : p[k] = s[w + k]
  <2> HIDE DEF n, s, w
  <2>1. /\ SubSeq(s, w + 1, w + n) \in Seq(Bytes) /\ Len(SubSeq(s, w + 1, w + n)) = n
        /\ \A k \in 1 .. n : SubSeq(s, w + 1, w + n)[k] = s[w + k]
    BY <1>1, <1>2, PartOf
  <2>2. p = SubSeq(s, w + 1, w + n)
    OBVIOUS
  <2> HIDE DEF p
  <2> QED
    BY <2>1, <2>2
<1> HIDE DEF n, s, w
<1> HIDE DEF p
<1>4. p = v
  <2>1. Len(p) = Len(v) /\ \A k \in 1 .. Len(v) : p[k] = v[k]
    BY <1>2, <1>3 DEF n
  <2> QED
    BY <1>3, <2>1, SeqEqual
<1> QED
  BY <1>1, <1>2, <1>4 DEF n, s, w, p

LEMMA ReadReads ==
  ASSUME NEW src \in Inputs, NEW v \in Seq(Bytes), Ahead(src, v), NEW r \in BulkRead(src, Len(v))
  PROVE  /\ IsResult(r) /\ Onward(src, r.in)
         /\ Reads(src, Len(v), v, r)
<1> DEFINE n == Len(v)
<1>1. n \in Nat /\ n <= InputSize(src) /\ SubSeq(src.bytes, src.at + 1, src.at + n) = v
  BY AheadIs
<1>2. InputSize(src) \in Nat
  BY InputIs
<1> HIDE DEF n
<1>3. /\ IsResult(r) /\ Onward(src, r.in)
      /\ \/ /\ r.rx = "ok" /\ r.in.at = src.at + n
            /\ r.value = SubSeq(src.bytes, src.at + 1, src.at + n)
         \/ r.rx = "end_of_stream" /\ n > InputSize(src)
         \/ r.rx = "bad" /\ src.kind = "stream"
  BY <1>1, BulkReadOutcome DEF n
<1>4. ~(n > InputSize(src))
  BY <1>1, <1>2
<1> QED
  BY <1>1, <1>3, <1>4 DEF Reads, Faults, n

LEMMA OverwriteWhole ==
  ASSUME NEW n \in Nat, NEW dest, DOMAIN dest = 1 .. n, NEW v \in Seq(Bytes), Len(v) = n
  PROVE  Overwrite(dest, 0, v) = v
<1>1. DOMAIN v = 1 .. n /\ v = [k \in 1 .. n |-> v[k]]
  OBVIOUS
<1>2. Overwrite(dest, 0, v) = [k \in 1 .. n |-> IF k - 0 \in 1 .. n THEN v[k - 0] ELSE dest[k]]
  BY <1>1, Zenon DEF Overwrite
<1>3. \A k \in 1 .. n : k - 0 = k
  OBVIOUS
<1>4. [k \in 1 .. n |-> IF k - 0 \in 1 .. n THEN v[k - 0] ELSE dest[k]] = [k \in 1 .. n |-> v[k]]
  BY <1>3
<1> QED
  BY <1>1, <1>2, <1>4

(* A string that is there is read in one piece, over what the destination  *)
(* held; one of a fixed size has to be as large.                           *)
LEMMA BlobReads ==
  ASSUME NEW src \in Inputs, NEW t, StringType(t) \in TypeNames, StringType(t) # "special",
         NEW v \in Seq(Bytes), Len(v) <= Huge, Len(v) <= MaxSize(t), MaxSize(t) \in Nat,
         NEW dest, IsSpan(t) => Len(v) <= Len(dest),
         Ahead(src, HeadBytes(StringType(t), Len(v)) \o v), NEW r \in ParseBlob(src, t, dest)
  PROVE  LET value == IF IsSpan(t) THEN Overwrite(dest, 0, v) ELSE v IN
         \/ r.rx \in Faults(src)
         \/ /\ r.rx = "ok" /\ r.n = Len(v) /\ r.value = value /\ IsResult(r)
            /\ r.in.at = src.at + Len(HeadBytes(StringType(t), Len(v)) \o v)
<1> DEFINE type == StringType(t)
           m == Len(v)
           a == HeadBytes(type, m)
           value == IF IsSpan(t) THEN Overwrite(dest, 0, v) ELSE v
<1>1. m \in Nat /\ m <= Huge /\ ~(m > MaxSize(t))
  OBVIOUS
<1>2. a \in Seq(Bytes) /\ Len(a) \in Nat
  <2> HIDE DEF m
  <2>1. a \in Seq(Bytes)
    BY <1>1, HeadLength
  <2> QED
    BY <2>1
<1>3. Ahead(src, a) /\ \A p : Onward(src, p) /\ p.at = src.at + Len(a) => Ahead(p, v)
  <2> HIDE DEF a
  <2> QED
    BY <1>2, AheadParts DEF a
<1>4. Len(a \o v) = Len(a) + m
  <2> HIDE DEF a
  <2> QED
    BY <1>2, ConcatIs
<1>5. src.at \in Nat
  BY InputIs
<1> DEFINE OkAfter(q) == \/ q.rx \in Faults(src)
                         \/ /\ q.rx = "ok" /\ q.n = m /\ q.value = value /\ IsResult(q)
                            /\ q.in.at = src.at + Len(a) + m
<1> SUFFICES OkAfter(r)
  <2> HIDE DEF a, m
  <2>1. src.at + Len(a \o v) = src.at + Len(a) + m
    BY <1>1, <1>2, <1>4, <1>5
  <2> QED
    BY <2>1, Zenon DEF a, m, type, value
<1> HIDE DEF a, m, type, value
<1>6. PICK s \in ParseHead(src) :
           LET h == s.value IN
           \/ s.rx # "ok" /\ r = Result(s.in, s.rx, dest, 0)
           \/ /\ s.rx = "ok" /\ \E rx \in {"item_type_mismatch", "indefinite_item", "missing_data",
                                           "string_exceeds_size_limit"} : r = Result(s.in, rx, dest, 0)
              /\ ~(/\ h.type = StringType(t) /\ ~h.ind /\ ~MissingData(s.in, h.value)
                   /\ ~(h.value > MaxSize(t)))
           \/ /\ s.rx = "ok" /\ h.ind
              /\ \E u \in Resize(s.in, t, dest, 0) :
                   \/ u.rx # "ok" /\ r = u
                   \/ u.rx = "ok" /\ r \in BlobChunks(u.in, t, u.value)
           \/ /\ s.rx = "ok" /\ h.type = StringType(t) /\ ~h.ind /\ ~MissingData(s.in, h.value)
              /\ \E u \in Resize(s.in, t, dest, h.value) :
                   \/ u.rx # "ok" /\ r = u
                   \/ /\ u.rx = "ok"
                      /\ \E b \in ReadInto(u.in, u.value, 0, h.value) :
                           \/ b.rx # "ok" /\ r = b
                           \/ b.rx = "ok" /\ r = Result(b.in, "ok", b.value, h.value)
  BY ParseBlobIs
<1>7. \/ s.rx \in Faults(src)
      \/ /\ s.rx = "ok" /\ s.in.at = src.at + Len(a)
         /\ s.value.type = type /\ s.value.value = m /\ ~s.value.ind
  BY <1>1, <1>3, HeadRead DEF a, type
<1>8. Takes(src, s) /\ Stays(src, s) /\ Onward(src, s.in) /\ s.in \in Inputs
  BY <1>6, ParseHeadTakes DEF Takes, Stays, Onward
<1>9. CASE s.rx \in Faults(src)
  <2>1. r = Result(s.in, s.rx, dest, 0)
    BY <1>6, <1>9, NoFaultIsOk, Zenon
  <2> QED
    BY <1>9, <2>1, ResultFields
<1>10. CASE /\ s.rx = "ok" /\ s.in.at = src.at + Len(a)
            /\ s.value.type = type /\ s.value.value = m /\ ~s.value.ind
  <2>1. Ahead(s.in, v)
    BY <1>3, <1>8, <1>10
  <2>2. m <= InputSize(s.in) /\ InputSize(s.in) \in Nat
    BY <1>8, <2>1, AheadIs, InputIs DEF m
  <2>3. ~MissingData(s.in, m)
    BY <1>1, <2>2 DEF MissingData
  <2>4. m < Len(s.in.bytes)
    BY <1>1, <1>8, <1>10, <2>3, NotMissing
  <2>5. PICK u \in Resize(s.in, t, dest, m) :
           \/ u.rx # "ok" /\ r = u
           \/ /\ u.rx = "ok"
              /\ \E b \in ReadInto(u.in, u.value, 0, m) :
                   \/ b.rx # "ok" /\ r = b
                   \/ b.rx = "ok" /\ r = Result(b.in, "ok", b.value, m)
    BY <1>1, <1>6, <1>10, <2>3, Zenon DEF type
  <2>6. Stays(s.in, u) /\ u.in.at = s.in.at
    BY <1>1, <1>8, <2>4, ResizeStays
  <2>7. \/ u.rx = "ok" /\ u.value = IF IsSpan(t) THEN dest ELSE Resized(dest, m, 0)
        \/ u.rx = "not_enough_memory"
    <3>1. IsSpan(t) => m <= Len(dest)
      BY DEF m
    <3>2. \/ IsSpan(t) /\ m <= Len(dest) /\ u = Result(s.in, "ok", dest, 0)
          \/ IsSpan(t) /\ ~(m <= Len(dest)) /\ u = Result(s.in, "not_enough_memory", dest, 0)
          \/ ~IsSpan(t) /\ u = Result(Ask(s.in, m), "ok", Resized(dest, m, 0), 0)
          \/ ~IsSpan(t) /\ u = Result(Ask(s.in, m), "not_enough_memory", dest, 0)
      BY <2>5, ResizeIs
    <3>3. \A p, rx, w : Result(p, rx, w, 0).rx = rx /\ Result(p, rx, w, 0).value = w
      BY ResultFields
    <3>4. CASE IsSpan(t)
      <4>1. u = Result(s.in, "ok", dest, 0)
        BY <3>1, <3>2, <3>4, Zenon
      <4> QED
        BY <3>3, <3>4, <4>1
    <3>5. CASE ~IsSpan(t)
      <4>1. \/ u = Result(Ask(s.in, m), "ok", Resized(dest, m, 0), 0)
            \/ u = Result(Ask(s.in, m), "not_enough_memory", dest, 0)
        BY <3>2, <3>5, Zenon
      <4> DEFINE asked == Ask(s.in, m)
                 resized == Resized(dest, m, 0)
      <4> HIDE DEF asked, resized
      <4>2. \/ u = Result(asked, "ok", resized, 0)
            \/ u = Result(asked, "not_enough_memory", dest, 0)
        BY <4>1 DEF asked, resized
      <4>3. (u.rx = "ok" /\ u.value = resized) \/ u.rx = "not_enough_memory"
        BY <3>3, <4>2
      <4> QED
        BY <3>5, <4>3, Zenon DEF resized
    <3> QED
      BY <3>4, <3>5
  <2>8. Onward(src, u.in) /\ u.in \in Inputs
    BY <1>8, <2>6, OnwardTwice DEF Stays, Onward
  <2>9. Ahead(u.in, v)
    BY <1>3, <1>10, <2>6, <2>8
  <2>10. CASE u.rx = "not_enough_memory"
    BY <2>5, <2>10, NoFaultIsOk
  <2>11. CASE u.rx = "ok" /\ u.value = IF IsSpan(t) THEN dest ELSE Resized(dest, m, 0)
    <3>1. PICK b \in ReadInto(u.in, u.value, 0, m) :
                   \/ b.rx # "ok" /\ r = b
                   \/ b.rx = "ok" /\ r = Result(b.in, "ok", b.value, m)
      BY <2>5, <2>11
    <3>2. PICK c \in BulkRead(u.in, m) : b = Result(c.in, c.rx, Overwrite(u.value, 0, c.value), c.n)
      BY <1>1, <2>8, <3>1, ReadIntoIs
    <3>3. Reads(u.in, m, v, c)
      BY <2>8, <2>9, <3>2, ReadReads DEF m
    <3>4. Overwrite(u.value, 0, v) = value
      <4>1. DOMAIN Resized(dest, m, 0) = 1 .. m
        BY DEF Resized
      <4>2. Overwrite(Resized(dest, m, 0), 0, v) = v
        BY <1>1, <4>1, OverwriteWhole DEF m
      <4> QED
        BY <2>11, <4>2 DEF value
    <3>5. Faults(u.in) = Faults(src)
      BY <2>8, FaultsStay
    <3>6. \/ c.rx \in Faults(src)
          \/ c.rx = "ok" /\ c.value = v /\ c.in.at = src.at + Len(a) + m
      BY <1>10, <2>6, <3>3, <3>5 DEF Reads
    <3>7. CASE c.rx \in Faults(src)
      <4>1. b.rx = c.rx
        BY <3>2, ResultFields
      <4> QED
        BY <3>1, <3>7, <4>1, NoFaultIsOk, Zenon
    <3>8. CASE c.rx = "ok" /\ c.value = v /\ c.in.at = src.at + Len(a) + m
      <4>1. b = Result(c.in, "ok", value, c.n)
        BY <3>2, <3>4, <3>8, Zenon
      <4>2. b.rx = "ok" /\ b.in = c.in /\ b.value = value
        BY <4>1, ResultFields
      <4>3. r = Result(c.in, "ok", value, m)
        BY <3>1, <4>2, Zenon
      <4>4. OkAfter(r)
        BY <3>8, <4>3, ResultFields
      <4> QED
        BY <4>4
    <3> QED
      BY <3>6, <3>7, <3>8
  <2> QED
    BY <2>7, <2>10, <2>11
<1> QED
  BY <1>7, <1>9, <1>10

LEMMA OverwriteFront ==
  ASSUME NEW n \in Nat, NEW dest, DOMAIN dest = 1 .. n, NEW v \in Seq(Bytes), Len(v) <= n
  PROVE  SubSeq(Overwrite(dest, 0, v), 1, Len(v)) = v
<1> DEFINE o == Overwrite(dest, 0, v)
           m == Len(v)
           S == {o[k] : k \in 1 .. n}
           p == SubSeq(o, 1, m)
<1>1. m \in Nat /\ m <= n /\ DOMAIN v = 1 .. m
  OBVIOUS
<1>2. o = [k \in 1 .. n |-> IF k - 0 \in 1 .. m THEN v[k - 0] ELSE dest[k]]
  BY <1>1, Zenon DEF Overwrite
<1> HIDE DEF m
<1>3. \A k \in 1 .. m : k - 0 = k /\ k \in 1 .. n
  BY <1>1
<1>4. DOMAIN o = 1 .. n /\ o = [k \in 1 .. n |-> o[k]]
  BY <1>2, Zenon
<1>5. \A k \in 1 .. m : o[k] = v[k]
  BY <1>2, <1>3
<1> HIDE DEF o
<1>6. o \in [1 .. n -> S]
  BY <1>4, Zenon
<1> HIDE DEF S
<1>7. o \in Seq(S) /\ Len(o) = n
  BY <1>6
<1>8. p \in Seq(S) /\ Len(p) = m /\ \A k \in 1 .. m : p[k] = o[k]
  BY <1>1, <1>7, FrontOf
<1> HIDE DEF p
<1>9. p \in Seq(S) /\ Len(p) = Len(v) /\ \A k \in 1 .. Len(v) : p[k] = v[k]
  BY <1>5, <1>8 DEF m
<1>10. p = v
  BY <1>9, SeqEqual
<1> QED
  BY <1>10 DEF p, o, m

LEMMA FixedObject ==
  ASSUME NEW d \in Destinations
  PROVE  /\ d.type.kind \in {"fixedblob", "fixedtext", "uuid", "array", "tuple"} => d.type.n \in Nat
         /\ d.type.kind \in {"fixedblob", "array", "tuple"} =>
              DOMAIN d.value = 1 .. d.type.n /\ d.value = [k \in 1 .. d.type.n |-> d.value[k]]
         /\ d.type.kind = "fixedtext" =>
              /\ DOMAIN d.value.units = 1 .. d.type.n
              /\ d.value.units = [k \in 1 .. d.type.n |-> d.value.units[k]]
<1>1. IsType(d.type)
  BY DestinationIs
<1>2. d.type.kind \in {"fixedblob", "fixedtext", "uuid", "array", "tuple"} => d.type.n \in Nat
  BY <1>1 DEF IsType, IntegerKinds
<1>3. d.type.kind \in {"fixedblob", "array", "tuple"} => d.value = [k \in 1 .. d.type.n |-> d.value[k]]
  BY DestinationAssumption
<1>4. d.type.kind = "fixedtext" => d.value.units = [k \in 1 .. d.type.n |-> d.value.units[k]]
  BY Zenon, DestinationAssumption
<1>5. ASSUME NEW f, NEW n, f = [k \in 1 .. n |-> f[k]] PROVE DOMAIN f = 1 .. n
  BY <1>5, Zenon
<1> DEFINE units == d.value.units
<1> HIDE DEF units
<1> QED
  BY <1>2, <1>3, <1>4, <1>5 DEF units

LEMMA LenOf ==
  ASSUME NEW n \in Nat, NEW f, f = [k \in 1 .. n |-> f[k]]
  PROVE  f \in Seq({f[k] : k \in 1 .. n}) /\ Len(f) = n
<1> DEFINE S == {f[k] : k \in 1 .. n}
<1>1. f \in [1 .. n -> S]
  BY Zenon
<1> HIDE DEF S
<1> QED
  BY <1>1 DEF S

(* A head that is expected and there is consumed, and what follows it is   *)
(* there.                                                                  *)
LEMMA HeadExpected ==
  ASSUME NEW src \in Inputs, NEW type \in TypeNames, type # "special", NEW n \in Nat, n <= Huge,
         NEW v \in Seq(Bytes), Ahead(src, HeadBytes(type, n) \o v), NEW r \in ExpectHead(src, type, n)
  PROVE  /\ Reads(src, Len(HeadBytes(type, n)), r.value, r) /\ Onward(src, r.in)
         /\ r.rx = "ok" => r.in \in Inputs /\ Ahead(r.in, v)
<1> DEFINE a == HeadBytes(type, n)
<1>1. a \in Seq(Bytes)
  BY HeadLength
<1>2. Ahead(src, a) /\ \A p : Onward(src, p) /\ p.at = src.at + Len(a) => Ahead(p, v)
  <2> HIDE DEF a
  <2> QED
    BY <1>1, AheadParts DEF a
<1>3. PICK s \in ParseHead(src) :
           \/ s.rx # "ok" /\ r = s
           \/ /\ s.rx = "ok" /\ \E rx \in {"item_type_mismatch", "indefinite_item", "item_value_out_of_range"} :
                                  r = Result(s.in, rx, s.value, 0)
              /\ ~(s.value.type = type /\ s.value.value = n /\ ~s.value.ind)
           \/ s.rx = "ok" /\ r = Result(s.in, "ok", s.value, 0)
  BY ExpectHeadIs
<1>4. \/ s.rx \in Faults(src)
      \/ /\ s.rx = "ok" /\ s.in.at = src.at + Len(a)
         /\ s.value.type = type /\ s.value.value = n /\ ~s.value.ind
  BY <1>2, <1>3, HeadRead
<1>5. Onward(src, s.in) /\ s.in \in Inputs
  BY <1>3, ParseHeadTakes DEF Takes, Stays, Onward
<1> HIDE DEF a
<1>6. \A p, rx, w : Result(p, rx, w, 0).rx = rx /\ Result(p, rx, w, 0).in = p
  BY ResultFields
<1>7. CASE s.rx \in Faults(src)
  <2>1. r = s /\ r.rx # "ok"
    BY <1>3, <1>7, NoFaultIsOk, Zenon
  <2> QED
    BY <1>5, <1>7, <2>1, Zenon DEF Reads
<1>8. CASE /\ s.rx = "ok" /\ s.in.at = src.at + Len(a)
           /\ s.value.type = type /\ s.value.value = n /\ ~s.value.ind
  <2>1. r = Result(s.in, "ok", s.value, 0)
    BY <1>3, <1>8, Zenon
  <2>2. r.rx = "ok" /\ r.in = s.in
    BY <1>6, <2>1, Zenon
  <2>3. r.in.at = src.at + Len(a) /\ Ahead(r.in, v) /\ Onward(src, r.in) /\ r.in \in Inputs
    BY <1>2, <1>5, <1>8, <2>2, Zenon
  <2> QED
    BY <2>2, <2>3, Zenon DEF Reads, a
<1> QED
  BY <1>4, <1>7, <1>8

LEMMA ReadsOf ==
  ASSUME NEW src, NEW n, NEW v, NEW p, NEW k
  PROVE  /\ \A rx \in Faults(src) : \A w : Reads(src, n, v, Result(p, rx, w, k))
         /\ p.at = src.at + n => Reads(src, n, v, Result(p, "ok", v, k))
BY ResultFields DEF Reads

(* An outcome that is the value of x, as far as its type shows it          *)
ReadsBack(src, x, r) ==
  \/ r.rx \in Faults(src)
  \/ r.rx = "ok" /\ Shown(x.type, r.value) = x.value /\ r.in.at = src.at + Len(Encoding(x))

LEMMA ReadsBackPlain ==
  ASSUME NEW src, NEW x, x.type.kind # "fixedtext", NEW r
  PROVE  ReadsBack(src, x, r) <=> Reads(src, Len(Encoding(x)), x.value, r)
BY DEF ReadsBack, Reads, Shown

LEMMA StringReads ==
  ASSUME NEW src \in Inputs, NEW x \in Encodable, x.type.kind \in StringKinds,
         NEW d \in Destinations, d.type = x.type,
         Ahead(src, Encoding(x)), NEW g, NEW r \in DecodeWith(src, d, g)
  PROVE  ReadsBack(src, x, r)
<1> DEFINE t == x.type
           v == x.value
           m == Len(v)
           type == StringType(t)
           n == Len(Encoding(x))
           dest == d.value
<1>1. /\ v \in Seq(Bytes) /\ m <= Huge
      /\ t.kind \in {"fixedblob", "uuid"} => m = t.n
      /\ t.kind = "fixedtext" => m <= t.n
      /\ type \in TypeNames /\ type # "special"
      /\ Encoding(x) = HeadBytes(type, m) \o v
  BY StringBytes
<1>2. /\ t.kind \in {"fixedblob", "fixedtext", "uuid"} => t.n \in Nat
      /\ t.kind = "fixedblob" => DOMAIN dest = 1 .. t.n /\ dest = [k \in 1 .. t.n |-> dest[k]]
      /\ t.kind = "fixedtext" =>
           DOMAIN dest.units = 1 .. t.n /\ dest.units = [k \in 1 .. t.n |-> dest.units[k]]
  BY FixedObject
<1>3. MaxSize(t) \in Nat /\ m <= MaxSize(t)
  BY <1>1, <1>2 DEF MaxSize, Huge
<1>4. Ahead(src, HeadBytes(type, m) \o v) /\ m \in Nat
  BY <1>1
<1> DEFINE OkBlob(w, q) == \/ q.rx \in Faults(src)
                           \/ /\ q.rx = "ok" /\ q.n = m /\ IsResult(q) /\ q.in.at = src.at + n
                              /\ q.value = IF IsSpan(t) THEN Overwrite(w, 0, v) ELSE v
<1>5. ASSUME NEW w, IsSpan(t) => m <= Len(w), NEW q \in ParseBlob(src, t, w)
      PROVE  OkBlob(w, q)
  <2> HIDE DEF t, v, dest
  <2>1. n = Len(HeadBytes(type, m) \o v)
    BY <1>1
  <2> HIDE DEF n
  <2> QED
    BY <1>1, <1>3, <1>4, <1>5, <2>1, BlobReads
<1>6. DecodeWith(src, d, g) =
        CASE t.kind = "blob" -> DecodeBlob(src, t, dest)
          [] t.kind = "fixedblob" -> DecodeFixedBlob(src, t, dest)
          [] t.kind = "uuid" -> DecodeUuid(src, t, dest)
          [] t.kind = "text" -> ParseBlob(src, t, dest)
          [] t.kind = "path" -> DecodePath(src, t, dest)
          [] t.kind = "fixedtext" -> DecodeFixedText(src, t, dest)
  BY DecodeByKind DEF StringKinds
<1>8. t.kind \in StringKinds
  OBVIOUS
<1>7. t.kind # "fixedtext" /\ Reads(src, n, v, r) => ReadsBack(src, x, r)
  BY ReadsBackPlain
<1> HIDE DEF t, v, m, type, n, dest
<1>9. ASSUME NEW q, NEW w, OkBlob(w, q), ~IsSpan(t) PROVE Reads(src, n, v, q)
  BY <1>9 DEF Reads
<1>10. ASSUME NEW p, NEW rx \in Faults(src), NEW w, NEW k PROVE Reads(src, n, v, Result(p, rx, w, k))
  BY ReadsOf
<1>11. CASE t.kind = "blob"
  <2> SUFFICES Reads(src, n, v, r)
    BY <1>7, <1>11
  <2>1. ~IsSpan(t) /\ r \in DecodeBlob(src, t, dest)
    BY <1>6, <1>11 DEF IsSpan
  <2>2. PICK s \in ParseBlob(src, t, dest) :
           \/ s.rx = "ok" /\ r = s
           \/ s.rx # "ok" /\ r = Result(s.in, s.rx, <<>>, s.n)
    BY <2>1, DecodeBlobIs
  <2>3. OkBlob(dest, s)
    BY <1>5, <2>1
  <2> QED
    BY <1>9, <1>10, <2>1, <2>2, <2>3, Zenon
<1>12. CASE t.kind = "text"
  <2> SUFFICES Reads(src, n, v, r)
    BY <1>7, <1>12
  <2>1. ~IsSpan(t) /\ r \in ParseBlob(src, t, dest)
    BY <1>6, <1>12 DEF IsSpan
  <2> QED
    BY <1>5, <1>9, <2>1
<1>13. CASE t.kind = "path"
  <2> SUFFICES Reads(src, n, v, r)
    BY <1>7, <1>13
  <2>1. ~IsSpan(t) /\ r \in DecodePath(src, t, dest)
    BY <1>6, <1>13 DEF IsSpan
  <2>2. PICK s \in ParseBlob(src, t, <<>>) :
           \/ s.rx # "ok" /\ r = Result(s.in, s.rx, dest, 0)
           \/ s.rx = "ok" /\ r = s
           \/ s.rx = "ok" /\ r = Result(s.in, "not_enough_memory", dest, 0)
    BY <2>1, DecodePathIs
  <2>3. OkBlob(<<>>, s)
    BY <1>5, <2>1
  <2>4. "not_enough_memory" \in Faults(src)
    BY NoFaultIsOk
  <2> QED
    BY <1>9, <1>10, <2>1, <2>2, <2>3, <2>4, Zenon
<1>14. CASE t.kind = "fixedblob"
  <2> SUFFICES Reads(src, n, v, r)
    BY <1>7, <1>14
  <2>1. IsSpan(t) /\ r \in DecodeFixedBlob(src, t, dest)
    BY <1>6, <1>14 DEF IsSpan
  <2>2. PICK s \in ParseBlob(src, t, dest) :
           \/ s.rx # "ok" /\ r = Result(s.in, s.rx, Default[t], s.n)
           \/ s.rx = "ok" /\ s.n # t.n /\ r = Result(s.in, "tuple_size_mismatch", Default[t], s.n)
           \/ s.rx = "ok" /\ s.n = t.n /\ r = s
    BY <2>1, DecodeFixedBlobIs
  <2>3. m = t.n /\ t.n \in Nat /\ DOMAIN dest = 1 .. t.n
    BY <1>1, <1>2, <1>14 DEF m, t, dest, v
  <2>4. Len(dest) = t.n
    <3>1. dest \in Seq({dest[k] : k \in 1 .. t.n})
      BY <1>2, <1>14, <2>3, LenOf
    <3> QED
      BY <2>3, <3>1
  <2>5. OkBlob(dest, s)
    BY <1>5, <2>2, <2>3, <2>4
  <2>6. Overwrite(dest, 0, v) = v
    BY <1>1, <2>3, OverwriteWhole DEF v, m
  <2>7. CASE s.rx \in Faults(src)
    BY <1>10, <2>2, <2>7, NoFaultIsOk, Zenon
  <2>8. CASE s.rx = "ok" /\ s.n = m /\ s.in.at = src.at + n /\ s.value = v
    BY <2>2, <2>3, <2>8, Zenon DEF Reads
  <2> QED
    BY <2>1, <2>5, <2>6, <2>7, <2>8
<1>15. CASE t.kind = "fixedtext"
  <2> DEFINE w == dest.units
  <2>1. IsSpan(t) /\ r \in DecodeFixedText(src, t, dest)
    BY <1>6, <1>15 DEF IsSpan
  <2>2. PICK s \in ParseBlob(src, t, w) : r = Result(s.in, s.rx, UnitsRead(s), s.n)
    BY <2>1, DecodeFixedTextIs
  <2>3. m <= t.n /\ t.n \in Nat /\ DOMAIN w = 1 .. t.n /\ w = [k \in 1 .. t.n |-> w[k]]
    BY <1>1, <1>2, <1>15 DEF m, t, v
  <2> HIDE DEF w
  <2>4. Len(w) = t.n
    <3>1. w \in Seq({w[k] : k \in 1 .. t.n})
      BY <2>3, LenOf
    <3> QED
      BY <2>3, <3>1
  <2>5. OkBlob(w, s)
    BY <1>5, <2>2, <2>3, <2>4
  <2>6. SubSeq(Overwrite(w, 0, v), 1, m) = v
    BY <1>1, <2>3, OverwriteFront DEF v, m
  <2>7. r.rx = s.rx /\ r.in = s.in /\ r.value = UnitsRead(s)
    BY <2>2, ResultFields
  <2>8. CASE s.rx \in Faults(src)
    BY <1>15, <2>7, <2>8 DEF ReadsBack
  <2>9. CASE s.rx = "ok" /\ s.n = m /\ s.in.at = src.at + n /\ s.value = Overwrite(w, 0, v)
    <3>1. r.value.size = m /\ r.value.units = Overwrite(w, 0, v)
      <4>1. UnitsRead(s).size = s.n /\ UnitsRead(s).units = s.value
        BY <2>9 DEF UnitsRead
      <4> QED
        BY Zenon, <2>7, <2>9, <4>1
    <3>2. Shown(t, r.value) = v
      BY Zenon, <1>15, <2>6, <3>1 DEF Shown
    <3> QED
      BY <1>15, <2>7, <2>9, <3>2 DEF ReadsBack, t, v, n
  <2> QED
    BY <2>1, <2>5, <2>8, <2>9
<1>16. CASE t.kind = "uuid"
  <2> SUFFICES Reads(src, n, v, r)
    BY <1>7, <1>16
  <2>1. r \in DecodeUuid(src, t, dest) /\ type = "binary" /\ m = t.n
    BY <1>1, <1>6, <1>16 DEF StringType, type, t, m, v
  <2>2. PICK s \in ExpectHead(src, "binary", t.n) :
           \/ s.rx # "ok" /\ r = Result(s.in, s.rx, dest, 0)
           \/ /\ s.rx = "ok"
              /\ \E b \in BulkRead(s.in, t.n) : \/ b.rx # "ok" /\ r = Result(b.in, b.rx, dest, 0)
                                                \/ b.rx = "ok" /\ r = b
    BY <2>1, DecodeUuidIs
  <2>3. /\ Reads(src, Len(HeadBytes(type, m)), s.value, s) /\ Onward(src, s.in)
        /\ s.rx = "ok" => s.in \in Inputs /\ Ahead(s.in, v)
    BY <1>1, <1>4, <2>1, <2>2, HeadExpected DEF v, m, type
  <2>4. n = Len(HeadBytes(type, m)) + m /\ Len(HeadBytes(type, m)) \in Nat /\ src.at \in Nat
    <3>1. HeadBytes(type, m) \in Seq(Bytes)
      BY <1>1, <1>4, HeadLength DEF type, m
    <3> QED
      BY <1>1, <3>1, ConcatIs, InputIs DEF n, v, m, type
  <2>5. CASE s.rx \in Faults(src)
    BY <1>10, <2>2, <2>5, NoFaultIsOk, Zenon
  <2>6. CASE s.rx = "ok" /\ s.in.at = src.at + Len(HeadBytes(type, m))
    <3>1. PICK b \in BulkRead(s.in, t.n) : \/ b.rx # "ok" /\ r = Result(b.in, b.rx, dest, 0)
                                           \/ b.rx = "ok" /\ r = b
      BY <2>2, <2>6
    <3>2. Reads(s.in, m, v, b)
      BY <1>1, <2>1, <2>3, <2>6, <3>1, ReadReads DEF m, v
    <3>3. Faults(s.in) = Faults(src)
      BY <2>3, FaultsStay
    <3>4. \/ b.rx \in Faults(src)
          \/ b.rx = "ok" /\ b.value = v /\ b.in.at = src.at + n
      BY <1>4, <2>4, <2>6, <3>2, <3>3 DEF Reads
    <3>5. CASE b.rx \in Faults(src)
      BY <1>10, <3>1, <3>5, NoFaultIsOk, Zenon
    <3>6. CASE b.rx = "ok" /\ b.value = v /\ b.in.at = src.at + n
      BY <3>1, <3>6 DEF Reads
    <3> QED
      BY <3>4, <3>5, <3>6
  <2> QED
    BY <2>3, <2>5, <2>6 DEF Reads
<1> QED
  BY <1>8, <1>11, <1>12, <1>13, <1>14, <1>15, <1>16 DEF StringKinds

LEMMA SameRange ==
  ASSUME NEW n \in Nat, NEW m \in Nat, 1 .. n = 1 .. m
  PROVE  n = m
<1>1. n > m => n \in 1 .. n /\ n \notin 1 .. m
  OBVIOUS
<1>2. m > n => m \in 1 .. m /\ m \notin 1 .. n
  OBVIOUS
<1> QED
  BY <1>1, <1>2

-----------------------------------------------------------------------------
(* The elements of a container, and the destination after some of them     *)

LEMMA SetToSeqIs ==
  ASSUME NEW S, IsFiniteSet(S)
  PROVE  LET ks == SetToSeq(S) IN
         /\ ks \in Seq(S) /\ Len(ks) = Cardinality(S) /\ Cardinality(S) \in Nat
         /\ \A i, j \in 1 .. Len(ks) : ks[i] = ks[j] => i = j
         /\ S = {ks[j] : j \in 1 .. Len(ks)}
<1> DEFINE n == Cardinality(S)
           ks == SetToSeq(S)
<1>1. n \in Nat /\ ExistsBijection(1 .. n, S)
  BY FS_CardinalityType
<1>2. PICK f : f \in [1 .. n -> S] /\ IsInjective(f)
  BY <1>1 DEF ExistsBijection, Bijection, Injection
<1>3. ks \in [1 .. n -> S] /\ IsInjective(ks)
  BY <1>2 DEF SetToSeq
<1> HIDE DEF ks
<1>4. ks \in Injection(1 .. n, S) /\ IsFiniteSet(1 .. n) /\ Cardinality(1 .. n) = n
  <2>1. IsFiniteSet(1 .. n) /\ Cardinality(1 .. n) = IF 1 > n THEN 0 ELSE n - 1 + 1
    <3> HIDE DEF n
    <3> QED
      BY <1>1, FS_Interval
  <2> HIDE DEF n
  <2>2. Cardinality(1 .. n) = n
    BY <1>1, <2>1
  <2> QED
    BY <1>3, <2>1, <2>2 DEF Injection
<1>5. ks \in Surjection(1 .. n, S)
  <2> DEFINE D == 1 .. n
  <2>1. ks \in Injection(D, S) /\ Cardinality(D) = Cardinality(S)
    BY <1>4
  <2> HIDE DEF D
  <2>2. ks \in Surjection(D, S)
    BY <2>1, FS_Injection
  <2> QED
    BY <2>2 DEF D
<1> HIDE DEF n
<1>6. \A y \in S : \E j \in 1 .. n : ks[j] = y
  BY <1>5 DEF Surjection
<1>7. ks \in Seq(S) /\ Len(ks) = n
  BY <1>1, <1>3
<1>8. S = {ks[j] : j \in 1 .. n}
  BY <1>3, <1>6
<1>9. \A i, j \in 1 .. n : ks[i] = ks[j] => i = j
  BY <1>3 DEF IsInjective
<1> QED
  BY <1>1, <1>7, <1>8, <1>9 DEF ks, n

(* The keys of a set or a map in the order of its iteration                *)
Keys(x) == SetToSeq(IF x.type.kind = "set" THEN x.value ELSE DOMAIN x.value)

Linear == {"vector", "array", "tuple"}

LEMMA LinearIs ==
  ASSUME NEW x \in Encodable, x.type.kind \in Linear,
         x.type.kind \in {"array", "tuple"} => x.type.n \in Nat
  PROVE  LET n == NumElements(x)  v == x.value IN
         /\ n \in Nat /\ n <= Huge /\ Len(Parts(x)) = n /\ v = [j \in 1 .. n |-> v[j]]
         /\ x.type.kind \in {"array", "tuple"} => n = x.type.n
         /\ \A k \in 1 .. n :
              /\ Parts(x)[k].value = v[k]
              /\ Parts(x)[k].type = x.type.of[IF x.type.kind = "tuple" THEN k ELSE 1]
<1> DEFINE n == NumElements(x)
           v == x.value
           t == x.type
           p == Parts(x)
<1>1. /\ p \in Seq(Encodable) /\ n \in Nat /\ n <= Huge /\ n = Len(p) /\ IsFunction(v)
      /\ t.kind \in {"array", "tuple"} => DOMAIN v = 1 .. t.n
  <2>1. HasType(x)
    BY NestingAssumption
  <2>2. n = Len(p)
    BY DEF NumElements, Linear
  <2>3. /\ Parts(x) \in Seq(Encodable) /\ NumElements(x) \in 0 .. Huge
        /\ t.kind \in {"vector", "map", "array", "tuple"} => IsFunction(v)
        /\ t.kind \in {"array", "tuple"} => DOMAIN v = 1 .. t.n
    BY <2>1 DEF HasType, Linear, IntegerKinds, StringKinds
  <2>4. Huge \in Nat
    BY DEF Huge
  <2> HIDE DEF n, v, t, p
  <2>5. p \in Seq(Encodable) /\ n \in 0 .. Huge
    BY <2>3 DEF n, p
  <2> QED
    BY <2>2, <2>3, <2>4, <2>5 DEF t, Linear
<1>2. p = [k \in DOMAIN v |-> [type |-> t.of[IF t.kind = "tuple" THEN k ELSE 1], value |-> v[k]]]
  <2>1. CASE t.kind = "tuple"
    BY <2>1 DEF Parts
  <2>2. CASE t.kind \in {"vector", "array"}
    BY <2>2 DEF Parts
  <2> QED
    BY <2>1, <2>2 DEF Linear
<1> HIDE DEF n, v, t, p
<1>3. DOMAIN v = 1 .. n
  <2>1. DOMAIN p = 1 .. n
    BY <1>1
  <2>2. DOMAIN p = DOMAIN v
    BY <1>2, Zenon
  <2> QED
    BY <2>1, <2>2
<1>4. v = [j \in 1 .. n |-> v[j]]
  BY <1>1, <1>3 DEF IsFunction
<1>5. t.kind \in {"array", "tuple"} => n = t.n
  <2> SUFFICES ASSUME t.kind \in {"array", "tuple"} PROVE n = t.n
    OBVIOUS
  <2> DEFINE m == t.n
  <2>1. m \in Nat /\ 1 .. n = 1 .. m
    BY <1>1, <1>3 DEF t
  <2> HIDE DEF m
  <2>4. n = m
    BY <1>1, <2>1, SameRange
  <2> QED
    BY <2>4 DEF m
<1>6. \A k \in 1 .. n : p[k].value = v[k] /\ p[k].type = t.of[IF t.kind = "tuple" THEN k ELSE 1]
  BY <1>2, <1>3
<1> QED
  BY <1>1, <1>4, <1>5, <1>6 DEF n, v, t, p

LEMMA KeysAre ==
  ASSUME NEW x \in Encodable, x.type.kind \in {"set", "map"}
  PROVE  LET n == NumElements(x)  v == x.value  ks == Keys(x) IN
         /\ n \in Nat /\ n <= Huge /\ Len(ks) = n
         /\ \A i, j \in 1 .. n : ks[i] = ks[j] => i = j
         /\ (IF x.type.kind = "set" THEN v ELSE DOMAIN v) = {ks[j] : j \in 1 .. n}
         /\ x.type.kind = "map" => v = [y \in DOMAIN v |-> v[y]]
<1> DEFINE v == x.value
           S == IF x.type.kind = "set" THEN v ELSE DOMAIN v
           ks == SetToSeq(S)
           n == NumElements(x)
<1>1. /\ IsFiniteSet(S) /\ n \in 0 .. Huge /\ Parts(x) \in Seq(Encodable)
      /\ x.type.kind = "map" => v = [y \in DOMAIN v |-> v[y]]
  <2>1. HasType(x)
    BY NestingAssumption
  <2> QED
    BY <2>1 DEF HasType, IntegerKinds, StringKinds, IsFunction
<1> HIDE DEF S
<1>2. /\ ks \in Seq(S) /\ Len(ks) = Cardinality(S) /\ Cardinality(S) \in Nat
      /\ \A i, j \in 1 .. Len(ks) : ks[i] = ks[j] => i = j
      /\ S = {ks[j] : j \in 1 .. Len(ks)}
  BY <1>1, SetToSeqIs
<1>3. n = Len(ks)
  <2>1. CASE x.type.kind = "map"
    <3>1. S = DOMAIN v
      BY <2>1 DEF S
    <3>2. n = Cardinality(DOMAIN x.value)
      BY <2>1 DEF NumElements
    <3> QED
      BY <1>2, <3>1, <3>2
  <2>2. CASE x.type.kind = "set"
    <3> DEFINE p == Parts(x)
    <3>1. S = v
      BY <2>2 DEF S
    <3>2. p = [k \in DOMAIN ks |-> [type |-> x.type.of[1], value |-> ks[k]]] /\ n = Len(p)
      BY <2>2, <3>1 DEF Parts, NumElements
    <3>3. p \in Seq(Encodable)
      BY <1>1
    <3> HIDE DEF p, ks, n
    <3>4. DOMAIN p = 1 .. Len(ks) /\ DOMAIN p = 1 .. Len(p)
      BY <1>2, <3>2, <3>3
    <3>5. Len(p) = Len(ks)
      BY <1>2, <3>3, <3>4, SameRange
    <3> QED
      BY <3>2, <3>5
  <2> QED
    BY <2>1, <2>2
<1>4. n \in Nat /\ n <= Huge
  <2> HIDE DEF n
  <2>1. Huge \in Nat
    BY DEF Huge
  <2> QED
    BY <1>1, <2>1
<1>5. Keys(x) = ks
  BY DEF Keys, S
<1> HIDE DEF ks, n
<1> QED
  BY <1>1, <1>2, <1>3, <1>4, <1>5 DEF S, n, v

LEMMA KeyedParts ==
  ASSUME NEW x \in Encodable, x.type.kind \in {"set", "map"}
  PROVE  LET n == NumElements(x)  ks == Keys(x) IN
         /\ x.type.kind = "set" =>
              /\ Len(Parts(x)) = n
              /\ \A k \in 1 .. n : Parts(x)[k].type = x.type.of[1] /\ Parts(x)[k].value = ks[k]
         /\ x.type.kind = "map" =>
              /\ Len(Parts(x)) = 2 * n
              /\ \A i \in 0 .. n - 1 :
                   /\ Parts(x)[2 * i + 1].type = x.type.of[1]
                   /\ Parts(x)[2 * i + 1].value = ks[i + 1]
                   /\ Parts(x)[2 * i + 2].type = x.type.of[2]
                   /\ Parts(x)[2 * i + 2].value = x.value[ks[i + 1]]
<1> DEFINE n == NumElements(x)
           ks == Keys(x)
           p == Parts(x)
           v == x.value
           t == x.type
<1>1. n \in Nat /\ Len(ks) = n /\ p \in Seq(Encodable) /\ DOMAIN ks = 1 .. n
  <2>1. HasType(x)
    BY NestingAssumption
  <2>2. p \in Seq(Encodable)
    BY <2>1 DEF HasType, IntegerKinds, StringKinds
  <2>3. n \in Nat /\ Len(ks) = n
    BY KeysAre
  <2>4. \E S : ks \in Seq(S)
    <3>1. IsFiniteSet(IF t.kind = "set" THEN v ELSE DOMAIN v)
      BY <2>1 DEF HasType, IntegerKinds, StringKinds
    <3> QED
      BY <3>1, SetToSeqIs DEF Keys
  <2> HIDE DEF n, ks, p
  <2> QED
    BY <2>2, <2>3, <2>4
<1>2. ASSUME t.kind = "set"
      PROVE  /\ Len(p) = n
             /\ \A k \in 1 .. n : p[k].type = t.of[1] /\ p[k].value = ks[k]
  <2>1. p = [k \in DOMAIN ks |-> [type |-> t.of[1], value |-> ks[k]]]
    BY <1>2 DEF Parts, Keys
  <2> HIDE DEF n, ks, p, t
  <2>2. DOMAIN p = 1 .. n /\ DOMAIN p = 1 .. Len(p) /\ Len(p) \in Nat
    BY <1>1, <2>1
  <2>3. Len(p) = n
    BY <1>1, <2>2, SameRange
  <2> QED
    BY <1>1, <2>1, <2>3
<1>3. ASSUME t.kind = "map"
      PROVE  /\ Len(p) = 2 * n
             /\ \A i \in 0 .. n - 1 :
                  /\ p[2 * i + 1].type = t.of[1] /\ p[2 * i + 1].value = ks[i + 1]
                  /\ p[2 * i + 2].type = t.of[2] /\ p[2 * i + 2].value = v[ks[i + 1]]
  <2> DEFINE Part(of, w) == [type |-> of, value |-> w]
             Of(k) == LET key == ks[(k + 1) \div 2] IN
                      IF k % 2 = 1 THEN Part(t.of[1], key) ELSE Part(t.of[2], v[key])
  <2>1. p = [k \in 1 .. 2 * Len(ks) |-> Of(k)]
    BY <1>3 DEF Parts, Keys
  <2> HIDE DEF n, ks, p, t, v, Of
  <2>2. DOMAIN p = 1 .. 2 * n /\ DOMAIN p = 1 .. Len(p) /\ Len(p) \in Nat /\ 2 * n \in Nat
    BY <1>1, <2>1
  <2>3. Len(p) = 2 * n
    BY <2>2, SameRange
  <2>4. ASSUME NEW i \in 0 .. n - 1
        PROVE  p[2 * i + 1] = Part(t.of[1], ks[i + 1]) /\ p[2 * i + 2] = Part(t.of[2], v[ks[i + 1]])
    <3>1. 2 * i + 1 \in 1 .. 2 * Len(ks) /\ 2 * i + 2 \in 1 .. 2 * Len(ks)
      BY <1>1
    <3>2. (2 * i + 1 + 1) \div 2 = i + 1 /\ (2 * i + 1) % 2 = 1
      OBVIOUS
    <3>3. (2 * i + 2 + 1) \div 2 = i + 1 /\ (2 * i + 2) % 2 = 0
      OBVIOUS
    <3>4. p[2 * i + 1] = Of(2 * i + 1) /\ p[2 * i + 2] = Of(2 * i + 2)
      BY <2>1, <3>1
    <3>5. Of(2 * i + 1) = Part(t.of[1], ks[i + 1])
      BY <3>2, Zenon DEF Of
    <3>6. 0 # 1
      OBVIOUS
    <3>7. Of(2 * i + 2) = Part(t.of[2], v[ks[i + 1]])
      BY <3>3, <3>6, Zenon DEF Of
    <3> QED
      BY <3>4, <3>5, <3>7, Zenon
  <2>5. \A of, w : Part(of, w).type = of /\ Part(of, w).value = w
    OBVIOUS
  <2> HIDE DEF Part
  <2>6. ASSUME NEW i \in 0 .. n - 1
        PROVE  /\ p[2 * i + 1].type = t.of[1] /\ p[2 * i + 1].value = ks[i + 1]
               /\ p[2 * i + 2].type = t.of[2] /\ p[2 * i + 2].value = v[ks[i + 1]]
    BY <2>4, <2>5
  <2> QED
    BY <2>3, <2>6
<1> QED
  BY <1>2, <1>3

(* What a destination holds after k elements                               *)
FirstElements(x, k) == [j \in 1 .. k |-> x.value[j]]
FirstKeys(x, k) == {Keys(x)[j] : j \in 1 .. k}
FirstPairs(x, k) == [y \in FirstKeys(x, k) |-> x.value[y]]
FirstMembers(d, x, k) ==
  [j \in 1 .. d.type.n |-> IF j <= k THEN x.value[j] ELSE d.value[j]]

Filled(d, x, k) ==
  CASE d.type.kind = "vector" -> FirstElements(x, k)
    [] d.type.kind = "set" -> FirstKeys(x, k)
    [] d.type.kind = "map" -> FirstPairs(x, k)
    [] d.type.kind \in {"array", "tuple"} -> FirstMembers(d, x, k)

(* What it holds before the first                                          *)
Cleared(d) ==
  CASE d.type.kind = "set" -> {}
    [] d.type.kind \in {"vector", "map"} -> <<>>
    [] d.type.kind \in {"array", "tuple"} -> d.value

LEMMA FilledByKind ==
  ASSUME NEW d, NEW x, NEW k
  PROVE  /\ d.type.kind = "vector" => Filled(d, x, k) = FirstElements(x, k) /\ Cleared(d) = <<>>
         /\ d.type.kind = "set" => Filled(d, x, k) = FirstKeys(x, k) /\ Cleared(d) = {}
         /\ d.type.kind = "map" => Filled(d, x, k) = FirstPairs(x, k) /\ Cleared(d) = <<>>
         /\ d.type.kind \in {"array", "tuple"} =>
              Filled(d, x, k) = FirstMembers(d, x, k) /\ Cleared(d) = d.value
BY DEF Filled, Cleared

LEMMA FilledFirst ==
  ASSUME NEW d \in Destinations, NEW x, d.type.kind \in ContainerKinds
  PROVE  Filled(d, x, 0) = Cleared(d)
<1>1. 1 .. 0 = {} /\ \A f : DOMAIN f = {} /\ f = [y \in DOMAIN f |-> f[y]] => f = <<>>
  OBVIOUS
<1>2. FirstKeys(x, 0) = {}
  BY <1>1 DEF FirstKeys
<1>3. FirstElements(x, 0) = <<>>
  BY DEF FirstElements
<1>4. FirstPairs(x, 0) = <<>>
  <2> DEFINE f == FirstPairs(x, 0)
  <2>1. DOMAIN f = {} /\ f = [y \in DOMAIN f |-> f[y]]
    BY <1>2, Zenon DEF FirstPairs
  <2> HIDE DEF f
  <2>2. f = <<>>
    BY <1>1, <2>1
  <2> QED
    BY <2>2 DEF f
<1>5. d.type.kind \in {"array", "tuple"} => FirstMembers(d, x, 0) = d.value
  <2> SUFFICES ASSUME d.type.kind \in {"array", "tuple"} PROVE FirstMembers(d, x, 0) = d.value
    OBVIOUS
  <2>1. d.type.n \in Nat /\ d.value = [k \in 1 .. d.type.n |-> d.value[k]]
    BY FixedObject
  <2>2. \A j \in 1 .. d.type.n : ~(j <= 0)
    BY <2>1
  <2>3. FirstMembers(d, x, 0) = [j \in 1 .. d.type.n |-> d.value[j]]
    BY <2>2, Zenon DEF FirstMembers
  <2> QED
    BY <2>1, <2>3
<1>6. \/ d.type.kind = "vector"
      \/ d.type.kind = "set"
      \/ d.type.kind = "map"
      \/ d.type.kind \in {"array", "tuple"}
  BY DEF ContainerKinds
<1> QED
  BY <1>2, <1>3, <1>4, <1>5, <1>6, FilledByKind

LEMMA FilledLast ==
  ASSUME NEW d \in Destinations, NEW x \in Encodable, x.type = d.type, d.type.kind \in ContainerKinds
  PROVE  Filled(d, x, NumElements(x)) = x.value
<1> DEFINE n == NumElements(x)
           v == x.value
<1>1. CASE d.type.kind = "vector"
  <2>1. v = [j \in 1 .. n |-> v[j]]
    BY <1>1, LinearIs DEF Linear
  <2> QED
    BY <1>1, <2>1, FilledByKind DEF FirstElements
<1>2. CASE d.type.kind \in {"array", "tuple"}
  <2>1. d.type.n \in Nat
    BY <1>2, FixedObject
  <2>2. v = [j \in 1 .. n |-> v[j]] /\ n = d.type.n
    BY <1>2, <2>1, LinearIs DEF Linear
  <2> HIDE DEF v, n
  <2>3. \A j \in 1 .. n : j <= n
    BY <2>1, <2>2
  <2>4. FirstMembers(d, x, n) = [j \in 1 .. n |-> v[j]]
    BY <2>2, <2>3, Zenon DEF FirstMembers, v
  <2>6. Filled(d, x, n) = FirstMembers(d, x, n)
    BY <1>2, FilledByKind
  <2>5. Filled(d, x, n) = v
    BY <2>2, <2>4, <2>6, Zenon
  <2> QED
    BY <2>5 DEF v, n
<1>3. CASE d.type.kind = "set"
  <2>1. x.type.kind = "set"
    BY <1>3
  <2>3. (IF x.type.kind = "set" THEN v ELSE DOMAIN v) = {Keys(x)[j] : j \in 1 .. n}
    BY <2>1, KeysAre, Zenon
  <2>4. v = {Keys(x)[j] : j \in 1 .. n}
    BY <2>1, <2>3, Zenon
  <2> QED
    BY <1>3, <2>4, FilledByKind DEF FirstKeys
<1>4. CASE d.type.kind = "map"
  <2>1. DOMAIN v = {Keys(x)[j] : j \in 1 .. n} /\ v = [y \in DOMAIN v |-> v[y]]
    BY <1>4, KeysAre
  <2>2. FirstKeys(x, n) = DOMAIN v
    BY <2>1 DEF FirstKeys
  <2>3. FirstPairs(x, n) = v
    BY <2>1, <2>2, Zenon DEF FirstPairs
  <2> QED
    BY <1>4, <2>3, FilledByKind
<1> QED
  BY <1>1, <1>2, <1>3, <1>4 DEF ContainerKinds

(* One more element                                                        *)
LEMMA FilledNext ==
  ASSUME NEW d \in Destinations, NEW x \in Encodable, x.type = d.type, d.type.kind \in ContainerKinds,
         NEW k \in Nat, k < NumElements(x)
  PROVE  /\ d.type.kind = "vector" => Longer(Filled(d, x, k), x.value[k + 1]) = Filled(d, x, k + 1)
         /\ d.type.kind \in {"array", "tuple"} =>
              Placed(Filled(d, x, k), k + 1, x.value[k + 1]) = Filled(d, x, k + 1)
         /\ d.type.kind = "set" =>
              /\ Keys(x)[k + 1] \notin Filled(d, x, k)
              /\ Filled(d, x, k) \union {Keys(x)[k + 1]} = Filled(d, x, k + 1)
         /\ d.type.kind = "map" =>
              /\ Keys(x)[k + 1] \notin DOMAIN Filled(d, x, k)
              /\ WithEntry(Filled(d, x, k), Keys(x)[k + 1], x.value[Keys(x)[k + 1]]) = Filled(d, x, k + 1)
<1> DEFINE n == NumElements(x)
           v == x.value
           ks == Keys(x)
           y == ks[k + 1]
<1>1. \A j \in Nat : j <= k + 1 <=> j <= k \/ j = k + 1
  OBVIOUS
<1>2. 1 .. k + 1 = (1 .. k) \union {k + 1} /\ k + 1 \notin 1 .. k
  OBVIOUS
<1>3. ASSUME d.type.kind = "vector"
      PROVE  Longer(FirstElements(x, k), v[k + 1]) = FirstElements(x, k + 1)
  <2> DEFINE a == FirstElements(x, k)
             b == FirstElements(x, k + 1)
             S == {v[j] : j \in 1 .. k + 1}
  <2>1. a \in [1 .. k -> S] /\ b \in [1 .. k + 1 -> S]
    BY <1>2 DEF FirstElements
  <2>2. \A j \in 1 .. k : a[j] = v[j]
    BY DEF FirstElements
  <2>3. \A j \in 1 .. k + 1 : b[j] = v[j]
    BY DEF FirstElements
  <2>4. v[k + 1] \in S
    BY <1>2
  <2> HIDE DEF a, b, S, v
  <2>5. a \in Seq(S) /\ Len(a) = k /\ b \in Seq(S) /\ Len(b) = k + 1
    BY <2>1
  <2> DEFINE w == v[k + 1]
  <2>6. b[k + 1] = w
    BY <2>3 DEF w
  <2> HIDE DEF w
  <2> DEFINE c == Append(a, w)
  <2>7. c \in Seq(S) /\ Len(c) = k + 1 /\ c[k + 1] = w /\ \A j \in 1 .. k : c[j] = a[j]
    BY <2>4, <2>5 DEF w
  <2> HIDE DEF c
  <2>8. \A j \in 1 .. k + 1 : c[j] = b[j]
    BY <1>2, <2>2, <2>3, <2>6, <2>7
  <2>9. c = b
    BY <2>5, <2>7, <2>8, SeqEqual
  <2> QED
    BY <2>9 DEF Longer, a, b, c, w, v
<1>4. ASSUME d.type.kind \in {"array", "tuple"}
      PROVE  Placed(FirstMembers(d, x, k), k + 1, v[k + 1]) = FirstMembers(d, x, k + 1)
  <2> DEFINE m == d.type.n
             a == FirstMembers(d, x, k)
  <2>1. m \in Nat
    BY <1>4, FixedObject
  <2>2. DOMAIN a = 1 .. m /\ \A j \in 1 .. m : a[j] = IF j <= k THEN v[j] ELSE d.value[j]
    BY Zenon DEF FirstMembers
  <2> HIDE DEF a, m
  <2>3. Placed(a, k + 1, v[k + 1]) = [j \in 1 .. m |-> IF j = k + 1 THEN v[k + 1] ELSE a[j]]
    BY <2>2, Zenon DEF Placed
  <2>4. \A j \in 1 .. m : (IF j = k + 1 THEN v[k + 1] ELSE a[j])
                            = IF j <= k + 1 THEN v[j] ELSE d.value[j]
    BY <1>1, <2>1, <2>2
  <2>5. Placed(a, k + 1, v[k + 1]) = [j \in 1 .. m |-> IF j <= k + 1 THEN v[j] ELSE d.value[j]]
    BY <2>3, <2>4, Zenon
  <2> QED
    BY <2>5, Zenon DEF FirstMembers, a, m
<1>5. ASSUME d.type.kind \in {"set", "map"}
      PROVE  /\ y \notin FirstKeys(x, k)
             /\ FirstKeys(x, k) \union {y} = FirstKeys(x, k + 1)
             /\ FirstKeys(x, k) \subseteq FirstKeys(x, k + 1)
  <2>1. n \in Nat /\ \A i, j \in 1 .. n : ks[i] = ks[j] => i = j
    BY <1>5, KeysAre
  <2>2. \A j \in 1 .. k : j \in 1 .. n /\ k + 1 \in 1 .. n /\ j # k + 1
    BY <2>1
  <2> HIDE DEF ks, n
  <2>3. ASSUME NEW j \in 1 .. k PROVE ks[j] # ks[k + 1]
    BY <2>1, <2>2
  <2>4. y \notin {ks[j] : j \in 1 .. k}
    BY <2>3
  <2>5. {ks[j] : j \in 1 .. k} \union {y} = {ks[j] : j \in 1 .. k + 1}
    BY <1>2
  <2>6. FirstKeys(x, k) = {ks[j] : j \in 1 .. k} /\ FirstKeys(x, k + 1) = {ks[j] : j \in 1 .. k + 1}
    BY Zenon DEF FirstKeys, ks
  <2> QED
    BY <2>4, <2>5, <2>6
<1>6. ASSUME d.type.kind = "map"
      PROVE  /\ y \notin DOMAIN FirstPairs(x, k)
             /\ WithEntry(FirstPairs(x, k), y, v[y]) = FirstPairs(x, k + 1)
  <2> DEFINE a == FirstKeys(x, k)
             f == FirstPairs(x, k)
  <2>1. y \notin a /\ a \union {y} = FirstKeys(x, k + 1)
    BY <1>5, <1>6
  <2>2. DOMAIN f = a /\ \A z \in a : f[z] = v[z]
    BY Zenon DEF FirstPairs
  <2> HIDE DEF a, f, y, v
  <2>3. WithEntry(f, y, v[y]) = [z \in a \union {y} |-> IF z \in a THEN f[z] ELSE v[y]]
    BY <2>2, Zenon DEF WithEntry
  <2>4. \A z \in a \union {y} : (IF z \in a THEN f[z] ELSE v[y]) = v[z]
    BY <2>1, <2>2
  <2>5. WithEntry(f, y, v[y]) = [z \in FirstKeys(x, k + 1) |-> v[z]]
    BY <2>1, <2>3, <2>4, Zenon
  <2> QED
    BY <2>1, <2>2, <2>5, Zenon DEF FirstPairs, f, v
<1> HIDE DEF y, v
<1>7. y = Keys(x)[k + 1] /\ v = x.value
  BY DEF y, v
<1> QED
  BY <1>3, <1>4, <1>5, <1>6, <1>7, FilledByKind

(* Where the parts that are put end to end lie                             *)
LEMMA LengthsOf ==
  ASSUME NEW s \in Seq(Seq(Bytes)), NEW f, IsFlattening(f, Bytes, s)
  PROVE  /\ Len(s) \in Nat /\ Len(f[0]) = 0
         /\ \A k \in 0 .. Len(s) : f[k] \in Seq(Bytes) /\ Len(f[k]) \in Nat
         /\ \A k \in 1 .. Len(s) : /\ s[k] \in Seq(Bytes) /\ Len(s[k]) \in Nat
                                   /\ f[k] = f[k - 1] \o s[k]
                                   /\ Len(f[k]) = Len(f[k - 1]) + Len(s[k])
<1> DEFINE n == Len(s)
<1>0. n \in Nat /\ DOMAIN s = 1 .. n /\ \A k \in 1 .. n : s[k] \in Seq(Bytes)
  OBVIOUS
<1>1. n \in Nat /\ f[0] = <<>> /\ \A k \in 0 .. n : f[k] \in Seq(Bytes)
  <2>1. f \in [0 .. n -> Seq(Bytes)] /\ f[0] = <<>>
    BY DEF IsFlattening
  <2> HIDE DEF n
  <2> QED
    BY <1>0, <2>1
<1>2. Len(f[0]) = 0
  BY <1>1, EmptyIsUnit
<1>3. \A k \in 0 .. Len(s) : f[k] \in Seq(Bytes) /\ Len(f[k]) \in Nat
  BY <1>1
<1>4. ASSUME NEW k \in 1 .. n
      PROVE  /\ s[k] \in Seq(Bytes) /\ Len(s[k]) \in Nat /\ f[k] = f[k - 1] \o s[k]
             /\ Len(f[k]) = Len(f[k - 1]) + Len(s[k])
  <2>1. k - 1 \in 0 .. n /\ s[k] \in Seq(Bytes)
    BY <1>0
  <2>3. f[k] = f[k - 1] \o s[k]
    BY DEF IsFlattening
  <2>2. f[k - 1] \in Seq(Bytes)
    BY <1>1, <2>1
  <2> QED
    BY <2>1, <2>2, <2>3, ConcatIs
<1> QED
  BY <1>1, <1>2, <1>3, <1>4

(* Each of them has a byte at least.                                       *)
LEMMA PartsHaveBytes ==
  ASSUME NEW s \in Seq(Seq(Bytes)), NEW f, IsFlattening(f, Bytes, s),
         \A k \in 1 .. Len(s) : Len(s[k]) >= 1
  PROVE  \A k \in 0 .. Len(s) : Len(f[k]) >= k
<1> DEFINE T == {k \in Nat : k <= Len(s) => Len(f[k]) >= k}
<1>1. 0 \in T
  BY LengthsOf
<1>2. ASSUME NEW k \in Nat, k \in T PROVE k + 1 \in T
  <2> SUFFICES ASSUME k + 1 <= Len(s) PROVE Len(f[k + 1]) >= k + 1
    OBVIOUS
  <2>1. Len(s) \in Nat
    BY LengthsOf
  <2>2. k + 1 \in 1 .. Len(s) /\ k \in 0 .. Len(s) /\ (k + 1) - 1 = k /\ k <= Len(s)
    BY <2>1
  <2>3. Len(f[k + 1]) = Len(f[k]) + Len(s[k + 1]) /\ Len(f[k]) \in Nat /\ Len(s[k + 1]) \in Nat
    BY <2>2, LengthsOf
  <2>4. Len(f[k]) >= k
    BY <1>2, <2>2
  <2>5. Len(s[k + 1]) >= 1
    BY <2>2
  <2>6. \A a, b \in Nat : a >= k /\ b >= 1 => a + b >= k + 1
    OBVIOUS
  <2> QED
    BY <2>3, <2>4, <2>5, <2>6, Zenon
<1> HIDE DEF T
<1>3. \A k \in Nat : k \in T
  BY <1>1, <1>2, NumberInduction
<1>4. \A k \in Nat : k <= Len(s) => Len(f[k]) >= k
  BY <1>3 DEF T
<1> QED
  BY <1>4

(* An input that shows them all shows each of them where it begins, and    *)
(* behind the last what follows.                                           *)
LEMMA PartsAhead ==
  ASSUME NEW src \in Inputs, NEW s \in Seq(Seq(Bytes)), NEW f, IsFlattening(f, Bytes, s),
         NEW c \in Seq(Bytes), Ahead(src, f[Len(s)] \o c)
  PROVE  \A p : Onward(src, p) =>
           /\ \A k \in 1 .. Len(s) : p.at = src.at + Len(f[k - 1]) => Ahead(p, s[k])
           /\ p.at = src.at + Len(f[Len(s)]) => Ahead(p, c)
<1> DEFINE n == Len(s)
<1>1. n \in Nat /\ f[n] \in Seq(Bytes)
  <2>1. n \in Nat /\ \A k \in 0 .. n : f[k] \in Seq(Bytes)
    BY LengthsOf
  <2> HIDE DEF n
  <2> QED
    BY <2>1
<1>2. Ahead(src, f[n]) /\ \A p : Onward(src, p) /\ p.at = src.at + Len(f[n]) => Ahead(p, c)
  BY <1>1, AheadParts
<1> DEFINE T == {k \in Nat : k <= n => Ahead(src, f[n - k])}
<1>3. 0 \in T
  BY <1>1, <1>2
<1>4. ASSUME NEW k \in Nat, k \in T PROVE k + 1 \in T
  <2> SUFFICES ASSUME k + 1 <= n PROVE Ahead(src, f[n - (k + 1)])
    OBVIOUS
  <2>1. n - k \in 1 .. n /\ (n - k) - 1 = n - (k + 1) /\ n - (k + 1) \in 0 .. n /\ k <= n
    BY <1>1
  <2>2. f[n - k] = f[n - (k + 1)] \o s[n - k] /\ s[n - k] \in Seq(Bytes) /\ f[n - (k + 1)] \in Seq(Bytes)
    BY <2>1, LengthsOf
  <2>3. Ahead(src, f[n - k])
    BY <1>4, <2>1
  <2>4. Ahead(src, f[n - (k + 1)] \o s[n - k])
    BY <2>2, <2>3
  <2> QED
    BY <2>2, <2>4, AheadParts
<1> HIDE DEF T
<1>5. \A k \in Nat : k \in T
  BY <1>3, <1>4, NumberInduction
<1>6. \A k \in 0 .. n : Ahead(src, f[k])
  <2> SUFFICES ASSUME NEW k \in 0 .. n PROVE Ahead(src, f[k])
    OBVIOUS
  <2>1. n - k \in Nat /\ n - k <= n /\ n - (n - k) = k
    BY <1>1
  <2> QED
    BY <1>5, <2>1 DEF T
<1>7. ASSUME NEW p, Onward(src, p), NEW k \in 1 .. n, p.at = src.at + Len(f[k - 1])
      PROVE  Ahead(p, s[k])
  <2>1. k - 1 \in 0 .. n /\ k \in 0 .. n
    BY <1>1
  <2>2. f[k] = f[k - 1] \o s[k] /\ s[k] \in Seq(Bytes) /\ f[k - 1] \in Seq(Bytes)
    BY <2>1, LengthsOf
  <2>3. Ahead(src, f[k - 1] \o s[k])
    BY <1>6, <2>1, <2>2
  <2> QED
    BY <1>7, <2>2, <2>3, AheadParts
<1> QED
  BY <1>2, <1>7

(* What has been read is put in its place.                                 *)
LEMMA ReadsInto ==
  ASSUME NEW src, NEW n, NEW v, NEW s, Reads(src, n, v, s), NEW w, NEW u, NEW m,
         s.rx = "ok" /\ s.value = v => w = u
  PROVE  Reads(src, n, u, Result(s.in, s.rx, w, m))
<1>1. CASE s.rx \in Faults(src)
  BY <1>1, ReadsOf
<1>2. CASE s.rx = "ok" /\ s.value = v /\ s.in.at = src.at + n
  <2>1. w = u
    BY <1>2
  <2>2. Reads(src, n, u, Result(s.in, "ok", u, m))
    BY <1>2, ReadsOf
  <2> QED
    BY <1>2, <2>1, <2>2
<1> QED
  BY <1>1, <1>2 DEF Reads

(* An object of a container type and a value that is to be decoded into it *)
LEMMA ContainerOf ==
  ASSUME NEW d \in Destinations, NEW x \in Encodable, x.type = d.type, d.type.kind \in ContainerKinds
  PROVE  /\ IsHolder(d) /\ IsContainer(x) /\ NumElements(x) \in Nat /\ NumElements(x) <= Huge
         /\ x.type.kind \in {"array", "tuple"} => x.type.n \in Nat
         /\ x.type.kind \in {"set", "array", "tuple"} => ~x.type.flag
         /\ d.type.kind \in {"vector", "set"} => Fresh(d.type.of[1]) \in Children(d)
         /\ d.type.kind = "map" => Fresh(d.type.of[1]) \in Children(d) /\ Fresh(d.type.of[2]) \in Children(d)
         /\ d.type.kind \in {"array", "tuple"} => \A k \in 1 .. d.type.n : Member(d, k) \in Children(d)
<1>1. IsHolder(d) /\ IsType(d.type)
  BY DestinationIs
<1>2. IsContainer(x)
  <2>1. d.type.kind \notin IntegerKinds /\ d.type.kind \notin StringKinds
        /\ d.type.kind \notin {"null", "bool", "float"}
    BY KindsDiffer
  <2> QED
    BY <2>1, Kinds
<1>3. NumElements(x) \in Nat /\ NumElements(x) <= Huge
  BY <1>2 DEF IsContainer
<1>4. x.type.kind \in {"array", "tuple"} => x.type.n \in Nat
  BY <1>1 DEF IsHolder
<1>5. x.type.kind \in {"set", "array", "tuple"} => ~x.type.flag
  BY <1>1 DEF IsType, IntegerKinds
<1>6. d.type.kind \in {"vector", "set"} => Fresh(d.type.of[1]) \in Children(d)
  BY <1>1 DEF IsHolder, Children
<1>7. d.type.kind = "map" => Fresh(d.type.of[1]) \in Children(d) /\ Fresh(d.type.of[2]) \in Children(d)
  BY <1>1 DEF IsHolder, Children
<1>8. d.type.kind \in {"array", "tuple"} => \A k \in 1 .. d.type.n : Member(d, k) \in Children(d)
  BY DEF Children
<1> QED
  BY <1>1, <1>2, <1>3, <1>4, <1>5, <1>6, <1>7, <1>8

(* The decoders of the components give back what they are meant for.       *)
PartsReadBack(d, decoders) ==
  \A e \in Children(d), y \in Encodable : y.type = e.type =>
    \A src \in Inputs : Ahead(src, Encoding(y)) =>
      \A r \in decoders[e][src] : Reads(src, Len(Encoding(y)), y.value, r)

(* One more element of a vector is decoded.                                *)
LEMMA VectorItemReads ==
  ASSUME NEW d \in Destinations, NEW x \in Encodable, x.type = d.type, d.type.kind = "vector",
         NEW k \in Nat, k < NumElements(x), NEW decoders, PartsTake(d, decoders),
         PartsReadBack(d, decoders), NEW src \in Inputs, Ahead(src, Inside(x)[k + 1]),
         NEW r \in DecodeItem(src, d, Filled(d, x, k), k, decoders)
  PROVE  Reads(src, Len(Inside(x)[k + 1]), Filled(d, x, k + 1), r)
<1> DEFINE y == Parts(x)[k + 1]
           dest == Filled(d, x, k)
           e == Fresh(d.type.of[1])
<1>0. d.type.kind \in ContainerKinds
  BY DEF ContainerKinds
<1>1. e \in Children(d) /\ IsContainer(x) /\ NumElements(x) \in Nat
  BY <1>0, ContainerOf
<1>2. k + 1 \in 1 .. NumElements(x)
  BY <1>1
<1>3. /\ Len(Parts(x)) = NumElements(x) /\ y.value = x.value[k + 1] /\ y.type = x.type.of[1]
  BY <1>2, LinearIs DEF Linear
<1>4. y \in Encodable /\ Inside(x)[k + 1] = Encoding(y)
  BY <1>1, <1>2, <1>3, InsideIs
<1>5. y.type = e.type
  BY <1>3 DEF Fresh, Object
<1>6. Longer(dest, y.value) = Filled(d, x, k + 1)
  BY <1>0, <1>3, FilledNext
<1>7. ElementDecoded(src, d, dest, decoders, r)
  <2>1. r \in DecodeElement(src, d.type, dest, decoders)
    BY DEF DecodeItem
  <2> QED
    BY <1>1, <2>1, DecodeElementIs
<1> HIDE DEF y, dest, e
<1>8. CASE r = Result(src, "not_enough_memory", dest, 0)
  BY <1>8, ReadsOf, NoFaultIsOk
<1>9. ASSUME NEW s \in decoders[e][src], r = Result(s.in, s.rx, Longer(dest, s.value), s.n)
      PROVE  Reads(src, Len(Inside(x)[k + 1]), Filled(d, x, k + 1), r)
  <2>1. Reads(src, Len(Encoding(y)), y.value, s)
    BY <1>1, <1>4, <1>5 DEF PartsReadBack
  <2>2. s.rx = "ok" /\ s.value = y.value => Longer(dest, s.value) = Filled(d, x, k + 1)
    BY <1>6
  <2> QED
    BY <1>4, <1>9, <2>1, <2>2, ReadsInto
<1> QED
  BY <1>7, <1>8, <1>9 DEF ElementDecoded, e

(* One more element of an array or a tuple is decoded.                     *)
LEMMA MemberItemReads ==
  ASSUME NEW d \in Destinations, NEW x \in Encodable, x.type = d.type, d.type.kind \in {"array", "tuple"},
         NEW k \in Nat, k < NumElements(x), NEW decoders, PartsTake(d, decoders),
         PartsReadBack(d, decoders), NEW src \in Inputs, Ahead(src, Inside(x)[k + 1]),
         NEW r \in DecodeItem(src, d, Filled(d, x, k), k, decoders)
  PROVE  Reads(src, Len(Inside(x)[k + 1]), Filled(d, x, k + 1), r)
<1> DEFINE y == Parts(x)[k + 1]
           dest == Filled(d, x, k)
           e == Member(d, k + 1)
<1>0. d.type.kind \in ContainerKinds
  BY DEF ContainerKinds
<1>1. /\ IsContainer(x) /\ NumElements(x) \in Nat /\ d.type.n \in Nat
      /\ \A j \in 1 .. d.type.n : Member(d, j) \in Children(d)
  BY <1>0, ContainerOf
<1>2. k + 1 \in 1 .. NumElements(x)
  BY <1>1
<1>3. /\ Len(Parts(x)) = NumElements(x) /\ y.value = x.value[k + 1] /\ NumElements(x) = d.type.n
      /\ y.type = x.type.of[IF x.type.kind = "tuple" THEN k + 1 ELSE 1]
  BY <1>1, <1>2, LinearIs DEF Linear
<1>4. y \in Encodable /\ Inside(x)[k + 1] = Encoding(y)
  BY <1>1, <1>2, <1>3, InsideIs
<1>5. y.type = e.type /\ e \in Children(d)
  <2>1. e.type = IF d.type.kind = "tuple" THEN d.type.of[k + 1] ELSE d.type.of[1]
    BY DEF Member, Object
  <2> QED
    BY <1>1, <1>2, <1>3, <2>1
<1>6. Placed(dest, k + 1, y.value) = Filled(d, x, k + 1)
  BY <1>0, <1>3, FilledNext
<1>7. MemberDecoded(src, d, dest, k, decoders, r)
  <2>1. r \in DecodeMember(src, d, dest, k, decoders)
    BY DEF DecodeItem
  <2> QED
    BY <1>1, <2>1, DecodeMemberIs
<1> HIDE DEF y, dest
<1>8. PICK s \in decoders[e][src] : r = Result(s.in, s.rx, Placed(dest, k + 1, s.value), s.n)
  BY <1>2, <1>3, <1>7 DEF MemberDecoded
<1> HIDE DEF e
<1>9. Reads(src, Len(Encoding(y)), y.value, s)
  BY <1>4, <1>5 DEF PartsReadBack
<1>10. s.rx = "ok" /\ s.value = y.value => Placed(dest, k + 1, s.value) = Filled(d, x, k + 1)
  BY <1>6
<1> QED
  BY <1>4, <1>8, <1>9, <1>10, ReadsInto

(* One more key of a set is decoded; it is not there yet.                  *)
LEMMA KeyItemReads ==
  ASSUME NEW d \in Destinations, NEW x \in Encodable, x.type = d.type, d.type.kind = "set",
         NEW k \in Nat, k < NumElements(x), NEW decoders, PartsTake(d, decoders),
         PartsReadBack(d, decoders), NEW src \in Inputs, Ahead(src, Inside(x)[k + 1]),
         NEW r \in DecodeItem(src, d, Filled(d, x, k), k, decoders)
  PROVE  Reads(src, Len(Inside(x)[k + 1]), Filled(d, x, k + 1), r)
<1> DEFINE y == Parts(x)[k + 1]
           dest == Filled(d, x, k)
           e == Fresh(d.type.of[1])
           n == Len(Inside(x)[k + 1])
<1>0. d.type.kind \in ContainerKinds
  BY DEF ContainerKinds
<1>1. e \in Children(d) /\ IsContainer(x) /\ NumElements(x) \in Nat
  BY <1>0, ContainerOf
<1>2. k + 1 \in 1 .. NumElements(x)
  BY <1>1
<1>3. /\ Len(Parts(x)) = NumElements(x) /\ y.value = Keys(x)[k + 1] /\ y.type = x.type.of[1]
  BY <1>2, KeyedParts
<1>4. y \in Encodable /\ Inside(x)[k + 1] = Encoding(y)
  BY <1>1, <1>2, <1>3, InsideIs
<1>5. y.type = e.type
  BY <1>3 DEF Fresh, Object
<1>6. y.value \notin dest /\ dest \union {y.value} = Filled(d, x, k + 1)
  BY <1>0, <1>3, FilledNext
<1>7. PICK s \in decoders[e][src] : KeyDecoded(s, dest, r)
  <2>1. r \in DecodeKey(src, d.type, dest, decoders)
    BY DEF DecodeItem
  <2> QED
    BY Zenon, <2>1, DecodeKeyIs
<1> HIDE DEF y, dest, e
<1>8. Reads(src, n, y.value, s)
  BY <1>1, <1>4, <1>5 DEF PartsReadBack
<1> HIDE DEF n
<1>9. s.rx = "ok" => s.value = y.value /\ "ok" \notin Faults(src) /\ "not_enough_memory" \in Faults(src)
  BY <1>8, NoFaultIsOk DEF Reads
<1>10. CASE s.rx # "ok" /\ r = Result(s.in, s.rx, dest, 0)
  <2>1. s.rx \in Faults(src)
    BY <1>8, <1>10 DEF Reads
  <2> QED
    BY <1>10, <2>1, ReadsOf
<1>11. CASE s.rx = "ok" /\ r = Result(s.in, "ok", dest \union {s.value}, 0)
  <2>1. s.rx = "ok" /\ s.value = y.value => dest \union {s.value} = Filled(d, x, k + 1)
    BY <1>6
  <2>2. r = Result(s.in, s.rx, dest \union {s.value}, 0)
    BY <1>11
  <2> QED
    BY <1>8, <2>1, <2>2, ReadsInto DEF n
<1>12. CASE s.rx = "ok" /\ r = Result(s.in, "not_enough_memory", dest, 0)
  BY <1>9, <1>12, ReadsOf
<1>13. CASE s.rx = "ok" /\ s.value \in dest
  BY <1>6, <1>9, <1>13
<1> QED
  BY <1>7, <1>10, <1>11, <1>12, <1>13 DEF KeyDecoded

(* One more pair of a map is decoded; its key is not there yet.            *)
LEMMA PairItemReads ==
  ASSUME NEW d \in Destinations, NEW x \in Encodable, x.type = d.type, d.type.kind = "map",
         NEW k \in Nat, k < NumElements(x), NEW decoders, PartsTake(d, decoders),
         PartsReadBack(d, decoders), NEW src \in Inputs,
         Ahead(src, Inside(x)[2 * k + 1]),
         \A p : Onward(src, p) /\ p.at = src.at + Len(Inside(x)[2 * k + 1]) => Ahead(p, Inside(x)[2 * k + 2]),
         NEW r \in DecodeItem(src, d, Filled(d, x, k), k, decoders)
  PROVE  Reads(src, Len(Inside(x)[2 * k + 1]) + Len(Inside(x)[2 * k + 2]), Filled(d, x, k + 1), r)
<1> DEFINE y == Parts(x)[2 * k + 1]
           z == Parts(x)[2 * k + 2]
           dest == Filled(d, x, k)
           e == Fresh(d.type.of[1])
           c == Fresh(d.type.of[2])
           a == Inside(x)[2 * k + 1]
           b == Inside(x)[2 * k + 2]
<1>0. d.type.kind \in ContainerKinds
  BY DEF ContainerKinds
<1>1. e \in Children(d) /\ c \in Children(d) /\ IsContainer(x) /\ NumElements(x) \in Nat
  BY <1>0, ContainerOf
<1>2. /\ k \in 0 .. NumElements(x) - 1 /\ 2 * k + 1 \in 1 .. 2 * NumElements(x)
      /\ 2 * k + 2 \in 1 .. 2 * NumElements(x)
  BY <1>1
<1>3. /\ Len(Parts(x)) = 2 * NumElements(x) /\ y.value = Keys(x)[k + 1] /\ y.type = x.type.of[1]
      /\ z.value = x.value[Keys(x)[k + 1]] /\ z.type = x.type.of[2]
  BY <1>2, KeyedParts
<1>4. /\ y \in Encodable /\ a = Encoding(y) /\ z \in Encodable /\ b = Encoding(z)
      /\ a \in Seq(Bytes) /\ b \in Seq(Bytes)
  BY <1>1, <1>2, <1>3, InsideIs
<1>5. y.type = e.type /\ z.type = c.type
  BY <1>3 DEF Fresh, Object
<1>6. y.value \notin DOMAIN dest /\ WithEntry(dest, y.value, z.value) = Filled(d, x, k + 1)
  BY <1>0, <1>3, FilledNext
<1>7. PICK s \in decoders[e][src] :
           \/ s.rx # "ok" /\ r = Result(s.in, s.rx, dest, 0)
           \/ /\ s.rx = "ok"
              /\ \E m \in decoders[c][s.in] :
                   \/ m.rx # "ok" /\ r = Result(m.in, m.rx, dest, 0)
                   \/ m.rx = "ok" /\ s.value \in DOMAIN dest /\ r = Result(m.in, "duplicate_key", <<>>, 0)
                   \/ m.rx = "ok" /\ r = Result(m.in, "ok", WithEntry(dest, s.value, m.value), 0)
                   \/ m.rx = "ok" /\ r = Result(m.in, "not_enough_memory", dest, 0)
  <2>1. r \in DecodePair(src, d.type, dest, decoders)
    BY DEF DecodeItem
  <2> QED
    BY <2>1, DecodePairIs
<1> HIDE DEF y, z, dest, e, c, a, b
<1>8. Ahead(src, a) /\ \A p : Onward(src, p) /\ p.at = src.at + Len(a) => Ahead(p, b)
  BY DEF a, b
<1>9. Reads(src, Len(a), y.value, s)
  BY <1>1, <1>4, <1>5, <1>8 DEF PartsReadBack
<1>10. Onward(src, s.in) /\ s.in \in Inputs
  BY <1>1 DEF PartsTake, Takes, Stays, Onward
<1>11. /\ Len(a) \in Nat /\ Len(b) \in Nat /\ src.at \in Nat
       /\ "ok" \notin Faults(src) /\ "not_enough_memory" \in Faults(src)
  BY <1>4, InputIs, NoFaultIsOk
<1>12. CASE s.rx # "ok" /\ r = Result(s.in, s.rx, dest, 0)
  <2>1. s.rx \in Faults(src)
    BY <1>9, <1>12 DEF Reads
  <2> QED
    BY <1>12, <2>1, ReadsOf
<1>13. ASSUME s.rx = "ok", NEW m \in decoders[c][s.in],
              \/ m.rx # "ok" /\ r = Result(m.in, m.rx, dest, 0)
              \/ m.rx = "ok" /\ s.value \in DOMAIN dest /\ r = Result(m.in, "duplicate_key", <<>>, 0)
              \/ m.rx = "ok" /\ r = Result(m.in, "ok", WithEntry(dest, s.value, m.value), 0)
              \/ m.rx = "ok" /\ r = Result(m.in, "not_enough_memory", dest, 0)
       PROVE  Reads(src, Len(a) + Len(b), Filled(d, x, k + 1), r)
  <2>1. s.value = y.value /\ s.in.at = src.at + Len(a)
    BY <1>9, <1>11, <1>13 DEF Reads
  <2>2. Ahead(s.in, b)
    BY <1>8, <1>10, <2>1
  <2>3. Reads(s.in, Len(b), z.value, m)
    BY <1>1, <1>4, <1>5, <1>10, <2>2 DEF PartsReadBack
  <2>4. Faults(s.in) = Faults(src)
    BY <1>10, FaultsStay
  <2>5. Reads(src, Len(a) + Len(b), z.value, m)
    <3>1. m.in.at = s.in.at + Len(b) => m.in.at = src.at + (Len(a) + Len(b))
      BY <1>11, <2>1
    <3> QED
      BY <2>3, <2>4, <3>1 DEF Reads
  <2>6. CASE m.rx # "ok" /\ r = Result(m.in, m.rx, dest, 0)
    <3>1. m.rx \in Faults(src)
      BY <2>5, <2>6 DEF Reads
    <3> QED
      BY <2>6, <3>1, ReadsOf
  <2>7. CASE m.rx = "ok" /\ s.value \in DOMAIN dest /\ r = Result(m.in, "duplicate_key", <<>>, 0)
    BY <1>6, <2>1, <2>7
  <2>8. CASE m.rx = "ok" /\ r = Result(m.in, "ok", WithEntry(dest, s.value, m.value), 0)
    <3>1. m.rx = "ok" /\ m.value = z.value => WithEntry(dest, s.value, m.value) = Filled(d, x, k + 1)
      BY <1>6, <2>1
    <3>2. r = Result(m.in, m.rx, WithEntry(dest, s.value, m.value), 0)
      BY <2>8
    <3> QED
      BY <2>5, <3>1, <3>2, ReadsInto
  <2>9. CASE m.rx = "ok" /\ r = Result(m.in, "not_enough_memory", dest, 0)
    BY <1>11, <2>9, ReadsOf
  <2> QED
    BY <1>13, <2>6, <2>7, <2>8, <2>9
<1>14. Reads(src, Len(a) + Len(b), Filled(d, x, k + 1), r)
  <2>1. CASE s.rx = "ok"
    <3>1. PICK m \in decoders[c][s.in] :
            \/ m.rx # "ok" /\ r = Result(m.in, m.rx, dest, 0)
            \/ m.rx = "ok" /\ s.value \in DOMAIN dest /\ r = Result(m.in, "duplicate_key", <<>>, 0)
            \/ m.rx = "ok" /\ r = Result(m.in, "ok", WithEntry(dest, s.value, m.value), 0)
            \/ m.rx = "ok" /\ r = Result(m.in, "not_enough_memory", dest, 0)
      BY Zenon, <1>7, <2>1
    <3> QED
      BY Zenon, <1>13, <2>1, <3>1
  <2>2. CASE s.rx # "ok"
    <3>1. r = Result(s.in, s.rx, dest, 0)
      BY Zenon, <1>7, <2>2
    <3> QED
      BY <1>12, <2>2, <3>1 DEF a, b
  <2> QED
    BY <2>1, <2>2
<1> QED
  BY <1>14 DEF a, b

(* k elements have been decoded from an input that begins with the parts   *)
(* of a container, whose lengths f adds up.                                *)
Decoded(src, d, x, f, k, r) ==
  /\ IsResult(r) /\ Onward(src, r.in)
  /\ r.value = Filled(d, x, k) /\ r.in.at = src.at + Len(f[PerItem(d) * k])

(* The parts of a container and what follows them come in the input.       *)
Comes(src, x, f, c) ==
  /\ IsFlattening(f, Bytes, Inside(x)) /\ c \in Seq(Bytes)
  /\ Ahead(src, f[Len(Inside(x))] \o c)

(* The parts s of a container come in the input one after the other, their *)
(* lengths adding up, and c after the last.                                *)
Lie(src, s, f, c) ==
  /\ \A k \in 1 .. Len(s) : s[k] \in Seq(Bytes) /\ Len(s[k]) >= 1 /\ s[k][1] # Break
  /\ \A k \in 0 .. Len(s) : Len(f[k]) \in Nat /\ Len(f[k]) >= k
  /\ \A k \in 1 .. Len(s) : Len(f[k]) = Len(f[k - 1]) + Len(s[k])
  /\ \A p : Onward(src, p) =>
       /\ \A k \in 1 .. Len(s) : p.at = src.at + Len(f[k - 1]) => Ahead(p, s[k])
       /\ p.at = src.at + Len(f[Len(s)]) => Ahead(p, c)

LEMMA ItemsAhead ==
  ASSUME NEW d \in Destinations, NEW x \in Encodable, x.type = d.type, d.type.kind \in ContainerKinds,
         NEW src \in Inputs, NEW f, NEW c, Comes(src, x, f, c)
  PROVE  /\ NumElements(x) \in Nat /\ PerItem(d) \in {1, 2}
         /\ Len(Inside(x)) = PerItem(d) * NumElements(x) /\ Inside(x) \in Seq(Seq(Bytes))
         /\ PerItem(d) = 2 <=> d.type.kind = "map"
         /\ Lie(src, Inside(x), f, c)
<1> DEFINE n == NumElements(x)
           m == PerItem(d)
           s == Inside(x)
<1>1. IsContainer(x) /\ n \in Nat /\ (d.type.kind \in {"array", "tuple"} => d.type.n \in Nat)
  BY ContainerOf
<1>2. m \in {1, 2} /\ (m = 2 <=> d.type.kind = "map") /\ (m = 1 <=> d.type.kind # "map")
  BY DEF PerItem
<1>3. s \in Seq(Seq(Bytes)) /\ Len(s) = Len(Parts(x)) /\ Len(s) \in Nat
      /\ \A k \in 1 .. Len(s) : Parts(x)[k] \in Encodable /\ s[k] = Encoding(Parts(x)[k])
  BY <1>1, InsideIs
<1>4. Len(s) = m * n
  <2>1. CASE d.type.kind = "map"
    <3>1. Len(Parts(x)) = 2 * n
      BY <2>1, KeyedParts
    <3> QED
      BY <1>2, <1>3, <2>1, <3>1
  <2>2. CASE d.type.kind # "map"
    <3>1. Len(Parts(x)) = n
      BY <2>2 DEF NumElements
    <3> QED
      BY <1>1, <1>2, <1>3, <2>2, <3>1
  <2> QED
    BY <2>1, <2>2
<1>5. IsFlattening(f, Bytes, s) /\ c \in Seq(Bytes) /\ Ahead(src, f[Len(s)] \o c)
  BY DEF Comes
<1> HIDE DEF n, m, s
<1>6. \A k \in 1 .. Len(s) : s[k] \in Seq(Bytes) /\ Len(s[k]) >= 1 /\ s[k][1] # Break
  BY <1>3, FirstByte
<1>7. \A k \in 0 .. Len(s) : Len(f[k]) \in Nat /\ Len(f[k]) >= k
  BY <1>3, <1>5, <1>6, LengthsOf, PartsHaveBytes
<1>8. \A k \in 1 .. Len(s) : Len(f[k]) = Len(f[k - 1]) + Len(s[k])
  BY <1>3, <1>5, LengthsOf
<1>9. \A p : Onward(src, p) =>
        /\ \A k \in 1 .. Len(s) : p.at = src.at + Len(f[k - 1]) => Ahead(p, s[k])
        /\ p.at = src.at + Len(f[Len(s)]) => Ahead(p, c)
  BY <1>3, <1>5, PartsAhead
<1>10. Lie(src, s, f, c)
  BY Zenon, <1>6, <1>7, <1>8, <1>9 DEF Lie
<1> QED
  BY <1>1, <1>2, <1>3, <1>4, <1>10 DEF n, m, s

(* Where the next element begins there is no break, and it is read.        *)
LEMMA NoBreakAhead ==
  ASSUME NEW d \in Destinations, NEW x \in Encodable, x.type = d.type, d.type.kind \in ContainerKinds,
         NEW src \in Inputs, NEW f, NEW c, Comes(src, x, f, c), NEW k \in Nat, k < NumElements(x),
         NEW p, Onward(src, p), p.at = src.at + Len(f[PerItem(d) * k])
  PROVE  p.at < Len(p.bytes) /\ p.bytes[p.at + 1] # Break
<1> DEFINE n == NumElements(x)
           m == PerItem(d)
           s == Inside(x)
           j == m * k + 1
<1>1. /\ n \in Nat /\ m \in {1, 2} /\ Len(s) = m * n
      /\ \A i \in 1 .. Len(s) : s[i] \in Seq(Bytes) /\ Len(s[i]) >= 1 /\ s[i][1] # Break
      /\ \A i \in 1 .. Len(s) : p.at = src.at + Len(f[i - 1]) => Ahead(p, s[i])
  <2>1. n \in Nat /\ m \in {1, 2} /\ Len(s) = m * n /\ Lie(src, s, f, c)
    BY ItemsAhead
  <2> HIDE DEF n, m, s, j
  <2> QED
    BY <2>1 DEF Lie
<1>2. j \in 1 .. m * n /\ j - 1 = m * k
  <2>1. CASE m = 1
    BY <1>1, <2>1
  <2>2. CASE m = 2
    BY <1>1, <2>2
  <2> QED
    BY <1>1, <2>1, <2>2
<1>3. p.at = src.at + Len(f[j - 1])
  BY <1>2
<1> HIDE DEF n, m, s, j
<1>4. s[j] \in Seq(Bytes) /\ Len(s[j]) >= 1 /\ s[j][1] # Break /\ Ahead(p, s[j])
  BY <1>1, <1>2, <1>3
<1>5. p.at \in Nat /\ Len(p.bytes) \in Nat
  BY InputIs DEF Onward
<1>6. 1 \in 1 .. Len(s[j]) /\ Len(s[j]) \in Nat
  BY <1>4
<1>7. p.at + Len(s[j]) <= Len(p.bytes) /\ p.bytes[p.at + 1] = s[j][1]
  BY <1>4, <1>6 DEF Ahead
<1> QED
  BY <1>4, <1>5, <1>6, <1>7

LEMMA ItemReads ==
  ASSUME NEW d \in Destinations, NEW x \in Encodable, x.type = d.type, d.type.kind \in ContainerKinds,
         NEW src \in Inputs, NEW f, NEW c, Comes(src, x, f, c), NEW k \in Nat, k < NumElements(x),
         NEW decoders, PartsTake(d, decoders), PartsReadBack(d, decoders),
         NEW p, Onward(src, p), p.at = src.at + Len(f[PerItem(d) * k]),
         NEW r \in DecodeItem(p, d, Filled(d, x, k), k, decoders)
  PROVE  IsResult(r) /\ (r.rx \in Faults(src) \/ (r.rx = "ok" /\ Decoded(src, d, x, f, k + 1, r)))
<1> DEFINE n == NumElements(x)
           m == PerItem(d)
           s == Inside(x)
           i == m * k
<1>1. /\ n \in Nat /\ m \in {1, 2} /\ Len(s) = m * n /\ (m = 2 <=> d.type.kind = "map")
      /\ \A j \in 0 .. Len(s) : Len(f[j]) \in Nat
      /\ \A j \in 1 .. Len(s) : Len(f[j]) = Len(f[j - 1]) + Len(s[j])
      /\ \A j \in 1 .. Len(s) : s[j] \in Seq(Bytes) /\ Len(s[j]) >= 1
      /\ \A q : Onward(src, q) => \A j \in 1 .. Len(s) : q.at = src.at + Len(f[j - 1]) => Ahead(q, s[j])
  <2>1. /\ n \in Nat /\ m \in {1, 2} /\ Len(s) = m * n /\ (m = 2 <=> d.type.kind = "map")
        /\ Lie(src, s, f, c)
    BY ItemsAhead
  <2> HIDE DEF n, m, s, i
  <2> QED
    BY <2>1 DEF Lie
<1>2. p \in Inputs /\ p.at = src.at + Len(f[i]) /\ Faults(p) = Faults(src)
  BY FaultsStay DEF Onward
<1>3. Takes(p, r) /\ IsHolder(d)
  BY <1>2, ContainerOf, DecodeItemTakes
<1>4. IsResult(r) /\ Onward(src, r.in)
  BY <1>3, OnwardTwice DEF Takes, Stays
<1>5. src.at \in Nat
  BY InputIs
<1> HIDE DEF n, m, s, i
<1>8. m * k = i /\ k < n
  BY DEF i, n
<1>6. CASE d.type.kind # "map"
  <2>1. m = 1 /\ i = k /\ m * (k + 1) = k + 1 /\ k + 1 \in 1 .. Len(s) /\ (k + 1) - 1 = k /\ k \in 0 .. Len(s)
    BY <1>1, <1>6, <1>8
  <2>2. Ahead(p, s[k + 1])
    BY <1>1, <1>2, <2>1
  <2>3. d.type.kind \in {"vector", "set", "array", "tuple"}
    BY <1>6 DEF ContainerKinds
  <2>4. Reads(p, Len(s[k + 1]), Filled(d, x, k + 1), r)
    BY <1>2, <2>2, <2>3, VectorItemReads, MemberItemReads, KeyItemReads DEF s
  <2>5. Len(f[k + 1]) = Len(f[k]) + Len(s[k + 1]) /\ Len(f[k]) \in Nat
    BY <1>1, <2>1
  <2>6. Len(s[k + 1]) \in Nat
    BY <1>1, <2>1
  <2>7. p.at + Len(s[k + 1]) = src.at + Len(f[m * (k + 1)])
    <3>1. \A u, v, w \in Nat : (u + v) + w = u + (v + w)
      OBVIOUS
    <3>2. (src.at + Len(f[k])) + Len(s[k + 1]) = src.at + (Len(f[k]) + Len(s[k + 1]))
      BY <1>5, <2>5, <2>6, <3>1
    <3>3. p.at = src.at + Len(f[k])
      BY <1>2, <2>1, Zenon
    <3>4. Len(f[m * (k + 1)]) = Len(f[k]) + Len(s[k + 1])
      BY <2>1, <2>5, Zenon
    <3> QED
      BY <3>2, <3>3, <3>4, Zenon
  <2> QED
    BY <1>2, <1>4, <2>4, <2>7 DEF Reads, Decoded, m
<1>7. CASE d.type.kind = "map"
  <2> DEFINE a == s[2 * k + 1]
             b == s[2 * k + 2]
  <2>1. /\ m = 2 /\ i = 2 * k /\ m * (k + 1) = 2 * k + 2 /\ 2 * k + 1 \in 1 .. Len(s)
        /\ 2 * k + 2 \in 1 .. Len(s) /\ (2 * k + 1) - 1 = 2 * k /\ (2 * k + 2) - 1 = 2 * k + 1
        /\ 2 * k \in 0 .. Len(s) /\ 2 * k + 1 \in 0 .. Len(s)
    BY <1>1, <1>7, <1>8
  <2>2. /\ Len(f[2 * k + 1]) = Len(f[2 * k]) + Len(a) /\ Len(f[2 * k + 2]) = Len(f[2 * k + 1]) + Len(b)
        /\ Len(f[2 * k]) \in Nat /\ Len(a) \in Nat /\ Len(b) \in Nat
    <3>1. Len(f[2 * k + 1]) = Len(f[2 * k]) + Len(a)
      BY <1>1, <2>1
    <3>2. Len(f[2 * k + 2]) = Len(f[2 * k + 1]) + Len(b)
      BY <1>1, <2>1
    <3>3. Len(f[2 * k]) \in Nat /\ a \in Seq(Bytes) /\ b \in Seq(Bytes)
      BY <1>1, <2>1
    <3> QED
      BY <3>1, <3>2, <3>3
  <2>3. Ahead(p, a)
    BY <1>1, <1>2, <2>1
  <2> HIDE DEF a, b
  <2>4. ASSUME NEW q, Onward(p, q), q.at = p.at + Len(a) PROVE Ahead(q, b)
    <3>1. Onward(src, q)
      BY <1>2, <2>4, OnwardTwice
    <3>2. q.at = src.at + Len(f[2 * k + 1])
      BY <1>2, <1>5, <2>1, <2>2, <2>4
    <3> QED
      BY <1>1, <2>1, <3>1, <3>2 DEF b
  <2>5. Reads(p, Len(a) + Len(b), Filled(d, x, k + 1), r)
    BY <1>2, <1>7, <2>3, <2>4, PairItemReads DEF a, b, s
  <2>6. p.at + (Len(a) + Len(b)) = src.at + Len(f[m * (k + 1)])
    <3>1. \A t, u, v, w \in Nat : (t + u) + (v + w) = t + ((u + v) + w)
      OBVIOUS
    <3>2. (src.at + Len(f[2 * k])) + (Len(a) + Len(b)) = src.at + ((Len(f[2 * k]) + Len(a)) + Len(b))
      BY <1>5, <2>2, <3>1
    <3>3. p.at = src.at + Len(f[2 * k])
      BY <1>2, <2>1, Zenon
    <3>4. Len(f[m * (k + 1)]) = (Len(f[2 * k]) + Len(a)) + Len(b)
      BY <2>1, <2>2, Zenon
    <3> QED
      BY <3>2, <3>3, <3>4, Zenon
  <2> QED
    BY <1>2, <1>4, <2>5, <2>6 DEF Reads, Decoded, m
<1> QED
  BY <1>6, <1>7

(* The loop over the elements reads them all.                              *)
LEMMA ItemsRead ==
  ASSUME NEW d \in Destinations, NEW x \in Encodable, x.type = d.type, d.type.kind \in ContainerKinds,
         NEW src \in Inputs, NEW f, NEW c, Comes(src, x, f, c),
         NEW decoders, PartsTake(d, decoders), PartsReadBack(d, decoders),
         NEW r \in Items(src, d, Cleared(d), NumElements(x), decoders)
  PROVE  /\ Reads(src, Len(f[Len(Inside(x))]), x.value, r)
         /\ IsResult(r) /\ Onward(src, r.in) /\ r.n = NumElements(x)
<1> DEFINE n == NumElements(x)
<1>1. n \in Nat /\ Len(Inside(x)) = PerItem(d) * n
  BY ItemsAhead
<1>2. PICK run : /\ Items(src, d, Cleared(d), n, decoders) = {[q EXCEPT !.n = n] : q \in run[n]}
                 /\ ItemsRun(src, d, Cleared(d), n, decoders, run)
  BY <1>1, ItemsIs
<1> HIDE DEF n
<1> DEFINE Right(k, q) ==
             /\ IsResult(q) /\ Onward(src, q.in)
             /\ q.rx \in Faults(src) \/ (q.rx = "ok" /\ Decoded(src, d, x, f, k, q))
           T == {k \in Nat : k <= n => \A q \in run[k] : Right(k, q)}
<1>3. Onward(src, src) /\ src.at \in Nat /\ PerItem(d) * 0 = 0 /\ Len(f[0]) = 0
  <2>1. PerItem(d) \in {1, 2}
    BY DEF PerItem
  <2>2. IsFlattening(f, Bytes, Inside(x))
    BY DEF Comes
  <2>3. Len(f[0]) = 0
    BY <2>2, EmptyIsUnit DEF IsFlattening
  <2> QED
    BY <2>1, <2>3, OnwardItself, InputIs
<1>4. 0 \in T
  <2> SUFFICES ASSUME NEW q \in run[0] PROVE Right(0, q)
    OBVIOUS
  <2>1. q = Result(src, "ok", Cleared(d), 0)
    BY <1>2 DEF ItemsRun
  <2>2. IsResult(q) /\ q.in = src /\ q.rx = "ok" /\ q.value = Filled(d, x, 0)
    BY <2>1, ResultFields, FilledFirst
  <2>3. q.in.at = src.at + Len(f[PerItem(d) * 0])
    BY <1>3, <2>2
  <2> QED
    BY <1>3, <2>2, <2>3 DEF Decoded
<1>5. ASSUME NEW k \in Nat, k \in T PROVE k + 1 \in T
  <2> SUFFICES ASSUME k + 1 <= n, NEW q \in run[k + 1] PROVE Right(k + 1, q)
    OBVIOUS
  <2>1. k + 1 \in 1 .. n /\ (k + 1) - 1 = k /\ k <= n /\ k < n
    BY <1>1
  <2>2. PICK s \in run[k] : \/ s.rx = "ok" /\ q \in DecodeItem(s.in, d, s.value, k, decoders)
                            \/ s.rx # "ok" /\ q = s
    BY <1>2, <2>1 DEF ItemsRun
  <2>3. Right(k, s)
    BY <1>5, <2>1
  <2>4. CASE s.rx = "ok" /\ q \in DecodeItem(s.in, d, s.value, k, decoders)
    <3>1. /\ Onward(src, s.in) /\ s.value = Filled(d, x, k)
          /\ s.in.at = src.at + Len(f[PerItem(d) * k])
      BY <2>3, <2>4, NoFaultIsOk DEF Decoded
    <3>2. k < NumElements(x)
      BY <2>1 DEF n
    <3>3. IsResult(q) /\ (q.rx \in Faults(src) \/ (q.rx = "ok" /\ Decoded(src, d, x, f, k + 1, q)))
      BY <2>4, <3>1, <3>2, ItemReads
    <3>4. Takes(s.in, q)
      <4>1. s.in \in Inputs /\ IsHolder(d)
        BY <3>1, ContainerOf DEF Onward
      <4> QED
        BY <2>4, <4>1, DecodeItemTakes
    <3>5. Onward(src, q.in)
      BY <3>1, <3>4, OnwardTwice DEF Takes, Stays
    <3> QED
      BY <3>3, <3>5
  <2>5. CASE s.rx # "ok" /\ q = s
    BY <2>3, <2>5
  <2> QED
    BY <2>2, <2>4, <2>5
<1> HIDE DEF T
<1>6. n \in T
  BY <1>1, <1>4, <1>5, NumberInduction
<1>7. PICK q \in run[n] : r = [q EXCEPT !.n = n]
  BY Zenon, <1>2 DEF n
<1>8. Right(n, q)
  BY <1>1, <1>6, <1>7 DEF T
<1> HIDE DEF Right
<1>9. r = Result(q.in, q.rx, q.value, n)
  <2>1. IsResult(q)
    BY <1>8 DEF Right
  <2> QED
    BY Zenon, <1>7, <2>1, ResultExcept
<1>10. IsResult(r) /\ r.in = q.in /\ r.rx = q.rx /\ r.value = q.value /\ r.n = n
  BY <1>9, ResultFields
<1>11. q.rx \in Faults(src) \/ (q.rx = "ok" /\ q.value = x.value
                                  /\ q.in.at = src.at + Len(f[Len(Inside(x))]))
  <2>1. Filled(d, x, n) = x.value
    BY FilledLast DEF n
  <2> QED
    BY <1>1, <1>8, <2>1 DEF Decoded, Right
<1> QED
  BY <1>8, <1>10, <1>11 DEF Reads, Right, n

(* The state of parse_indefinite_array_like after k rounds, when the       *)
(* elements and a break come in the input                                  *)
Round(src, d, x, f, k, q) ==
  /\ IsResult(q) /\ Onward(src, q.in)
  /\ \/ q.rx \in Faults(src)
     \/ /\ q.rx = "ok" /\ q.n = NumElements(x) /\ q.value = x.value
        /\ q.in.at = src.at + (Len(f[Len(Inside(x))]) + 1)
     \/ q.rx = "more" /\ q.n = k /\ k <= NumElements(x) /\ Decoded(src, d, x, f, k, q)

LEMMA RoundReads ==
  ASSUME NEW d \in Destinations, NEW x \in Encodable, x.type = d.type, d.type.kind \in ContainerKinds,
         NEW src \in Inputs, NEW f, Comes(src, x, f, <<Break>>),
         NEW decoders, PartsTake(d, decoders), PartsReadBack(d, decoders),
         NEW max \in Nat, NumElements(x) <= max, NEW k \in Nat,
         NEW r, Round(src, d, x, f, k, r), r.rx = "more", NEW q \in NextItem(r, d, max, decoders)
  PROVE  Round(src, d, x, f, k + 1, q)
<1> DEFINE n == NumElements(x)
           m == PerItem(d)
<1>1. /\ IsResult(r) /\ Onward(src, r.in) /\ r.n = k /\ k <= n /\ Decoded(src, d, x, f, k, r)
      /\ r.in \in Inputs
  <2>1. "more" \notin Faults(src) /\ "more" # "ok"
    BY NoFaultIsOk
  <2> QED
    BY <2>1 DEF Round, Onward
<1>2. /\ n \in Nat /\ m \in {1, 2} /\ Len(Inside(x)) = m * n
      /\ \A p : Onward(src, p) /\ p.at = src.at + Len(f[Len(Inside(x))]) => Ahead(p, <<Break>>)
      /\ \A j \in 0 .. Len(Inside(x)) : Len(f[j]) \in Nat
  BY ItemsAhead DEF Lie
<1>3. PICK s \in RequireInput(r.in, 1) : ItemRoundFrom(r, d, max, decoders, s, q)
  BY NextItemIs
<1>4. r.value = Filled(d, x, k) /\ r.in.at = src.at + Len(f[m * k])
  BY <1>1 DEF Decoded
<1> HIDE DEF n, m
<1>5. /\ IsResult(s) /\ Onward(r.in, s.in) /\ s.in.at = r.in.at
      /\ \/ s.rx = "ok" /\ 1 <= s.in.window
         \/ s.rx = "end_of_stream" /\ 1 > InputSize(r.in)
         \/ s.rx = "bad" /\ r.in.kind = "stream"
  BY <1>1, RequireOutcome
<1>6. Onward(src, s.in) /\ s.in \in Inputs /\ s.in.at = src.at + Len(f[m * k])
  BY <1>1, <1>4, <1>5, OnwardTwice DEF Onward
<1>7. /\ k < n => s.in.at < Len(s.in.bytes) /\ s.in.bytes[s.in.at + 1] # Break
      /\ k = n => s.in.at < Len(s.in.bytes) /\ s.in.bytes[s.in.at + 1] = Break
  <2>1. CASE k < n
    <3>1. s.in.at < Len(s.in.bytes) /\ s.in.bytes[s.in.at + 1] # Break
      BY <1>6, <2>1, NoBreakAhead DEF n, m
    <3>2. k # n
      BY <1>2, <2>1
    <3> QED
      BY <3>1, <3>2
  <2>2. CASE k = n
    <3>1. Ahead(s.in, <<Break>>)
      BY <1>2, <1>6, <2>2
    <3>2. Len(<<Break>>) = 1 /\ <<Break>>[1] = Break /\ 1 \in 1 .. 1
      OBVIOUS
    <3>3. s.in.at + 1 <= Len(s.in.bytes) /\ s.in.bytes[s.in.at + 1] = Break
      BY <3>1, <3>2 DEF Ahead
    <3>4. s.in.at \in Nat /\ Len(s.in.bytes) \in Nat
      BY <1>6, InputIs
    <3> QED
      BY <2>2, <3>3, <3>4
  <2> QED
    BY <1>1, <1>2, <2>1, <2>2
<1>8. s.rx = "ok" \/ s.rx \in Faults(src)
  <2>1. r.in.at < Len(r.in.bytes)
    <3>1. s.in.at < Len(s.in.bytes)
      BY <1>1, <1>2, <1>7
    <3> QED
      BY <1>5, <3>1 DEF Onward
  <2>2. InputSize(r.in) = Len(r.in.bytes) - r.in.at /\ r.in.at \in Nat /\ Len(r.in.bytes) \in Nat
    BY <1>1, InputIs
  <2>3. ~(1 > InputSize(r.in))
    BY <2>1, <2>2
  <2>4. r.in.kind = src.kind
    BY <1>1 DEF Onward
  <2> QED
    BY <1>5, <2>3, <2>4 DEF Faults
<1>9. ASSUME NEW p, Onward(src, p), NEW rx \in Faults(src), NEW v, NEW w
      PROVE  Round(src, d, x, f, k + 1, Result(p, rx, v, w))
  BY <1>9, ResultFields DEF Round
<1>10. CASE s.rx # "ok" /\ q = Result(s.in, s.rx, r.value, 0)
  BY <1>6, <1>8, <1>9, <1>10
<1>11. CASE /\ s.rx = "ok" /\ s.in.bytes[s.in.at + 1] = Break
            /\ q = Result(DiscardBuffered(s.in, 1), "ok", r.value, r.n)
  <2>1. k = n
    BY <1>1, <1>2, <1>7, <1>11
  <2>2. Onward(s.in, DiscardBuffered(s.in, 1)) /\ DiscardBuffered(s.in, 1).at = s.in.at + 1
    <3>1. 1 <= s.in.window
      BY <1>5, <1>11
    <3> QED
      BY <1>6, <3>1, DiscardIs
  <2>3. Onward(src, DiscardBuffered(s.in, 1))
    BY <1>6, <2>2, OnwardTwice
  <2>4. r.value = x.value
    BY <1>4, <2>1, FilledLast DEF n
  <2>5. DiscardBuffered(s.in, 1).at = src.at + (Len(f[Len(Inside(x))]) + 1)
    <3>1. src.at \in Nat /\ Len(f[m * k]) \in Nat /\ m * k = Len(Inside(x))
      <4>1. m * k = Len(Inside(x)) /\ Len(Inside(x)) \in Nat
        BY <1>2, <2>1
      <4> QED
        BY <1>2, <4>1, InputIs
    <3>2. (src.at + Len(f[m * k])) + 1 = src.at + (Len(f[m * k]) + 1)
      BY <3>1
    <3> QED
      BY <1>6, <2>2, <3>1, <3>2, Zenon
  <2>6. IsResult(q) /\ q.in = DiscardBuffered(s.in, 1) /\ q.rx = "ok" /\ q.value = r.value /\ q.n = r.n
    BY <1>11, ResultFields
  <2> QED
    BY <1>1, <2>1, <2>3, <2>4, <2>5, <2>6 DEF Round, n
<1>12. CASE s.rx = "ok" /\ r.n > max /\ q = Result(s.in, "item_value_out_of_range", r.value, 0)
  BY <1>1, <1>2, <1>12 DEF n
<1>13. ASSUME s.rx = "ok" /\ s.in.bytes[s.in.at + 1] # Break,
              NEW e \in DecodeItem(s.in, d, r.value, r.n, decoders),
              \/ e.rx # "ok" /\ q = e
              \/ e.rx = "ok" /\ q = Result(e.in, "more", e.value, r.n + 1)
       PROVE  Round(src, d, x, f, k + 1, q)
  <2>1. k < n
    BY <1>1, <1>2, <1>7, <1>13
  <2>2. IsResult(e) /\ (e.rx \in Faults(src) \/ (e.rx = "ok" /\ Decoded(src, d, x, f, k + 1, e)))
    <3>1. e \in DecodeItem(s.in, d, Filled(d, x, k), k, decoders)
      BY <1>1, <1>4, <1>13
    <3> QED
      BY <1>6, <2>1, <3>1, ItemReads DEF n, m
  <2>3. Onward(src, e.in)
    <3>1. Takes(s.in, e)
      BY <1>1, <1>6, <1>13, ContainerOf, DecodeItemTakes
    <3> QED
      BY <1>6, <3>1, OnwardTwice DEF Takes, Stays
  <2>4. CASE e.rx # "ok" /\ q = e
    BY <2>2, <2>3, <2>4 DEF Round
  <2>5. CASE e.rx = "ok" /\ q = Result(e.in, "more", e.value, r.n + 1)
    <3>1. Decoded(src, d, x, f, k + 1, e)
      BY <2>2, <2>5, NoFaultIsOk
    <3>2. IsResult(q) /\ q.in = e.in /\ q.rx = "more" /\ q.value = e.value /\ q.n = k + 1
      BY <1>1, <2>5, ResultFields
    <3>3. Decoded(src, d, x, f, k + 1, q)
      BY <3>1, <3>2 DEF Decoded
    <3>4. k + 1 <= n
      BY <1>2, <2>1
    <3> QED
      BY <2>3, <3>2, <3>3, <3>4 DEF Round, n
  <2> QED
    BY <1>13, <2>4, <2>5
<1> QED
  BY <1>3, <1>10, <1>11, <1>12, <1>13 DEF ItemRoundFrom

(* The loop until the break reads all elements and the break.              *)
LEMMA IndefiniteRead ==
  ASSUME NEW d \in Destinations, NEW x \in Encodable, x.type = d.type, d.type.kind \in ContainerKinds,
         NEW src \in Inputs, NEW f, Comes(src, x, f, <<Break>>),
         NEW decoders, PartsTake(d, decoders), PartsReadBack(d, decoders),
         NEW max \in Nat, NumElements(x) <= max,
         NEW r \in IndefiniteItems(src, d, Cleared(d), max, decoders)
  PROVE  /\ Reads(src, Len(f[Len(Inside(x))]) + 1, x.value, r)
         /\ IsResult(r) /\ Onward(src, r.in) /\ (r.rx = "ok" => r.n = NumElements(x))
<1> DEFINE n == NumElements(x)
           m == PerItem(d)
           last == Len(Inside(x))
           rounds == Rounds(src)
<1>1. /\ n \in Nat /\ m \in {1, 2} /\ last = m * n /\ Len(f[last]) \in Nat /\ Len(f[last]) >= last
      /\ Len(f[0]) = 0 /\ m * 0 = 0
  <2>1. /\ n \in Nat /\ m \in {1, 2} /\ last = m * n
        /\ \A k \in 0 .. last : Len(f[k]) \in Nat /\ Len(f[k]) >= k
    BY ItemsAhead DEF Lie
  <2>2. Len(f[0]) = 0
    BY EmptyIsUnit DEF IsFlattening, Comes
  <2> HIDE DEF n, m, last
  <2>3. last \in Nat /\ m * 0 = 0
    BY <2>1
  <2> QED
    BY <2>1, <2>2, <2>3
<1>2. rounds \in Nat /\ rounds > n
  <2>1. rounds = Len(src.bytes) - src.at + 1 /\ src.at \in Nat /\ Len(src.bytes) \in Nat
    BY InputIs DEF Rounds
  <2>2. src.at + (Len(f[last]) + 1) <= Len(src.bytes)
    <3>1. f[last] \in Seq(Bytes) /\ <<Break>> \in Seq(Bytes)
      <4>1. last \in Nat /\ f \in [0 .. last -> Seq(Bytes)]
        BY <1>1 DEF Comes, IsFlattening
      <4> QED
        BY <4>1 DEF Comes
    <3>2. Len(f[last] \o <<Break>>) = Len(f[last]) + 1
      BY <3>1, ConcatIs
    <3> QED
      BY <3>2 DEF Comes, Ahead
  <2> HIDE DEF n, m, last, rounds
  <2>3. last >= n /\ last \in Nat
    <3>1. n \in Nat /\ last = m * n
      BY <1>1
    <3>2. CASE m = 1
      BY <3>1, <3>2
    <3>3. CASE m = 2
      BY <3>1, <3>3
    <3> QED
      BY <1>1, <3>2, <3>3
  <2>4. \A v, l, h, at, z \in Nat :
          at + (h + 1) <= z /\ h >= l /\ l >= v => (z - at) + 1 \in Nat /\ (z - at) + 1 > v
    OBVIOUS
  <2>5. n \in Nat /\ Len(f[last]) \in Nat /\ Len(f[last]) >= last
    BY <1>1
  <2>6. rounds = (Len(src.bytes) - src.at) + 1
    BY <2>1
  <2>7. (Len(src.bytes) - src.at) + 1 \in Nat /\ (Len(src.bytes) - src.at) + 1 > n
    BY Zenon, <2>1, <2>2, <2>3, <2>4, <2>5
  <2> QED
    BY Zenon, <2>6, <2>7
<1>3. PICK run : /\ IndefiniteItems(src, d, Cleared(d), max, decoders) = run[rounds]
                 /\ IndefiniteRun(src, d, Cleared(d), max, decoders, rounds, run)
  BY IndefiniteIs
<1> HIDE DEF n, m, last, rounds
<1> DEFINE T == {k \in Nat : k <= rounds => \A q \in run[k] : Round(src, d, x, f, k, q)}
<1>4. 0 \in T
  <2> SUFFICES ASSUME NEW q \in run[0] PROVE Round(src, d, x, f, 0, q)
    OBVIOUS
  <2>1. q = Result(src, "more", Cleared(d), 0)
    BY <1>3 DEF IndefiniteRun
  <2>2. IsResult(q) /\ q.in = src /\ q.rx = "more" /\ q.value = Filled(d, x, 0) /\ q.n = 0
    BY <2>1, ResultFields, FilledFirst
  <2>3. Onward(src, src) /\ src.at \in Nat
    BY OnwardItself, InputIs
  <2>4. q.in.at = src.at + Len(f[PerItem(d) * 0])
    BY <1>1, <2>2, <2>3 DEF m
  <2>5. Decoded(src, d, x, f, 0, q)
    BY <2>2, <2>3, <2>4 DEF Decoded
  <2>6. 0 <= NumElements(x)
    BY <1>1 DEF n
  <2> QED
    BY <2>2, <2>3, <2>5, <2>6 DEF Round
<1>5. ASSUME NEW k \in Nat, k \in T PROVE k + 1 \in T
  <2> SUFFICES ASSUME k + 1 <= rounds, NEW q \in run[k + 1] PROVE Round(src, d, x, f, k + 1, q)
    OBVIOUS
  <2>1. k + 1 \in 1 .. rounds /\ (k + 1) - 1 = k /\ k <= rounds
    BY <1>2
  <2>2. PICK s \in run[k] : \/ s.rx = "more" /\ q \in NextItem(s, d, max, decoders)
                            \/ s.rx # "more" /\ q = s
    BY <1>3, <2>1 DEF IndefiniteRun
  <2>3. Round(src, d, x, f, k, s)
    BY <1>5, <2>1
  <2>4. CASE s.rx = "more" /\ q \in NextItem(s, d, max, decoders)
    BY <2>3, <2>4, RoundReads
  <2>5. CASE s.rx # "more" /\ q = s
    BY <2>3, <2>5 DEF Round
  <2> QED
    BY <2>2, <2>4, <2>5
<1> HIDE DEF T
<1>6. rounds \in T
  BY <1>2, <1>4, <1>5, NumberInduction
<1>7. Round(src, d, x, f, rounds, r)
  BY <1>2, <1>3, <1>6 DEF T
<1>8. ~(rounds <= NumElements(x))
  BY <1>1, <1>2 DEF n
<1> QED
  BY <1>7, <1>8, NoFaultIsOk DEF Round, Reads

(* The head of an array or a map without a length                          *)
LEMMA IndefiniteHead ==
  ASSUME NEW type \in {"array", "map"}
  PROVE  LET byte == Code(type) + IndefiniteInfo IN
         /\ byte \in Bytes /\ TypeOf(byte) = type /\ WellFormedInfo(byte)
         /\ InfoOf(byte) = IndefiniteInfo /\ LengthOf(byte) = 1
         /\ \A v : ~Forbidden(byte, v)
<1> DEFINE byte == Code(type) + IndefiniteInfo
           n == IF type = "map" THEN 6 ELSE 5
<1>1. byte = (IF type = "map" THEN 160 ELSE 128) + 31 /\ byte \in Bytes
  BY ContainerCodes DEF IndefiniteInfo, Bytes
<1>2. byte \div 32 + 1 = n /\ byte % 32 = 31 /\ MajorTypes[n] = type
  BY <1>1 DEF MajorTypes
<1> HIDE DEF byte, n
<1>3. TypeOf(byte) = type /\ InfoOf(byte) = 31
  BY <1>2 DEF TypeOf, InfoOf
<1>4. LengthOf(byte) = 1
  BY <1>3 DEF LengthOf
<1>5. WellFormedInfo(byte) /\ InfoOf(byte) = IndefiniteInfo
  BY <1>3 DEF WellFormedInfo, IndefiniteInfo
<1>6. \A v : ~Forbidden(byte, v)
  BY <1>3, Zenon DEF Forbidden
<1> QED
  BY <1>1, <1>3, <1>4, <1>5, <1>6 DEF byte

(* What was read of the rest of the input was read of the input.           *)
LEMMA ReadsAfter ==
  ASSUME NEW src \in Inputs, NEW p, Onward(src, p), NEW a \in Nat, NEW b \in Nat,
         p.at = src.at + a, NEW v, NEW r, Reads(p, b, v, r)
  PROVE  Reads(src, a + b, v, r)
<1>1. Faults(p) = Faults(src)
  BY FaultsStay
<1>2. src.at \in Nat
  BY InputIs
<1>3. p.at + b = src.at + (a + b)
  BY <1>2
<1> QED
  BY <1>1, <1>3 DEF Reads

LEMMA OpeningRead ==
  ASSUME NEW x, IsContainer(x), NEW src \in Inputs, Ahead(src, Opening(x)), NEW s \in ParseHead(src)
  PROVE  \/ s.rx \in Faults(src)
         \/ /\ s.rx = "ok" /\ s.in.at = src.at + Len(Opening(x))
            /\ s.value.type = HeadType(x.type)
            /\ x.type.flag => s.value.ind
            /\ ~x.type.flag => ~s.value.ind /\ s.value.value = NumElements(x)
<1> DEFINE type == HeadType(x.type)
           n == NumElements(x)
           h == Opening(x)
<1>1. type \in {"array", "map"} /\ n \in Nat /\ n <= Huge /\ x.type.flag \in BOOLEAN
  BY DEF IsContainer, HeadType
<1>2. type \in TypeNames /\ type # "special"
  BY <1>1 DEF TypeNames
<1>3. CASE ~x.type.flag
  <2>1. h = HeadBytes(type, n)
    BY <1>3, OpeningIs
  <2> HIDE DEF type, n
  <2>2. \/ s.rx \in Faults(src)
        \/ /\ s.rx = "ok" /\ s.in.at = src.at + Len(h)
           /\ s.value.type = type /\ s.value.value = n /\ ~s.value.ind
    BY <1>1, <1>2, <2>1, HeadRead
  <2> QED
    BY <1>3, <2>2 DEF type, n
<1>4. CASE x.type.flag
  <2> DEFINE byte == Code(type) + IndefiniteInfo
  <2>1. h = <<byte>>
    BY <1>4, OpeningIs
  <2>2. /\ byte \in Bytes /\ TypeOf(byte) = type /\ WellFormedInfo(byte)
        /\ InfoOf(byte) = IndefiniteInfo /\ LengthOf(byte) = 1 /\ \A v : ~Forbidden(byte, v)
    BY <1>1, IndefiniteHead
  <2> HIDE DEF type, byte
  <2>3. h \in Seq(Bytes) /\ Len(h) = 1 /\ h[1] = byte
    BY <2>1, <2>2
  <2> HIDE DEF h
  <2>4. \/ s.rx \in Faults(src)
        \/ /\ s.rx = "ok" /\ s.in.at = src.at + Len(h)
           /\ s.value = ItemHead(h[1], SlowValue(h))
    <3>1. Ahead(src, h)
      BY DEF h
    <3>2. Len(h) >= 1 /\ LengthOf(h[1]) = Len(h) /\ WellFormedInfo(h[1]) /\ ~Forbidden(h[1], SlowValue(h))
      BY <2>2, <2>3
    <3> QED
      BY <2>3, <3>1, <3>2, HeadTaken
  <2>5. LET q == ItemHead(byte, SlowValue(h)) IN q.type = type /\ q.ind
    BY <2>2, HeadFields
  <2>6. s.value = ItemHead(h[1], SlowValue(h)) => s.value.type = type /\ s.value.ind
    BY <2>3, <2>5
  <2> QED
    BY <1>4, <2>4, <2>6 DEF type, h
<1> QED
  BY <1>1, <1>3, <1>4

(* parse_array_like reads a container that was encoded, with or without a  *)
(* length.                                                                 *)
LEMMA ArrayLikeReads ==
  ASSUME NEW d \in Destinations, NEW x \in Encodable, x.type = d.type, d.type.kind \in ContainerKinds,
         NEW src \in Inputs, Ahead(src, Encoding(x)),
         NEW decoders, PartsTake(d, decoders), PartsReadBack(d, decoders),
         NEW max \in Nat, NumElements(x) <= max,
         NEW r \in ParseArrayLike(src, d, Cleared(d), max, decoders)
  PROVE  /\ Reads(src, Len(Encoding(x)), x.value, r)
         /\ r.rx = "ok" => r.n = NumElements(x)
<1> DEFINE a == Opening(x)
           b == FlattenSeq(Inside(x))
           c == Closing(x)
           n == NumElements(x)
           m == PerItem(d)
           dest == Cleared(d)
<1>1. IsContainer(x) /\ IsHolder(d) /\ n \in Nat /\ m \in {1, 2}
  BY ContainerOf DEF PerItem
<1>2. /\ a \in Seq(Bytes) /\ b \in Seq(Bytes) /\ c \in Seq(Bytes) /\ Encoding(x) = (a \o b) \o c
      /\ Inside(x) \in Seq(Seq(Bytes))
  BY <1>1, OpeningIs, ContainerBytes, InsideIs
<1>3. PICK f : IsFlattening(f, Bytes, Inside(x))
  BY <1>2, FlatteningExists
<1>4. b = f[Len(Inside(x))]
  BY <1>2, <1>3, FlattenIs
<1>5. PICK s \in ParseHead(src) : ArrayParsed(d, dest, max, decoders, s, r)
  BY ParseArrayLikeIs
<1>6. HeadType(x.type) = ContainerType(d)
  BY Zenon DEF HeadType, ContainerType
<1> HIDE DEF a, b, c, n, m, dest
<1>7. a \o (b \o c) = Encoding(x) /\ b \o c \in Seq(Bytes)
  <2>1. (a \o b) \o c = a \o (b \o c)
    <3>1. a \in Seq(Bytes) /\ b \in Seq(Bytes) /\ c \in Seq(Bytes)
      BY <1>2
    <3> QED
      BY <3>1, Reassociate
  <2>2. b \o c \in Seq(Bytes)
    BY <1>2, ConcatIs
  <2> QED
    BY <1>2, <2>1, <2>2, Zenon
<1>8. Ahead(src, a) /\ \A p : Onward(src, p) /\ p.at = src.at + Len(a) => Ahead(p, b \o c)
  <2>1. Ahead(src, a \o (b \o c))
    BY <1>7
  <2> QED
    BY <1>2, <1>7, <2>1, AheadParts
<1>9. \/ s.rx \in Faults(src)
      \/ /\ s.rx = "ok" /\ s.in.at = src.at + Len(a) /\ s.value.type = ContainerType(d)
         /\ x.type.flag => s.value.ind
         /\ ~x.type.flag => ~s.value.ind /\ s.value.value = n
  BY <1>1, <1>6, <1>8, OpeningRead DEF a, n
<1>10. /\ Len(a) \in Nat /\ Len(b) \in Nat /\ Len(c) \in Nat
       /\ Len(Encoding(x)) = Len(a) + (Len(b) + Len(c))
  <2>1. Len(b \o c) = Len(b) + Len(c)
    BY <1>2, ConcatIs
  <2>2. Len(a \o (b \o c)) = Len(a) + Len(b \o c)
    BY <1>2, <1>7, ConcatIs
  <2> QED
    BY <1>2, <1>7, <2>1, <2>2
<1>11. Takes(src, s) /\ Onward(src, s.in) /\ s.in \in Inputs
  BY ParseHeadTakes DEF Takes, Stays, Onward
<1>12. CASE s.rx \in Faults(src)
  <2>1. s.rx # "ok"
    BY <1>12, NoFaultIsOk
  <2>2. r = Result(s.in, s.rx, dest, 0)
    BY <1>5, <2>1 DEF ArrayParsed
  <2>3. Reads(src, Len(Encoding(x)), x.value, r)
    BY <1>12, <2>2, ReadsOf
  <2>4. r.rx # "ok"
    BY <2>1, <2>2, ResultFields
  <2> QED
    BY <2>3, <2>4
<1>13. CASE /\ s.rx = "ok" /\ s.in.at = src.at + Len(a) /\ s.value.type = ContainerType(d)
            /\ x.type.flag => s.value.ind
            /\ ~x.type.flag => ~s.value.ind /\ s.value.value = n
  <2>1. Ahead(s.in, b \o c)
    BY <1>8, <1>11, <1>13
  <2>2. CASE x.type.flag
    <3>1. c = <<Break>>
      BY <1>1, <2>2, OpeningIs DEF c
    <3>2. Comes(s.in, x, f, <<Break>>)
      BY <1>2, <1>3, <1>4, <2>1, <3>1 DEF Comes
    <3>3. r \in IndefiniteItems(s.in, d, dest, max, decoders)
      BY <1>5, <1>13, <2>2 DEF ArrayParsed
    <3>4. /\ Reads(s.in, Len(f[Len(Inside(x))]) + 1, x.value, r)
          /\ (r.rx = "ok" => r.n = n)
      BY <1>11, <3>2, <3>3, IndefiniteRead DEF dest, n
    <3>5. Len(c) = 1
      BY <3>1
    <3>6. Reads(s.in, Len(b) + Len(c), x.value, r) /\ Len(b) + Len(c) \in Nat
      BY <1>4, <1>10, <3>4, <3>5
    <3>7. Reads(src, Len(a) + (Len(b) + Len(c)), x.value, r)
      BY <1>10, <1>11, <1>13, <3>6, ReadsAfter
    <3> QED
      BY <1>10, <3>4, <3>7 DEF n
  <2>3. CASE ~x.type.flag
    <3>1. ~s.value.ind /\ s.value.value = n
      BY <1>13, <2>3
    <3>2. Comes(s.in, x, f, c)
      BY <1>2, <1>3, <1>4, <2>1 DEF Comes
    <3>3. Len(b) >= m * n
      <4>1. /\ Len(Inside(x)) = m * n /\ Len(Inside(x)) \in Nat
            /\ \A k \in 0 .. Len(Inside(x)) : Len(f[k]) >= k
        <5>1. Len(Inside(x)) = m * n /\ \A k \in 0 .. Len(Inside(x)) : Len(f[k]) >= k
          BY <1>11, <3>2, ItemsAhead DEF m, n, Lie
        <5>2. m * n \in Nat
          BY <1>1
        <5> QED
          BY <5>1, <5>2
      <4>2. Len(f[Len(Inside(x))]) >= Len(Inside(x))
        BY <4>1
      <4> QED
        BY <1>4, <4>1, <4>2
    <3>4. /\ src.at \in Nat /\ s.in.at \in Nat /\ src.at < s.in.at
          /\ InputSize(s.in) = Len(s.in.bytes) - s.in.at /\ Len(s.in.bytes) \in Nat
          /\ s.in.at + (Len(b) + Len(c)) <= Len(s.in.bytes)
      <4>1. Len(b \o c) = Len(b) + Len(c)
        BY <1>2, ConcatIs
      <4>2. s.in.at + Len(b \o c) <= Len(s.in.bytes)
        BY <2>1 DEF Ahead
      <4>3. /\ src.at \in Nat /\ s.in.at \in Nat
            /\ InputSize(s.in) = Len(s.in.bytes) - s.in.at /\ Len(s.in.bytes) \in Nat
        BY <1>11, InputIs
      <4>4. src.at < s.in.at
        BY <1>11, <1>13 DEF Takes
      <4>5. s.in.at + (Len(b) + Len(c)) <= Len(s.in.bytes)
        BY Zenon, <4>1, <4>2
      <4> QED
        BY Zenon, <4>3, <4>4, <4>5
    <3>5. ~(InputSize(s.in) \div m < n) /\ n < Len(s.in.bytes)
      <4>0. \A at, z, u, v, t \in Nat :
              at + (u + v) <= z /\ u >= t => z - at \in Nat /\ z - at >= t
        OBVIOUS
      <4>1. InputSize(s.in) \in Nat /\ InputSize(s.in) >= m * n
        <5>1. m * n \in Nat
          BY <1>1
        <5>2. Len(s.in.bytes) - s.in.at \in Nat /\ Len(s.in.bytes) - s.in.at >= m * n
          BY Zenon, <1>10, <3>3, <3>4, <4>0, <5>1
        <5> QED
          BY Zenon, <3>4, <5>2
      <4>2. CASE m = 1
        BY <1>1, <3>4, <4>1, <4>2
      <4>3. CASE m = 2
        BY <1>1, <3>4, <4>1, <4>3
      <4> QED
        BY <1>1, <4>2, <4>3
    <3>6. ~(n > max)
      BY <1>1 DEF n
    <3>7. PICK u \in Reserve(s.in, d.type, dest, n) :
            \/ u.rx # "ok" /\ r = u
            \/ u.rx = "ok" /\ r \in Items(u.in, d, u.value, n, decoders)
      BY <1>5, <1>13, <3>1, <3>5, <3>6 DEF ArrayParsed, m
    <3>8. /\ u.rx = "ok" \/ u.rx = "not_enough_memory"
          /\ u.value = dest /\ Onward(s.in, u.in) /\ u.in.at = s.in.at /\ u.in \in Inputs /\ IsResult(u)
      <4>1. Onward(s.in, Ask(s.in, n)) /\ Ask(s.in, n).at = s.in.at
        BY <1>1, <1>11, <3>5, AskIs
      <4>2. Onward(s.in, s.in)
        BY <1>11, OnwardItself
      <4>3. \/ u = Result(s.in, "ok", dest, 0)
            \/ u = Result(Ask(s.in, n), "ok", dest, 0)
            \/ u = Result(Ask(s.in, n), "not_enough_memory", dest, 0)
        BY ReserveIs
      <4> QED
        BY <4>1, <4>2, <4>3, ResultFields DEF Onward
    <3>9. CASE u.rx # "ok" /\ r = u
      <4>1. u.rx = "not_enough_memory" /\ "not_enough_memory" \in Faults(src)
        BY <3>8, <3>9, NoFaultIsOk
      <4> QED
        BY <3>9, <4>1 DEF Reads
    <3>10. CASE u.rx = "ok" /\ r \in Items(u.in, d, u.value, n, decoders)
      <4>1. Onward(src, u.in) /\ u.in.at = src.at + Len(a)
        BY <1>11, <1>13, <3>8, OnwardTwice
      <4>2. Ahead(u.in, b \o c)
        BY <1>8, <4>1
      <4>3. Comes(u.in, x, f, c)
        BY <1>2, <1>3, <1>4, <4>2 DEF Comes
      <4>4. Reads(u.in, Len(b), x.value, r) /\ r.n = n
        BY <1>4, <3>8, <3>10, <4>3, ItemsRead DEF dest, n
      <4>5. Len(c) = 0
        BY <1>1, <2>3, OpeningIs, EmptyIsUnit DEF c
      <4>6. Reads(src, Len(a) + Len(b), x.value, r)
        BY <1>10, <4>1, <4>4, ReadsAfter
      <4>7. Len(Encoding(x)) = Len(a) + Len(b)
        BY <1>10, <4>5
      <4> QED
        BY <4>4, <4>6, <4>7 DEF n
    <3> QED
      BY <3>7, <3>9, <3>10
  <2> QED
    BY <1>1, <2>2, <2>3
<1> QED
  BY <1>9, <1>12, <1>13

(* decode_varargs reads a tuple that was encoded.                          *)
LEMMA TupleReads ==
  ASSUME NEW d \in Destinations, NEW x \in Encodable, x.type = d.type, d.type.kind = "tuple",
         NEW src \in Inputs, Ahead(src, Encoding(x)),
         NEW decoders, PartsTake(d, decoders), PartsReadBack(d, decoders),
         NEW r \in DecodeTuple(src, d, decoders)
  PROVE  Reads(src, Len(Encoding(x)), x.value, r)
<1> DEFINE a == HeadBytes("array", d.type.n)
           b == FlattenSeq(Inside(x))
           n == d.type.n
<1>0. d.type.kind \in ContainerKinds
  BY DEF ContainerKinds
<1>1. IsContainer(x) /\ ~x.type.flag /\ d.type.n \in Nat
  BY <1>0, ContainerOf
<1>2. NumElements(x) = n /\ n \in Nat /\ n <= Huge
  BY <1>1, LinearIs DEF Linear
<1>3. Opening(x) = a /\ Closing(x) = <<>>
  <2>1. HeadType(x.type) = "array"
    BY DEF HeadType
  <2> QED
    BY <1>1, <1>2, <2>1, OpeningIs
<1>4. /\ a \in Seq(Bytes) /\ b \in Seq(Bytes) /\ Encoding(x) = (a \o b) \o <<>>
      /\ Inside(x) \in Seq(Seq(Bytes))
  BY <1>1, <1>3, OpeningIs, ContainerBytes, InsideIs
<1>5. PICK f : IsFlattening(f, Bytes, Inside(x))
  BY <1>4, FlatteningExists
<1>6. b = f[Len(Inside(x))]
  BY <1>4, <1>5, FlattenIs
<1>7. PICK s \in ExpectHead(src, "array", n) :
        \/ s.rx # "ok" /\ r = Result(s.in, s.rx, d.value, 0)
        \/ s.rx = "ok" /\ r \in Items(s.in, d, d.value, n, decoders)
  BY DecodeTupleIs
<1>8. "array" \in TypeNames /\ "array" # "special"
  BY DEF TypeNames
<1> HIDE DEF b, n
<1>9. Encoding(x) = a \o b /\ a \o b \in Seq(Bytes)
  <2> HIDE DEF a
  <2>1. a \o b \in Seq(Bytes)
    BY <1>4, ConcatIs
  <2> QED
    BY <1>4, <2>1, EmptyIsUnit
<1>10. /\ Reads(src, Len(a), s.value, s) /\ Onward(src, s.in)
       /\ s.rx = "ok" => s.in \in Inputs /\ Ahead(s.in, b)
  BY <1>2, <1>4, <1>8, <1>9, HeadExpected DEF n
<1> HIDE DEF a
<1>11. Len(a) \in Nat /\ Len(b) \in Nat /\ Len(Encoding(x)) = Len(a) + Len(b)
  BY <1>4, <1>9, ConcatIs
<1>12. CASE s.rx # "ok" /\ r = Result(s.in, s.rx, d.value, 0)
  <2>1. s.rx \in Faults(src)
    BY <1>10, <1>12 DEF Reads
  <2> QED
    BY <1>12, <2>1, ReadsOf
<1>13. CASE s.rx = "ok" /\ r \in Items(s.in, d, d.value, n, decoders)
  <2>1. s.in.at = src.at + Len(a)
    BY <1>10, <1>13, NoFaultIsOk DEF Reads
  <2>2. b \o <<>> = b /\ <<>> \in Seq(Bytes)
    BY <1>4, EmptyIsUnit
  <2>3. Comes(s.in, x, f, <<>>)
    BY <1>5, <1>6, <1>10, <1>13, <2>2 DEF Comes
  <2>4. d.value = Cleared(d)
    BY FilledByKind
  <2>5. Reads(s.in, Len(b), x.value, r)
    BY <1>0, <1>2, <1>6, <1>10, <1>13, <2>3, <2>4, ItemsRead
  <2> QED
    BY <1>10, <1>11, <2>1, <2>5, ReadsAfter
<1> QED
  BY <1>7, <1>12, <1>13

LEMMA ContainerReads ==
  ASSUME NEW d \in Destinations, NEW x \in Encodable, x.type = d.type, d.type.kind \in ContainerKinds,
         NEW src \in Inputs, Ahead(src, Encoding(x)),
         NEW decoders, PartsTake(d, decoders), PartsReadBack(d, decoders),
         NEW r \in DecodeWith(src, d, decoders)
  PROVE  Reads(src, Len(Encoding(x)), x.value, r)
<1>1. Huge \in Nat /\ NumElements(x) <= Huge /\ NumElements(x) \in Nat
  BY ContainerOf, HugeIs
<1>2. CASE d.type.kind \in {"vector", "map", "set"}
  <2>1. r \in ParseArrayLike(src, d, Cleared(d), Huge, decoders)
    BY <1>2, DecodeByKind, FilledByKind
  <2> QED
    BY <1>1, <2>1, ArrayLikeReads
<1>3. CASE d.type.kind = "array"
  <2>1. d.type.n \in Nat
    BY ContainerOf, <1>3
  <2>2. NumElements(x) = d.type.n
    BY <1>3, <2>1, LinearIs DEF Linear
  <2>3. r \in DecodeArray(src, d, decoders)
    BY <1>3, DecodeByKind
  <2>4. PICK s \in ParseArrayLike(src, d, d.value, d.type.n, decoders) :
           \/ r = s /\ (s.rx = "ok" => s.n = d.type.n)
           \/ s.rx = "ok" /\ s.n # d.type.n /\ r = Result(s.in, "tuple_size_mismatch", s.value, 0)
    BY <2>3, DecodeArrayIs
  <2>5. d.value = Cleared(d)
    BY <1>3, FilledByKind
  <2>6. d.type.n <= d.type.n
    BY <2>1
  <2>7. Reads(src, Len(Encoding(x)), x.value, s) /\ (s.rx = "ok" => s.n = NumElements(x))
    BY <2>1, <2>2, <2>4, <2>5, <2>6, ArrayLikeReads
  <2> QED
    BY <2>2, <2>4, <2>7
<1>4. CASE d.type.kind = "tuple"
  <2>1. r \in DecodeTuple(src, d, decoders)
    BY <1>4, DecodeByKind
  <2> QED
    BY <1>4, <2>1, TupleReads
<1> QED
  BY <1>2, <1>3, <1>4 DEF ContainerKinds

(* What encode() has written decode() gives back: from an input that       *)
(* begins with the encoding of a value, decode() of its type reads that    *)
(* value and no byte more or less, whatever the destination held and       *)
(* wherever the windows split the input; only the supplier and the memory  *)
(* can fail.  Of a fixed_u8string the value is the string it shows.        *)
THEOREM DecodeGivesBack ==
  \A d \in Destinations : \A x \in Encodable : x.type = d.type =>
    \A src \in Inputs : Ahead(src, Encoding(x)) =>
      \A r \in Decode[d][src] : ReadsBack(src, x, r)
<1> DEFINE Right(d) ==
             \A x \in Encodable : x.type = d.type =>
               \A src \in Inputs : Ahead(src, Encoding(x)) =>
                 \A r \in Decode[d][src] : ReadsBack(src, x, r)
           T == {d \in Destinations : Right(d)}
           m == [d \in Destinations |-> Level[d.type]]
<1>1. m \in [Destinations -> Nat] /\ \A d \in Destinations : m[d] = Level[d.type]
  BY DestinationIs
<1>2. ASSUME NEW d \in Destinations, \A e \in Destinations : m[e] < m[d] => e \in T
      PROVE  d \in T
  <2> SUFFICES ASSUME NEW x \in Encodable, x.type = d.type, NEW src \in Inputs,
                      Ahead(src, Encoding(x)), NEW r \in Decode[d][src]
               PROVE  ReadsBack(src, x, r)
    OBVIOUS
  <2>1. r \in DecodeWith(src, d, Decode)
    BY DecodeIs
  <2>2. IsType(d.type)
    BY DestinationIs
  <2>3. CASE d.type.kind \in ContainerKinds
    <3>1. \A e \in Children(d) : e \in Destinations /\ e \in T
      BY <1>1, <1>2, <2>3, DestinationIs
    <3>2. PartsTake(d, Decode)
      BY <3>1, DecodeTakes DEF PartsTake
    <3>3. PartsReadBack(d, Decode)
      <4>1. \A e \in Children(d) : e.type.kind # "fixedtext"
        BY <2>3, ChildrenPlain
      <4> QED
        BY <3>1, <4>1, ReadsBackPlain DEF PartsReadBack
    <3>4. Reads(src, Len(Encoding(x)), x.value, r)
      BY <2>1, <2>3, <3>2, <3>3, ContainerReads
    <3> QED
      BY <2>3, <3>4, ReadsBackPlain DEF ContainerKinds
  <2>4. CASE d.type.kind \in StringKinds
    BY <2>1, <2>4, StringReads
  <2>5. CASE d.type.kind \in IntegerKinds
    BY <2>1, <2>5, DecodeByKind, IntegerReads, ReadsBackPlain DEF IntegerKinds
  <2>6. CASE d.type.kind = "bool"
    BY <2>1, <2>6, DecodeByKind, BooleanReads, ReadsBackPlain
  <2>7. CASE d.type.kind = "float"
    BY <2>1, <2>7, DecodeByKind, FloatReads, ReadsBackPlain
  <2> QED
    BY <2>2, <2>3, <2>4, <2>5, <2>6, <2>7 DEF IsType, ContainerKinds, StringKinds
<1> HIDE DEF T, m
<1>3. \A d \in Destinations : d \in T
  BY <1>1, <1>2, MeasureInduction
<1> QED
  BY <1>3 DEF T

-----------------------------------------------------------------------------
(* A session gives back what it has encoded: the successes of the log, and *)
(* the codes of theirs that the input begins with.                         *)

Successes(l) == FlattenSeq([k \in DOMAIN l |-> IF l[k].rx = "ok" THEN <<l[k]>> ELSE <<>>])

Codes(s) == [k \in 1 .. Len(s) |-> Encoding(s[k].item)]

LEMMA SuccessesGrow ==
  ASSUME NEW l \in Seq(Entries), NEW e \in Entries
  PROVE  /\ Successes(l) \in Seq(Entries)
         /\ Successes(Append(l, e)) = IF e.rx = "ok" THEN Append(Successes(l), e) ELSE Successes(l)
<1> DEFINE one(d) == IF d.rx = "ok" THEN <<d>> ELSE <<>>
           s == [k \in DOMAIN l |-> one(l[k])]
           t == [k \in DOMAIN Append(l, e) |-> one(Append(l, e)[k])]
<1>1. \A d \in Entries : one(d) \in Seq(Entries)
  OBVIOUS
<1> HIDE DEF one
<1>2. s \in Seq(Seq(Entries)) /\ Len(s) = Len(l)
  <2>1. DOMAIN l = 1 .. Len(l) /\ Len(l) \in Nat /\ \A k \in 1 .. Len(l) : l[k] \in Entries
    OBVIOUS
  <2>2. \A k \in 1 .. Len(l) : one(l[k]) \in Seq(Entries)
    BY <1>1, <2>1
  <2> QED
    BY <2>1, <2>2
<1>3. t = Append(s, one(e))
  <2> DEFINE u == Append(l, e)
  <2>1. /\ DOMAIN u = 1 .. Len(l) + 1 /\ Len(l) \in Nat /\ u[Len(l) + 1] = e
        /\ \A k \in 1 .. Len(l) : u[k] = l[k] /\ u[k] \in Entries
    OBVIOUS
  <2>2. t \in Seq(Seq(Entries)) /\ Len(t) = Len(l) + 1
    <3>1. \A k \in 1 .. Len(l) + 1 : u[k] \in Entries
      BY <2>1
    <3> HIDE DEF u
    <3>2. \A k \in 1 .. Len(l) + 1 : one(u[k]) \in Seq(Entries)
      BY <1>1, <3>1
    <3>3. /\ [k \in DOMAIN u |-> one(u[k])] \in Seq(Seq(Entries))
          /\ Len([k \in DOMAIN u |-> one(u[k])]) = Len(l) + 1
      BY <2>1, <3>2
    <3> QED
      BY <3>3 DEF u
  <2>3. \A k \in 1 .. Len(l) + 1 : t[k] = one(u[k])
    BY <2>1
  <2>4. \A k \in 1 .. Len(l) : s[k] = one(l[k])
    OBVIOUS
  <2> HIDE DEF s, t, u
  <2>5. /\ Append(s, one(e)) \in Seq(Seq(Entries)) /\ Len(Append(s, one(e))) = Len(l) + 1
        /\ Append(s, one(e))[Len(l) + 1] = one(e)
        /\ \A k \in 1 .. Len(l) : Append(s, one(e))[k] = s[k]
    BY <1>1, <1>2, <2>1
  <2>6. \A k \in 1 .. Len(l) + 1 : t[k] = Append(s, one(e))[k]
    <3> TAKE k \in 1 .. Len(l) + 1
    <3>1. CASE k = Len(l) + 1
      BY <2>1, <2>3, <2>5, <3>1
    <3>2. CASE k # Len(l) + 1
      <4>1. k \in 1 .. Len(l)
        BY <2>1, <3>2
      <4> QED
        BY <2>1, <2>3, <2>4, <2>5, <4>1
    <3> QED
      BY <3>1, <3>2
  <2> QED
    BY <2>2, <2>5, <2>6, SeqEqual
<1> HIDE DEF s, t
<1>4. one(e) \in Seq(Entries)
  BY <1>1
<1>5. FlattenSeq(Append(s, one(e))) = FlattenSeq(s) \o one(e) /\ FlattenSeq(s) \in Seq(Entries)
  BY <1>2, <1>4, FlattenAppend
<1>6. Successes(l) = FlattenSeq(s) /\ Successes(Append(l, e)) = FlattenSeq(t)
  BY DEF Successes, s, t, one
<1>7. FlattenSeq(s) \o one(e) = IF e.rx = "ok" THEN Append(FlattenSeq(s), e) ELSE FlattenSeq(s)
  <2> DEFINE q == FlattenSeq(s)
  <2>1. q \in Seq(Entries)
    BY <1>5
  <2> HIDE DEF q
  <2>2. q \o <<e>> = Append(q, e) /\ q \o <<>> = q
    BY <2>1
  <2>3. q \o one(e) = IF e.rx = "ok" THEN Append(q, e) ELSE q
    BY <2>2 DEF one
  <2> QED
    BY <2>3 DEF q
<1> QED
  BY <1>3, <1>5, <1>6, <1>7

LEMMA CodesGrow ==
  ASSUME NEW s \in Seq(Entries), NEW e \in Entries
  PROVE  /\ Codes(s) \in Seq(Seq(Bytes)) /\ Len(Codes(s)) = Len(s)
         /\ \A k \in 1 .. Len(s) : Codes(s)[k] = Encoding(s[k].item)
         /\ Codes(Append(s, e)) = Append(Codes(s), Encoding(e.item)) /\ Encoding(e.item) \in Seq(Bytes)
<1>1. \A d \in Entries : Encoding(d.item) \in Seq(Bytes)
  <2> TAKE d \in Entries
  <2>1. d.item \in Encodable
    BY DEF Entries
  <2> QED
    BY <2>1, SizeOfIsLength
<1>2. ASSUME NEW t \in Seq(Entries)
      PROVE  /\ Codes(t) \in Seq(Seq(Bytes)) /\ Len(Codes(t)) = Len(t)
             /\ \A k \in 1 .. Len(t) : Codes(t)[k] = Encoding(t[k].item)
  <2>1. Len(t) \in Nat /\ \A k \in 1 .. Len(t) : t[k] \in Entries
    OBVIOUS
  <2>2. \A k \in 1 .. Len(t) : Encoding(t[k].item) \in Seq(Bytes)
    BY <1>1, <2>1
  <2> QED
    BY <2>1, <2>2 DEF Codes
<1> DEFINE t == Append(s, e)
           c == Encoding(e.item)
           a == Codes(s)
           b == Codes(t)
           n == Len(s)
<1>3. t \in Seq(Entries) /\ Len(t) = n + 1 /\ n \in Nat /\ t[n + 1] = e /\ \A k \in 1 .. n : t[k] = s[k]
  OBVIOUS
<1>4. c \in Seq(Bytes)
  BY <1>1
<1> HIDE DEF t, c
<1>5. /\ a \in Seq(Seq(Bytes)) /\ Len(a) = n /\ \A k \in 1 .. n : a[k] = Encoding(s[k].item)
      /\ b \in Seq(Seq(Bytes)) /\ Len(b) = n + 1 /\ \A k \in 1 .. n + 1 : b[k] = Encoding(t[k].item)
  BY <1>2, <1>3
<1> HIDE DEF a, b, n
<1>6. /\ Append(a, c) \in Seq(Seq(Bytes)) /\ Len(Append(a, c)) = n + 1 /\ Append(a, c)[n + 1] = c
      /\ \A k \in 1 .. n : Append(a, c)[k] = a[k]
  BY <1>3, <1>4, <1>5
<1>7. \A k \in 1 .. n + 1 : b[k] = Append(a, c)[k]
  <2> TAKE k \in 1 .. n + 1
  <2>1. CASE k = n + 1
    BY <1>3, <1>5, <1>6, <2>1 DEF c
  <2>2. CASE k # n + 1
    <3>1. k \in 1 .. n
      BY <1>3, <2>2
    <3> QED
      BY <1>3, <1>5, <1>6, <3>1
  <2> QED
    BY <2>1, <2>2
<1>8. b = Append(a, c)
  BY <1>5, <1>6, <1>7, SeqEqual
<1> QED
  BY <1>2, <1>4, <1>8 DEF a, b, c, t

(* What was sent is made of the codes of the successes, and of no more.    *)
LEMMA SentInParts ==
  ASSUME NEW l \in Seq(Entries)
  PROVE  Successes(l) \in Seq(Entries) /\ SentOf(l) = FlattenSeq(Codes(Successes(l)))
<1> DEFINE P(u) == Successes(u) \in Seq(Entries) /\ SentOf(u) = FlattenSeq(Codes(Successes(u)))
           T == {n \in Nat : \A u \in Seq(Entries) : Len(u) = n => P(u)}
<1>1. 0 \in T
  <2>1. P(<<>>)
    <3>1. Successes(<<>>) = <<>> /\ SentOf(<<>>) = <<>>
      BY FlattenEmpty DEF Successes, SentOf
    <3>2. Codes(<<>>) = <<>> /\ <<>> \in Seq(Entries)
      BY DEF Codes
    <3> QED
      BY <3>1, <3>2, FlattenEmpty
  <2>2. \A u \in Seq(Entries) : Len(u) = 0 => u = <<>>
    OBVIOUS
  <2> HIDE DEF P
  <2> QED
    BY <2>1, <2>2
<1>2. ASSUME NEW n \in Nat, n \in T PROVE n + 1 \in T
  <2>1. ASSUME NEW u \in Seq(Entries), Len(u) = n + 1 PROVE P(u)
    <3>1. u # <<>>
      BY <2>1
    <3>2. PICK v \in Seq(Entries), e \in Entries : u = Append(v, e) /\ Len(u) = Len(v) + 1
      BY <3>1, FrontAndLast
    <3>3. Len(v) = n
      BY <2>1, <3>2
    <3>4. P(v)
      <4> HIDE DEF P
      <4> QED
        BY <1>2, <3>3
    <3> DEFINE s == Successes(v)
               c == Encoding(e.item)
    <3>5. /\ s \in Seq(Entries)
          /\ Successes(u) = IF e.rx = "ok" THEN Append(s, e) ELSE s
          /\ SentOf(u) = IF e.rx = "ok" THEN SentOf(v) \o c ELSE SentOf(v)
      BY <3>2, SuccessesGrow, SentGrows
    <3>6. SentOf(v) = FlattenSeq(Codes(s))
      BY <3>4
    <3> HIDE DEF s, c
    <3>7. Codes(s) \in Seq(Seq(Bytes)) /\ Codes(Append(s, e)) = Append(Codes(s), c) /\ c \in Seq(Bytes)
      BY <3>5, CodesGrow DEF c
    <3>8. FlattenSeq(Append(Codes(s), c)) = FlattenSeq(Codes(s)) \o c
      BY <3>7, FlattenAppend
    <3>9. Append(s, e) \in Seq(Entries)
      BY <3>5
    <3>10. CASE e.rx = "ok"
      BY <3>5, <3>6, <3>7, <3>8, <3>9, <3>10
    <3>11. CASE e.rx # "ok"
      BY <3>5, <3>6, <3>11
    <3> QED
      BY <3>10, <3>11
  <2> HIDE DEF P
  <2> QED
    BY <2>1
<1> HIDE DEF T
<1>3. \A n \in Nat : n \in T
  BY <1>1, <1>2, NumberInduction
<1> QED
  <2>1. Len(l) \in T /\ Len(l) = Len(l)
    BY <1>3
  <2> HIDE DEF P
  <2>2. P(l)
    BY <2>1 DEF T
  <2> QED
    BY <2>2 DEF P

(* Where the first k - 1 parts of what was sent end, part k is ahead.      *)
LEMMA PlaceAhead ==
  ASSUME NEW p \in Inputs, NEW s \in Seq(Seq(Bytes)), NEW f, IsFlattening(f, Bytes, s),
         Begins(p.bytes, FlattenSeq(s)), NEW k \in 1 .. Len(s), p.at = Len(f[k - 1])
  PROVE  Ahead(p, s[k])
<1> DEFINE src == [kind |-> p.kind, bytes |-> p.bytes, at |-> 0, window |-> Len(p.bytes),
                   asked |-> p.asked, buf |-> p.buf]
           q == f[Len(s)]
<1>1. /\ p.kind \in {"memory", "stream", "legacy"} /\ p.bytes \in Seq(Bytes) /\ Len(p.bytes) \in Nat
      /\ p.asked \in Nat /\ p.at \in Nat /\ p.buf \in Bufs
      /\ p.buf.begin + p.buf.size = p.buf.alloc /\ (p.kind = "legacy" => p.buf.alloc = Len(p.bytes))
  BY InputIs
<1>2. src.at = 0 /\ src.kind = p.kind /\ src.bytes = p.bytes /\ src.asked = p.asked /\ src.buf = p.buf
      /\ src.window = Len(p.bytes)
  OBVIOUS
<1>3. src \in [kind : {"memory", "stream", "legacy"}, bytes : Seq(Bytes), at : Nat, window : Nat,
               asked : Nat, buf : [begin : Nat, size : Nat, alloc : Nat]]
  BY <1>1 DEF Bufs
<1> HIDE DEF src
<1>4. src \in Inputs
  BY <1>1, <1>2, <1>3 DEF Inputs
<1>5. Onward(src, p)
  BY <1>1, <1>2 DEF Onward
<1>6. FlattenSeq(s) = q /\ q \in Seq(Bytes)
  BY FlattenIs
<1> HIDE DEF q
<1>7. Ahead(src, q)
  <2>1. Len(q) \in Nat /\ 0 + Len(q) = Len(q) /\ \A j \in 1 .. Len(q) : 0 + j = j
    BY <1>6
  <2>2. Len(q) <= Len(p.bytes) /\ \A j \in 1 .. Len(q) : p.bytes[j] = q[j]
    BY <1>6 DEF Begins
  <2> QED
    BY <1>2, <2>1, <2>2 DEF Ahead
<1>8. <<>> \in Seq(Bytes) /\ q \o <<>> = q
  BY <1>6, EmptyIsUnit
<1>9. Ahead(src, f[Len(s)] \o <<>>)
  BY <1>7, <1>8 DEF q
<1>10. p.at = src.at + Len(f[k - 1])
  <2>1. \A j \in Nat : 0 + j = j
    OBVIOUS
  <2> QED
    BY <1>1, <1>2, <2>1
<1> QED
  BY <1>4, <1>5, <1>8, <1>9, <1>10, PartsAhead

(* A whole call of decode() where the encoding of a value is ahead         *)
LEMMA DecodedRight ==
  ASSUME NEW src \in Inputs, NEW d \in Destinations, NEW x \in Encodable, x.type = d.type,
         Ahead(OpenInput(src), Encoding(x)), NEW r \in DecodeFrom(src, d)
  PROVE  \/ r.rx \in Faults(src)
         \/ /\ r.rx = "ok" /\ Shown(x.type, r.value) = x.value
            /\ r.in.at = OpenInput(src).at + Len(Encoding(x)) /\ OpenInput(r.in).at = r.in.at
<1> DEFINE o == OpenInput(src)
<1>1. PICK p \in Decode[d][o] : r = IF p.rx = "ok" THEN [p EXCEPT !.in = SyncInput(p.in)] ELSE p
  BY Zenon DEF DecodeFrom
<1>2. o \in Inputs /\ o.kind = src.kind
  BY OpenedInput
<1>3. ReadsBack(o, x, p) /\ Takes(o, p)
  BY <1>1, <1>2, DecodeGivesBack, DecodeTakes
<1>4. IsResult(p) /\ p.in \in Inputs
  BY <1>3 DEF Takes, Stays, Onward
<1>5. Faults(o) = Faults(src)
  BY <1>2 DEF Faults
<1> HIDE DEF o
<1>6. CASE p.rx \in Faults(src)
  <2>1. p.rx # "ok"
    BY <1>6, NoFaultIsOk
  <2> QED
    BY <1>1, <1>6, <2>1
<1>7. CASE p.rx \notin Faults(src)
  <2>1. p.rx = "ok" /\ Shown(x.type, p.value) = x.value /\ p.in.at = o.at + Len(Encoding(x))
    BY <1>3, <1>5, <1>7 DEF ReadsBack
  <2> DEFINE s == SyncInput(p.in)
  <2>2. /\ s \in Inputs /\ s.kind = p.in.kind /\ s.at = p.in.at
        /\ s.buf.begin = IF p.in.kind = "legacy" THEN p.in.at ELSE p.in.buf.begin
    BY <1>4, SyncedInput
  <2> HIDE DEF s
  <2>3. r = Result(s, p.rx, p.value, p.n)
    <3>1. r = [p EXCEPT !.in = s]
      BY Zenon, <1>1, <2>1 DEF s
    <3>2. [p EXCEPT !.in = s] = Result(s, p.rx, p.value, p.n)
      BY <1>4, ResultExcept
    <3> QED
      BY Zenon, <3>1, <3>2
  <2>4. r.in = s /\ r.rx = p.rx /\ r.value = p.value
    BY <2>3, ResultFields
  <2>5. OpenInput(s).at = s.at
    <3>1. OpenInput(s).at = IF s.kind = "legacy" THEN s.buf.begin ELSE s.at
      BY <2>2, OpenedInput
    <3> QED
      BY <2>2, <3>1
  <2>6. OpenInput(r.in).at = r.in.at
    BY <2>4, <2>5
  <2> QED
    BY <2>1, <2>2, <2>4, <2>6 DEF o
<1> QED
  BY <1>6, <1>7

(* What is opened is decoded as what was encoded, value by value: while    *)
(* every call has succeeded, the input is where the codes of the values    *)
(* given back end.                                                         *)
Following ==
  LET s == Successes(log) IN
  /\ Len(plan) = Len(s) /\ \A k \in 1 .. Len(s) : plan[k] = s[k].item.type
  /\ Begins(in.bytes, SentOf(log))
  /\ Len(got) <= Len(s)
  /\ (\A k \in 1 .. Len(got) : got[k].rx = "ok") =>
       \A f : IsFlattening(f, Bytes, Codes(s)) => OpenInput(in).at = Len(f[Len(got)])

RInv ==
  /\ DInv
  /\ log # <<>> /\ phase = "decode" => Following
  /\ RoundTrip

LEMMA NothingGot ==
  ASSUME got = <<>> PROVE RoundTrip
<1>1. DOMAIN got = {}
  OBVIOUS
<1> QED
  BY <1>1 DEF RoundTrip

LEMMA InitRInv == Init => RInv
<1> SUFFICES ASSUME Init PROVE RInv
  OBVIOUS
<1>1. DInv /\ got = <<>> /\ log = <<>>
  BY InitDInv DEF Init
<1> QED
  BY <1>1, NothingGot DEF RInv

(* An input that is opened at its beginning                                *)
LEMMA AtBeginning ==
  ASSUME NEW src \in Inputs, src.at = 0 \/ src.kind = "legacy", src.buf.begin = 0, NEW f, NEW s, IsFlattening(f, Bytes, s)
  PROVE  OpenInput(src).at = Len(f[0])
<1>1. OpenInput(src).at = 0
  BY OpenedInput
<1>2. f[0] = <<>> /\ Len(<<>>) = 0
  BY DEF IsFlattening
<1> QED
  BY <1>1, <1>2

LEMMA OpenFollowing ==
  ASSUME DInv, Open PROVE Following'
<1> DEFINE s == Successes(log)
<1>1. log \in Seq(Entries) /\ s \in Seq(Entries)
  BY SentInParts DEF DInv, IInv
<1>2. Encoded = s
  BY DEF Encoded, Successes
<1>3. plan' = [k \in DOMAIN s |-> s[k].item.type]
  BY <1>2 DEF Open
<1>4. log' = log /\ got' = <<>>
  BY DEF DInv, Open, InputRight
<1> HIDE DEF s
<1>5. DOMAIN s = 1 .. Len(s) /\ Len(s) \in Nat
  BY <1>1
<1>6. Len(plan') = Len(s) /\ \A k \in 1 .. Len(s) : plan'[k] = s[k].item.type
  BY <1>3, <1>5
<1>7. in' \in Inputs /\ in'.at = 0 /\ in'.buf.begin = 0 /\ Begins(in'.bytes, SentOf(log))
  BY OpenedFresh
<1>8. Len(got') = 0
  BY <1>4
<1>9. \A f : IsFlattening(f, Bytes, Codes(s)) => OpenInput(in').at = Len(f[Len(got')])
  BY <1>7, <1>8, AtBeginning
<1>10. Successes(log') = s /\ SentOf(log') = SentOf(log)
  BY <1>4 DEF s
<1> QED
  BY <1>5, <1>6, <1>7, <1>8, <1>9, <1>10 DEF Following

LEMMA RewindFollowing ==
  ASSUME DInv, Following, Rewind PROVE Following'
<1> DEFINE b == MoveConsumerTo(in.buf, 0)
<1>1. in \in Inputs /\ in.kind = "legacy"
  BY DEF DInv, InputRight, Rewind
<1>2. b \in Bufs /\ b.begin = 0 /\ b.begin + b.size = b.alloc /\ b.alloc = Len(in.bytes)
  <2>1. /\ in.buf \in Bufs /\ in.buf.begin + in.buf.size = in.buf.alloc
        /\ in.buf.alloc = Len(in.bytes)
    BY <1>1, InputIs
  <2> QED
    BY <2>1, ResetIs
<1> HIDE DEF b
<1>3. in' = [in EXCEPT !.buf = b] /\ got' = <<>> /\ log' = log /\ plan' = plan
  BY DEF Rewind, b
<1>4. in' \in Inputs /\ in'.kind = "legacy" /\ in'.bytes = in.bytes /\ in'.buf.begin = 0
  <2>1. LET p == [in EXCEPT !.buf = b] IN
        p \in Inputs /\ p.kind = in.kind /\ p.bytes = in.bytes /\ p.buf = b
    BY <1>1, <1>2, Rebuffered
  <2> QED
    BY <1>1, <1>2, <1>3, <2>1
<1>5. Len(got') = 0
  BY <1>3
<1> DEFINE s == Successes(log)
<1>6. Len(s) \in Nat
  <2>1. s \in Seq(Entries)
    BY SentInParts DEF DInv, IInv
  <2> QED
    BY <2>1
<1>7. \A f : IsFlattening(f, Bytes, Codes(s)) => OpenInput(in').at = Len(f[Len(got')])
  <2> HIDE DEF s
  <2> QED
    BY <1>4, <1>5, AtBeginning
<1>8. /\ Len(plan) = Len(s) /\ \A k \in 1 .. Len(s) : plan[k] = s[k].item.type
      /\ Begins(in.bytes, SentOf(log))
  BY DEF Following
<1>9. Successes(log') = s /\ SentOf(log') = SentOf(log)
  BY <1>3
<1> HIDE DEF s
<1> QED
  BY <1>3, <1>4, <1>5, <1>6, <1>7, <1>8, <1>9 DEF Following

(* The value a call of decode() is about to read                           *)
LEMMA NextAhead ==
  ASSUME DInv, Following, \A k \in 1 .. Len(got) : got[k].rx = "ok", Len(got) < Len(plan)
  PROVE  LET n == Len(got)  e == Successes(log)[n + 1]  c == Encoding(e.item) IN
         /\ n \in Nat /\ e.item \in Encodable /\ plan[n + 1] = e.item.type
         /\ Ahead(OpenInput(in), c) /\ Len(c) \in Nat /\ Len(c) = SizeOf[e.item]
         /\ \A f : IsFlattening(f, Bytes, Codes(Successes(log))) =>
              OpenInput(in).at = Len(f[n]) /\ Len(f[n + 1]) = Len(f[n]) + Len(c)
<1> DEFINE n == Len(got)
           s == Successes(log)
           cs == Codes(s)
           e == s[n + 1]
           c == Encoding(e.item)
           o == OpenInput(in)
<1>1. log \in Seq(Entries) /\ s \in Seq(Entries) /\ SentOf(log) = FlattenSeq(cs)
  BY SentInParts DEF DInv, IInv
<1>2. in \in Inputs /\ n \in Nat
  <2>1. PICK S : got \in Seq(S)
    BY DEF DInv, InputRight
  <2> QED
    BY <2>1 DEF DInv, InputRight
<1>3. /\ Len(plan) = Len(s) /\ \A k \in 1 .. Len(s) : plan[k] = s[k].item.type
      /\ Begins(in.bytes, SentOf(log))
      /\ \A f : IsFlattening(f, Bytes, cs) => o.at = Len(f[n])
  BY DEF Following
<1> HIDE DEF s, n
<1>4. n + 1 \in 1 .. Len(s) /\ (n + 1) - 1 = n
  <2>1. Len(s) \in Nat /\ n < Len(s)
    BY <1>1, <1>3 DEF n
  <2> QED
    BY <1>2, <2>1
<1>5. e \in Entries /\ e.item \in Encodable
  <2>1. e \in Entries
    BY <1>1, <1>4
  <2> QED
    BY <2>1 DEF Entries
<1>6. cs \in Seq(Seq(Bytes)) /\ Len(cs) = Len(s) /\ cs[n + 1] = c
  BY <1>1, <1>4, <1>5, CodesGrow
<1>7. c \in Seq(Bytes) /\ Len(c) \in Nat /\ Len(c) = SizeOf[e.item]
  BY <1>5, SizeOfIsLength
<1>8. plan[n + 1] = e.item.type
  BY <1>3, <1>4
<1> HIDE DEF cs, c, e
<1>9. PICK f : IsFlattening(f, Bytes, cs)
  BY <1>6, FlatteningExists
<1>10. o \in Inputs /\ o.bytes = in.bytes
  BY <1>2, OpenedInput
<1>11. Ahead(o, c)
  <2>1. o.at = Len(f[(n + 1) - 1])
    BY <1>3, <1>4, <1>9
  <2>2. Begins(o.bytes, FlattenSeq(cs))
    BY <1>1, <1>3, <1>10
  <2>3. n + 1 \in 1 .. Len(cs)
    BY <1>4, <1>6
  <2> HIDE DEF o
  <2>4. Ahead(o, cs[n + 1])
    BY <1>6, <1>9, <1>10, <2>1, <2>2, <2>3, PlaceAhead
  <2> QED
    BY <1>6, <2>4
<1>12. ASSUME NEW g, IsFlattening(g, Bytes, cs)
       PROVE  o.at = Len(g[n]) /\ Len(g[n + 1]) = Len(g[n]) + Len(c)
  <2>1. n + 1 \in 1 .. Len(cs)
    BY <1>4, <1>6
  <2>2. Len(g[n + 1]) = Len(g[(n + 1) - 1]) + Len(cs[n + 1])
    BY <1>6, <1>12, <2>1, LengthsOf
  <2> QED
    BY <1>3, <1>4, <1>6, <1>12, <2>2
<1> QED
  BY <1>2, <1>5, <1>7, <1>8, <1>11, <1>12 DEF c, e, o, cs, s, n

LEMMA DecodeValueRInv ==
  ASSUME DInv, Following, RoundTrip, DecodeValue, log # <<>> PROVE Following' /\ RoundTrip'
<1> DEFINE start == OpenInput(in)
           entry(d, r) == [type |-> d.type, rx |-> r.rx, before |-> d.value, value |-> r.value,
                           from |-> start.at, to |-> r.in.at]
           n == Len(got)
           s == Successes(log)
           x == s[n + 1].item
<1>1. PICK d \in {d \in Destinations : d.type = plan[n + 1]} : \E r \in DecodeFrom(in, d) :
        in' = r.in /\ got' = Append(got, entry(d, r))
  BY Zenon DEF DecodeValue
<1>2. PICK r \in DecodeFrom(in, d) : in' = r.in /\ got' = Append(got, entry(d, r))
  BY <1>1
<1> DEFINE e == entry(d, r)
<1>3. e.type = d.type /\ e.rx = r.rx /\ e.value = r.value /\ e.from = start.at /\ e.to = r.in.at
  OBVIOUS
<1>4. got' = Append(got, e)
  BY <1>2
<1>5. d \in Destinations /\ d.type = plan[n + 1]
  BY <1>1
<1>6. log' = log /\ plan' = plan /\ n < Len(plan) /\ in \in Inputs
  BY DEF DInv, InputRight, DecodeValue
<1> HIDE DEF e, entry, start, n, s, x
<1>7. in' \in Inputs /\ in'.kind = in.kind /\ in'.bytes = in.bytes
  BY <1>2, <1>5, <1>6, DecodedFrom
<1>8. /\ \E S : got' \in Seq(S)
      /\ Len(got') = n + 1 /\ got'[n + 1] = e /\ n \in Nat
      /\ DOMAIN got = 1 .. n /\ DOMAIN got' = 1 .. n + 1
      /\ \A k \in 1 .. n : got'[k] = got[k]
  <2>1. PICK S : got \in Seq(S)
    BY DEF DInv, InputRight
  <2>2. Appended(Append(got, e), got, e)
    BY Zenon, <2>1, AppendIs
  <2>3. Appended(got', got, e)
    BY Zenon, <1>4, <2>2
  <2> QED
    BY <2>3 DEF Appended, n
<1>9. \A k \in 1 .. n + 1 : k \in 1 .. n \/ k = n + 1
  BY <1>8
<1>10. Len(plan) = Len(s) /\ Len(s) \in Nat /\ n + 1 <= Len(s)
  <2>1. s \in Seq(Entries)
    BY SentInParts DEF DInv, IInv, s
  <2>2. Len(plan) = Len(s) /\ Len(s) \in Nat
    BY <2>1 DEF Following, s
  <2> QED
    BY <1>6, <1>8, <2>2
<1>11. ASSUME \A k \in 1 .. n : got[k].rx = "ok"
       PROVE  /\ x \in Encodable
              /\ \/ r.rx \in Faults(in)
                 \/ /\ r.rx = "ok" /\ Shown(d.type, r.value) = x.value /\ r.in.at - start.at = SizeOf[x]
                    /\ \A f : IsFlattening(f, Bytes, Codes(s)) => OpenInput(in').at = Len(f[n + 1])
  <2> DEFINE c == Encoding(x)
  <2>1. /\ x \in Encodable /\ plan[n + 1] = x.type
        /\ Ahead(OpenInput(in), c) /\ Len(c) \in Nat /\ Len(c) = SizeOf[x]
        /\ \A f : IsFlattening(f, Bytes, Codes(s)) =>
             OpenInput(in).at = Len(f[n]) /\ Len(f[n + 1]) = Len(f[n]) + Len(c)
    <3>1. n < Len(plan)
      BY <1>6
    <3> QED
      BY <1>11, <3>1, NextAhead DEF n, x, s
  <2>2. x.type = d.type
    BY <1>5, <2>1
  <2> HIDE DEF c
  <2>3. \/ r.rx \in Faults(in)
        \/ /\ r.rx = "ok" /\ Shown(d.type, r.value) = x.value
           /\ r.in.at = start.at + Len(c) /\ OpenInput(r.in).at = r.in.at
    BY <1>2, <1>5, <1>6, <2>1, <2>2, DecodedRight DEF start, c
  <2>4. start.at \in Nat
    <3>1. start \in Inputs
      BY <1>6, OpenedInput DEF start
    <3> QED
      BY <3>1, InputIs
  <2>5. CASE r.rx \in Faults(in)
    BY <2>1, <2>5
  <2>6. CASE r.rx \notin Faults(in)
    <3>1. /\ r.rx = "ok" /\ Shown(d.type, r.value) = x.value
          /\ r.in.at = start.at + Len(c) /\ OpenInput(r.in).at = r.in.at
      BY <2>3, <2>6
    <3>2. r.in.at - start.at = SizeOf[x]
      <4>1. \A u, v \in Nat : (u + v) - u = v
        OBVIOUS
      <4> QED
        BY <2>1, <2>4, <3>1, <4>1
    <3>3. ASSUME NEW f, IsFlattening(f, Bytes, Codes(s)) PROVE OpenInput(in').at = Len(f[n + 1])
      <4>1. OpenInput(in').at = r.in.at
        BY <1>2, <3>1
      <4>2. start.at = Len(f[n]) /\ Len(f[n + 1]) = Len(f[n]) + Len(c)
        BY <2>1, <3>3 DEF start
      <4> QED
        BY <3>1, <4>1, <4>2
    <3> QED
      BY <2>1, <3>1, <3>2, <3>3
  <2> QED
    BY <2>5, <2>6
<1>12. ASSUME \A k \in 1 .. n + 1 : got'[k].rx = "ok"
       PROVE  \A f : IsFlattening(f, Bytes, Codes(s)) => OpenInput(in').at = Len(f[n + 1])
  <2>1. \A k \in 1 .. n : k \in 1 .. n + 1
    BY <1>8
  <2>2. \A k \in 1 .. n : got[k].rx = "ok"
    BY <1>8, <1>12, <2>1
  <2>3. n + 1 \in 1 .. n + 1
    BY <1>8
  <2>4. r.rx = "ok"
    BY <1>3, <1>8, <1>12, <2>3
  <2>5. r.rx \notin Faults(in)
    BY <2>4, NoFaultIsOk
  <2> QED
    BY <1>11, <2>2, <2>5
<1>13. Following'
  <2>1. /\ \A k \in 1 .. Len(s) : plan[k] = s[k].item.type
        /\ Begins(in.bytes, SentOf(log))
    BY DEF Following, s
  <2>2. Successes(log') = s /\ SentOf(log') = SentOf(log)
    BY <1>6 DEF s
  <2>3. Begins(in'.bytes, SentOf(log'))
    BY <1>7, <2>1, <2>2
  <2>4. (\A k \in 1 .. Len(got') : got'[k].rx = "ok") =>
          \A f : IsFlattening(f, Bytes, Codes(s)) => OpenInput(in').at = Len(f[Len(got')])
    BY <1>8, <1>12
  <2>5. Len(plan') = Len(s) /\ Len(got') <= Len(s)
    BY <1>6, <1>8, <1>10
  <2> QED
    BY <1>6, <2>1, <2>2, <2>3, <2>4, <2>5 DEF Following
<1>14. RoundTrip'
  <2>1. Encoded' = s /\ Encoded = s
    <3>1. Encoded = s
      BY DEF Encoded, Successes, s
    <3>2. Encoded' = Encoded
      BY <1>6 DEF Encoded
    <3> QED
      BY <3>1, <3>2
  <2> SUFFICES ASSUME NEW k \in 1 .. n + 1, \A j \in 1 .. k - 1 : got'[j].rx = "ok"
               PROVE  /\ got'[k].rx \in Faults(in)
                           \union {"ok"}
                      /\ got'[k].rx = "ok" => /\ Shown(got'[k].type, got'[k].value) = s[k].item.value
                                              /\ got'[k].to - got'[k].from = SizeOf[s[k].item]
    <3>1. \A y : y \in Faults(in) \union {"ok"} =>
            y \in {"ok", "not_enough_memory"} \union (IF in'.kind = "stream" THEN {"bad"} ELSE {})
      BY <1>7 DEF Faults
    <3> QED
      BY <1>8, <2>1, <3>1 DEF RoundTrip
  <2>2. CASE k = n + 1
    <3>1. \A j \in 1 .. n : j \in 1 .. k - 1
      BY <1>8, <2>2
    <3>2. \A j \in 1 .. n : got[j].rx = "ok"
      BY <1>8, <3>1
    <3>3. \/ r.rx \in Faults(in)
          \/ r.rx = "ok" /\ Shown(d.type, r.value) = x.value /\ r.in.at - start.at = SizeOf[x]
      BY <1>11, <3>2
    <3>4. r.rx \in Faults(in) => r.rx # "ok"
      BY NoFaultIsOk
    <3>5. got'[k] = e /\ s[k].item = x
      BY <1>8, <2>2 DEF x
    <3> QED
      BY <1>3, <3>3, <3>4, <3>5
  <2>3. CASE k \in 1 .. n
    <3>1. got'[k] = got[k]
      BY <1>8, <2>3
    <3>2. \A j \in 1 .. k - 1 : j \in 1 .. n
      BY <1>8, <2>3
    <3>3. \A j \in 1 .. k - 1 : got[j].rx = "ok"
      BY <1>8, <3>2
    <3>4. /\ got[k].rx \in {"ok", "not_enough_memory"} \union (IF in.kind = "stream" THEN {"bad"} ELSE {})
          /\ got[k].rx = "ok" => /\ Shown(got[k].type, got[k].value) = s[k].item.value
                                 /\ got[k].to - got[k].from = SizeOf[s[k].item]
      BY <1>8, <2>1, <2>3, <3>3 DEF RoundTrip
    <3>5. got[k].rx \in Faults(in) \union {"ok"}
      BY <3>4 DEF Faults
    <3> QED
      BY <3>1, <3>4, <3>5
  <2> QED
    BY <1>9, <2>2, <2>3
<1> QED
  BY <1>13, <1>14

LEMMA NextRInv == RInv /\ [Next]_vars => RInv'
<1> SUFFICES ASSUME RInv, [Next]_vars PROVE RInv'
  OBVIOUS
<1>1. DInv /\ DInv'
  BY NextDInv DEF RInv
<1>2. CASE EncodeValue
  <2>1. phase' = "encode" /\ got' = <<>>
    BY <1>1, <1>2 DEF EncodeValue, DInv, InputRight
  <2>2. RoundTrip'
    <3>1. DOMAIN got' = {}
      BY <2>1
    <3> QED
      BY <3>1 DEF RoundTrip
  <2> QED
    BY <1>1, <2>1, <2>2 DEF RInv
<1>3. CASE Open
  <2>1. got' = <<>>
    BY <1>1, <1>3 DEF Open, DInv, InputRight
  <2>2. RoundTrip'
    <3>1. DOMAIN got' = {}
      BY <2>1
    <3> QED
      BY <3>1 DEF RoundTrip
  <2> QED
    BY <1>1, <1>3, <2>2, OpenFollowing DEF RInv
<1>4. CASE DecodeValue
  <2>1. phase = "decode" /\ log' = log
    BY <1>4 DEF DecodeValue
  <2>2. CASE log = <<>>
    BY <1>1, <2>1, <2>2 DEF RInv, RoundTrip
  <2>3. CASE log # <<>>
    BY <1>1, <1>4, <2>1, <2>3, DecodeValueRInv DEF RInv
  <2> QED
    BY <2>2, <2>3
<1>5. CASE Rewind
  <2>1. phase = "decode" /\ log' = log /\ got' = <<>>
    BY <1>5 DEF Rewind
  <2>2. RoundTrip'
    <3>1. DOMAIN got' = {}
      BY <2>1
    <3> QED
      BY <3>1 DEF RoundTrip
  <2> QED
    BY <1>1, <1>5, <2>1, <2>2, RewindFollowing DEF RInv
<1>6. CASE UNCHANGED vars
  <2>1. phase' = phase /\ log' = log /\ got' = got /\ in' = in /\ plan' = plan
    BY <1>6 DEF vars
  <2>2. RoundTrip'
    BY <2>1 DEF RInv, RoundTrip, Encoded
  <2>3. Following => Following'
    BY <2>1 DEF Following
  <2> QED
    BY <1>1, <2>1, <2>2, <2>3 DEF RInv
<1> QED
  BY <1>2, <1>3, <1>4, <1>5, <1>6 DEF Next

(* decode() gives back every value encode() has written, in every element, *)
(* from its first byte to its last, in every session: through windows that *)
(* split it anywhere, into new and used objects, before and after a legacy *)
(* buffer is rewound.  Only the supplier or the memory can fail.           *)
THEOREM GivesBack == Spec => []RoundTrip
<1>1. RInv => RoundTrip
  BY DEF RInv
<1> QED
  BY <1>1, InitRInv, NextRInv, PTL DEF Spec

-----------------------------------------------------------------------------
(* Destinations that are used again.                                       *)
(* A container that is cleared first does not depend on what it held.      *)
LEMMA ClearedSame ==
  ASSUME NEW d, NEW e, d.type = e.type, d.type.kind \in {"vector", "set", "map"}, NEW g, NEW src
  PROVE  DecodeWith(src, d, g) = DecodeWith(src, e, g)
<1>1. AlikeItems(d, e, g, g)
  <2> SUFFICES ASSUME NEW p, NEW dest, NEW i
               PROVE  DecodeItem(p, d, dest, i, g) = DecodeItem(p, e, dest, i, g)
    BY DEF AlikeItems
  <2> QED
    BY DEF DecodeItem
<1>2. \A dest, max : ParseArrayLike(src, d, dest, max, g) = ParseArrayLike(src, e, dest, max, g)
  BY <1>1, SameArray
<1>3. CASE d.type.kind = "set"
  BY <1>2, <1>3, DecodeByKind
<1>4. CASE d.type.kind \in {"vector", "map"}
  BY <1>2, <1>4, DecodeByKind
<1> QED
  BY <1>3, <1>4

(* What succeeds with a value does not depend on what the object held.     *)
Recurs(S, U) == \A r \in S : r.rx = "ok" => r \in U

LEMMA IntegersRecur ==
  ASSUME NEW src, NEW t, NEW a, NEW b
  PROVE  Recurs(ParseInteger(src, t, a), ParseInteger(src, t, b))
<1> DEFINE x(h) == IF h.type = "negint" THEN -1 - h.value ELSE h.value
           wrong(h) == h.type \notin (IF t.flag THEN {"posint", "negint"} ELSE {"posint"})
           large(h) == h.value > LimitOf(t.n, t.flag)
           of(s, v) == IF s.rx = "ok"
                       THEN IF wrong(s.value) THEN Fail(s.in, "item_type_mismatch", v)
                            ELSE IF large(s.value) THEN Fail(s.in, "item_value_out_of_range", v)
                            ELSE Ok(s.in, x(s.value))
                       ELSE Fail(s.in, s.rx, v)
<1>1. \A v : ParseInteger(src, t, v) = UNION {of(s, v) : s \in ParseHead(src)}
  BY Zenon DEF ParseInteger, Try
<1> HIDE DEF x, wrong, large
<1>2. ASSUME NEW s \in ParseHead(src), NEW r \in of(s, a), r.rx = "ok" PROVE r \in of(s, b)
  BY <1>2, OkIs, FailIs, ResultFields
<1> HIDE DEF of
<1> QED
  BY <1>1, <1>2 DEF Recurs

LEMMA BooleansRecur ==
  ASSUME NEW src, NEW a, NEW b
  PROVE  Recurs(ParseBoolean(src, a), ParseBoolean(src, b))
<1> DEFINE byte(s) == s.in.bytes[s.in.at + 1]
           found(s) == Ok(DiscardBuffered(s.in, 1), byte(s) = True)
           S == IF src.window = 0 THEN RequireInput(src, 1) ELSE Ok(src, <<>>)
           of(s, v) == IF s.rx = "ok"
                       THEN IF byte(s) \notin {False, True} THEN Fail(s.in, "item_type_mismatch", v)
                            ELSE found(s)
                       ELSE Fail(s.in, s.rx, v)
<1>1. \A v : ParseBoolean(src, v) = UNION {of(s, v) : s \in S}
  BY Zenon DEF ParseBoolean, Try
<1> HIDE DEF byte, found, S
<1>2. ASSUME NEW s \in S, NEW r \in of(s, a), r.rx = "ok" PROVE r \in of(s, b)
  BY <1>2, FailIs, ResultFields
<1> HIDE DEF of
<1> QED
  BY <1>1, <1>2 DEF Recurs

LEMMA FloatsRecur ==
  ASSUME NEW src, NEW t, NEW a, NEW b
  PROVE  Recurs(ParseFloat(src, t, a), ParseFloat(src, t, b))
<1> DEFINE wrong(h) == h.type # "special" \/ h.length < 3
           large(h) == t.n < h.length - 1
           of(s, v) == IF s.rx = "ok"
                       THEN IF wrong(s.value) THEN Fail(s.in, "item_type_mismatch", v)
                            ELSE IF large(s.value) THEN Fail(s.in, "item_value_out_of_range", v)
                            ELSE Ok(s.in, FloatOf(s.value))
                       ELSE Fail(s.in, s.rx, v)
<1>1. \A v : ParseFloat(src, t, v) = UNION {of(s, v) : s \in ParseHead(src)}
  BY Zenon DEF ParseFloat, Try, FloatOf
<1> HIDE DEF wrong, large
<1>2. ASSUME NEW s \in ParseHead(src), NEW r \in of(s, a), r.rx = "ok" PROVE r \in of(s, b)
  BY <1>2, OkIs, FailIs, ResultFields
<1> HIDE DEF of
<1> QED
  BY <1>1, <1>2 DEF Recurs

LEMMA UuidsRecur ==
  ASSUME NEW src, NEW t, NEW a, NEW b
  PROVE  Recurs(DecodeUuid(src, t, a), DecodeUuid(src, t, b))
<1> DEFINE into(q, v) == IF q.rx = "ok" THEN {q} ELSE Fail(q.in, q.rx, v)
           of(s, v) == IF s.rx = "ok" THEN UNION {into(q, v) : q \in BulkRead(s.in, t.n)}
                       ELSE Fail(s.in, s.rx, v)
<1>1. \A v : DecodeUuid(src, t, v) = UNION {of(s, v) : s \in ExpectHead(src, "binary", t.n)}
  BY Zenon DEF DecodeUuid, Try
<1>2. ASSUME NEW q, NEW r \in into(q, a), r.rx = "ok" PROVE r \in into(q, b)
  BY <1>2, FailIs, ResultFields
<1> HIDE DEF into
<1>3. ASSUME NEW s, NEW r \in of(s, a), r.rx = "ok" PROVE r \in of(s, b)
  <2>1. CASE s.rx # "ok"
    BY <1>3, <2>1, FailIs, ResultFields
  <2>2. CASE s.rx = "ok"
    <3>1. PICK q \in BulkRead(s.in, t.n) : r \in into(q, a)
      BY <1>3, <2>2
    <3>2. r \in into(q, b)
      BY <1>2, <1>3, <3>1
    <3> QED
      BY <2>2, <3>1, <3>2
  <2> QED
    BY <2>1, <2>2
<1> HIDE DEF of
<1> QED
  BY <1>1, <1>3 DEF Recurs

LEMMA PathsRecur ==
  ASSUME NEW src, NEW t, NEW a, NEW b
  PROVE  Recurs(DecodePath(src, t, a), DecodePath(src, t, b))
<1> DEFINE S == ParseBlob(src, t, <<>>)
           of(s, v) == IF s.rx = "ok" THEN {s} \union Fail(s.in, "not_enough_memory", v)
                       ELSE Fail(s.in, s.rx, v)
<1>1. \A v : DecodePath(src, t, v) = UNION {of(s, v) : s \in S}
  BY Zenon DEF DecodePath, Try
<1>2. ASSUME NEW s, NEW r \in of(s, a), r.rx = "ok" PROVE r \in of(s, b)
  BY <1>2, FailIs, ResultFields
<1> HIDE DEF of, S
<1> QED
  BY <1>1, <1>2 DEF Recurs

(* Two objects of m elements of which the first n are the same, and what   *)
(* comes of decoding into them                                             *)
Agreeing(v, w, m, n) ==
  /\ v = [k \in 1 .. m |-> v[k]] /\ w = [k \in 1 .. m |-> w[k]]
  /\ \A k \in 1 .. m : k <= n => v[k] = w[k]

Mirrors(r, q, m, n) ==
  /\ IsResult(r) /\ IsResult(q)
  /\ q.in = r.in /\ q.rx = r.rx /\ q.n = r.n
  /\ Agreeing(r.value, q.value, m, n)

LEMMA MirroredWhole ==
  ASSUME NEW m \in Nat, NEW n \in Nat, m <= n, NEW r, NEW q, Mirrors(r, q, m, n)
  PROVE  q = r
<1>1. r.value = q.value
  <2> DEFINE v == r.value
             w == q.value
  <2>1. v = [k \in 1 .. m |-> v[k]] /\ w = [k \in 1 .. m |-> w[k]] /\ \A k \in 1 .. m : k <= n => v[k] = w[k]
    BY Zenon DEF Mirrors, Agreeing
  <2> HIDE DEF v, w
  <2>2. \A k \in 1 .. m : v[k] = w[k]
    BY <2>1
  <2>3. [k \in 1 .. m |-> v[k]] = [k \in 1 .. m |-> w[k]]
    BY <2>2
  <2>4. v = w
    BY Zenon, <2>1, <2>3
  <2> QED
    BY <2>4 DEF v, w
<1>2. r = Result(r.in, r.rx, r.value, r.n) /\ q = Result(r.in, r.rx, q.value, r.n)
  BY DEF Mirrors, IsResult
<1> QED
  BY Zenon, <1>1, <1>2

LEMMA OverwriteAgrees ==
  ASSUME NEW m \in Nat, NEW at \in Nat, NEW n \in Nat, NEW v, NEW w, Agreeing(v, w, m, at),
         NEW x, DOMAIN x = 1 .. n
  PROVE  Agreeing(Overwrite(v, at, x), Overwrite(w, at, x), m, at + n)
<1> DEFINE a == Overwrite(v, at, x)
           b == Overwrite(w, at, x)
<1>1. DOMAIN v = 1 .. m /\ DOMAIN w = 1 .. m
  <2>1. \A f : f = [k \in 1 .. m |-> f[k]] => DOMAIN f = 1 .. m
    BY Zenon
  <2> QED
    BY <2>1 DEF Agreeing
<1>2. /\ a = [k \in 1 .. m |-> IF k - at \in 1 .. n THEN x[k - at] ELSE v[k]]
      /\ b = [k \in 1 .. m |-> IF k - at \in 1 .. n THEN x[k - at] ELSE w[k]]
  BY Zenon, <1>1 DEF Overwrite
<1> HIDE DEF a, b
<1>3. a = [k \in 1 .. m |-> a[k]] /\ b = [k \in 1 .. m |-> b[k]]
  BY Zenon, <1>2
<1>4. ASSUME NEW k \in 1 .. m, k <= at + n PROVE a[k] = b[k]
  <2>1. k - at \in 1 .. n \/ k <= at
    BY <1>4
  <2>2. k <= at => v[k] = w[k]
    BY DEF Agreeing
  <2>3. /\ a[k] = IF k - at \in 1 .. n THEN x[k - at] ELSE v[k]
        /\ b[k] = IF k - at \in 1 .. n THEN x[k - at] ELSE w[k]
    BY Zenon, <1>2
  <2> QED
    BY <2>1, <2>2, <2>3
<1>5. Agreeing(a, b, m, at + n)
  BY <1>3, <1>4 DEF Agreeing
<1> QED
  BY <1>5 DEF a, b

(* A part of a string is stored behind what is there.                      *)
PutAt(src, t, dest, at, n, size, rx) ==
  Then(Resize(src, t, dest, size), LAMBDA u :
  Then(ReadInto(u.in, u.value, at, n), LAMBDA b : {Result(b.in, rx, b.value, size)}))

LEMMA ReadIntoHas ==
  ASSUME NEW src \in Inputs, NEW dest, NEW at, NEW n \in Nat, NEW b \in BulkRead(src, n)
  PROVE  Result(b.in, b.rx, Overwrite(dest, at, b.value), b.n) \in ReadInto(src, dest, at, n)
<1>1. [b EXCEPT !.value = Overwrite(dest, at, b.value)] \in ReadInto(src, dest, at, n)
  BY Zenon DEF ReadInto
<1>2. IsResult(b)
  BY BulkReadOutcome
<1>3. \A v : [b EXCEPT !.value = v] = Result(b.in, b.rx, v, b.n)
  BY <1>2, ResultExcept
<1> QED
  BY <1>1, <1>3, Zenon

LEMMA BytesRead ==
  ASSUME NEW src \in Inputs, NEW n \in Nat, NEW b \in BulkRead(src, n), b.rx = "ok"
  PROVE  b.value \in Seq(Bytes) /\ Len(b.value) = n /\ DOMAIN b.value = 1 .. n
<1>1. n <= InputSize(src) /\ b.value = SubSeq(src.bytes, src.at + 1, src.at + n)
  BY BulkReadOutcome
<1>2. src.bytes \in Seq(Bytes) /\ src.at \in Nat /\ src.at + n <= Len(src.bytes)
  BY <1>1, InputIs
<1>3. b.value \in Seq(Bytes) /\ Len(b.value) = n
  <2> DEFINE s == src.bytes
             at == src.at
  <2>1. s \in Seq(Bytes) /\ at \in Nat /\ at + n <= Len(s)
    BY <1>2
  <2>2. b.value = SubSeq(s, at + 1, at + n)
    BY <1>1
  <2> HIDE DEF s, at
  <2>3. SubSeq(s, at + 1, at + n) \in Seq(Bytes) /\ Len(SubSeq(s, at + 1, at + n)) = n
    BY <2>1, PartOf
  <2> QED
    BY <2>2, <2>3
<1> QED
  BY <1>3

LEMMA PutIs ==
  ASSUME NEW src, NEW t, NEW dest, NEW at, NEW n \in Nat, NEW size, NEW rx,
         \A u \in Resize(src, t, dest, size) : u.in \in Inputs /\ u.rx \in Errors,
         NEW r \in PutAt(src, t, dest, at, n, size, rx), r.rx \in {"ok", "more"}
  PROVE  \E u \in Resize(src, t, dest, size) : \E c \in BulkRead(u.in, n) :
           /\ u.rx = "ok" /\ c.rx = "ok"
           /\ r = Result(c.in, rx, Overwrite(u.value, at, c.value), size)
<1> DEFINE done(b) == {Result(b.in, rx, b.value, size)}
           reads(u) == UNION {IF b.rx = "ok" THEN done(b) ELSE {b} : b \in ReadInto(u.in, u.value, at, n)}
<1>1. PICK u \in Resize(src, t, dest, size) : r \in IF u.rx = "ok" THEN reads(u) ELSE {u}
  BY Zenon DEF PutAt, Then
<1>2. u.in \in Inputs /\ u.rx = "ok" /\ r \in reads(u)
  <2> HIDE DEF reads
  <2> QED
    BY <1>1, AllErrors
<1>3. PICK b \in ReadInto(u.in, u.value, at, n) : r \in IF b.rx = "ok" THEN done(b) ELSE {b}
  BY <1>2
<1>4. PICK c \in BulkRead(u.in, n) : b = Result(c.in, c.rx, Overwrite(u.value, at, c.value), c.n)
  BY <1>2, ReadIntoIs
<1>5. b.rx = c.rx /\ b.in = c.in /\ b.value = Overwrite(u.value, at, c.value)
  BY <1>4, ResultFields
<1>6. c.rx \in {"ok", "end_of_stream", "bad"}
  BY <1>2, BulkReadOutcome
<1>7. b.rx = "ok"
  BY <1>3, <1>5, <1>6
<1>8. r = Result(c.in, rx, Overwrite(u.value, at, c.value), size)
  BY Zenon, <1>3, <1>5, <1>7
<1> QED
  BY <1>2, <1>5, <1>7, <1>8

LEMMA PutHas ==
  ASSUME NEW src, NEW t, NEW dest, NEW at, NEW n \in Nat, NEW size, NEW rx,
         NEW u \in Resize(src, t, dest, size), u.in \in Inputs, u.rx = "ok",
         NEW c \in BulkRead(u.in, n), c.rx = "ok"
  PROVE  Result(c.in, rx, Overwrite(u.value, at, c.value), size) \in PutAt(src, t, dest, at, n, size, rx)
<1> DEFINE done(b) == {Result(b.in, rx, b.value, size)}
           reads(p) == UNION {IF b.rx = "ok" THEN done(b) ELSE {b} : b \in ReadInto(p.in, p.value, at, n)}
           e == Result(c.in, c.rx, Overwrite(u.value, at, c.value), c.n)
           q == Result(c.in, rx, Overwrite(u.value, at, c.value), size)
<1>1. PutAt(src, t, dest, at, n, size, rx)
        = UNION {IF p.rx = "ok" THEN reads(p) ELSE {p} : p \in Resize(src, t, dest, size)}
  BY Zenon DEF PutAt, Then
<1>2. e \in ReadInto(u.in, u.value, at, n)
  BY ReadIntoHas
<1>3. e.rx = "ok" /\ e.in = c.in /\ e.value = Overwrite(u.value, at, c.value)
  BY ResultFields
<1> HIDE DEF e
<1>4. q \in done(e)
  BY Zenon, <1>3
<1> HIDE DEF done, q
<1>5. q \in reads(u)
  BY <1>2, <1>3, <1>4
<1> HIDE DEF reads
<1> QED
  BY <1>1, <1>5 DEF q

(* Into an object of a fixed size                                          *)
LEMMA PutMirrored ==
  ASSUME NEW src \in Inputs, NEW t, IsSpan(t), NEW m \in Nat, NEW at \in Nat, NEW n \in Nat,
         NEW v, NEW w, Agreeing(v, w, m, at), NEW rx,
         NEW r \in PutAt(src, t, v, at, n, at + n, rx), r.rx \in {"ok", "more"}
  PROVE  r.n = at + n /\ at + n <= m
         /\ \E q \in PutAt(src, t, w, at, n, at + n, rx) : Mirrors(r, q, m, at + n)
<1> DEFINE size == at + n
<1>1. Len(v) = m /\ Len(w) = m
  BY LenOf DEF Agreeing
<1>2. \A u \in Resize(src, t, v, size) : u.in \in Inputs /\ u.rx \in Errors
  BY ResizeIs, ResultFields, AllErrors
<1>3. PICK u \in Resize(src, t, v, size) : \E c \in BulkRead(u.in, n) :
        /\ u.rx = "ok" /\ c.rx = "ok"
        /\ r = Result(c.in, rx, Overwrite(u.value, at, c.value), size)
  BY <1>2, PutIs
<1>4. u.in = src /\ u.value = v /\ size <= m
  BY <1>1, <1>3, ResizeIs, ResultFields
<1>5. PICK c \in BulkRead(src, n) :
        c.rx = "ok" /\ r = Result(c.in, rx, Overwrite(v, at, c.value), size)
  BY <1>3, <1>4
<1> DEFINE p == Result(src, "ok", w, 0)
           q == Result(c.in, rx, Overwrite(w, at, c.value), size)
<1>6. p \in Resize(src, t, w, size)
  BY <1>1, <1>4, OkIs DEF Resize
<1>7. p.in = src /\ p.rx = "ok" /\ p.value = w
  BY ResultFields
<1> HIDE DEF p, size
<1>8. q \in PutAt(src, t, w, at, n, size, rx)
  <2>1. c \in BulkRead(p.in, n)
    BY <1>7
  <2>2. Result(c.in, rx, Overwrite(p.value, at, c.value), size) \in PutAt(src, t, w, at, n, size, rx)
    BY <1>5, <1>6, <1>7, <2>1, PutHas
  <2> QED
    BY Zenon, <1>7, <2>2
<1>9. Agreeing(Overwrite(v, at, c.value), Overwrite(w, at, c.value), m, size)
  BY <1>5, BytesRead, OverwriteAgrees DEF size
<1>10. /\ IsResult(q) /\ q.in = c.in /\ q.rx = rx /\ q.value = Overwrite(w, at, c.value) /\ q.n = size
       /\ IsResult(r) /\ r.in = c.in /\ r.rx = rx /\ r.value = Overwrite(v, at, c.value) /\ r.n = size
  BY <1>5, ResultFields
<1>11. Mirrors(r, q, m, size)
  BY Zenon, <1>9, <1>10 DEF Mirrors
<1> QED
  BY Zenon, <1>4, <1>8, <1>10, <1>11 DEF size

(* Into one that takes the size of the string, whatever it was             *)
LEMMA PutRecurs ==
  ASSUME NEW src \in Inputs, NEW t, ~IsSpan(t), NEW n \in Nat, n = 0 \/ n < Len(src.bytes),
         NEW v, NEW w
  PROVE  Recurs(PutAt(src, t, v, 0, n, n, "ok"), PutAt(src, t, w, 0, n, n, "ok"))
<1> SUFFICES ASSUME NEW r \in PutAt(src, t, v, 0, n, n, "ok"), r.rx = "ok"
             PROVE  r \in PutAt(src, t, w, 0, n, n, "ok")
  BY DEF Recurs
<1> DEFINE a == Resized(v, n, 0)
           b == Resized(w, n, 0)
           p == Result(Ask(src, n), "ok", b, 0)
<1>1. DOMAIN a = 1 .. n /\ DOMAIN b = 1 .. n
  BY Zenon DEF Resized
<1> HIDE DEF a, b
<1>2. \A u \in Resize(src, t, v, n) : u.in \in Inputs /\ u.rx \in Errors
  BY ResizeStays DEF Stays, Onward
<1>3. PICK u \in Resize(src, t, v, n) : \E c \in BulkRead(u.in, n) :
        /\ u.rx = "ok" /\ c.rx = "ok"
        /\ r = Result(c.in, "ok", Overwrite(u.value, 0, c.value), n)
  BY <1>2, PutIs
<1>4. u.in = Ask(src, n) /\ u.value = a
  BY <1>3, ResizeIs, ResultFields DEF a
<1>5. PICK c \in BulkRead(Ask(src, n), n) :
        c.rx = "ok" /\ r = Result(c.in, "ok", Overwrite(a, 0, c.value), n)
  BY <1>3, <1>4
<1>6. p \in Resize(src, t, w, n)
  BY OkIs DEF Resize, b
<1>7. p.in = Ask(src, n) /\ p.rx = "ok" /\ p.value = b /\ Ask(src, n) \in Inputs
  BY AskIs, ResultFields DEF Onward
<1> HIDE DEF p
<1>8. Overwrite(a, 0, c.value) = c.value /\ Overwrite(b, 0, c.value) = c.value
  BY <1>1, <1>5, <1>7, BytesRead, OverwriteWhole
<1>9. Result(c.in, "ok", Overwrite(p.value, 0, c.value), n) \in PutAt(src, t, w, 0, n, n, "ok")
  <2>1. c \in BulkRead(p.in, n) /\ p.in \in Inputs
    BY <1>7
  <2> QED
    BY <1>5, <1>6, <1>7, <2>1, PutHas
<1> QED
  BY Zenon, <1>5, <1>7, <1>8, <1>9

LEMMA NextChunkMirrored ==
  ASSUME NEW t, IsSpan(t), NEW m \in Nat, NEW r, NEW q, r.in \in Inputs, r.n \in 0 .. m,
         Mirrors(r, q, m, r.n), NEW x \in NextChunk(r, t), x.rx \in {"ok", "more"}
  PROVE  x.n \in 0 .. m /\ \E y \in NextChunk(q, t) : Mirrors(x, y, m, x.n)
<1> DEFINE put(s, p) == PutAt(s.in, t, p.value, p.n, s.value.value, p.n + s.value.value, "more")
           last(s) == s.value.type = "special" /\ s.value.ind
           other(s) == s.value.type # StringType(t)
           missing(s) == MissingData(s.in, s.value.value)
           long(s, n) == n + s.value.value > MaxSize(t)
           of(s, p) ==
             IF s.rx = "ok"
             THEN IF last(s) THEN {Result(s.in, "ok", p.value, p.n)}
                  ELSE IF other(s) THEN Fail(s.in, "invalid_indefinite_subitem", p.value)
                  ELSE IF missing(s) THEN Fail(s.in, "missing_data", p.value)
                  ELSE IF long(s, p.n) THEN Fail(s.in, "string_exceeds_size_limit", p.value)
                  ELSE put(s, p)
             ELSE Fail(s.in, s.rx, p.value)
<1>1. \A p : NextChunk(p, t) = UNION {of(s, p) : s \in ParseHead(p.in)}
  BY Zenon DEF NextChunk, Try, PutAt
<1>2. q.in = r.in /\ q.n = r.n /\ Agreeing(r.value, q.value, m, r.n)
  BY DEF Mirrors
<1> HIDE DEF put, last, other, missing, long
<1>3. PICK s \in ParseHead(r.in) : x \in of(s, r)
  BY <1>1
<1>4. s.in \in Inputs /\ s.rx \in Errors /\ (s.rx = "ok" => s.value.value \in Nat)
  BY <1>3, ParseHeadTakes DEF Takes, Stays, Onward
<1>5. /\ s.rx = "ok"
      /\ \/ last(s) /\ x = Result(s.in, "ok", r.value, r.n)
         \/ ~last(s) /\ ~other(s) /\ ~missing(s) /\ ~long(s, r.n) /\ x \in put(s, r)
  <2>1. \A rx, v : x \in Fail(s.in, rx, v) => rx \in {"ok", "more"}
    BY FailIs, ResultFields
  <2> QED
    BY <1>3, <1>4, <2>1, AllErrors
<1>6. \A y : y \in of(s, q) => y \in NextChunk(q, t)
  <2> HIDE DEF of
  <2> QED
    BY <1>1, <1>2
<1>7. CASE last(s) /\ x = Result(s.in, "ok", r.value, r.n)
  <2> DEFINE y == Result(s.in, "ok", q.value, q.n)
  <2>1. y \in of(s, q)
    BY Zenon, <1>5, <1>7
  <2>2. /\ IsResult(x) /\ x.in = s.in /\ x.rx = "ok" /\ x.value = r.value /\ x.n = r.n
        /\ IsResult(y) /\ y.in = s.in /\ y.rx = "ok" /\ y.value = q.value /\ y.n = q.n
    BY <1>7, ResultFields
  <2>3. Mirrors(x, y, m, r.n)
    BY Zenon, <1>2, <2>2 DEF Mirrors
  <2> QED
    BY Zenon, <1>6, <2>1, <2>2, <2>3
<1>8. CASE ~last(s) /\ ~other(s) /\ ~missing(s) /\ ~long(s, r.n) /\ x \in put(s, r)
  <2> DEFINE n == s.value.value
             size == r.n + n
  <2>1. n \in Nat /\ size \in Nat
    BY <1>4, <1>5
  <2>2. put(s, r) = PutAt(s.in, t, r.value, r.n, n, size, "more")
        /\ put(s, q) = PutAt(s.in, t, q.value, r.n, n, size, "more")
    BY Zenon, <1>2 DEF put
  <2>3. put(s, q) \subseteq of(s, q)
    BY Zenon, <1>2, <1>5, <1>8
  <2> HIDE DEF of, n
  <2>4. x.n = size /\ size <= m /\ \E y \in PutAt(s.in, t, q.value, r.n, n, size, "more") : Mirrors(x, y, m, size)
    BY <1>2, <1>4, <1>8, <2>1, <2>2, PutMirrored
  <2> QED
    BY <1>6, <2>1, <2>2, <2>3, <2>4
<1> QED
  BY <1>5, <1>7, <1>8

(* The rounds of parse_blob_indefinite, whatever lies behind what was read *)
LEMMA ChunksMirrored ==
  ASSUME NEW src \in Inputs, src.at > 0, NEW t, IsSpan(t), NEW m \in Nat,
         NEW v, NEW w, Agreeing(v, w, m, 0), NEW r \in BlobChunks(src, t, v), r.rx = "ok"
  PROVE  r.n \in 0 .. m /\ \E q \in BlobChunks(src, t, w) : Mirrors(r, q, m, r.n)
<1> DEFINE n == Rounds(src)
<1>1. PICK f : BlobChunks(src, t, v) = f[n] /\ ChunksRun(src, t, v, n, f)
  BY BlobChunksIs
<1>2. PICK g : BlobChunks(src, t, w) = g[n] /\ ChunksRun(src, t, w, n, g)
  BY BlobChunksIs
<1>3. n \in Nat
  BY InputIs DEF Rounds
<1>4. \A k \in Nat : k <= n => \A x \in f[k] : ChunkRound(src, k, x)
  BY <1>1, ChunkRounds
<1> HIDE DEF n
<1> DEFINE T == {k \in Nat : k <= n => \A x \in f[k] : x.rx \in {"ok", "more"} =>
                               x.n \in 0 .. m /\ \E y \in g[k] : Mirrors(x, y, m, x.n)}
<1>5. 0 \in T
  <2> SUFFICES ASSUME NEW x \in f[0] PROVE x.n \in 0 .. m /\ \E y \in g[0] : Mirrors(x, y, m, x.n)
    OBVIOUS
  <2> DEFINE y == Result(src, "more", w, 0)
  <2>1. x = Result(src, "more", v, 0) /\ y \in g[0]
    BY <1>1, <1>2 DEF ChunksRun
  <2>2. /\ IsResult(x) /\ x.in = src /\ x.rx = "more" /\ x.value = v /\ x.n = 0
        /\ IsResult(y) /\ y.in = src /\ y.rx = "more" /\ y.value = w /\ y.n = 0
    BY <2>1, ResultFields
  <2> HIDE DEF y
  <2>3. Mirrors(x, y, m, 0)
    BY Zenon, <2>2 DEF Mirrors
  <2> QED
    BY <2>1, <2>2, <2>3
<1>6. ASSUME NEW k \in Nat, k \in T PROVE k + 1 \in T
  <2> SUFFICES ASSUME k + 1 <= n, NEW x \in f[k + 1], x.rx \in {"ok", "more"}
               PROVE  x.n \in 0 .. m /\ \E y \in g[k + 1] : Mirrors(x, y, m, x.n)
    OBVIOUS
  <2>1. k + 1 \in 1 .. n /\ (k + 1) - 1 = k /\ k <= n
    BY <1>3
  <2>2. PICK p \in f[k] : \/ p.rx = "more" /\ x \in NextChunk(p, t)
                          \/ p.rx # "more" /\ x = p
    BY <1>1, <2>1 DEF ChunksRun
  <2>3. \A s \in g[k] : IF s.rx = "more" THEN NextChunk(s, t) \subseteq g[k + 1] ELSE s \in g[k + 1]
    BY <1>2, <2>1 DEF ChunksRun
  <2>4. p.rx \in {"ok", "more"} => p.n \in 0 .. m /\ \E s \in g[k] : Mirrors(p, s, m, p.n)
    BY <1>6, <2>1
  <2>5. CASE p.rx = "more" /\ x \in NextChunk(p, t)
    <3>1. PICK s \in g[k] : Mirrors(p, s, m, p.n)
      BY <2>4, <2>5
    <3>2. p.in \in Inputs /\ p.n \in 0 .. m /\ s.rx = "more"
      BY <1>4, <2>1, <2>4, <2>5, <3>1 DEF ChunkRound, Onward, Mirrors
    <3>3. x.n \in 0 .. m /\ \E y \in NextChunk(s, t) : Mirrors(x, y, m, x.n)
      BY <2>5, <3>1, <3>2, NextChunkMirrored
    <3> QED
      BY <2>3, <3>2, <3>3
  <2>6. CASE p.rx # "more" /\ x = p
    <3>1. PICK s \in g[k] : Mirrors(p, s, m, p.n)
      BY <2>4, <2>6
    <3>2. s.rx # "more"
      BY <2>6, <3>1 DEF Mirrors
    <3> QED
      BY <2>3, <2>4, <2>6, <3>1, <3>2
  <2> QED
    BY <2>2, <2>5, <2>6
<1> HIDE DEF T
<1>7. n \in T
  BY <1>3, <1>5, <1>6, NumberInduction
<1> QED
  BY <1>1, <1>2, <1>3, <1>7 DEF T

(* parse_blob of an indefinite string, and after any head                  *)
ChunksInto(src, t, dest) == Then(Resize(src, t, dest, 0), LAMBDA u : BlobChunks(u.in, t, u.value))

AfterHead(s, t, dest) ==
  IF s.rx = "ok"
  THEN IF s.value.type # StringType(t) THEN Fail(s.in, "item_type_mismatch", dest)
       ELSE IF s.value.ind /\ t.kind = "fixedtext" THEN Fail(s.in, "indefinite_item", dest)
       ELSE IF s.value.ind THEN ChunksInto(s.in, t, dest)
       ELSE IF MissingData(s.in, s.value.value) THEN Fail(s.in, "missing_data", dest)
       ELSE IF s.value.value > MaxSize(t) THEN Fail(s.in, "string_exceeds_size_limit", dest)
       ELSE PutAt(s.in, t, dest, 0, s.value.value, s.value.value, "ok")
  ELSE Fail(s.in, s.rx, dest)

LEMMA ParseBlobAfter ==
  ASSUME NEW src, NEW t, NEW dest
  PROVE  ParseBlob(src, t, dest) = UNION {AfterHead(s, t, dest) : s \in ParseHead(src)}
BY Zenon DEF ParseBlob, Try, PutAt, ChunksInto, AfterHead

(* What succeeds                                                           *)
LEMMA AfterHeadIs ==
  ASSUME NEW s, s.rx \in Errors, NEW t, NEW dest, NEW r \in AfterHead(s, t, dest), r.rx = "ok"
  PROVE  /\ s.rx = "ok"
         /\ \/ /\ r \in ChunksInto(s.in, t, dest)
               /\ \A v : AfterHead(s, t, v) = ChunksInto(s.in, t, v)
            \/ /\ r \in PutAt(s.in, t, dest, 0, s.value.value, s.value.value, "ok")
               /\ ~MissingData(s.in, s.value.value)
               /\ \A v : AfterHead(s, t, v) = PutAt(s.in, t, v, 0, s.value.value, s.value.value, "ok")
<1> DEFINE other == s.value.type # StringType(t)
           endless == s.value.ind /\ t.kind = "fixedtext"
           ind == s.value.ind
           missing == MissingData(s.in, s.value.value)
           long == s.value.value > MaxSize(t)
           chunks(v) == ChunksInto(s.in, t, v)
           put(v) == PutAt(s.in, t, v, 0, s.value.value, s.value.value, "ok")
<1>1. \A v : AfterHead(s, t, v) =
        IF s.rx = "ok"
        THEN IF other THEN Fail(s.in, "item_type_mismatch", v)
             ELSE IF endless THEN Fail(s.in, "indefinite_item", v)
             ELSE IF ind THEN chunks(v)
             ELSE IF missing THEN Fail(s.in, "missing_data", v)
             ELSE IF long THEN Fail(s.in, "string_exceeds_size_limit", v)
             ELSE put(v)
        ELSE Fail(s.in, s.rx, v)
  BY Zenon DEF AfterHead
<1> HIDE DEF other, endless, ind, missing, long, chunks, put
<1>2. \A rx, v : r \in Fail(s.in, rx, v) => rx = "ok"
  BY FailIs, ResultFields
<1>3. /\ s.rx = "ok"
      /\ \/ r \in chunks(dest) /\ ~other /\ ~endless /\ ind
         \/ r \in put(dest) /\ ~other /\ ~endless /\ ~ind /\ ~missing /\ ~long
  BY <1>1, <1>2
<1>4. \/ r \in chunks(dest) /\ \A v : AfterHead(s, t, v) = chunks(v)
      \/ r \in put(dest) /\ ~missing /\ \A v : AfterHead(s, t, v) = put(v)
  BY <1>1, <1>3
<1>5. CASE r \in chunks(dest) /\ \A v : AfterHead(s, t, v) = chunks(v)
  BY Zenon, <1>3, <1>5 DEF chunks
<1>6. CASE r \in put(dest) /\ ~missing /\ \A v : AfterHead(s, t, v) = put(v)
  BY Zenon, <1>3, <1>6 DEF put, missing
<1> QED
  BY <1>4, <1>5, <1>6

LEMMA ParseBlobMirrored ==
  ASSUME NEW src \in Inputs, NEW t, IsSpan(t), NEW m \in Nat, NEW v, NEW w, Agreeing(v, w, m, 0),
         NEW r \in ParseBlob(src, t, v), r.rx = "ok"
  PROVE  r.n \in 0 .. m /\ \E q \in ParseBlob(src, t, w) : Mirrors(r, q, m, r.n)
<1>1. PICK s \in ParseHead(src) : r \in AfterHead(s, t, v)
  BY ParseBlobAfter
<1>2. /\ s.in \in Inputs /\ s.rx \in Errors
      /\ s.rx = "ok" => s.value.value \in Nat /\ s.in.at > 0
  <2>1. Takes(src, s) /\ (s.rx = "ok" => s.value.value \in Nat)
    BY <1>1, ParseHeadTakes
  <2>2. s.in \in Inputs /\ s.rx \in Errors /\ (s.rx = "ok" => src.at < s.in.at)
    BY <2>1 DEF Takes, Stays, Onward
  <2>3. src.at \in Nat /\ s.in.at \in Nat
    BY <2>2, InputIs
  <2> QED
    BY <2>1, <2>2, <2>3
<1> DEFINE n == s.value.value
           chunks(x) == ChunksInto(s.in, t, x)
<1>3. /\ s.rx = "ok"
      /\ \/ r \in chunks(v) /\ \A x : AfterHead(s, t, x) = chunks(x)
         \/ /\ r \in PutAt(s.in, t, v, 0, n, n, "ok") /\ ~MissingData(s.in, n)
            /\ \A x : AfterHead(s, t, x) = PutAt(s.in, t, x, 0, n, n, "ok")
  BY <1>1, <1>2, AfterHeadIs
<1>4. AfterHead(s, t, w) \subseteq ParseBlob(src, t, w)
  BY ParseBlobAfter
<1>5. Len(v) = m /\ Len(w) = m
  BY LenOf DEF Agreeing
<1>6. \A x : chunks(x) = UNION {IF u.rx = "ok" THEN BlobChunks(u.in, t, u.value) ELSE {u}
                                  : u \in Resize(s.in, t, x, 0)}
  BY Zenon DEF Then, ChunksInto
<1>7. CASE r \in chunks(v) /\ \A x : AfterHead(s, t, x) = chunks(x)
  <2> HIDE DEF chunks
  <2>1. \A x : Len(x) = m => chunks(x) = BlobChunks(s.in, t, x)
    <3> SUFFICES ASSUME NEW x, Len(x) = m PROVE chunks(x) = BlobChunks(s.in, t, x)
      OBVIOUS
    <3> DEFINE u == Result(s.in, "ok", x, 0)
    <3>1. Resize(s.in, t, x, 0) = {u}
      BY DEF Resize, Ok
    <3>2. u.rx = "ok" /\ u.in = s.in /\ u.value = x
      BY ResultFields
    <3> HIDE DEF u
    <3> QED
      BY <1>6, <3>1, <3>2
  <2>2. r \in BlobChunks(s.in, t, v) /\ BlobChunks(s.in, t, w) \subseteq ParseBlob(src, t, w)
    BY <1>4, <1>5, <1>7, <2>1
  <2>3. r.n \in 0 .. m /\ \E q \in BlobChunks(s.in, t, w) : Mirrors(r, q, m, r.n)
    BY <1>2, <1>3, <2>2, ChunksMirrored
  <2> QED
    BY <2>2, <2>3
<1>8. CASE /\ r \in PutAt(s.in, t, v, 0, n, n, "ok")
           /\ \A x : AfterHead(s, t, x) = PutAt(s.in, t, x, 0, n, n, "ok")
  <2>1. n \in Nat
    BY <1>2, <1>3
  <2> HIDE DEF n
  <2>2. 0 + n = n
    BY <2>1
  <2>3. r \in PutAt(s.in, t, v, 0, n, 0 + n, "ok")
    BY Zenon, <1>8, <2>2
  <2>4. /\ r.n = 0 + n /\ 0 + n <= m
        /\ \E q \in PutAt(s.in, t, w, 0, n, 0 + n, "ok") : Mirrors(r, q, m, 0 + n)
    BY <1>2, <2>1, <2>3, PutMirrored
  <2> QED
    BY <1>4, <1>8, <2>1, <2>2, <2>4
<1> QED
  BY <1>3, <1>7, <1>8

LEMMA ParseBlobRecurs ==
  ASSUME NEW src \in Inputs, NEW t, ~IsSpan(t), NEW v, NEW w
  PROVE  Recurs(ParseBlob(src, t, v), ParseBlob(src, t, w))
<1> SUFFICES ASSUME NEW r \in ParseBlob(src, t, v), r.rx = "ok" PROVE r \in ParseBlob(src, t, w)
  BY DEF Recurs
<1>1. PICK s \in ParseHead(src) : r \in AfterHead(s, t, v)
  BY ParseBlobAfter
<1>2. Takes(src, s) /\ s.in \in Inputs /\ s.rx \in Errors /\ (s.rx = "ok" => s.value.value \in Nat)
  BY <1>1, ParseHeadTakes DEF Takes, Stays, Onward
<1> DEFINE n == s.value.value
           chunks(x) == ChunksInto(s.in, t, x)
<1>3. /\ s.rx = "ok"
      /\ \/ r \in chunks(v) /\ \A x : AfterHead(s, t, x) = chunks(x)
         \/ /\ r \in PutAt(s.in, t, v, 0, n, n, "ok") /\ ~MissingData(s.in, n)
            /\ \A x : AfterHead(s, t, x) = PutAt(s.in, t, x, 0, n, n, "ok")
  BY <1>1, <1>2, AfterHeadIs
<1>4. AfterHead(s, t, w) \subseteq ParseBlob(src, t, w)
  BY ParseBlobAfter
<1>5. CASE r \in chunks(v) /\ \A x : AfterHead(s, t, x) = chunks(x)
  <2> DEFINE empty == Resized(w, 0, 0)
             u == Result(Ask(s.in, 0), "ok", empty, 0)
             of(p) == IF p.rx = "ok" THEN BlobChunks(p.in, t, p.value) ELSE {p}
  <2>1. \A x : chunks(x) = UNION {of(p) : p \in Resize(s.in, t, x, 0)}
    BY Zenon DEF Then, ChunksInto
  <2>2. \A x : Resized(x, 0, 0) = empty
    BY DEF Resized
  <2> HIDE DEF chunks, empty
  <2>3. PICK p \in Resize(s.in, t, v, 0) : r \in of(p)
    BY <1>5, <2>1
  <2>4. p.rx = "ok"
    <3>1. p.rx = "ok" \/ r = p
      BY <2>3
    <3> QED
      BY <3>1
  <2>5. p = u
    BY <2>2, <2>3, <2>4, ResizeIs, ResultFields
  <2>6. u \in Resize(s.in, t, w, 0)
    BY OkIs DEF Resize, empty
  <2> HIDE DEF u, of
  <2>7. r \in chunks(w)
    BY <2>1, <2>3, <2>5, <2>6
  <2> QED
    BY <1>4, <1>5, <2>7
<1>6. CASE /\ r \in PutAt(s.in, t, v, 0, n, n, "ok") /\ ~MissingData(s.in, n)
           /\ \A x : AfterHead(s, t, x) = PutAt(s.in, t, x, 0, n, n, "ok")
  <2>1. n \in Nat /\ n < Len(s.in.bytes)
    <3>1. n \in Nat
      BY <1>2, <1>3
    <3> HIDE DEF n
    <3> QED
      BY <1>2, <1>3, <1>6, <3>1, NotMissing
  <2> HIDE DEF n
  <2>2. Recurs(PutAt(s.in, t, v, 0, n, n, "ok"), PutAt(s.in, t, w, 0, n, n, "ok"))
    BY <1>2, <2>1, PutRecurs
  <2> QED
    BY <1>4, <1>6, <2>2 DEF Recurs
<1> QED
  BY <1>3, <1>5, <1>6

LEMMA BlobsRecur ==
  ASSUME NEW src \in Inputs, NEW t, ~IsSpan(t), NEW v, NEW w
  PROVE  Recurs(DecodeBlob(src, t, v), DecodeBlob(src, t, w))
<1> SUFFICES ASSUME NEW r \in DecodeBlob(src, t, v), r.rx = "ok" PROVE r \in DecodeBlob(src, t, w)
  BY DEF Recurs
<1> DEFINE of(s) == IF s.rx = "ok" THEN s ELSE [s EXCEPT !.value = <<>>]
<1>1. \A x : DecodeBlob(src, t, x) = {of(s) : s \in ParseBlob(src, t, x)}
  BY Zenon DEF DecodeBlob
<1>2. PICK s \in ParseBlob(src, t, v) : \/ s.rx = "ok" /\ r = s
                                        \/ s.rx # "ok" /\ r = Result(s.in, s.rx, <<>>, s.n)
  BY DecodeBlobIs
<1>3. s.rx = "ok" /\ r = s
  BY <1>2, ResultFields
<1>4. s \in ParseBlob(src, t, w)
  BY <1>2, <1>3, ParseBlobRecurs DEF Recurs
<1>5. of(s) = s
  BY <1>3
<1> HIDE DEF of
<1> QED
  BY <1>1, <1>3, <1>4, <1>5

LEMMA FixedBlobsRecur ==
  ASSUME NEW src \in Inputs, NEW t, IsSpan(t), t.n \in Nat, NEW v, NEW w, Agreeing(v, w, t.n, 0)
  PROVE  Recurs(DecodeFixedBlob(src, t, v), DecodeFixedBlob(src, t, w))
<1> SUFFICES ASSUME NEW r \in DecodeFixedBlob(src, t, v), r.rx = "ok"
             PROVE  r \in DecodeFixedBlob(src, t, w)
  BY DEF Recurs
<1> DEFINE of(s) == IF s.rx # "ok" THEN [s EXCEPT !.value = Default[t]]
                    ELSE IF s.n # t.n THEN Result(s.in, "tuple_size_mismatch", Default[t], s.n)
                    ELSE s
           m == t.n
<1>1. DecodeFixedBlob(src, t, w) = {of(s) : s \in ParseBlob(src, t, w)}
  BY Zenon DEF DecodeFixedBlob
<1>2. PICK s \in ParseBlob(src, t, v) :
           \/ s.rx # "ok" /\ r = Result(s.in, s.rx, Default[t], s.n)
           \/ s.rx = "ok" /\ s.n # t.n /\ r = Result(s.in, "tuple_size_mismatch", Default[t], s.n)
           \/ s.rx = "ok" /\ s.n = t.n /\ r = s
  BY DecodeFixedBlobIs
<1>3. s.rx = "ok" /\ s.n = t.n /\ r = s
  BY <1>2, ResultFields
<1>5. PICK q \in ParseBlob(src, t, w) : Mirrors(s, q, m, s.n)
  <2> HIDE DEF m
  <2>1. \E q \in ParseBlob(src, t, w) : Mirrors(s, q, m, s.n)
    BY <1>2, <1>3, ParseBlobMirrored DEF m
  <2> QED
    BY <2>1
<1>6. q = s
  <2>1. Mirrors(s, q, m, m)
    BY Zenon, <1>3, <1>5
  <2> HIDE DEF m
  <2>2. m \in Nat /\ m <= m
    BY DEF m
  <2> QED
    BY <2>1, <2>2, MirroredWhole
<1>7. of(s) = s
  BY <1>3
<1> HIDE DEF of
<1> QED
  BY <1>1, <1>3, <1>5, <1>6, <1>7

LEMMA FrontsAgree ==
  ASSUME NEW m \in Nat, NEW n \in 0 .. m, NEW x, NEW y, Agreeing(x, y, m, n)
  PROVE  SubSeq(x, 1, n) = SubSeq(y, 1, n)
<1>1. /\ Len(x) = m /\ x \in Seq({x[k] : k \in 1 .. m})
      /\ Len(y) = m /\ y \in Seq({y[k] : k \in 1 .. m})
  BY LenOf DEF Agreeing
<1>2. \A k \in 1 .. n : x[k] = y[k]
  BY DEF Agreeing
<1>3. SubSeq(x, 1, n) = [k \in 1 .. n |-> x[k]] /\ SubSeq(y, 1, n) = [k \in 1 .. n |-> y[k]]
  BY <1>1
<1>4. [k \in 1 .. n |-> x[k]] = [k \in 1 .. n |-> y[k]]
  BY <1>2
<1> QED
  BY Zenon, <1>3, <1>4

(* What succeeds for one object succeeds for another and shows the same.   *)
Resembles(t, S, U) == \A r \in S : r.rx = "ok" => \E q \in U : Seen(t, q) = Seen(t, r)

LEMMA FixedTextsResemble ==
  ASSUME NEW src \in Inputs, NEW t, t.kind = "fixedtext", t.n \in Nat, NEW v, NEW w,
         Agreeing(v.units, w.units, t.n, 0)
  PROVE  Resembles(t, DecodeFixedText(src, t, v), DecodeFixedText(src, t, w))
<1> SUFFICES ASSUME NEW r \in DecodeFixedText(src, t, v), r.rx = "ok"
             PROVE  \E q \in DecodeFixedText(src, t, w) : Seen(t, q) = Seen(t, r)
  BY DEF Resembles
<1> DEFINE a == v.units
           b == w.units
           m == t.n
<1>1. PICK s \in ParseBlob(src, t, a) : r = Result(s.in, s.rx, UnitsRead(s), s.n)
  BY DecodeFixedTextIs
<1>2. s.rx = "ok" /\ IsSpan(t)
  BY <1>1, ResultFields DEF IsSpan
<1> HIDE DEF a, b, m
<1>3. s.n \in 0 .. m /\ \E p \in ParseBlob(src, t, b) : Mirrors(s, p, m, s.n)
  BY <1>1, <1>2, ParseBlobMirrored DEF a, b, m
<1>4. PICK p \in ParseBlob(src, t, b) : Mirrors(s, p, m, s.n)
  BY <1>3
<1>5. /\ IsResult(p) /\ p.in = s.in /\ p.rx = "ok" /\ p.n = s.n
      /\ Agreeing(s.value, p.value, m, s.n)
  BY <1>2, <1>4 DEF Mirrors
<1>6. SubSeq(s.value, 1, s.n) = SubSeq(p.value, 1, s.n)
  <2> DEFINE n == s.n
             x == s.value
             y == p.value
  <2>1. n \in 0 .. m /\ m \in Nat /\ Agreeing(x, y, m, n)
    BY <1>3, <1>5 DEF m
  <2> HIDE DEF n, x, y
  <2>2. SubSeq(x, 1, n) = SubSeq(y, 1, n)
    BY <2>1, FrontsAgree
  <2> QED
    BY <2>2 DEF n, x, y
<1> DEFINE q == Result(p.in, p.rx, UnitsRead(p), p.n)
<1>7. q \in DecodeFixedText(src, t, w)
  <2>1. [p EXCEPT !.value = UnitsRead(p)] \in DecodeFixedText(src, t, w)
    BY Zenon, <1>4 DEF DecodeFixedText, UnitsRead, b
  <2>2. [p EXCEPT !.value = UnitsRead(p)] = q
    BY <1>5, ResultExcept
  <2> QED
    BY Zenon, <2>1, <2>2
<1>8. /\ q.in = s.in /\ q.rx = "ok" /\ q.n = s.n /\ q.value = UnitsRead(p)
      /\ r.in = s.in /\ r.rx = "ok" /\ r.n = s.n /\ r.value = UnitsRead(s)
  BY <1>1, <1>2, <1>5, ResultFields
<1> HIDE DEF q
<1>9. \A u : u.rx = "ok" => UnitsRead(u).size = u.n /\ UnitsRead(u).units = u.value
  BY DEF UnitsRead
<1>10. Shown(t, UnitsRead(s)) = SubSeq(s.value, 1, s.n)
  BY Zenon, <1>2, <1>9 DEF Shown
<1>11. Shown(t, UnitsRead(p)) = SubSeq(p.value, 1, s.n)
  BY Zenon, <1>5, <1>9 DEF Shown
<1>12. Seen(t, q) = Seen(t, r)
  BY Zenon, <1>6, <1>8, <1>10, <1>11 DEF Seen
<1> QED
  BY <1>7, <1>12

(* The code units behind the string that is read stay.                     *)
LEMMA FixedTextKeeps ==
  ASSUME NEW src \in Inputs, NEW t, t.kind = "fixedtext", t.n \in Nat, NEW v,
         v.units = [k \in 1 .. t.n |-> v.units[k]],
         NEW r \in DecodeFixedText(src, t, v), r.rx = "ok"
  PROVE  \A k \in r.value.size + 1 .. t.n : r.value.units[k] = v.units[k]
<1> DEFINE a == v.units
           m == t.n
<1>1. PICK s \in ParseBlob(src, t, a) : r = Result(s.in, s.rx, UnitsRead(s), s.n)
  BY DecodeFixedTextIs
<1>2. s.rx = "ok" /\ r.value = UnitsRead(s)
  BY <1>1, ResultFields
<1>3. r.value.size = s.n /\ r.value.units = s.value
  BY <1>2 DEF UnitsRead
<1> HIDE DEF a, m
<1>4. PICK h \in ParseHead(src) : s \in AfterHead(h, t, a)
  BY <1>1, ParseBlobAfter
<1>5. h.in \in Inputs /\ h.rx \in Errors /\ (h.rx = "ok" => h.value.value \in Nat)
  BY <1>4, ParseHeadTakes DEF Takes, Stays, Onward
<1> DEFINE n == h.value.value
           put == PutAt(h.in, t, a, 0, n, n, "ok")
<1>6. h.rx = "ok" /\ s \in put
  <2> DEFINE other == h.value.type # StringType(t)
             ind == h.value.ind
             missing == MissingData(h.in, h.value.value)
             long == h.value.value > MaxSize(t)
  <2>1. AfterHead(h, t, a) =
          IF h.rx = "ok"
          THEN IF other THEN Fail(h.in, "item_type_mismatch", a)
               ELSE IF ind THEN Fail(h.in, "indefinite_item", a)
               ELSE IF missing THEN Fail(h.in, "missing_data", a)
               ELSE IF long THEN Fail(h.in, "string_exceeds_size_limit", a)
               ELSE put
          ELSE Fail(h.in, h.rx, a)
    BY Zenon DEF AfterHead
  <2> HIDE DEF other, ind, missing, long, put
  <2>2. \A rx : s \in Fail(h.in, rx, a) => rx = "ok"
    BY <1>2, FailIs, ResultFields
  <2> QED
    BY <1>4, <2>1, <2>2
<1>7. Len(a) = m /\ DOMAIN a = 1 .. m
  <2>1. \A f : f = [k \in 1 .. m |-> f[k]] => DOMAIN f = 1 .. m
    BY Zenon
  <2> QED
    BY <2>1, LenOf DEF a, m
<1>8. PICK u \in Resize(h.in, t, a, n) : \E c \in BulkRead(u.in, n) :
        u.rx = "ok" /\ c.rx = "ok" /\ s = Result(c.in, "ok", Overwrite(u.value, 0, c.value), n)
  <2>1. \A u \in Resize(h.in, t, a, n) : u.in \in Inputs /\ u.rx \in Errors
    BY <1>5, ResizeIs, ResultFields, AllErrors DEF IsSpan
  <2>2. n \in Nat
    BY <1>5, <1>6
  <2> HIDE DEF n
  <2> QED
    BY <1>2, <1>6, <2>1, <2>2, PutIs DEF put
<1>9. u.in = h.in /\ u.value = a /\ n \in Nat
  BY <1>5, <1>6, <1>8, ResizeIs, ResultFields DEF IsSpan
<1>10. PICK c \in BulkRead(h.in, n) : c.rx = "ok" /\ s = Result(c.in, "ok", Overwrite(a, 0, c.value), n)
  BY <1>8, <1>9
<1> HIDE DEF n
<1>11. DOMAIN c.value = 1 .. n
  BY <1>5, <1>9, <1>10, BytesRead
<1>12. s.n = n /\ s.value = [k \in 1 .. m |-> IF k - 0 \in 1 .. n THEN c.value[k - 0] ELSE a[k]]
  BY <1>7, <1>10, <1>11, ResultFields DEF Overwrite
<1>13. ASSUME NEW k \in n + 1 .. m PROVE s.value[k] = a[k]
  <2>1. k \in 1 .. m /\ k - 0 \notin 1 .. n
    BY <1>9 DEF m
  <2> QED
    BY Zenon, <1>12, <2>1
<1> QED
  BY <1>3, <1>12, <1>13 DEF a, m

-----------------------------------------------------------------------------
(* Arrays and tuples: two objects of the same type, whose elements the     *)
(* decoders g make the same                                                *)
IsFixed(t) == t.kind \in {"array", "tuple"} /\ t.n \in Nat

PartsRecur(d, e, g) ==
  \A k \in 1 .. d.type.n : \A p \in Inputs : Recurs(g[Member(d, k)][p], g[Member(e, k)][p])

Twins(d, e, g) == d.type = e.type /\ IsFixed(d.type) /\ PartsTake(d, g) /\ PartsRecur(d, e, g)

LEMMA PlacedAgree ==
  ASSUME NEW m \in Nat, NEW i \in Nat, i + 1 <= m, NEW v, NEW w, Agreeing(v, w, m, i), NEW x
  PROVE  Agreeing(Placed(v, i + 1, x), Placed(w, i + 1, x), m, i + 1)
<1> DEFINE a == Placed(v, i + 1, x)
           b == Placed(w, i + 1, x)
           j == i + 1
<1>1. DOMAIN v = 1 .. m /\ DOMAIN w = 1 .. m
  <2>1. \A f : f = [k \in 1 .. m |-> f[k]] => DOMAIN f = 1 .. m
    BY Zenon
  <2> QED
    BY <2>1 DEF Agreeing
<1>2. /\ a = [k \in 1 .. m |-> IF k = j THEN x ELSE v[k]]
      /\ b = [k \in 1 .. m |-> IF k = j THEN x ELSE w[k]]
  BY <1>1 DEF Placed
<1> HIDE DEF a, b
<1>3. a = [k \in 1 .. m |-> a[k]] /\ b = [k \in 1 .. m |-> b[k]]
  BY Zenon, <1>2
<1>4. ASSUME NEW k \in 1 .. m, k <= j PROVE a[k] = b[k]
  <2>1. k = j \/ k <= i
    BY <1>4
  <2>2. k <= i => v[k] = w[k]
    BY DEF Agreeing
  <2>3. a[k] = (IF k = j THEN x ELSE v[k]) /\ b[k] = IF k = j THEN x ELSE w[k]
    BY Zenon, <1>2
  <2> QED
    BY <2>1, <2>2, <2>3
<1>5. Agreeing(a, b, m, j)
  BY <1>3, <1>4 DEF Agreeing
<1> QED
  BY <1>5 DEF a, b

LEMMA MemberMirrored ==
  ASSUME NEW src \in Inputs, NEW d, NEW e, NEW g, Twins(d, e, g), NEW i \in Nat,
         NEW v, NEW w, Agreeing(v, w, d.type.n, i), NEW r \in DecodeItem(src, d, v, i, g), r.rx = "ok"
  PROVE  \E q \in DecodeItem(src, e, w, i, g) : Mirrors(r, q, d.type.n, i + 1)
<1> DEFINE m == d.type.n
           j == i + 1
<1>1. /\ DecodeItem(src, d, v, i, g) = DecodeMember(src, d, v, i, g)
      /\ DecodeItem(src, e, w, i, g) = DecodeMember(src, e, w, i, g)
  BY DEF DecodeItem, Twins, IsFixed
<1>2. MemberDecoded(src, d, v, i, g, r)
  BY <1>1, DecodeMemberIs DEF Twins, IsFixed
<1>3. ~(r = Result(src, "undefined", v, 0))
  BY ResultFields
<1>4. j \in 1 .. m /\ \E s \in g[Member(d, j)][src] :
        Takes(src, s) /\ r = Result(s.in, s.rx, Placed(v, j, s.value), s.n)
  BY Zenon, <1>2, <1>3 DEF MemberDecoded
<1>5. PICK s \in g[Member(d, j)][src] :
        Takes(src, s) /\ r = Result(s.in, s.rx, Placed(v, j, s.value), s.n)
  BY <1>4
<1>6. IsResult(s) /\ s.rx = "ok"
  BY <1>5, ResultFields DEF Takes, Stays
<1>7. s \in g[Member(e, j)][src]
  BY <1>4, <1>6 DEF Twins, PartsRecur, Recurs
<1> DEFINE q == Result(s.in, s.rx, Placed(w, j, s.value), s.n)
           stored(x) == [x EXCEPT !.value = Placed(w, j, x.value)]
<1>8. q \in DecodeMember(src, e, w, i, g)
  <2>1. j \in 1 .. e.type.n
    BY <1>4 DEF Twins
  <2>2. DecodeMember(src, e, w, i, g)
          = IF j \notin 1 .. e.type.n THEN Fail(src, "undefined", w)
            ELSE {stored(x) : x \in g[Member(e, j)][src]}
    BY Zenon DEF DecodeMember, Placed
  <2>3. stored(s) = q
    BY Zenon, <1>6, ResultExcept
  <2> HIDE DEF stored, q, j
  <2>4. DecodeMember(src, e, w, i, g) = {stored(x) : x \in g[Member(e, j)][src]}
    BY Zenon, <2>1, <2>2
  <2> QED
    BY Zenon, <1>7, <2>3, <2>4
<1>9. Agreeing(Placed(v, j, s.value), Placed(w, j, s.value), m, j)
  BY <1>4, PlacedAgree DEF Twins, IsFixed
<1>10. /\ IsResult(r) /\ r.in = s.in /\ r.rx = s.rx /\ r.value = Placed(v, j, s.value) /\ r.n = s.n
       /\ IsResult(q) /\ q.in = s.in /\ q.rx = s.rx /\ q.value = Placed(w, j, s.value) /\ q.n = s.n
  BY <1>5, ResultFields
<1> HIDE DEF q
<1>11. Mirrors(r, q, m, j)
  BY Zenon, <1>9, <1>10 DEF Mirrors
<1> QED
  BY <1>1, <1>8, <1>11

EachMirrored(d, e, v, w, g) ==
  \A src \in Inputs, n \in Nat : \A r \in Items(src, d, v, n, g) :
    r.rx = "ok" => \E q \in Items(src, e, w, n, g) : r.n = n /\ Mirrors(r, q, d.type.n, n)

LEMMA ItemsMirrored ==
  ASSUME NEW d, NEW e, NEW g, Twins(d, e, g), NEW v, NEW w, Agreeing(v, w, d.type.n, 0)
  PROVE  EachMirrored(d, e, v, w, g)
<1> SUFFICES ASSUME NEW src \in Inputs, NEW n \in Nat, NEW r \in Items(src, d, v, n, g), r.rx = "ok"
             PROVE  \E q \in Items(src, e, w, n, g) : r.n = n /\ Mirrors(r, q, d.type.n, n)
  BY DEF EachMirrored
<1> DEFINE m == d.type.n
<1>1. PICK f : Items(src, d, v, n, g) = {[x EXCEPT !.n = n] : x \in f[n]} /\ ItemsRun(src, d, v, n, g, f)
  BY ItemsIs
<1>2. PICK h : Items(src, e, w, n, g) = {[x EXCEPT !.n = n] : x \in h[n]} /\ ItemsRun(src, e, w, n, g, h)
  BY ItemsIs
<1>3. \A k \in Nat : k <= n => \A x \in f[k] : Stays(src, x)
  <2>1. IsHolder(d)
    BY DEF Twins, IsFixed, IsHolder, ContainerKinds
  <2> QED
    BY <1>1, <2>1, ItemsRounds DEF Twins
<1> DEFINE T == {k \in Nat : k <= n => \A x \in f[k] : x.rx = "ok" => \E y \in h[k] : Mirrors(x, y, m, k)}
<1>4. 0 \in T
  <2> SUFFICES ASSUME NEW x \in f[0] PROVE \E y \in h[0] : Mirrors(x, y, m, 0)
    OBVIOUS
  <2> DEFINE y == Result(src, "ok", w, 0)
  <2>1. x = Result(src, "ok", v, 0) /\ y \in h[0]
    BY <1>1, <1>2 DEF ItemsRun
  <2>2. /\ IsResult(x) /\ x.in = src /\ x.rx = "ok" /\ x.value = v /\ x.n = 0
        /\ IsResult(y) /\ y.in = src /\ y.rx = "ok" /\ y.value = w /\ y.n = 0
    BY <2>1, ResultFields
  <2> HIDE DEF y
  <2>3. Mirrors(x, y, m, 0)
    BY Zenon, <2>2 DEF Mirrors
  <2> QED
    BY <2>1, <2>3
<1>5. ASSUME NEW k \in Nat, k \in T PROVE k + 1 \in T
  <2> SUFFICES ASSUME k + 1 <= n, NEW x \in f[k + 1], x.rx = "ok"
               PROVE  \E y \in h[k + 1] : Mirrors(x, y, m, k + 1)
    OBVIOUS
  <2>1. k + 1 \in 1 .. n /\ (k + 1) - 1 = k /\ k <= n
    OBVIOUS
  <2>2. PICK p \in f[k] : p.rx = "ok" /\ x \in DecodeItem(p.in, d, p.value, k, g)
    BY <1>1, <2>1 DEF ItemsRun
  <2>3. \A s \in h[k] : s.rx = "ok" => DecodeItem(s.in, e, s.value, k, g) \subseteq h[k + 1]
    BY <1>2, <2>1 DEF ItemsRun
  <2>4. PICK s \in h[k] : Mirrors(p, s, m, k)
    BY <1>5, <2>1, <2>2
  <2>5. /\ p.in \in Inputs /\ s.rx = "ok" /\ s.in = p.in
        /\ Agreeing(p.value, s.value, m, k)
    BY <1>3, <2>1, <2>2, <2>4 DEF Mirrors, Stays, Onward
  <2>6. \E y \in DecodeItem(p.in, e, s.value, k, g) : Mirrors(x, y, m, k + 1)
    BY <2>2, <2>5, MemberMirrored
  <2> QED
    BY <2>3, <2>5, <2>6
<1> HIDE DEF T
<1>6. n \in T
  BY <1>4, <1>5, NumberInduction
<1>7. PICK x \in f[n] : r = [x EXCEPT !.n = n]
  BY Zenon, <1>1
<1>8. IsResult(x)
  BY <1>3, <1>7 DEF Stays
<1>9. r = Result(x.in, x.rx, x.value, n)
  BY Zenon, <1>7, <1>8, ResultExcept
<1>10. IsResult(r) /\ r.in = x.in /\ r.rx = x.rx /\ r.value = x.value /\ r.n = n
  BY <1>9, ResultFields
<1>11. PICK y \in h[n] : Mirrors(x, y, m, n)
  BY <1>6, <1>7, <1>10 DEF T
<1> DEFINE q == [y EXCEPT !.n = n]
<1>12. q = Result(y.in, y.rx, y.value, n) /\ q \in Items(src, e, w, n, g)
  <2>1. IsResult(y)
    BY <1>11 DEF Mirrors
  <2> QED
    BY Zenon, <1>2, <1>11, <2>1, ResultExcept
<1> HIDE DEF q
<1>13. IsResult(q) /\ q.in = y.in /\ q.rx = y.rx /\ q.value = y.value /\ q.n = n
  BY <1>12, ResultFields
<1>14. Mirrors(r, q, m, n)
  BY Zenon, <1>10, <1>11, <1>13 DEF Mirrors
<1> QED
  BY <1>10, <1>12, <1>14

LEMMA NextItemMirrored ==
  ASSUME NEW d, NEW e, NEW g, Twins(d, e, g), NEW max, NEW r, NEW q,
         r.in \in Inputs, r.n \in Nat, Mirrors(r, q, d.type.n, r.n),
         NEW x \in NextItem(r, d, max, g), x.rx \in {"ok", "more"}
  PROVE  x.n \in Nat /\ \E y \in NextItem(q, e, max, g) : Mirrors(x, y, d.type.n, x.n)
<1> DEFINE m == d.type.n
           last(s) == s.in.bytes[s.in.at + 1] = Break
           more(u, p) == IF u.rx = "ok" THEN {Result(u.in, "more", u.value, p.n + 1)} ELSE {u}
           item(s, p, c) == UNION {more(u, p) : u \in DecodeItem(s.in, c, p.value, p.n, g)}
           of(s, p, c) ==
             IF s.rx = "ok"
             THEN IF last(s) THEN {Result(DiscardBuffered(s.in, 1), "ok", p.value, p.n)}
                  ELSE IF p.n > max THEN Fail(s.in, "item_value_out_of_range", p.value)
                  ELSE item(s, p, c)
             ELSE Fail(s.in, s.rx, p.value)
<1>1. \A p, c : NextItem(p, c, max, g) = UNION {of(s, p, c) : s \in RequireInput(p.in, 1)}
  BY Zenon DEF NextItem, Try, Then
<1>2. q.in = r.in /\ q.n = r.n /\ Agreeing(r.value, q.value, m, r.n)
  BY DEF Mirrors
<1> HIDE DEF last, item
<1>3. PICK s \in RequireInput(r.in, 1) : x \in of(s, r, d)
  BY <1>1
<1>4. s.in \in Inputs /\ s.rx \in Errors
  <2>1. Stays(r.in, s)
    BY <1>3, RequireStays
  <2> QED
    BY <2>1 DEF Stays, Onward
<1>5. /\ s.rx = "ok"
      /\ \/ last(s) /\ x = Result(DiscardBuffered(s.in, 1), "ok", r.value, r.n)
         \/ ~last(s) /\ ~(r.n > max) /\ x \in item(s, r, d)
  <2>1. \A rx, v : x \in Fail(s.in, rx, v) => rx \in {"ok", "more"}
    BY FailIs, ResultFields
  <2> QED
    BY <1>3, <1>4, <2>1, AllErrors
<1>6. \A y : y \in of(s, q, e) => y \in NextItem(q, e, max, g)
  <2> HIDE DEF of
  <2> QED
    BY <1>1, <1>2
<1>7. CASE last(s) /\ x = Result(DiscardBuffered(s.in, 1), "ok", r.value, r.n)
  <2> DEFINE p == DiscardBuffered(s.in, 1)
             y == Result(p, "ok", q.value, q.n)
  <2>1. y \in of(s, q, e)
    BY Zenon, <1>5, <1>7
  <2> HIDE DEF p
  <2>2. x = Result(p, "ok", r.value, r.n)
    BY <1>7 DEF p
  <2>3. /\ IsResult(x) /\ x.in = p /\ x.rx = "ok" /\ x.value = r.value /\ x.n = r.n
        /\ IsResult(y) /\ y.in = p /\ y.rx = "ok" /\ y.value = q.value /\ y.n = q.n
    BY <2>2, ResultFields
  <2>4. Mirrors(x, y, m, r.n)
    BY Zenon, <1>2, <2>3 DEF Mirrors
  <2> QED
    BY Zenon, <1>6, <2>1, <2>3, <2>4
<1>8. CASE ~last(s) /\ ~(r.n > max) /\ x \in item(s, r, d)
  <2>1. item(s, q, e) \subseteq of(s, q, e)
    BY Zenon, <1>2, <1>5, <1>8
  <2>2. PICK u \in DecodeItem(s.in, d, r.value, r.n, g) : x \in more(u, r)
    BY <1>8 DEF item
  <2>3. u.rx \in Errors
    <3>1. IsHolder(d)
      BY DEF Twins, IsFixed, IsHolder, ContainerKinds
    <3>2. Takes(s.in, u)
      BY <1>4, <2>2, <3>1, DecodeItemTakes DEF Twins
    <3> QED
      BY <3>2 DEF Takes, Stays
  <2>4. u.rx # "ok" => u.rx \in {"ok", "more"}
    BY <2>2
  <2>5. u.rx = "ok"
    BY <2>3, <2>4, AllErrors
  <2>6. x = Result(u.in, "more", u.value, r.n + 1)
    BY <2>2, <2>5
  <2>7. PICK z \in DecodeItem(s.in, e, q.value, r.n, g) : Mirrors(u, z, m, r.n + 1)
    BY <1>2, <1>4, <2>2, <2>5, MemberMirrored
  <2> DEFINE y == Result(z.in, "more", z.value, q.n + 1)
             j == r.n + 1
  <2>8. y \in item(s, q, e)
    <3>1. z.rx = "ok"
      BY <2>5, <2>7 DEF Mirrors
    <3>2. z \in DecodeItem(s.in, e, q.value, q.n, g)
      BY Zenon, <1>2, <2>7
    <3>3. y \in more(z, q)
      BY Zenon, <3>1
    <3> HIDE DEF y, more
    <3> QED
      BY <3>2, <3>3 DEF item
  <2>9. x = Result(u.in, "more", u.value, j) /\ y = Result(z.in, "more", z.value, j)
    BY Zenon, <1>2, <2>6
  <2>10. j \in Nat
    OBVIOUS
  <2>11. Mirrors(u, z, m, j)
    BY <2>7
  <2> HIDE DEF y, j
  <2>12. /\ IsResult(x) /\ x.in = u.in /\ x.rx = "more" /\ x.value = u.value /\ x.n = j
         /\ IsResult(y) /\ y.in = z.in /\ y.rx = "more" /\ y.value = z.value /\ y.n = j
    BY <2>9, ResultFields
  <2>13. Mirrors(x, y, m, j)
    BY Zenon, <2>11, <2>12 DEF Mirrors
  <2> HIDE DEF of
  <2> QED
    BY <1>6, <2>1, <2>8, <2>10, <2>12, <2>13
<1> QED
  BY <1>5, <1>7, <1>8

LEMMA IndefiniteMirrored ==
  ASSUME NEW src \in Inputs, NEW d, NEW e, NEW g, Twins(d, e, g), NEW max,
         NEW v, NEW w, Agreeing(v, w, d.type.n, 0), NEW r \in IndefiniteItems(src, d, v, max, g), r.rx = "ok"
  PROVE  r.n \in Nat /\ \E q \in IndefiniteItems(src, e, w, max, g) : Mirrors(r, q, d.type.n, r.n)
<1> DEFINE n == Rounds(src)
           m == d.type.n
<1>1. PICK f : IndefiniteItems(src, d, v, max, g) = f[n] /\ IndefiniteRun(src, d, v, max, g, n, f)
  BY IndefiniteIs
<1>2. PICK h : IndefiniteItems(src, e, w, max, g) = h[n] /\ IndefiniteRun(src, e, w, max, g, n, h)
  BY IndefiniteIs
<1>3. n \in Nat
  BY InputIs DEF Rounds
<1>4. \A k \in Nat : k <= n => \A x \in f[k] : ItemRound(src, k, x)
  <2>1. IsHolder(d)
    BY DEF Twins, IsFixed, IsHolder, ContainerKinds
  <2> QED
    BY <1>1, <2>1, IndefiniteRounds DEF Twins
<1> HIDE DEF n
<1> DEFINE T == {k \in Nat : k <= n => \A x \in f[k] : x.rx \in {"ok", "more"} =>
                               x.n \in Nat /\ \E y \in h[k] : Mirrors(x, y, m, x.n)}
<1>5. 0 \in T
  <2> SUFFICES ASSUME NEW x \in f[0] PROVE x.n \in Nat /\ \E y \in h[0] : Mirrors(x, y, m, x.n)
    OBVIOUS
  <2> DEFINE y == Result(src, "more", w, 0)
  <2>1. x = Result(src, "more", v, 0) /\ y \in h[0]
    BY <1>1, <1>2 DEF IndefiniteRun
  <2>2. /\ IsResult(x) /\ x.in = src /\ x.rx = "more" /\ x.value = v /\ x.n = 0
        /\ IsResult(y) /\ y.in = src /\ y.rx = "more" /\ y.value = w /\ y.n = 0
    BY <2>1, ResultFields
  <2> HIDE DEF y
  <2>3. Mirrors(x, y, m, 0)
    BY Zenon, <2>2 DEF Mirrors
  <2> QED
    BY <2>1, <2>2, <2>3
<1>6. ASSUME NEW k \in Nat, k \in T PROVE k + 1 \in T
  <2> SUFFICES ASSUME k + 1 <= n, NEW x \in f[k + 1], x.rx \in {"ok", "more"}
               PROVE  x.n \in Nat /\ \E y \in h[k + 1] : Mirrors(x, y, m, x.n)
    OBVIOUS
  <2>1. k + 1 \in 1 .. n /\ (k + 1) - 1 = k /\ k <= n
    BY <1>3
  <2>2. PICK p \in f[k] : \/ p.rx = "more" /\ x \in NextItem(p, d, max, g)
                          \/ p.rx # "more" /\ x = p
    BY <1>1, <2>1 DEF IndefiniteRun
  <2>3. \A s \in h[k] : IF s.rx = "more" THEN NextItem(s, e, max, g) \subseteq h[k + 1] ELSE s \in h[k + 1]
    BY <1>2, <2>1 DEF IndefiniteRun
  <2>4. p.rx \in {"ok", "more"} => p.n \in Nat /\ \E s \in h[k] : Mirrors(p, s, m, p.n)
    BY <1>6, <2>1
  <2>5. CASE p.rx = "more" /\ x \in NextItem(p, d, max, g)
    <3>1. PICK s \in h[k] : Mirrors(p, s, m, p.n)
      BY <2>4, <2>5
    <3>2. p.in \in Inputs /\ p.n \in Nat /\ s.rx = "more"
      BY <1>4, <2>1, <2>4, <2>5, <3>1 DEF ItemRound, Onward, Mirrors
    <3>3. x.n \in Nat /\ \E y \in NextItem(s, e, max, g) : Mirrors(x, y, m, x.n)
      BY <2>5, <3>1, <3>2, NextItemMirrored
    <3> QED
      BY <2>3, <3>2, <3>3
  <2>6. CASE p.rx # "more" /\ x = p
    <3>1. PICK s \in h[k] : Mirrors(p, s, m, p.n)
      BY <2>4, <2>6
    <3>2. s.rx # "more"
      BY <2>6, <3>1 DEF Mirrors
    <3> QED
      BY <2>3, <2>4, <2>6, <3>1, <3>2
  <2> QED
    BY <2>2, <2>5, <2>6
<1> HIDE DEF T
<1>7. n \in T
  BY <1>3, <1>5, <1>6, NumberInduction
<1> QED
  BY <1>1, <1>2, <1>3, <1>7 DEF T

LEMMA ArrayMirrored ==
  ASSUME NEW src \in Inputs, NEW d, NEW e, NEW g, Twins(d, e, g), d.type.kind = "array",
         NEW max, NEW v, NEW w, Agreeing(v, w, d.type.n, 0), NEW r \in ParseArrayLike(src, d, v, max, g), r.rx = "ok"
  PROVE  r.n \in Nat /\ \E q \in ParseArrayLike(src, e, w, max, g) : Mirrors(r, q, d.type.n, r.n)
<1>0. EachMirrored(d, e, v, w, g)
  BY ItemsMirrored
<1> DEFINE items(s, c, x) == Items(s.in, c, x, s.value.value, g)
           rounds(s, c, x) == IndefiniteItems(s.in, c, x, max, g)
           other(s) == s.value.type # "array"
           short(s) == InputSize(s.in) \div 1 < s.value.value
           large(s) == s.value.value > max
           of(s, c, x) ==
             IF s.rx = "ok"
             THEN IF other(s) THEN Fail(s.in, "item_type_mismatch", x)
                  ELSE IF s.value.ind THEN rounds(s, c, x)
                  ELSE IF short(s) THEN Fail(s.in, "missing_data", x)
                  ELSE IF large(s) THEN Fail(s.in, "item_value_out_of_range", x)
                  ELSE items(s, c, x)
             ELSE Fail(s.in, s.rx, x)
<1>1. ASSUME NEW c, c.type.kind = "array", NEW x
      PROVE  ParseArrayLike(src, c, x, max, g) = UNION {of(s, c, x) : s \in ParseHead(src)}
  <2> DEFINE into(s, u) == Items(u.in, c, u.value, s.value.value, g)
             all(s) == UNION {IF u.rx = "ok" THEN into(s, u) ELSE {u}
                                : u \in Reserve(s.in, c.type, x, s.value.value)}
  <2>1. /\ (IF c.type.kind = "map" THEN "map" ELSE "array") = "array"
        /\ (IF c.type.kind = "map" THEN 2 ELSE 1) = 1
    BY <1>1
  <2>2. ParseArrayLike(src, c, x, max, g) =
          UNION {IF s.rx = "ok"
                 THEN IF other(s) THEN Fail(s.in, "item_type_mismatch", x)
                      ELSE IF s.value.ind THEN rounds(s, c, x)
                      ELSE IF short(s) THEN Fail(s.in, "missing_data", x)
                      ELSE IF large(s) THEN Fail(s.in, "item_value_out_of_range", x)
                      ELSE all(s)
                 ELSE Fail(s.in, s.rx, x) : s \in ParseHead(src)}
    BY Zenon, <2>1 DEF ParseArrayLike, Try, Then
  <2>3. \A s : all(s) = items(s, c, x)
    <3> SUFFICES ASSUME NEW s PROVE all(s) = items(s, c, x)
      OBVIOUS
    <3> DEFINE u == Result(s.in, "ok", x, 0)
    <3>1. Reserve(s.in, c.type, x, s.value.value) = {u}
      BY <1>1 DEF Reserve, Ok
    <3>2. u.rx = "ok" /\ u.in = s.in /\ u.value = x
      BY ResultFields
    <3> HIDE DEF u, into
    <3>3. all(s) = into(s, u)
      BY <3>1, <3>2
    <3> QED
      BY Zenon, <3>2, <3>3 DEF into
  <2> HIDE DEF other, rounds, short, large, all, items
  <2> QED
    BY Zenon, <2>2, <2>3
<1> HIDE DEF items, rounds, other, short, large
<1>2. PICK s \in ParseHead(src) : r \in of(s, d, v)
  <2> HIDE DEF of
  <2> QED
    BY <1>1
<1>3. s.in \in Inputs /\ s.rx \in Errors /\ (s.rx = "ok" => s.value.value \in Nat)
  BY <1>2, ParseHeadTakes DEF Takes, Stays, Onward
<1>4. \A y : y \in of(s, e, w) => y \in ParseArrayLike(src, e, w, max, g)
  <2>1. e.type.kind = "array"
    BY DEF Twins
  <2> HIDE DEF of
  <2> QED
    BY <1>1, <2>1
<1>5. \A rx, x : r \in Fail(s.in, rx, x) => rx = "ok"
  BY FailIs, ResultFields
<1>6. /\ s.rx = "ok" /\ ~other(s)
      /\ \/ s.value.ind /\ r \in rounds(s, d, v)
         \/ ~s.value.ind /\ ~short(s) /\ ~large(s) /\ r \in items(s, d, v)
  BY <1>2, <1>5
<1>7. CASE s.value.ind /\ r \in rounds(s, d, v)
  <2>1. rounds(s, e, w) \subseteq of(s, e, w)
    BY Zenon, <1>6, <1>7
  <2>2. r.n \in Nat /\ \E q \in rounds(s, e, w) : Mirrors(r, q, d.type.n, r.n)
    BY <1>3, <1>7, IndefiniteMirrored DEF rounds
  <2> HIDE DEF of
  <2> QED
    BY <1>4, <2>1, <2>2
<1>8. CASE ~s.value.ind /\ ~short(s) /\ ~large(s) /\ r \in items(s, d, v)
  <2>1. items(s, e, w) \subseteq of(s, e, w)
    BY Zenon, <1>6, <1>8
  <2> DEFINE n == s.value.value
  <2>2. n \in Nat
    BY <1>3, <1>6
  <2>3. items(s, d, v) = Items(s.in, d, v, n, g) /\ items(s, e, w) = Items(s.in, e, w, n, g)
    BY Zenon DEF items
  <2> HIDE DEF of, n
  <2>4. \E q \in Items(s.in, e, w, n, g) : r.n = n /\ Mirrors(r, q, d.type.n, n)
    <3>1. s.in \in Inputs /\ r \in Items(s.in, d, v, n, g)
      BY <1>3, <1>8, <2>3
    <3> QED
      BY <1>0, <1>6, <2>2, <3>1 DEF EachMirrored
  <2> QED
    BY <1>4, <2>1, <2>2, <2>3, <2>4
<1> QED
  BY <1>6, <1>7, <1>8

LEMMA ArraysRecur ==
  ASSUME NEW src \in Inputs, NEW d, NEW e, NEW g, Twins(d, e, g), d.type.kind = "array",
         Agreeing(d.value, e.value, d.type.n, 0)
  PROVE  Recurs(DecodeArray(src, d, g), DecodeArray(src, e, g))
<1> SUFFICES ASSUME NEW r \in DecodeArray(src, d, g), r.rx = "ok" PROVE r \in DecodeArray(src, e, g)
  BY DEF Recurs
<1> DEFINE m == d.type.n
           S == ParseArrayLike(src, e, e.value, m, g)
           of(x) == IF x.rx = "ok"
                    THEN IF x.n = m THEN {x} ELSE Fail(x.in, "tuple_size_mismatch", x.value)
                    ELSE {x}
<1>1. e.type.n = m /\ m \in Nat
  BY DEF Twins, IsFixed
<1>2. DecodeArray(src, e, g) = UNION {of(x) : x \in S}
  BY Zenon, <1>1 DEF DecodeArray, Then
<1>3. PICK s \in ParseArrayLike(src, d, d.value, m, g) :
        \/ r = s /\ (s.rx = "ok" => s.n = m)
        \/ s.rx = "ok" /\ s.n # m /\ r = Result(s.in, "tuple_size_mismatch", s.value, 0)
  BY DecodeArrayIs
<1>4. r = s /\ s.rx = "ok" /\ s.n = m
  BY <1>3, ResultFields
<1> HIDE DEF of
<1>5. PICK q \in S : Mirrors(s, q, m, s.n)
  BY <1>3, <1>4, ArrayMirrored
<1>6. q = s
  <2>1. Mirrors(s, q, m, m)
    BY Zenon, <1>4, <1>5
  <2> HIDE DEF m
  <2>2. m <= m
    BY <1>1
  <2> QED
    BY <1>1, <2>1, <2>2, MirroredWhole
<1>7. of(s) = {s}
  BY <1>4 DEF of
<1> HIDE DEF S
<1> QED
  BY <1>2, <1>4, <1>5, <1>6, <1>7

LEMMA TuplesRecur ==
  ASSUME NEW src \in Inputs, NEW d, NEW e, NEW g, Twins(d, e, g), Agreeing(d.value, e.value, d.type.n, 0)
  PROVE  Recurs(DecodeTuple(src, d, g), DecodeTuple(src, e, g))
<1> SUFFICES ASSUME NEW r \in DecodeTuple(src, d, g), r.rx = "ok" PROVE r \in DecodeTuple(src, e, g)
  BY DEF Recurs
<1>0. EachMirrored(d, e, d.value, e.value, g)
  BY ItemsMirrored
<1> DEFINE m == d.type.n
           of(s) == IF s.rx = "ok" THEN Items(s.in, e, e.value, m, g) ELSE Fail(s.in, s.rx, e.value)
<1>1. e.type.n = m /\ m \in Nat
  BY DEF Twins, IsFixed
<1>2. DecodeTuple(src, e, g) = UNION {of(s) : s \in ExpectHead(src, "array", m)}
  BY Zenon, <1>1 DEF DecodeTuple, Try
<1>3. PICK s \in ExpectHead(src, "array", m) :
        \/ s.rx # "ok" /\ r = Result(s.in, s.rx, d.value, 0)
        \/ s.rx = "ok" /\ r \in Items(s.in, d, d.value, m, g)
  BY DecodeTupleIs
<1>4. s.rx = "ok" /\ r \in Items(s.in, d, d.value, m, g)
  BY <1>3, ResultFields
<1>5. s.in \in Inputs
  <2>1. Takes(src, s)
    BY <1>3, ExpectHeadTakes
  <2> QED
    BY <2>1 DEF Takes, Stays, Onward
<1> HIDE DEF of
<1>6. PICK q \in Items(s.in, e, e.value, m, g) : Mirrors(r, q, m, m)
  BY <1>0, <1>1, <1>4, <1>5 DEF EachMirrored
<1>7. q = r
  <2> HIDE DEF m
  <2>1. m <= m
    BY <1>1
  <2> QED
    BY <1>1, <1>6, <2>1, MirroredWhole
<1>8. of(s) = Items(s.in, e, e.value, m, g)
  BY <1>4 DEF of
<1> QED
  BY <1>2, <1>3, <1>6, <1>7, <1>8

LEMMA DecodeWithRecurs ==
  ASSUME NEW src \in Inputs, NEW d \in Destinations, NEW e \in Destinations, d.type = e.type, NEW g,
         d.type.kind # "fixedtext",
         d.type.kind \in {"array", "tuple"} => Twins(d, e, g)
  PROVE  Recurs(DecodeWith(src, d, g), DecodeWith(src, e, g))
<1> DEFINE t == d.type
<1>1. IsType(t) /\ t \in Types
  BY DestinationIs
<1>2. \/ t.kind \in IntegerKinds
      \/ t.kind \in {"bool", "float", "blob", "fixedblob", "text", "path", "uuid"}
      \/ t.kind \in {"vector", "set", "map"}
      \/ t.kind \in {"array", "tuple"}
  BY <1>1 DEF IsType
<1>3. CASE t.kind \in {"vector", "set", "map"}
  BY <1>3, ClearedSame DEF Recurs
<1>4. CASE t.kind \in IntegerKinds
  BY <1>4, DecodeByKind, IntegersRecur
<1>5. CASE t.kind = "bool"
  BY <1>5, DecodeByKind, BooleansRecur
<1>6. CASE t.kind = "float"
  BY <1>6, DecodeByKind, FloatsRecur
<1>7. CASE t.kind \in {"blob", "text"}
  <2>1. ~IsSpan(t)
    BY <1>7 DEF IsSpan
  <2> QED
    BY <1>7, <2>1, DecodeByKind, BlobsRecur, ParseBlobRecurs
<1>8. CASE t.kind = "path"
  BY <1>8, DecodeByKind, PathsRecur
<1>9. CASE t.kind = "uuid"
  BY <1>9, DecodeByKind, UuidsRecur
<1>11. t.kind \in {"fixedblob", "array", "tuple"} => Agreeing(d.value, e.value, t.n, 0)
  <2>1. ASSUME t.kind \in {"fixedblob", "array", "tuple"}
        PROVE  /\ d.value = [k \in 1 .. t.n |-> d.value[k]]
               /\ e.value = [k \in 1 .. t.n |-> e.value[k]]
    <3>1. e.type.kind = t.kind /\ e.type.n = t.n
      OBVIOUS
    <3>2. /\ d.type.kind \in {"fixedblob", "array", "tuple"} =>
               d.value = [k \in 1 .. d.type.n |-> d.value[k]]
          /\ e.type.kind \in {"fixedblob", "array", "tuple"} =>
               e.value = [k \in 1 .. e.type.n |-> e.value[k]]
      BY Zenon, DestinationAssumption
    <3> QED
      BY Zenon, <2>1, <3>1, <3>2
  <2>2. t.kind \in {"fixedblob", "array", "tuple"} => t.n \in Nat
    BY <1>1 DEF IsType, IntegerKinds
  <2>3. \A k \in 1 .. t.n : t.n \in Nat /\ k <= 0 => d.value[k] = e.value[k]
    OBVIOUS
  <2> QED
    BY Zenon, <2>1, <2>2, <2>3 DEF Agreeing
<1>12. CASE t.kind = "fixedblob"
  <2>1. IsSpan(t) /\ t.n \in Nat
    BY <1>1, <1>12 DEF IsSpan, IsType, IntegerKinds
  <2> QED
    BY <1>11, <1>12, <2>1, DecodeByKind, FixedBlobsRecur
<1>13. CASE t.kind = "array"
  BY <1>11, <1>13, DecodeByKind, ArraysRecur
<1>14. CASE t.kind = "tuple"
  BY <1>11, <1>14, DecodeByKind, TuplesRecur
<1> QED
  BY <1>2, <1>3, <1>4, <1>5, <1>6, <1>7, <1>8, <1>9, <1>12, <1>13, <1>14

(* Whatever an object held, decode() into it succeeds in the same ways and *)
(* with the same values: nothing of it is left in them, however deep the   *)
(* type nests, and none of it decides anything.  A fixed_u8string is no    *)
(* exception as far as it shows its value; behind it all of its code units *)
(* are left that it held there.                                            *)
THEOREM DecodeRecurs ==
  \A d, e \in Destinations : d.type = e.type =>
    \A src \in Inputs :
      /\ IF d.type.kind = "fixedtext" THEN Resembles(d.type, Decode[d][src], Decode[e][src])
         ELSE Recurs(Decode[d][src], Decode[e][src])
      /\ \A r \in Decode[d][src] : r.rx = "ok" => KeepsRest(d, r.value)
<1> DEFINE lev == [d \in Destinations |-> Level[d.type]]
           T == {d \in Destinations : \A e \in Destinations :
                   d.type = e.type /\ d.type.kind # "fixedtext" =>
                     \A src \in Inputs : Recurs(Decode[d][src], Decode[e][src])}
<1>1. lev \in [Destinations -> Nat] /\ \A d \in Destinations : lev[d] = Level[d.type]
  BY DestinationIs
<1> HIDE DEF lev
<1>2. ASSUME NEW d \in Destinations, \A c \in Destinations : lev[c] < lev[d] => c \in T
      PROVE  d \in T
  <2> SUFFICES ASSUME NEW e \in Destinations, d.type = e.type, d.type.kind # "fixedtext",
                      NEW src \in Inputs
               PROVE  Recurs(Decode[d][src], Decode[e][src])
    OBVIOUS
  <2>1. ASSUME d.type.kind \in {"array", "tuple"} PROVE Twins(d, e, Decode)
    <3>1. d.type.kind \in ContainerKinds
      BY <2>1 DEF ContainerKinds
    <3>2. IsHolder(d) /\ \A c \in Children(d) : c \in Destinations /\ Level[c.type] < Level[d.type]
      BY <3>1, DestinationIs
    <3>3. IsHolder(e) /\ \A c \in Children(e) : c \in Destinations
      BY <3>1, DestinationIs
    <3>4. PartsTake(d, Decode)
      BY <3>2, DecodeTakes DEF PartsTake
    <3>5. ASSUME NEW k \in 1 .. d.type.n, NEW p \in Inputs
          PROVE  Recurs(Decode[Member(d, k)][p], Decode[Member(e, k)][p])
      <4>1. Member(d, k) \in Children(d) /\ Member(e, k) \in Children(e)
        BY <2>1 DEF Children
      <4>2. Member(d, k).type = Member(e, k).type
        BY DEF Member, Object
      <4>3. Member(d, k) \in T /\ Member(d, k).type.kind # "fixedtext"
        BY <1>1, <1>2, <3>1, <3>2, <4>1, ChildrenPlain
      <4> QED
        BY <3>3, <4>1, <4>2, <4>3
    <3>6. PartsRecur(d, e, Decode)
      BY <3>5 DEF PartsRecur
    <3> QED
      BY <2>1, <3>2, <3>4, <3>6 DEF Twins, IsFixed, IsHolder
  <2>2. Recurs(DecodeWith(src, d, Decode), DecodeWith(src, e, Decode))
    BY <2>1, DecodeWithRecurs
  <2> QED
    BY <2>2, DecodeIs
<1> HIDE DEF T
<1>3. \A d \in Destinations : d \in T
  BY <1>1, <1>2, MeasureInduction
<1>4. ASSUME NEW d \in Destinations, NEW e \in Destinations, d.type = e.type,
             d.type.kind = "fixedtext", NEW src \in Inputs
      PROVE  /\ Resembles(d.type, Decode[d][src], Decode[e][src])
             /\ \A r \in Decode[d][src] : r.rx = "ok" => KeepsRest(d, r.value)
  <2> DEFINE t == d.type
  <2>1. t.n \in Nat /\ Decode[d][src] = DecodeFixedText(src, t, d.value)
        /\ Decode[e][src] = DecodeFixedText(src, t, e.value)
    <3>1. \A c \in {d, e} : Decode[c][src] = DecodeFixedText(src, c.type, c.value)
      BY <1>4, DecodeIs, DecodeByKind
    <3> QED
      BY <1>4, <3>1, FixedObject
  <2>2. /\ d.value.units = [k \in 1 .. t.n |-> d.value.units[k]]
        /\ e.value.units = [k \in 1 .. t.n |-> e.value.units[k]]
    BY Zenon, <1>4, FixedObject
  <2>3. Agreeing(d.value.units, e.value.units, t.n, 0)
    <3>1. \A k \in 1 .. t.n : ~(k <= 0)
      BY <2>1
    <3> QED
      BY Zenon, <2>2, <3>1 DEF Agreeing
  <2>4. Resembles(t, DecodeFixedText(src, t, d.value), DecodeFixedText(src, t, e.value))
    BY <1>4, <2>1, <2>3, FixedTextsResemble
  <2>5. ASSUME NEW r \in DecodeFixedText(src, t, d.value), r.rx = "ok" PROVE KeepsRest(d, r.value)
    BY <1>4, <2>1, <2>2, <2>5, FixedTextKeeps DEF KeepsRest
  <2> QED
    BY <2>1, <2>4, <2>5
<1>5. ASSUME NEW d, d.type.kind # "fixedtext", NEW v PROVE KeepsRest(d, v)
  BY <1>5 DEF KeepsRest
<1> QED
  BY <1>3, <1>4, <1>5 DEF T

(* decode() of the next value delivers into one object what it delivers    *)
(* into any other, as far as it is seen.                                   *)
LEMMA DeliveredInto ==
  ASSUME in \in Inputs, NEW d \in Destinations, NEW e \in Destinations, d.type = e.type,
         NEW r \in Delivered(d)
  PROVE  (\E q \in Delivered(e) : Seen(d.type, q) = Seen(d.type, r)) /\ KeepsRest(d, r.value)
<1> DEFINE o == OpenInput(in)
           synced(p) == IF p.rx = "ok" THEN [p EXCEPT !.in = SyncInput(@)] ELSE p
           cleared == d.type.kind \in {"vector", "set", "map"}
<1>1. o \in Inputs
  BY OpenedInput
<1>2. \A c : DecodeFrom(in, c) = {synced(p) : p \in Decode[c][o]}
  BY Zenon DEF DecodeFrom
<1>3. r \in DecodeFrom(in, d) /\ (r.rx = "ok" \/ cleared)
  BY DEF Delivered
<1> HIDE DEF synced
<1>4. PICK p \in Decode[d][o] : r = synced(p)
  BY <1>2, <1>3
<1>5. \A c \in Destinations : \A q \in Decode[c][o] :
        /\ synced(q).in = (IF q.rx = "ok" THEN SyncInput(q.in) ELSE q.in)
        /\ synced(q).rx = q.rx /\ synced(q).value = q.value /\ synced(q).n = q.n
  <2> SUFFICES ASSUME NEW c \in Destinations, NEW q \in Decode[c][o]
               PROVE  /\ synced(q).in = (IF q.rx = "ok" THEN SyncInput(q.in) ELSE q.in)
                      /\ synced(q).rx = q.rx /\ synced(q).value = q.value /\ synced(q).n = q.n
    OBVIOUS
  <2>1. IsResult(q)
    BY <1>1, DecodeTakes DEF Takes, Stays
  <2>2. [q EXCEPT !.in = SyncInput(@)] = Result(SyncInput(q.in), q.rx, q.value, q.n)
    BY <2>1, ResultExcept
  <2>3. synced(q) = IF q.rx = "ok" THEN Result(SyncInput(q.in), q.rx, q.value, q.n) ELSE q
    BY Zenon, <2>2 DEF synced
  <2> QED
    BY <2>3, ResultFields
<1> HIDE DEF o
<1>6. /\ \E q \in Decode[e][o] : q = p \/ (q.rx = "ok" /\ p.rx = "ok" /\ Seen(d.type, q) = Seen(d.type, p))
      /\ KeepsRest(d, p.value)
  <2>1. CASE r.rx = "ok" /\ ~cleared
    <3>1. /\ IF d.type.kind = "fixedtext" THEN Resembles(d.type, Decode[d][o], Decode[e][o])
             ELSE Recurs(Decode[d][o], Decode[e][o])
          /\ p.rx = "ok" => KeepsRest(d, p.value)
      BY <1>1, <1>4, DecodeRecurs
    <3>2. p.rx = "ok"
      BY <1>4, <1>5, <2>1
    <3>3. \A q : Seen(d.type, q) = Seen(d.type, p) => q.rx = p.rx
      BY ResultFields DEF Seen
    <3> QED
      BY <1>4, <3>1, <3>2, <3>3 DEF Recurs, Resembles
  <2>2. CASE cleared
    <3>1. DecodeWith(o, d, Decode) = DecodeWith(o, e, Decode)
      BY <2>2, ClearedSame
    <3>2. KeepsRest(d, p.value)
      BY <2>2 DEF KeepsRest
    <3>3. p \in Decode[e][o]
      BY <1>1, <1>4, <3>1, DecodeIs
    <3> QED
      BY <3>2, <3>3
  <2> QED
    BY <1>3, <2>1, <2>2
<1>7. PICK q \in Decode[e][o] :
        q = p \/ (q.rx = "ok" /\ p.rx = "ok" /\ Seen(d.type, q) = Seen(d.type, p))
  BY <1>6
<1> HIDE DEF cleared
<1>8. synced(q) \in DecodeFrom(in, e) /\ synced(q).rx = r.rx
  BY <1>2, <1>4, <1>5, <1>7
<1>9. Seen(d.type, synced(q)) = Seen(d.type, r)
  <2>1. CASE q = p
    BY <1>4, <2>1
  <2>2. CASE q.rx = "ok" /\ p.rx = "ok" /\ Seen(d.type, q) = Seen(d.type, p)
    <3>1. q.in = p.in /\ Shown(d.type, q.value) = Shown(d.type, p.value) /\ q.n = p.n
      BY <2>2, ResultFields DEF Seen
    <3>2. /\ synced(q).in = SyncInput(q.in) /\ synced(q).rx = "ok"
          /\ synced(q).value = q.value /\ synced(q).n = q.n
          /\ r.in = SyncInput(p.in) /\ r.rx = "ok" /\ r.value = p.value /\ r.n = p.n
      BY <1>4, <1>5, <2>2
    <3> QED
      BY Zenon, <3>1, <3>2 DEF Seen
  <2> QED
    BY <1>7, <2>1, <2>2
<1>10. synced(q) \in Delivered(e)
  BY <1>3, <1>8 DEF Delivered, cleared
<1>11. KeepsRest(d, r.value)
  BY <1>4, <1>5, <1>6
<1> QED
  BY <1>9, <1>10, <1>11

(* Nothing that a destination held before decode() is seen of the value    *)
(* delivered: what may be delivered next is the same for every destination *)
(* of the type, but for the code units a fixed_u8string keeps behind it.   *)
THEOREM NothingStays == Spec => []NothingStale
<1>1. DInv => NothingStale
  <2> SUFFICES ASSUME in \in Inputs, NEW d \in Destinations, NEW e \in Destinations, d.type = e.type
               PROVE  /\ {Seen(d.type, r) : r \in Delivered(d)} = {Seen(e.type, r) : r \in Delivered(e)}
                      /\ \A r \in Delivered(d) : KeepsRest(d, r.value)
    BY DEF NothingStale, DInv, InputRight
  <2>1. \A r \in Delivered(d) :
          (\E q \in Delivered(e) : Seen(d.type, q) = Seen(d.type, r)) /\ KeepsRest(d, r.value)
    BY DeliveredInto
  <2>2. \A r \in Delivered(e) : \E q \in Delivered(d) : Seen(e.type, q) = Seen(e.type, r)
    BY DeliveredInto
  <2> QED
    BY <2>1, <2>2
<1> QED
  BY <1>1, SessionStays, PTL

-----------------------------------------------------------------------------
(* What a failure leaves.  No head, scalar or string has keys, so that     *)
(* "duplicate_key" comes of none of them.                                  *)
Unkeyed(r) == IsResult(r) /\ r.rx # "duplicate_key"

LEMMA UnkeyedOf ==
  ASSUME NEW src, NEW rx, rx # "duplicate_key", NEW v, NEW n
  PROVE  Unkeyed(Result(src, rx, v, n))
BY ResultFields DEF Unkeyed

LEMMA ReadsUnkeyed ==
  ASSUME NEW src, NEW n, NEW r, r \in RequireInput(src, n) \/ r \in BulkRead(src, n)
  PROVE  Unkeyed(r)
<1>1. \E p, v : r \in Ok(p, v) \/ r \in Fail(p, "end_of_stream", v) \/ r \in Fail(p, "bad", v)
  <2>1. CASE r \in RequireInput(src, n)
    BY Zenon, <2>1 DEF RequireInput
  <2>2. CASE r \in BulkRead(src, n)
    <3>1. ASSUME r \in DoBulkRead(src, n)
          PROVE  \E p, v : r \in Ok(p, v) \/ r \in Fail(p, "bad", v)
      BY Zenon, <3>1 DEF DoBulkRead
    <3>2. \/ r \in Ok(src, <<>>) \/ r \in Ok(DiscardBuffered(src, n), Buffered(src, n))
          \/ r \in Fail(src, "end_of_stream", <<>>)
          \/ r \in DoBulkRead(src, n)
      BY Zenon, <2>2 DEF BulkRead
    <3> QED
      BY Zenon, <3>1, <3>2
  <2> QED
    BY <2>1, <2>2
<1> QED
  BY <1>1, OkIs, FailIs, UnkeyedOf

LEMMA HeadsUnkeyed ==
  ASSUME NEW src, NEW r \in ParseHead(src)
  PROVE  Unkeyed(r)
<1>1. ASSUME NEW p, NEW v, NEW q \in TakeHead(p, v) PROVE Unkeyed(q)
  <2>1. \/ q \in Fail(p, "invalid_additional_information", <<>>)
        \/ \E x, y : q \in Ok(x, y)
    BY Zenon DEF TakeHead
  <2> QED
    BY <2>1, OkIs, FailIs, UnkeyedOf
<1>2. ASSUME NEW p, NEW q \in ParseBufferedHead(p) PROVE Unkeyed(q)
  <2> DEFINE byte == p.bytes[p.at + 1]
             of(s) == IF s.rx = "ok" THEN TakeHead(s.in, SlowValue(Buffered(s.in, LengthOf(byte)))) ELSE {s}
             slow == UNION {of(s) : s \in RequireInput(p, LengthOf(byte))}
  <2>a. ParseBufferedHead(p) =
          IF ~WellFormedInfo(byte) THEN Fail(p, "invalid_additional_information", <<>>)
          ELSE IF p.window >= VarUintMax THEN TakeHead(p, FastValue(Buffered(p, VarUintMax)))
          ELSE slow
    BY Zenon DEF ParseBufferedHead, Then
  <2>b. ASSUME q \in slow
        PROVE  \E s \in RequireInput(p, LengthOf(byte)) : q = s \/ \E v : q \in TakeHead(s.in, v)
    <3>1. PICK s \in RequireInput(p, LengthOf(byte)) : q \in of(s)
      BY Zenon, <2>b
    <3> QED
      BY Zenon, <3>1
  <2> HIDE DEF slow
  <2>1. \/ q \in Fail(p, "invalid_additional_information", <<>>)
        \/ \E v : q \in TakeHead(p, v)
        \/ \E n : \E s \in RequireInput(p, n) : q = s \/ \E v : q \in TakeHead(s.in, v)
    BY Zenon, <2>a, <2>b
  <2> QED
    BY <1>1, <2>1, FailIs, UnkeyedOf, ReadsUnkeyed
<1>3. \E s : \/ s \in RequireInput(src, 1) /\ r = s
             \/ s \in Ok(src, <<>>) /\ r = s
             \/ r \in ParseBufferedHead(s.in)
  BY Zenon DEF ParseHead, Then
<1> QED
  BY <1>2, <1>3, OkIs, UnkeyedOf, ReadsUnkeyed

LEMMA ScalarsUnkeyed ==
  ASSUME NEW src, NEW t, NEW dest, NEW r,
         \/ r \in ParseInteger(src, t, dest) \/ r \in ParseFloat(src, t, dest)
         \/ r \in ParseBoolean(src, dest) \/ r \in DecodeUuid(src, t, dest)
  PROVE  Unkeyed(r) /\ (r.rx # "ok" => r.value = dest)
<1>1. ASSUME NEW p, NEW rx, rx # "duplicate_key", NEW v, rx = "ok" \/ v = dest, NEW n, r = Result(p, rx, v, n)
      PROVE  Unkeyed(r) /\ (r.rx # "ok" => r.value = dest)
  BY <1>1, UnkeyedOf, ResultFields
<1>2. \A s \in ParseHead(src) : s.rx # "duplicate_key"
  BY HeadsUnkeyed DEF Unkeyed
<1>3. CASE r \in ParseInteger(src, t, dest)
  BY <1>1, <1>2, <1>3, ParseIntegerIs
<1>4. CASE r \in ParseFloat(src, t, dest)
  BY <1>1, <1>2, <1>4, ParseFloatIs
<1>5. CASE r \in ParseBoolean(src, dest)
  <2>1. PICK s \in IF src.window = 0 THEN RequireInput(src, 1) ELSE Ok(src, <<>>) :
           \/ s.rx # "ok" /\ r = Result(s.in, s.rx, dest, 0)
           \/ /\ s.rx = "ok" /\ s.in.bytes[s.in.at + 1] \notin {False, True}
              /\ r = Result(s.in, "item_type_mismatch", dest, 0)
           \/ /\ s.rx = "ok"
              /\ r = Result(DiscardBuffered(s.in, 1), "ok", s.in.bytes[s.in.at + 1] = True, 0)
    BY <1>5, ParseBooleanIs
  <2>2. s.rx # "duplicate_key"
    <3>1. s \in RequireInput(src, 1) \/ s \in Ok(src, <<>>)
      BY <2>1
    <3> QED
      BY <3>1, ReadsUnkeyed, OkIs, UnkeyedOf DEF Unkeyed
  <2>3. \/ r = Result(s.in, s.rx, dest, 0)
        \/ r = Result(s.in, "item_type_mismatch", dest, 0)
        \/ \E p, v : r = Result(p, "ok", v, 0)
    BY Zenon, <2>1
  <2> QED
    BY <1>1, <2>2, <2>3
<1>6. CASE r \in DecodeUuid(src, t, dest)
  <2>1. PICK s \in ExpectHead(src, "binary", t.n) :
           \/ s.rx # "ok" /\ r = Result(s.in, s.rx, dest, 0)
           \/ /\ s.rx = "ok"
              /\ \E b \in BulkRead(s.in, t.n) : \/ b.rx # "ok" /\ r = Result(b.in, b.rx, dest, 0)
                                                \/ b.rx = "ok" /\ r = b
    BY <1>6, DecodeUuidIs
  <2>2. s.rx # "duplicate_key"
    BY <1>2, <2>1, ExpectHeadIs, ResultFields
  <2>3. CASE r = Result(s.in, s.rx, dest, 0)
    BY <1>1, <2>2, <2>3
  <2>4. ASSUME NEW b \in BulkRead(s.in, t.n),
               (b.rx # "ok" /\ r = Result(b.in, b.rx, dest, 0)) \/ (b.rx = "ok" /\ r = b)
        PROVE  Unkeyed(r) /\ (r.rx # "ok" => r.value = dest)
    <3>1. Unkeyed(b)
      BY <2>4, ReadsUnkeyed
    <3> QED
      BY <1>1, <2>4, <3>1 DEF Unkeyed
  <2> QED
    BY <2>1, <2>3, <2>4
<1> QED
  BY <1>3, <1>4, <1>5, <1>6

LEMMA ResizesUnkeyed ==
  ASSUME NEW src, NEW t, NEW dest, NEW n, NEW r \in Resize(src, t, dest, n)
  PROVE  Unkeyed(r)
BY ResizeIs, UnkeyedOf

LEMMA IntoUnkeyed ==
  ASSUME NEW src, NEW dest, NEW at, NEW n, NEW r \in ReadInto(src, dest, at, n)
  PROVE  Unkeyed(r)
<1>1. PICK b \in BulkRead(src, n) : r = [b EXCEPT !.value = Overwrite(dest, at, b.value)]
  BY Zenon DEF ReadInto
<1>2. IsResult(b) /\ b.rx # "duplicate_key"
  BY <1>1, ReadsUnkeyed DEF Unkeyed
<1>3. r = Result(b.in, b.rx, Overwrite(dest, at, b.value), b.n)
  BY Zenon, <1>1, <1>2, ResultExcept
<1> QED
  BY <1>2, <1>3, UnkeyedOf

LEMMA ChunksUnkeyed ==
  ASSUME NEW src \in Inputs, NEW t, NEW dest, NEW r \in BlobChunks(src, t, dest)
  PROVE  Unkeyed(r)
<1>1. PICK f : /\ BlobChunks(src, t, dest) = f[Rounds(src)]
               /\ ChunksRun(src, t, dest, Rounds(src), f)
  BY BlobChunksIs
<1>2. Rounds(src) \in Nat
  BY InputIs DEF Rounds
<1>3. ASSUME NEW p, NEW q \in NextChunk(p, t) PROVE Unkeyed(q)
  <2>1. \A s \in ParseHead(p.in) : s.rx # "duplicate_key"
    BY HeadsUnkeyed DEF Unkeyed
  <2>2. \/ \E x, rx, v, n : rx # "duplicate_key" /\ q = Result(x, rx, v, n)
        \/ \E x, v, n : q \in Resize(x, t, v, n)
        \/ \E x, v, at, n : q \in ReadInto(x, v, at, n)
    <3>1. PICK s \in ParseHead(p.in) :
           LET h == s.value  newSize == p.n + h.value IN
           \/ s.rx # "ok" /\ q = Result(s.in, s.rx, p.value, 0)
           \/ s.rx = "ok" /\ h.type = "special" /\ q = Result(s.in, "ok", p.value, p.n)
           \/ s.rx = "ok" /\ \E rx \in {"invalid_indefinite_subitem", "missing_data",
                                        "string_exceeds_size_limit"} : q = Result(s.in, rx, p.value, 0)
           \/ /\ s.rx = "ok" /\ ~MissingData(s.in, h.value)
              /\ \E u \in Resize(s.in, t, p.value, newSize) :
                   \/ u.rx # "ok" /\ q = u
                   \/ /\ u.rx = "ok"
                      /\ \E b \in ReadInto(u.in, u.value, p.n, h.value) :
                           \/ b.rx # "ok" /\ q = b
                           \/ b.rx = "ok" /\ q = Result(b.in, "more", b.value, newSize)
      BY <1>3, NextChunkIs
    <3>2. "more" # "duplicate_key" /\ "ok" # "duplicate_key"
          /\ \A rx \in {"invalid_indefinite_subitem", "missing_data", "string_exceeds_size_limit"} :
               rx # "duplicate_key"
      OBVIOUS
    <3> QED
      BY Zenon, <2>1, <3>1, <3>2
  <2> QED
    BY <2>2, UnkeyedOf, ResizesUnkeyed, IntoUnkeyed
<1> DEFINE T == {k \in Nat : k <= Rounds(src) => \A q \in f[k] : Unkeyed(q)}
<1>4. 0 \in T
  BY <1>1, UnkeyedOf DEF ChunksRun
<1>5. ASSUME NEW k \in Nat, k \in T PROVE k + 1 \in T
  <2> SUFFICES ASSUME k + 1 <= Rounds(src), NEW q \in f[k + 1] PROVE Unkeyed(q)
    OBVIOUS
  <2>1. k + 1 \in 1 .. Rounds(src) /\ (k + 1) - 1 = k /\ k <= Rounds(src)
    BY <1>2
  <2>2. PICK s \in f[k] : q \in NextChunk(s, t) \/ q = s
    BY <1>1, <2>1 DEF ChunksRun
  <2> QED
    BY <1>3, <1>5, <2>1, <2>2
<1> HIDE DEF T
<1>6. \A k \in Nat : k \in T
  BY <1>4, <1>5, NumberInduction
<1> QED
  BY <1>1, <1>2, <1>6 DEF T

LEMMA BlobsUnkeyed ==
  ASSUME NEW src \in Inputs, NEW t, NEW dest, NEW r \in ParseBlob(src, t, dest)
  PROVE  Unkeyed(r)
<1> DEFINE n(s) == s.value.value
<1>1. PICK s \in ParseHead(src) :
        \/ s.rx # "ok" /\ r = Result(s.in, s.rx, dest, 0)
        \/ \E rx \in {"item_type_mismatch", "indefinite_item", "missing_data",
                      "string_exceeds_size_limit"} : r = Result(s.in, rx, dest, 0)
        \/ \E u \in Resize(s.in, t, dest, 0) :
             \/ u.rx # "ok" /\ r = u
             \/ u.rx = "ok" /\ r \in BlobChunks(u.in, t, u.value)
        \/ \E u \in Resize(s.in, t, dest, n(s)) :
             \/ u.rx # "ok" /\ r = u
             \/ /\ u.rx = "ok"
                /\ \E b \in ReadInto(u.in, u.value, 0, n(s)) :
                     \/ b.rx # "ok" /\ r = b
                     \/ b.rx = "ok" /\ r = Result(b.in, "ok", b.value, n(s))
  BY ParseBlobIs
<1> HIDE DEF n
<1>2. s.rx # "duplicate_key" /\ s.in \in Inputs
  BY <1>1, HeadsUnkeyed, ParseHeadTakes DEF Unkeyed, Takes, Stays, Onward
<1>3. CASE \/ r = Result(s.in, s.rx, dest, 0)
           \/ \E rx \in {"item_type_mismatch", "indefinite_item", "missing_data",
                         "string_exceeds_size_limit"} : r = Result(s.in, rx, dest, 0)
  BY <1>2, <1>3, UnkeyedOf
<1>4. ASSUME NEW u \in Resize(s.in, t, dest, 0),
             r = u \/ r \in BlobChunks(u.in, t, u.value)
      PROVE  Unkeyed(r)
  <2>1. u.in \in Inputs
    BY <1>2, <1>4, ResizeStays DEF Stays, Onward
  <2> QED
    BY <1>4, <2>1, ResizesUnkeyed, ChunksUnkeyed
<1>5. ASSUME NEW u \in Resize(s.in, t, dest, n(s)),
             \/ r = u
             \/ \E b \in ReadInto(u.in, u.value, 0, n(s)) :
                  r = b \/ r = Result(b.in, "ok", b.value, n(s))
      PROVE  Unkeyed(r)
  BY <1>5, ResizesUnkeyed, IntoUnkeyed, UnkeyedOf
<1> QED
  BY <1>1, <1>3, <1>4, <1>5

(* What LeftBehind says of a destination of type t that held v             *)
Leaves(t, v, r) ==
  r.rx # "ok" =>
    /\ t.kind \in IntegerKinds \union {"bool", "float", "uuid", "path"} => r.value = v
    /\ t.kind = "blob" => r.value = <<>>
    /\ t.kind = "fixedtext" => r.value.size = 0
    /\ t.kind = "fixedblob" => r.value = Default[t]
    /\ t.kind = "set" /\ r.rx = "duplicate_key" /\ FlatParts(t) => r.value = {}
    /\ t.kind = "map" /\ r.rx = "duplicate_key" /\ FlatParts(t) => r.value = <<>>

LEMMA PlainLeaves ==
  ASSUME NEW src \in Inputs, NEW d, IsType(d.type), d.type.kind \notin ContainerKinds, NEW g,
         NEW r \in DecodeWith(src, d, g)
  PROVE  Unkeyed(r) /\ Leaves(d.type, d.value, r)
<1> DEFINE t == d.type
           v == d.value
<1>1. t.kind \in IntegerKinds \union
        {"bool", "float", "blob", "fixedblob", "uuid", "text", "path", "fixedtext"}
  BY DEF IsType, ContainerKinds
<1>2. \A k \in IntegerKinds : k \notin {"bool", "float", "blob", "fixedblob", "uuid", "text", "path",
                                        "fixedtext", "set", "map"}
  BY DEF IntegerKinds
<1> HIDE DEF t, v
<1>3. CASE t.kind \in IntegerKinds \union {"bool", "float", "uuid"}
  <2>1. \/ r \in ParseInteger(src, t, v) \/ r \in ParseFloat(src, t, v)
        \/ r \in ParseBoolean(src, v) \/ r \in DecodeUuid(src, t, v)
    BY <1>3, DecodeByKind DEF t, v
  <2>2. Unkeyed(r) /\ (r.rx # "ok" => r.value = v)
    BY <2>1, ScalarsUnkeyed
  <2> QED
    BY <1>2, <1>3, <2>2 DEF Leaves, t, v
<1>4. ASSUME NEW w, NEW s \in ParseBlob(src, t, w) PROVE s.rx # "duplicate_key" /\ Unkeyed(s)
  BY <1>4, BlobsUnkeyed DEF Unkeyed
<1>5. CASE t.kind = "blob"
  <2>1. PICK s \in ParseBlob(src, t, v) : \/ s.rx = "ok" /\ r = s
                                          \/ s.rx # "ok" /\ r = Result(s.in, s.rx, <<>>, s.n)
    BY <1>5, DecodeByKind, DecodeBlobIs DEF t, v
  <2>2. Unkeyed(r) /\ (r.rx # "ok" => r.value = <<>>)
    BY <1>4, <2>1, UnkeyedOf, ResultFields
  <2> QED
    BY <1>2, <1>5, <2>2 DEF Leaves, t
<1>6. CASE t.kind = "fixedtext"
  <2>1. PICK s \in ParseBlob(src, t, v.units) : r = Result(s.in, s.rx, UnitsRead(s), s.n)
    BY <1>6, DecodeByKind, DecodeFixedTextIs DEF t, v
  <2>2. s.rx # "ok" => UnitsRead(s).size = 0
    BY DEF UnitsRead
  <2>3. Unkeyed(r) /\ (r.rx # "ok" => r.value.size = 0)
    BY <1>4, <2>1, <2>2, UnkeyedOf, ResultFields
  <2> QED
    BY <1>2, <1>6, <2>3 DEF Leaves, t
<1>7. CASE t.kind = "fixedblob"
  <2>1. PICK s \in ParseBlob(src, t, v) :
           \/ s.rx # "ok" /\ r = Result(s.in, s.rx, Default[t], s.n)
           \/ s.rx = "ok" /\ s.n # t.n /\ r = Result(s.in, "tuple_size_mismatch", Default[t], s.n)
           \/ s.rx = "ok" /\ s.n = t.n /\ r = s
    BY <1>7, DecodeByKind, DecodeFixedBlobIs DEF t, v
  <2>2. Unkeyed(r) /\ (r.rx # "ok" => r.value = Default[t])
    BY <1>4, <2>1, UnkeyedOf, ResultFields
  <2> QED
    BY <1>2, <1>7, <2>2 DEF Leaves, t
<1>8. CASE t.kind = "text"
  <2>1. r \in ParseBlob(src, t, v)
    BY <1>8, DecodeByKind DEF t, v
  <2> QED
    BY <1>2, <1>4, <1>8, <2>1 DEF Leaves, t
<1>9. CASE t.kind = "path"
  <2>1. PICK s \in ParseBlob(src, t, <<>>) :
           \/ s.rx # "ok" /\ r = Result(s.in, s.rx, v, 0)
           \/ s.rx = "ok" /\ r = s
           \/ s.rx = "ok" /\ r = Result(s.in, "not_enough_memory", v, 0)
    BY <1>9, DecodeByKind, DecodePathIs DEF t, v
  <2>2. Unkeyed(r) /\ (r.rx # "ok" => r.value = v)
    BY <1>4, <2>1, UnkeyedOf, ResultFields
  <2> QED
    BY <1>2, <1>9, <2>2 DEF Leaves, t, v
<1> QED
  BY <1>1, <1>3, <1>5, <1>6, <1>7, <1>8, <1>9

(* The empty set or map, and a result that empties it over a second key    *)
Nothing(d) == IF d.type.kind = "set" THEN {} ELSE <<>>

Empties(d, r) == r.rx = "duplicate_key" => r.value = Nothing(d)

(* The components' decoders never report a second key.                     *)
PartsPlain(d, g) ==
  \A c \in Children(d) : \A src \in Inputs : \A r \in g[c][src] : r.rx # "duplicate_key"

LEMMA KeyItemEmpties ==
  ASSUME NEW src \in Inputs, NEW d, IsHolder(d), d.type.kind \in {"set", "map"}, NEW g,
         PartsTake(d, g), PartsPlain(d, g), NEW dest, NEW i, NEW r \in DecodeItem(src, d, dest, i, g)
  PROVE  Empties(d, r)
<1> DEFINE first == Fresh(d.type.of[1])
           second == Fresh(d.type.of[2])
<1>1. first \in Children(d) /\ (d.type.kind = "map" => second \in Children(d))
  BY DEF IsHolder, Children
<1> HIDE DEF first, second
<1>2. CASE d.type.kind = "set"
  <2>1. r \in DecodeKey(src, d.type, dest, g)
    BY <1>2 DEF DecodeItem
  <2>2. PICK k \in g[first][src] : KeyDecoded(k, dest, r)
    BY <2>1, DecodeKeyIs DEF first
  <2>3. k.rx # "duplicate_key"
    BY <1>1, <2>2 DEF PartsPlain
  <2> QED
    BY <1>2, <2>2, <2>3, ResultFields DEF KeyDecoded, Empties, Nothing
<1>3. CASE d.type.kind = "map"
  <2>1. r \in DecodePair(src, d.type, dest, g)
    BY <1>3 DEF DecodeItem
  <2>2. PICK k \in g[first][src] :
           \/ k.rx # "ok" /\ r = Result(k.in, k.rx, dest, 0)
           \/ /\ k.rx = "ok"
              /\ \E m \in g[second][k.in] :
                   \/ m.rx # "ok" /\ r = Result(m.in, m.rx, dest, 0)
                   \/ m.rx = "ok" /\ k.value \in DOMAIN dest /\ r = Result(m.in, "duplicate_key", <<>>, 0)
                   \/ m.rx = "ok" /\ r = Result(m.in, "ok", WithEntry(dest, k.value, m.value), 0)
                   \/ m.rx = "ok" /\ r = Result(m.in, "not_enough_memory", dest, 0)
    BY <2>1, DecodePairIs DEF first, second
  <2>3. k.rx # "duplicate_key" /\ k.in \in Inputs
    BY <1>1, <2>2 DEF PartsPlain, PartsTake, Takes, Stays, Onward
  <2>4. \A m \in g[second][k.in] : m.rx # "duplicate_key"
    BY <1>1, <1>3, <2>3 DEF PartsPlain
  <2>5. \/ \E rx, v : rx # "duplicate_key" /\ \E p : r = Result(p, rx, v, 0)
        \/ \E p : r = Result(p, "duplicate_key", <<>>, 0)
    <3>1. "ok" # "duplicate_key" /\ "not_enough_memory" # "duplicate_key"
      OBVIOUS
    <3> QED
      BY Zenon, <2>2, <2>3, <2>4, <3>1
  <2> QED
    BY <1>3, <2>5, ResultFields DEF Empties, Nothing
<1> QED
  BY <1>2, <1>3

LEMMA ItemsEmpty ==
  ASSUME NEW src \in Inputs, NEW d, IsHolder(d), d.type.kind \in {"set", "map"}, NEW g,
         PartsTake(d, g), PartsPlain(d, g), NEW dest, NEW n \in Nat, NEW r \in Items(src, d, dest, n, g)
  PROVE  Empties(d, r)
<1>1. PICK f : /\ Items(src, d, dest, n, g) = {[q EXCEPT !.n = n] : q \in f[n]}
               /\ ItemsRun(src, d, dest, n, g, f)
  BY ItemsIs
<1>2. \A k \in Nat : k <= n => \A q \in f[k] : Stays(src, q)
  BY <1>1, ItemsRounds
<1> DEFINE T == {k \in Nat : k <= n => \A q \in f[k] : Empties(d, q)}
<1>3. 0 \in T
  BY <1>1, ResultFields DEF ItemsRun, Empties
<1>4. ASSUME NEW k \in Nat, k \in T PROVE k + 1 \in T
  <2> SUFFICES ASSUME k + 1 <= n, NEW q \in f[k + 1] PROVE Empties(d, q)
    OBVIOUS
  <2>1. k + 1 \in 1 .. n /\ (k + 1) - 1 = k /\ k <= n
    OBVIOUS
  <2>2. PICK s \in f[k] : q \in DecodeItem(s.in, d, s.value, k, g) \/ q = s
    BY <1>1, <2>1 DEF ItemsRun
  <2>3. s.in \in Inputs
    BY <1>2, <2>1, <2>2 DEF Stays, Onward
  <2>4. CASE q \in DecodeItem(s.in, d, s.value, k, g)
    BY <2>3, <2>4, KeyItemEmpties
  <2>5. CASE q = s
    BY <1>4, <2>1, <2>2, <2>5
  <2> QED
    BY <2>2, <2>4, <2>5
<1> HIDE DEF T
<1>5. \A k \in Nat : k \in T
  BY <1>3, <1>4, NumberInduction
<1>6. PICK q \in f[n] : r = [q EXCEPT !.n = n]
  BY <1>1
<1>7. Empties(d, q) /\ IsResult(q)
  BY <1>2, <1>5, <1>6 DEF T, Stays
<1>8. r = Result(q.in, q.rx, q.value, n)
  BY Zenon, <1>6, <1>7, ResultExcept
<1> QED
  BY <1>7, <1>8, ResultFields DEF Empties

LEMMA IndefiniteEmpties ==
  ASSUME NEW src \in Inputs, NEW d, IsHolder(d), d.type.kind \in {"set", "map"}, NEW g,
         PartsTake(d, g), PartsPlain(d, g), NEW dest, NEW max,
         NEW r \in IndefiniteItems(src, d, dest, max, g)
  PROVE  Empties(d, r)
<1>1. PICK f : /\ IndefiniteItems(src, d, dest, max, g) = f[Rounds(src)]
               /\ IndefiniteRun(src, d, dest, max, g, Rounds(src), f)
  BY IndefiniteIs
<1>2. Rounds(src) \in Nat
  BY InputIs DEF Rounds
<1>3. \A k \in Nat : k <= Rounds(src) => \A q \in f[k] : ItemRound(src, k, q)
  BY <1>1, IndefiniteRounds
<1>4. ASSUME NEW p, p.in \in Inputs, NEW q \in NextItem(p, d, max, g) PROVE Empties(d, q)
  <2>1. PICK s \in RequireInput(p.in, 1) : ItemRoundFrom(p, d, max, g, s, q)
    BY <1>4, NextItemIs
  <2>2. s.rx # "duplicate_key" /\ s.in \in Inputs
    BY <1>4, <2>1, ReadsUnkeyed, RequireStays DEF Unkeyed, Stays, Onward
  <2>3. \A e \in DecodeItem(s.in, d, p.value, p.n, g) : Empties(d, e)
    BY <2>2, KeyItemEmpties
  <2>4. \/ \E rx, v : rx # "duplicate_key" /\ \E x, n : q = Result(x, rx, v, n)
        \/ \E e \in DecodeItem(s.in, d, p.value, p.n, g) : q = e
    <3>1. "ok" # "duplicate_key" /\ "more" # "duplicate_key" /\ "item_value_out_of_range" # "duplicate_key"
      OBVIOUS
    <3> QED
      BY Zenon, <2>1, <2>2, <3>1 DEF ItemRoundFrom
  <2> QED
    BY <2>3, <2>4, ResultFields DEF Empties
<1> DEFINE T == {k \in Nat : k <= Rounds(src) => \A q \in f[k] : Empties(d, q)}
<1>5. 0 \in T
  BY <1>1, ResultFields DEF IndefiniteRun, Empties
<1>6. ASSUME NEW k \in Nat, k \in T PROVE k + 1 \in T
  <2> SUFFICES ASSUME k + 1 <= Rounds(src), NEW q \in f[k + 1] PROVE Empties(d, q)
    OBVIOUS
  <2>1. k + 1 \in 1 .. Rounds(src) /\ (k + 1) - 1 = k /\ k <= Rounds(src)
    BY <1>2
  <2>2. PICK s \in f[k] : q \in NextItem(s, d, max, g) \/ q = s
    BY <1>1, <2>1 DEF IndefiniteRun
  <2>3. s.in \in Inputs
    BY <1>3, <2>1, <2>2 DEF ItemRound, Onward
  <2> QED
    BY <1>4, <1>6, <2>1, <2>2, <2>3
<1> HIDE DEF T
<1>7. \A k \in Nat : k \in T
  BY <1>5, <1>6, NumberInduction
<1> QED
  BY <1>1, <1>2, <1>7 DEF T

LEMMA KeyedEmpties ==
  ASSUME NEW src \in Inputs, NEW d, IsHolder(d), d.type.kind \in {"set", "map"}, NEW g,
         PartsTake(d, g), PartsPlain(d, g), NEW dest, NEW max,
         NEW r \in ParseArrayLike(src, d, dest, max, g)
  PROVE  Empties(d, r)
<1>1. PICK s \in ParseHead(src) : ArrayParsed(d, dest, max, g, s, r)
  BY ParseArrayLikeIs
<1>2. /\ s.rx # "duplicate_key" /\ s.in \in Inputs /\ Takes(src, s)
      /\ s.rx = "ok" => s.value.value \in Nat
  BY <1>1, HeadsUnkeyed, ParseHeadTakes DEF Unkeyed, Takes, Stays, Onward
<1> DEFINE n == s.value.value
<1>3. \/ \E rx, v : rx # "duplicate_key" /\ \E p : r = Result(p, rx, v, 0)
      \/ r \in IndefiniteItems(s.in, d, dest, max, g)
      \/ /\ s.rx = "ok" /\ ~(InputSize(s.in) \div PerItem(d) < n)
         /\ \E u \in Reserve(s.in, d.type, dest, n) :
              \/ u.rx # "ok" /\ r = u
              \/ u.rx = "ok" /\ r \in Items(u.in, d, u.value, n, g)
  <2>1. /\ "item_type_mismatch" # "duplicate_key" /\ "missing_data" # "duplicate_key"
        /\ "item_value_out_of_range" # "duplicate_key"
    OBVIOUS
  <2> QED
    BY Zenon, <1>1, <1>2, <2>1 DEF ArrayParsed
<1>4. CASE \E rx, v : rx # "duplicate_key" /\ \E p : r = Result(p, rx, v, 0)
  BY <1>4, ResultFields DEF Empties
<1>5. CASE r \in IndefiniteItems(s.in, d, dest, max, g)
  BY <1>2, <1>5, IndefiniteEmpties
<1>6. ASSUME s.rx = "ok", ~(InputSize(s.in) \div PerItem(d) < n), NEW u \in Reserve(s.in, d.type, dest, n),
             \/ u.rx # "ok" /\ r = u
             \/ u.rx = "ok" /\ r \in Items(u.in, d, u.value, n, g)
      PROVE  Empties(d, r)
  <2>1. n \in Nat
    BY <1>2, <1>6
  <2> HIDE DEF n
  <2>2. CASE u.rx # "ok" /\ r = u
    BY <2>2, <1>6, ReserveIs, ResultFields DEF Empties
  <2>3. CASE u.rx = "ok" /\ r \in Items(u.in, d, u.value, n, g)
    <3>1. n < Len(s.in.bytes)
      BY <1>2, <1>6, <2>1, LengthBacked DEF n
    <3>2. u.in \in Inputs
      BY <1>2, <1>6, <2>1, <3>1, ReserveStays DEF Stays, Onward
    <3> QED
      BY <2>1, <2>3, <3>2, ItemsEmpty
  <2> QED
    BY <1>6, <2>2, <2>3
<1> QED
  BY <1>3, <1>4, <1>5, <1>6

(* Of whatever type an object is, a failed decode() leaves what it should, *)
(* wherever it failed: scalars as they were, no part of a blob, and no     *)
(* element of a set or map of flat parts to which a key came twice.        *)
THEOREM DecodeLeaves ==
  \A d \in Destinations : \A src \in Inputs : \A r \in Decode[d][src] : Leaves(d.type, d.value, r)
<1> SUFFICES ASSUME NEW d \in Destinations, NEW src \in Inputs, NEW r \in Decode[d][src]
             PROVE  Leaves(d.type, d.value, r)
  OBVIOUS
<1> DEFINE t == d.type
<1>1. IsType(t) /\ r \in DecodeWith(src, d, Decode)
  BY DestinationIs, DecodeIs
<1>2. CASE t.kind \notin ContainerKinds
  BY <1>1, <1>2, PlainLeaves
<1>3. CASE t.kind \in ContainerKinds /\ ~(t.kind \in {"set", "map"} /\ FlatParts(t))
  <2>1. t.kind \notin IntegerKinds \union {"bool", "float", "uuid", "path", "blob", "fixedtext", "fixedblob"}
    BY <1>3 DEF ContainerKinds, IntegerKinds
  <2> QED
    BY <1>3, <2>1 DEF Leaves
<1>4. CASE t.kind \in {"set", "map"} /\ FlatParts(t)
  <2>1. IsHolder(d) /\ \A c \in Children(d) : c \in Destinations
    BY <1>4, DestinationIs DEF ContainerKinds
  <2>2. PartsTake(d, Decode)
    BY <2>1, DecodeTakes DEF PartsTake
  <2>3. PartsPlain(d, Decode)
    <3> SUFFICES ASSUME NEW c \in Children(d), NEW p \in Inputs, NEW q \in Decode[c][p]
                 PROVE  q.rx # "duplicate_key"
      BY DEF PartsPlain
    <3>1. c.type.kind \notin ContainerKinds
      <4>1. PICK k \in DOMAIN t.of : c = Fresh(t.of[k])
        BY <1>4 DEF Children
      <4>2. c.type = t.of[k]
        BY <4>1 DEF Fresh, Object
      <4> QED
        BY <1>4, <4>1, <4>2 DEF FlatParts
    <3>2. IsType(c.type) /\ q \in DecodeWith(p, c, Decode)
      BY <2>1, DestinationIs, DecodeIs
    <3> QED
      BY <3>1, <3>2, PlainLeaves DEF Unkeyed
  <2>4. r \in ParseArrayLike(src, d, Nothing(d), Huge, Decode)
    BY <1>1, <1>4, DecodeByKind DEF Nothing
  <2>5. Empties(d, r)
    BY <1>4, <2>1, <2>2, <2>3, <2>4, KeyedEmpties
  <2>6. t.kind \notin IntegerKinds \union {"bool", "float", "uuid", "path", "blob", "fixedtext", "fixedblob"}
    BY <1>4 DEF IntegerKinds
  <2> QED
    BY <1>4, <2>5, <2>6 DEF Leaves, Empties, Nothing
<1> QED
  BY <1>2, <1>3, <1>4

LEMMA DecodeFromLeaves ==
  ASSUME NEW src \in Inputs, NEW d \in Destinations, NEW r \in DecodeFrom(src, d), r.rx # "ok"
  PROVE  Leaves(d.type, d.value, r)
<1> DEFINE o == OpenInput(src)
<1>1. o \in Inputs
  BY OpenedInput
<1>2. PICK p \in Decode[d][o] : r = IF p.rx = "ok" THEN [p EXCEPT !.in = SyncInput(p.in)] ELSE p
  BY Zenon DEF DecodeFrom
<1> HIDE DEF o
<1>3. IsResult(p)
  BY <1>1, <1>2, DecodeTakes DEF Takes, Stays
<1>4. p.rx # "ok"
  <2> SUFFICES ASSUME p.rx = "ok" PROVE FALSE
    OBVIOUS
  <2>1. r = Result(SyncInput(p.in), p.rx, p.value, p.n)
    BY Zenon, <1>2, <1>3, ResultExcept
  <2> QED
    BY <2>1, ResultFields
<1>5. r = p
  BY Zenon, <1>2, <1>4
<1> QED
  BY <1>1, <1>2, <1>5, DecodeLeaves

FInv == DInv /\ FailureContained

LEMMA DecodeValueFInv ==
  ASSUME FInv, DecodeValue PROVE FailureContained'
<1> DEFINE start == OpenInput(in)
           entry(d, r) == [type |-> d.type, rx |-> r.rx, before |-> d.value, value |-> r.value,
                           from |-> start.at, to |-> r.in.at]
<1>1. PICK d \in Destinations : \E r \in DecodeFrom(in, d) : got' = Append(got, entry(d, r))
  BY Zenon DEF DecodeValue
<1>2. PICK r \in DecodeFrom(in, d) : got' = Append(got, entry(d, r))
  BY <1>1
<1> DEFINE e == entry(d, r)
<1>3. e.type = d.type /\ e.rx = r.rx /\ e.before = d.value /\ e.value = r.value
  OBVIOUS
<1>4. got' = Append(got, e)
  BY <1>2
<1> HIDE DEF e, entry, start
<1>5. e.rx # "ok" => LeftBehind(e)
  <2> SUFFICES ASSUME r.rx # "ok" PROVE LeftBehind(e)
    BY <1>3
  <2>1. Leaves(d.type, d.value, r)
    BY <1>2, DecodeFromLeaves DEF FInv, DInv, InputRight
  <2> QED
    BY <1>3, <2>1 DEF Leaves, LeftBehind, IntegerKinds
<1> DEFINE n == Len(got)
<1>6. /\ DOMAIN got = 1 .. n /\ DOMAIN got' = 1 .. n + 1 /\ n \in Nat
      /\ got'[n + 1] = e /\ \A k \in 1 .. n : got'[k] = got[k]
  <2>1. PICK S : got \in Seq(S)
    BY DEF FInv, DInv, InputRight
  <2>2. Appended(Append(got, e), got, e)
    BY Zenon, <2>1, AppendIs
  <2>3. Appended(got', got, e)
    BY Zenon, <1>4, <2>2
  <2> QED
    BY <2>1, <2>3 DEF Appended
<1> HIDE DEF n
<1>7. \A k \in 1 .. n : got[k].rx # "ok" => LeftBehind(got[k])
  BY <1>6 DEF FInv, FailureContained
<1>8. \A k \in 1 .. n + 1 : k \in 1 .. n \/ k = n + 1
  BY <1>6
<1>9. \A k \in DOMAIN got' : got'[k].rx # "ok" => LeftBehind(got'[k])
  BY <1>5, <1>6, <1>7, <1>8
<1> QED
  BY <1>9 DEF FailureContained

LEMMA NextFInv == FInv /\ [Next]_vars => FInv'
<1> SUFFICES ASSUME FInv, [Next]_vars PROVE FailureContained'
  BY NextDInv DEF FInv
<1>1. CASE EncodeValue \/ UNCHANGED vars
  <2>1. got' = got
    BY <1>1 DEF EncodeValue, vars
  <2> QED
    BY <2>1 DEF FInv, FailureContained
<1>2. CASE Open
  <2>1. got' = got
    BY <1>2 DEF Open
  <2> QED
    BY <2>1 DEF FInv, FailureContained
<1>3. CASE DecodeValue
  BY <1>3, DecodeValueFInv
<1>4. CASE Rewind
  <2>1. got' = <<>>
    BY <1>4 DEF Rewind
  <2> QED
    BY <2>1 DEF FailureContained
<1> QED
  BY <1>1, <1>2, <1>3, <1>4 DEF Next

(* In every session, each decode() that failed, wherever in the input, has *)
(* left scalars alone and no part of a blob behind, and has emptied a set  *)
(* or map to which a key came twice.                                       *)
THEOREM FailuresContained == Spec => []FailureContained
<1>1. Init => FInv
  <2>1. Init => FailureContained
    BY DEF Init, FailureContained
  <2> QED
    BY <2>1, InitDInv DEF FInv
<1>2. FInv => FailureContained
  BY DEF FInv
<1> QED
  BY <1>1, <1>2, NextFInv, PTL DEF Spec
=============================================================================
