------------------------------ MODULE ProtoCodec ------------------------------
(***************************************************************************)
(* The generated protobuf codecs of the swap and savings store types      *)
(* (src/x/swap/types/swap.pb.go, src/x/savings/types/store.pb.go): Size,  *)
(* MarshalToSizedBuffer, which fills a buffer of exactly Size bytes from  *)
(* its end backwards, encodeVarint, Unmarshal, which walks the input one  *)
(* field at a time, and skip, which steps over fields it does not know.   *)
(*                                                                         *)
(* Every message of both files is the same template over a schema: each   *)
(* field number has a name and a kind.                                     *)
(*   "string"  singular string or bytes; written only when non-empty;      *)
(*   "custom"  singular value marshalled by other code (sdk.Int, sdk.Dec,  *)
(*             sdk.Coin); always written; kept here as its payload bytes;  *)
(*   "rstring" repeated string;                                            *)
(*   "rcustom" repeated value marshalled by other code (sdk.Coin);         *)
(*   "rmsg"    repeated AllowedPool, marshalled by this file's code.       *)
(*                                                                         *)
(* Go's integers keep their wrap-around semantics at a reduced width:     *)
(* WordBits stands for the 64 bits of uint64 and int, Int32Bits for the   *)
(* 32 bits of the int32 a field number is truncated to.                    *)
(***************************************************************************)
EXTENDS Integers, Sequences, SequencesExt, TLC

CONSTANTS
    WordBits,     \* width of uint64 and int (64 in Go)
    Int32Bits,    \* width of int32 (32 in Go)
    Strings,      \* string and bytes field values
    Payloads,     \* marshalled sdk.Int / sdk.Dec / sdk.Coin values
    MaxRepeat,    \* longest repeated field
    FuzzBytes,    \* bytes untrusted input is made of
    MaxFuzzLen,   \* longest untrusted input
    UnknownFields \* encoded fields of numbers no type here knows

Types == {"AllowedPool", "ShareRecord", "PoolRecord", "SwapParams",
          "SavingsParams", "Deposit"}

F(name, kind) == [name |-> name, kind |-> kind]

\* the fields of each message, by field number (the struct definitions)
Schema(t) ==
    CASE t = "AllowedPool"   -> 1 :> F("TokenA", "string") @@ 2 :> F("TokenB", "string")
      [] t = "ShareRecord"   -> 1 :> F("Depositor", "string") @@ 2 :> F("PoolID", "string")
                                @@ 3 :> F("SharesOwned", "custom")
      [] t = "PoolRecord"    -> 1 :> F("PoolID", "string") @@ 2 :> F("ReservesA", "custom")
                                @@ 3 :> F("ReservesB", "custom") @@ 4 :> F("TotalShares", "custom")
      [] t = "SwapParams"    -> 1 :> F("AllowedPools", "rmsg") @@ 2 :> F("SwapFee", "custom")
      [] t = "SavingsParams" -> 1 :> F("SupportedDenoms", "rstring")
      [] t = "Deposit"       -> 1 :> F("Depositor", "string") @@ 2 :> F("Amount", "rcustom")

ZeroMsg(t) == [f \in {Schema(t)[n].name : n \in DOMAIN Schema(t)} |-> <<>>]

\* a length-delimited key: field number n, wire type 2
Key(n) == 8 * n + 2

(***************************************************************************)
(* Go integers.                                                            *)
(***************************************************************************)
Pow2(k) == 2 ^ k

\* int(u) of a WordBits-bit pattern, and int32(u)
ToInt(u) == IF u >= Pow2(WordBits - 1) THEN u - Pow2(WordBits) ELSE u
ToInt32(u) == LET y == u % Pow2(Int32Bits)
              IN  IF y >= Pow2(Int32Bits - 1) THEN y - Pow2(Int32Bits) ELSE y

\* a + b on int, wrapping around
AddInt(a, b) == ToInt((a + b) % Pow2(WordBits))

RECURSIVE BitLen(_)
BitLen(x) == IF x = 0 THEN 0 ELSE 1 + BitLen(x \div 2)

\* mutant: bits.Len64(x) without the |1, so sov(0) = 0
SovNoOrOne(x) == (BitLen(x) + 6) \div 7

\* sovSwap: (bits.Len64(x|1) + 6) / 7, the bytes of x as a varint
Sov(x) == (BitLen(IF x % 2 = 0 THEN x + 1 ELSE x) + 6) \div 7

(***************************************************************************)
(* Size and MarshalToSizedBuffer.                                          *)
(***************************************************************************)
FieldSize(l) == 1 + l + Sov(l)

\* the field numbers of t in increasing order
FieldOrder(t) == SetToSortSeq(DOMAIN Schema(t), LAMBDA a, b : a < b)

RECURSIVE Size(_, _)
Size(t, m) ==
    LET S == Schema(t)
        part(n) ==
            LET v == m[S[n].name]
            IN  CASE S[n].kind = "string" -> IF Len(v) > 0 THEN FieldSize(Len(v)) ELSE 0
                  [] S[n].kind = "custom" -> FieldSize(Len(v))
                  [] S[n].kind \in {"rstring", "rcustom"} ->
                        FoldLeft(LAMBDA acc, e : acc + FieldSize(Len(e)), 0, v)
                  [] S[n].kind = "rmsg" ->
                        FoldLeft(LAMBDA acc, e : acc + FieldSize(Size("AllowedPool", e)), 0, v)
    IN  FoldLeft(LAMBDA acc, n : acc + part(n), 0, FieldOrder(t))

\* The buffer being written: its bytes, the write index i, the length of
\* the slice the current call was given (dAtA[:i] for a nested message),
\* and whether Go has panicked on an index out of range.
Panicked(w) == [w EXCEPT !.panic = TRUE]

Overwrite(buf, from, bytes) ==
    [k \in 1..Len(buf) |-> IF from < k /\ k <= from + Len(bytes) THEN bytes[k - from] ELSE buf[k]]

\* i--; dAtA[i] = key
PutKey(w, key) ==
    IF w.panic \/ w.i - 1 < 0 THEN Panicked(w)
    ELSE [w EXCEPT !.buf = Overwrite(@, w.i - 1, <<key>>), !.i = w.i - 1]

\* i -= len(p); copy(dAtA[i:], p)
PutBytes(w, p) ==
    IF w.panic \/ w.i - Len(p) < 0 THEN Panicked(w)
    ELSE [w EXCEPT !.buf = Overwrite(@, w.i - Len(p), p), !.i = w.i - Len(p)]

\* the bytes the loop of encodeVarintSwap writes: 7 bits at a time, low
\* group first, the continuation bit set on all but the last
RECURSIVE VarintBytes(_)
VarintBytes(v) == IF v >= 128 THEN <<(v % 128) + 128>> \o VarintBytes(v \div 128) ELSE <<v>>

\* encodeVarintSwap(dAtA, offset, v): step back Sov(v) bytes, write forward
EncodeVarint(w, v) ==
    LET off == w.i - Sov(v)
    IN  IF w.panic \/ off < 0 \/ off + Len(VarintBytes(v)) > w.lim THEN Panicked(w)
        ELSE [w EXCEPT !.buf = Overwrite(@, off, VarintBytes(v)), !.i = off]

\* payload, its length, its key: one length-delimited field written backwards
PutField(w, n, p) == PutKey(EncodeVarint(PutBytes(w, p), Len(p)), Key(n))

RECURSIVE MarshalToSizedBuffer(_, _, _)
MarshalToSizedBuffer(t, m, w0) ==
    LET S == Schema(t)
        \* a nested AllowedPool, marshalled into dAtA[:i]
        nested(e, w) ==
            LET inner == MarshalToSizedBuffer("AllowedPool", e, [w EXCEPT !.lim = w.i])
                after == [inner EXCEPT !.lim = w.lim]
            IN  PutKey(EncodeVarint(after, w.i - inner.i), Key(1))
        field(n, w) ==
            LET v == m[S[n].name]
            IN  CASE S[n].kind = "string" -> IF Len(v) > 0 THEN PutField(w, n, v) ELSE w
                  [] S[n].kind = "custom" -> PutField(w, n, v)
                  [] S[n].kind \in {"rstring", "rcustom"} ->
                        FoldRight(LAMBDA e, acc : PutField(acc, n, e), v, w)
                  [] S[n].kind = "rmsg" -> FoldRight(nested, v, w)
    \* fields from the highest number down, elements from the last down
    IN  FoldRight(field, FieldOrder(t), w0)

\* Marshal: a buffer of Size bytes, filled from its end, then dAtA[:n]
Marshal(t, m) ==
    LET size == Size(t, m)
        w    == MarshalToSizedBuffer(t, m, [buf |-> [k \in 1..size |-> 0], i |-> size,
                                            lim |-> size, panic |-> FALSE])
    IN  IF w.panic THEN [st |-> "panic"]
        ELSE [st |-> "ok", data |-> SubSeq(w.buf, 1, size - w.i)]

(***************************************************************************)
(* Unmarshal.                                                              *)
(***************************************************************************)
Fail(e) == [st |-> e]

\* dAtA[a:b]; Go panics unless 0 <= a <= b <= len(dAtA)
Slice(d, a, b) ==
    IF 0 <= a /\ a <= b /\ b <= Len(d) THEN [st |-> "ok", p |-> SubSeq(d, a + 1, b)]
    ELSE Fail("panic")

\* for shift := 0; ; shift += 7 { ... }: one varint starting at index i
RECURSIVE Varint(_, _, _, _)
Varint(d, i, shift, acc) ==
    IF shift >= WordBits THEN Fail("overflow")
    ELSE IF i >= Len(d) THEN Fail("eof")
    ELSE LET b == d[i + 1]
             v == (acc + (b % 128) * Pow2(shift)) % Pow2(WordBits)
         IN  IF b < 128 THEN [st |-> "ok", v |-> v, i |-> i + 1]
             ELSE Varint(d, i + 1, shift + 7, v)

\* mutant: the postIndex < 0 check dropped
LengthDelimitedNoWrapCheck(d, i) ==
    LET n    == Varint(d, i, 0, 0)
        len  == ToInt(n.v)
        post == AddInt(n.i, len)
    IN  IF n.st # "ok" THEN n
        ELSE IF len < 0 THEN Fail("invalid_length")
        ELSE IF post > Len(d) THEN Fail("eof")
        ELSE LET s == Slice(d, n.i, post)
             IN  IF s.st # "ok" THEN s ELSE [st |-> "ok", p |-> s.p, i |-> post]

\* mutant: postIndex >= l instead of postIndex > l
LengthDelimitedAtEnd(d, i) ==
    LET n    == Varint(d, i, 0, 0)
        len  == ToInt(n.v)
        post == AddInt(n.i, len)
    IN  IF n.st # "ok" THEN n
        ELSE IF len < 0 THEN Fail("invalid_length")
        ELSE IF post < 0 THEN Fail("invalid_length")
        ELSE IF post >= Len(d) THEN Fail("eof")
        ELSE LET s == Slice(d, n.i, post)
             IN  IF s.st # "ok" THEN s ELSE [st |-> "ok", p |-> s.p, i |-> post]

\* a length varint, its checks and the payload it delimits
LengthDelimited(d, i) ==
    LET n    == Varint(d, i, 0, 0)
        len  == ToInt(n.v)
        post == AddInt(n.i, len)
    IN  IF n.st # "ok" THEN n
        ELSE IF len < 0 THEN Fail("invalid_length")
        ELSE IF post < 0 THEN Fail("invalid_length")
        ELSE IF post > Len(d) THEN Fail("eof")
        ELSE LET s == Slice(d, n.i, post)
             IN  IF s.st # "ok" THEN s ELSE [st |-> "ok", p |-> s.p, i |-> post]

RECURSIVE Skip(_, _, _)

\* mutant: the widths of fixed64 and fixed32 swapped
SkipFixedWidthSwapped(d, i, depth) ==
    IF i >= Len(d) THEN Fail("eof")
    ELSE LET k  == Varint(d, i, 0, 0)
             wt == k.v % 8
             step ==
                CASE wt = 0 -> LET r == Varint(d, k.i, 0, 0)
                               IN  IF r.st # "ok" THEN r ELSE [st |-> "ok", i |-> r.i, depth |-> depth]
                  [] wt = 1 -> [st |-> "ok", i |-> AddInt(k.i, 4), depth |-> depth]
                  [] wt = 2 -> LET r == Varint(d, k.i, 0, 0)
                               IN  IF r.st # "ok" THEN r
                                   ELSE IF ToInt(r.v) < 0 THEN Fail("invalid_length")
                                   ELSE [st |-> "ok", i |-> AddInt(r.i, ToInt(r.v)), depth |-> depth]
                  [] wt = 3 -> [st |-> "ok", i |-> k.i, depth |-> depth + 1]
                  [] wt = 4 -> IF depth = 0 THEN Fail("unexpected_end_group")
                               ELSE [st |-> "ok", i |-> k.i, depth |-> depth - 1]
                  [] wt = 5 -> [st |-> "ok", i |-> AddInt(k.i, 8), depth |-> depth]
                  [] OTHER  -> Fail("illegal_wiretype")
         IN  IF k.st # "ok" THEN k
             ELSE IF step.st # "ok" THEN step
             ELSE IF step.i < 0 THEN Fail("invalid_length")
             ELSE IF step.depth = 0 THEN [st |-> "ok", n |-> step.i]
             ELSE Skip(d, step.i, step.depth)

\* skipSwap: the length of the field (or group) that starts the input
Skip(d, i, depth) ==
    IF i >= Len(d) THEN Fail("eof")
    ELSE LET k  == Varint(d, i, 0, 0)
             wt == k.v % 8
             step ==
                CASE wt = 0 -> LET r == Varint(d, k.i, 0, 0)
                               IN  IF r.st # "ok" THEN r ELSE [st |-> "ok", i |-> r.i, depth |-> depth]
                  [] wt = 1 -> [st |-> "ok", i |-> AddInt(k.i, 8), depth |-> depth]
                  [] wt = 2 -> LET r == Varint(d, k.i, 0, 0)
                               IN  IF r.st # "ok" THEN r
                                   ELSE IF ToInt(r.v) < 0 THEN Fail("invalid_length")
                                   ELSE [st |-> "ok", i |-> AddInt(r.i, ToInt(r.v)), depth |-> depth]
                  [] wt = 3 -> [st |-> "ok", i |-> k.i, depth |-> depth + 1]
                  [] wt = 4 -> IF depth = 0 THEN Fail("unexpected_end_group")
                               ELSE [st |-> "ok", i |-> k.i, depth |-> depth - 1]
                  [] wt = 5 -> [st |-> "ok", i |-> AddInt(k.i, 4), depth |-> depth]
                  [] OTHER  -> Fail("illegal_wiretype")
         IN  IF k.st # "ok" THEN k
             ELSE IF step.st # "ok" THEN step
             ELSE IF step.i < 0 THEN Fail("invalid_length")
             ELSE IF step.depth = 0 THEN [st |-> "ok", n |-> step.i]
             ELSE Skip(d, step.i, step.depth)

RECURSIVE Unmarshal(_, _, _, _)

\* the assignment of a decoded payload p to field n of message m
SetField(t, m, n, p) ==
    LET f == Schema(t)[n]
    IN  CASE f.kind \in {"string", "custom"} -> [st |-> "ok", m |-> [m EXCEPT ![f.name] = p]]
          [] f.kind \in {"rstring", "rcustom"} ->
                [st |-> "ok", m |-> [m EXCEPT ![f.name] = Append(@, p)]]
          [] f.kind = "rmsg" ->
                LET r == Unmarshal("AllowedPool", p, 0, ZeroMsg("AllowedPool"))
                IN  IF r.st # "ok" THEN r
                    ELSE [st |-> "ok", m |-> [m EXCEPT ![f.name] = Append(@, r.m)]]

\* for iNdEx < l { ... }: decode the fields from index i on into m
Unmarshal(t, d, i, m) ==
    IF i >= Len(d)
    THEN IF i > Len(d) THEN Fail("eof") ELSE [st |-> "ok", m |-> m]
    ELSE LET k        == Varint(d, i, 0, 0)
             fieldNum == ToInt32(k.v \div 8)
             wireType == k.v % 8
         IN  IF k.st # "ok" THEN k
             ELSE IF wireType = 4 THEN Fail("end_group")
             ELSE IF fieldNum <= 0 THEN Fail("illegal_tag")
             ELSE IF fieldNum \in DOMAIN Schema(t)
             THEN IF wireType # 2 THEN Fail("wrong_wiretype")
                  ELSE LET r == LengthDelimited(d, k.i)
                           f == SetField(t, m, fieldNum, r.p)
                       IN  IF r.st # "ok" THEN r
                           ELSE IF f.st # "ok" THEN f
                           ELSE Unmarshal(t, d, r.i, f.m)
             ELSE LET s == Skip(Slice(d, i, Len(d)).p, 0, 0)
                  IN  IF s.st # "ok" THEN s
                      ELSE IF s.n < 0 \/ AddInt(i, s.n) < 0 THEN Fail("invalid_length")
                      ELSE IF AddInt(i, s.n) > Len(d) THEN Fail("eof")
                      ELSE Unmarshal(t, d, AddInt(i, s.n), m)

(***************************************************************************)
(* The codec in use.  A keeper marshals a record and later unmarshals the *)
(* bytes it reads back; bytes may also arrive corrupted or crafted (a     *)
(* damaged store, an imported state), and Unmarshal must reject them      *)
(* with an error, never with a panic.                                     *)
(***************************************************************************)
Messages(t) ==
    CASE t = "AllowedPool"   -> [TokenA : Strings, TokenB : Strings]
      [] t = "ShareRecord"   -> [Depositor : Strings, PoolID : Strings, SharesOwned : Payloads]
      [] t = "PoolRecord"    -> [PoolID : Strings, ReservesA : Payloads, ReservesB : Payloads,
                                 TotalShares : Payloads]
      [] t = "SwapParams"    -> [AllowedPools : SeqOf([TokenA : Strings, TokenB : Strings], MaxRepeat),
                                 SwapFee : Payloads]
      [] t = "SavingsParams" -> [SupportedDenoms : SeqOf(Strings, MaxRepeat)]
      [] t = "Deposit"       -> [Depositor : Strings, Amount : SeqOf(Payloads, MaxRepeat)]

NoMsg == [none |-> TRUE]
NoBytes == [st |-> "none"]
NoResult == [st |-> "none"]

VARIABLES
    phase,      \* "idle", "written" (bytes at hand), "read" (decoded)
    kind,       \* the message type being handled
    sent,       \* the message that was marshalled, NoMsg for foreign bytes
    wire,       \* result of Marshal, or the foreign bytes
    decoded,    \* result of Unmarshal
    extra       \* unknown fields a later schema appended to the record

codecVars == <<phase, kind, sent, wire, decoded, extra>>

Init ==
    /\ phase = "idle"
    /\ kind = "AllowedPool"
    /\ sent = NoMsg
    /\ wire = NoBytes
    /\ decoded = NoResult
    /\ extra = <<>>

\* Marshal (Size, then MarshalToSizedBuffer into a buffer of that size)
MarshalMsg ==
    /\ phase = "idle"
    /\ \E t \in Types : \E m \in Messages(t) :
         /\ kind' = t
         /\ sent' = m
         /\ wire' = Marshal(t, m)
    /\ phase' = "written"
    /\ UNCHANGED <<decoded, extra>>

\* the record carries a field a later version of its schema added
AppendUnknown ==
    /\ phase = "written"
    /\ sent # NoMsg
    /\ wire.st = "ok"
    /\ extra = <<>>
    /\ \E u \in UnknownFields :
         /\ wire' = [wire EXCEPT !.data = @ \o u]
         /\ extra' = u
    /\ UNCHANGED <<phase, kind, sent, decoded>>

\* bytes not produced by Marshal
ReceiveBytes ==
    /\ phase = "idle"
    /\ \E t \in Types, d \in SeqOf(FuzzBytes, MaxFuzzLen) :
         /\ kind' = t
         /\ wire' = [st |-> "ok", data |-> d]
    /\ sent' = NoMsg
    /\ phase' = "written"
    /\ UNCHANGED <<decoded, extra>>

\* Unmarshal into a zero message
UnmarshalWire ==
    /\ phase = "written"
    /\ wire.st = "ok"
    /\ decoded' = Unmarshal(kind, wire.data, 0, ZeroMsg(kind))
    /\ phase' = "read"
    /\ UNCHANGED <<kind, sent, wire, extra>>

\* the buffers are dropped and the next record is handled
Reset ==
    /\ phase \in {"written", "read"}
    /\ phase' = "idle"
    /\ kind' = "AllowedPool"
    /\ sent' = NoMsg
    /\ wire' = NoBytes
    /\ decoded' = NoResult
    /\ extra' = <<>>

Next == MarshalMsg \/ AppendUnknown \/ ReceiveBytes \/ UnmarshalWire \/ Reset

Spec == Init /\ [][Next]_codecVars

(***************************************************************************)
(* Properties.                                                            *)
(***************************************************************************)
Bytes == 0..255

\* the Go type of each field kind
FieldType(kind0) ==
    CASE kind0 \in {"string", "custom"} -> Seq(Bytes)
      [] kind0 \in {"rstring", "rcustom"} -> Seq(Seq(Bytes))
      [] kind0 = "rmsg" -> Seq([TokenA : Seq(Bytes), TokenB : Seq(Bytes)])

TypeOK ==
    /\ phase \in {"idle", "written", "read"}
    /\ kind \in Types
    /\ wire.st \in {"none", "ok", "panic"}
    /\ wire.st = "ok" => wire.data \in Seq(Bytes)
    /\ extra \in Seq(Bytes)
    /\ decoded.st = "ok" =>
         \A n \in DOMAIN Schema(kind) :
             decoded.m[Schema(kind)[n].name] \in FieldType(Schema(kind)[n].kind)

\* the protobuf encoding of a message, written front to back: its fields
\* by increasing number, each as key, length varint and payload
CanonField(n, p) == <<Key(n)>> \o VarintBytes(Len(p)) \o p

RECURSIVE Canonical(_, _)
Canonical(t, m) ==
    LET S == Schema(t)
        part(n) ==
            LET v == m[S[n].name]
            IN  CASE S[n].kind = "string" -> IF Len(v) > 0 THEN CanonField(n, v) ELSE <<>>
                  [] S[n].kind = "custom" -> CanonField(n, v)
                  [] S[n].kind \in {"rstring", "rcustom"} ->
                        FlattenSeq([j \in 1..Len(v) |-> CanonField(n, v[j])])
                  [] S[n].kind = "rmsg" ->
                        FlattenSeq([j \in 1..Len(v) |-> CanonField(n, Canonical("AllowedPool", v[j]))])
    IN  FlattenSeq([j \in 1..Len(FieldOrder(t)) |-> part(FieldOrder(t)[j])])

\* Marshal computes Size first and writes backwards from the end of a
\* buffer of exactly that size, returning its first n bytes: unless Size,
\* sov and the backward writes agree byte for byte, the result has zeros
\* in front, is cut short, or Go panics.  Every marshalled message is its
\* protobuf encoding.
MarshalIsCanonical ==
    sent # NoMsg => wire = [st |-> "ok", data |-> Canonical(kind, sent) \o extra]

\* Unmarshal gives back exactly the message Marshal encoded, nested
\* AllowedPools, repeated fields and lengths that need two varint bytes
\* included.
RoundTrip ==
    (sent # NoMsg /\ extra = <<>> /\ decoded # NoResult) => decoded = [st |-> "ok", m |-> sent]

\* A record that carries fields a later schema added still decodes to the
\* message it holds: skipSwap steps over an unknown varint, fixed64,
\* length-delimited, fixed32 field or group exactly, and Unmarshal
\* resumes at the next field.
SkipsUnknownFields ==
    (sent # NoMsg /\ extra # <<>> /\ decoded # NoResult) => decoded = [st |-> "ok", m |-> sent]

\* No input makes Unmarshal index or slice outside its buffer: a length or
\* skip whose varint decodes near the top of int, and wraps iNdEx around
\* when added to it, is rejected with an error.
NeverPanics ==
    decoded.st # "panic"

=============================================================================
