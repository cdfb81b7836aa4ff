------------------------------ MODULE Encoding ------------------------------
(***************************************************************************)
(* How values become bytes and bytes values (xvalue.go).  A value is       *)
(* stored as                                                               *)
(*                                                                         *)
(*    kind_len kind ref arr_flag ndim dims raw_len raw                     *)
(*                                                                         *)
(* where kind_len is one byte and a dim or raw_len has Width of them.      *)
(*                                                                         *)
(* Bytes go from 0 to Base - 1, so that a small Base stands for 256.  The  *)
(* types of values are represented by those whose encodings differ in      *)
(* kind: arrays of bytes and of two-byte elements for all numbers, texts   *)
(* and times, Rwfunc with its own length, Ptr, the indexes and Dict.       *)
(***************************************************************************)
EXTENDS Integers, SequencesExt, FiniteSetsExt

CONSTANTS Base,     \* the number of values of a byte
          Width     \* the bytes of a length

\* The kinds as they are spelled in bytes, and the bytes of IndexValueSep and of
\* ExtIndexHead.
KindNone == << >>
KindByte == <<1>>
KindWord == <<2>>
KindRwfunc == <<3>>
KindIndex == <<1, 1>>
KindDict == <<1, 2>>
KindExtIndex == <<1, 3>>
Sep == 2
HeadMark == 0

-----------------------------------------------------------------------------
(* Values *)

V(type, kind, len, body, names) ==
    [type |-> type, kind |-> kind, len |-> len, body |-> body, names |-> names]

None == V("none", KindNone, 0, << >>, << >>)
NewBytes(data) == V("array", KindByte, Len(data), data, << >>)
NewWords(data) == V("array", KindWord, Len(data) \div 2, data, << >>)
NewRwfunc(n, raw) == V("rwfunc", KindRwfunc, n, raw, << >>)
NewPtr(kind, target, n) == V("ptr", kind, n, target, << >>)
Dict == V("dict", KindDict, 1, << >>, << >>)

\* strings.Join and strings.Split with IndexValueSep.
Join(names) ==
    FoldLeft(LAMBDA s, name : IF s = << >> THEN name ELSE s \o <<Sep>> \o name,
             IF names = << >> THEN << >> ELSE Head(names),
             IF names = << >> THEN << >> ELSE Tail(names))

Split(s) ==
    LET cuts == <<0>> \o SetToSortSeq({i \in DOMAIN s : s[i] = Sep}, <) \o <<Len(s) + 1>>
    IN  [i \in 1 .. Len(cuts) - 1 |-> SubSeq(s, cuts[i] + 1, cuts[i + 1] - 1)]

NewIndex(names) == V("index", KindIndex, 1, Join(names), names)
NewDictIndex(names) == V("dictindex", KindDict, 1, Join(names), names)

\* An overlay's index; its target is the first of the names.
NewExtIndex(names) ==
    V("extindex", KindExtIndex, 1, Join(<<<<HeadMark>> \o names[1]>> \o Tail(names)), names)

\* DecodeIndex and DecodeDictIndex, and DecodeExtIndex, of a body.
Children(body) == IF body = << >> THEN << >> ELSE Split(body)
ExtChildren(body) == LET names == Split(body) IN <<Tail(names[1])>> \o Tail(names)

-----------------------------------------------------------------------------
(* Encoding *)

Digits(n) == [i \in 1 .. Width |-> (n \div Base ^ (i - 1)) % Base]
Number(digits) == FoldRight(LAMBDA digit, n : digit + Base * n, digits, 0)

\* Mutant: an array is marked as one, its length left for the bytes to tell.
MutEncodeHead(kind, ref, dims, raw) ==
    <<Len(kind) % Base>> \o kind \o <<ref, Len(dims), 0>> \o Digits(Len(raw)) \o raw

\* encodeHead: arr_flag and ndim are one or zero together.
EncodeHead(kind, ref, dims, raw) ==
    <<Len(kind) % Base>> \o kind \o <<ref, Len(dims), Len(dims)>>
        \o FlattenSeq([i \in DOMAIN dims |-> Digits(dims[i])])
        \o Digits(Len(raw)) \o raw

\* TLVEncode, TLVEncodePtr: a length below two is a scalar's.
Encode(v) ==
    IF v.type = "none" THEN << >>
    ELSE EncodeHead(v.kind, IF v.type = "ptr" THEN 1 ELSE 0,
                    IF v.len <= 1 THEN << >> ELSE <<v.len>>, v.body)

-----------------------------------------------------------------------------
(* Decoding *)

ElemSize(kind) == CASE kind = KindByte -> 1 [] kind = KindWord -> 2 [] OTHER -> 0

\* headerArrayLen
HeaderArrayLen(flag, dims, rawLen, kind) ==
    CASE flag = 0        -> 1
      [] dims # << >>    -> FoldLeft(LAMBDA a, b : a * b, 1, dims)
      [] OTHER           -> IF ElemSize(kind) > 0 THEN rawLen \div ElemSize(kind) ELSE 0

NoHead == [kind |-> KindNone, isptr |-> FALSE, len |-> 0, body |-> << >>]

\* DecodeXValueHead, with the body it leads to: what does not fit is no value,
\* and what follows the body is not looked at.
DecodeHead(data) ==
    LET o == 1 + (IF data = << >> THEN 0 ELSE data[1])  \* the byte before ref
        ndim == data[o + 3]
        start == o + 3 + Width * ndim + Width            \* the byte before the body
        At(i) == o + 3 + Width * (i - 1)                 \* the byte before dim i
        dims == [i \in 1 .. ndim |-> Number(SubSeq(data, At(i) + 1, At(i) + Width))]
        kind == SubSeq(data, 2, o)
        rawLen == Number(SubSeq(data, start - Width + 1, start))
    IN  IF Len(data) < o + 3 + Width THEN NoHead
        ELSE IF Len(data) < start THEN NoHead
        ELSE IF Len(data) < start + rawLen THEN NoHead
        ELSE [kind |-> kind, isptr |-> data[o + 1] = 1,
              len |-> HeaderArrayLen(data[o + 2], dims, rawLen, kind),
              body |-> SubSeq(data, start + 1, start + rawLen)]

\* DecodeXValue
Decode(data) ==
    LET h == DecodeHead(data)
    IN  CASE h.kind = KindNone -> None
          [] h.kind # KindNone /\ h.isptr -> NewPtr(h.kind, h.body, h.len)
          [] ~ h.isptr /\ h.kind = KindByte -> NewBytes(h.body)
          [] ~ h.isptr /\ h.kind = KindWord -> NewWords(h.body)
          [] ~ h.isptr /\ h.kind = KindRwfunc -> NewRwfunc(h.len, h.body)
          [] ~ h.isptr /\ h.kind = KindIndex -> NewIndex(Children(h.body))
          [] ~ h.isptr /\ h.kind = KindDict ->
                IF h.body = << >> THEN Dict ELSE NewDictIndex(Children(h.body))
          [] ~ h.isptr /\ h.kind = KindExtIndex -> NewExtIndex(ExtChildren(h.body))
          [] OTHER -> None
=============================================================================
