------------------------ MODULE ProtoUnmarshalProofs ------------------------
(***************************************************************************)
(* Proofs about ProtoUnmarshal: for integers of any width, any messages    *)
(* and any bytes.                                                          *)
(***************************************************************************)
EXTENDS ProtoUnmarshal, SequenceTheorems, TLAPS

\* The slice of a call lies in the buffer, and its index, of which Unmarshal
\* demands more than skip, where the next check expects it.
SliceOK(f) ==
    /\ f.base + f.l <= Len(dAtA)
    /\ f.preIndex <= f.l
    /\ f.iNdEx < Half
    /\ f.fn = "unmarshal" => f.iNdEx <= f.l

\* skip calls nothing, and is called by Unmarshal.
SlicesInv ==
    /\ Len(dAtA) < Half
    /\ SliceOK(frame)
    /\ \A i \in 1 .. Len(callers) : SliceOK(callers[i]) /\ callers[i].fn = "unmarshal"
    /\ frame.fn = "skip" => callers # <<>>

\* The field whose value or length is read is one of the message's, of the
\* kind its wire type is for.
FieldInv ==
    frame.fn = "unmarshal" /\ pc \in {"value", "store", "length", "extent"} =>
        /\ frame.field \in 1 .. FieldHalf - 1
        /\ frame.field \in DOMAIN Fields
        /\ pc \in {"value", "store"} <=> Fields[frame.field] = "varint"

IInv == TypeOK /\ SlicesInv /\ FieldInv /\ InBounds

-----------------------------------------------------------------------------
(***************************************************************************)
(* Arithmetic of int.                                                      *)
(***************************************************************************)
\* The conversion of a word keeps it or makes it negative.
LEMMA AsIntFacts ==
    ASSUME NEW x \in 0 .. Word - 1
    PROVE  /\ AsInt(x) \in Int
           /\ AsInt(x) < Half
           /\ AsInt(x) >= 0 => AsInt(x) = x
  BY WireAssumption DEF AsInt, Word

\* A sum of two lengths is right or negative: one comparison with zero tells.
LEMMA PlusFacts ==
    ASSUME NEW a \in Nat, NEW b \in Nat, a < Half, b < Word
    PROVE  /\ Plus(a, b) \in Int
           /\ Plus(a, b) < Half
           /\ b < Half /\ Plus(a, b) >= 0 => Plus(a, b) = a + b
<1>1. (a + b) % Word \in 0 .. Word - 1
  BY WireAssumption DEF Word
<1>2. Plus(a, b) \in Int /\ Plus(a, b) < Half
  BY <1>1, AsIntFacts DEF Plus
<1>3. ASSUME b < Half PROVE (a + b) % Word = a + b
  BY <1>3, WireAssumption DEF Word
<1>4. ASSUME b < Half, Plus(a, b) >= 0 PROVE Plus(a, b) = a + b
  BY <1>1, <1>3, <1>4, AsIntFacts DEF Plus
<1> QED
  BY <1>2, <1>4

-----------------------------------------------------------------------------
(***************************************************************************)
(* The ways a step ends.                                                   *)
(***************************************************************************)
\* An error, or a step to the end, keeps everything but pc.
LEMMA FailKeepsInv ==
    ASSUME IInv, Fail
    PROVE  IInv'
  BY DEF IInv, Fail, TypeOK, SlicesInv, SliceOK, FieldInv, InBounds, Fields, Reading

\* A frame with another index is a frame.
LEMMA FrameWithIndex ==
    ASSUME NEW f \in Frames, NEW i \in Nat
    PROVE  LET g == [f EXCEPT !.iNdEx = i]
           IN  /\ g \in Frames
               /\ g.iNdEx = i /\ g.base = f.base /\ g.l = f.l /\ g.preIndex = f.preIndex
               /\ g.fn = f.fn /\ g.msg = f.msg /\ g.field = f.field /\ g.depth = f.depth
  BY DEF Frames

\* A call whose slice the caller's checks have allowed.
LEMMA CallKeepsInv ==
    ASSUME IInv, frame.fn = "unmarshal",
           NEW fn \in {"unmarshal", "skip"}, NEW type \in DOMAIN Schema,
           NEW from \in Nat, NEW to \in Nat, NEW resume \in Nat,
           from <= to, to <= frame.l, resume <= frame.l,
           Call(fn, type, from, to, resume)
    PROVE  IInv'
<1> DEFINE caller == [frame EXCEPT !.iNdEx = resume]
<1>1. /\ frame' = NewFrame(fn, type, frame.base + from, to - from)
      /\ callers' = Append(callers, caller)
      /\ pc' = "loop" /\ UNCHANGED <<dAtA, m, word, place>>
  BY DEF Call, Goto, IInv, TypeOK, Frames
<1>2. frame \in Frames /\ callers \in Seq(Frames) /\ Len(dAtA) \in Nat
  BY LenProperties DEF IInv, TypeOK
<1>3. /\ caller \in Frames /\ caller.fn = "unmarshal" /\ caller.iNdEx = resume
      /\ caller.base = frame.base /\ caller.l = frame.l /\ caller.preIndex = frame.preIndex
  BY <1>2, FrameWithIndex
<1> HIDE DEF caller
<1>4. frame' \in Frames
  BY <1>1, <1>2 DEF NewFrame, Frames
<1>5. SliceOK(frame)'
  BY <1>1, <1>2, WireAssumption, SMTT(60) DEF NewFrame, Frames, IInv, SlicesInv, SliceOK
<1>6. /\ callers' \in Seq(Frames) /\ Len(callers') = Len(callers) + 1
      /\ \A i \in 1 .. Len(callers) : callers'[i] = callers[i]
      /\ callers'[Len(callers) + 1] = caller
  BY <1>1, <1>2, <1>3, AppendProperties
<1>7. SliceOK(caller) /\ dAtA' = dAtA
  BY <1>1, <1>2, <1>3, WireAssumption, SMTT(60) DEF IInv, SlicesInv, SliceOK, Frames
<1>8. (\A i \in 1 .. Len(callers) : SliceOK(callers[i]) /\ callers[i].fn = "unmarshal")'
  <2> TAKE i \in 1 .. Len(callers')
  <2>1. CASE i = Len(callers) + 1
    <3>1. callers'[i] = caller
      BY <2>1, <1>6
    <3> QED
      BY <3>1, <1>3, <1>7 DEF SliceOK
  <2>2. CASE i \in 1 .. Len(callers)
    BY <2>2, <1>6, <1>7 DEF IInv, SlicesInv, SliceOK
  <2> QED
    BY <1>2, <1>6, <2>1, <2>2, LenProperties
<1>9. callers' # <<>>
  BY <1>2, <1>6, LenProperties
<1>10. TypeOK'
  BY <1>1, <1>4, <1>6 DEF IInv, TypeOK
<1>11. SlicesInv'
  BY <1>1, <1>5, <1>8, <1>9 DEF IInv, SlicesInv
<1> QED
  BY <1>1, <1>10, <1>11 DEF IInv, FieldInv, InBounds

\* The caller of the running call, found where it was left.
LEMMA CallerFacts ==
    ASSUME IInv, callers # <<>>
    PROVE  /\ Caller \in Frames /\ SliceOK(Caller) /\ Caller.fn = "unmarshal"
           /\ OtherCallers \in Seq(Frames)
           /\ \A i \in 1 .. Len(OtherCallers) :
                SliceOK(OtherCallers[i]) /\ OtherCallers[i].fn = "unmarshal"
<1>1. callers \in Seq(Frames) /\ Len(callers) \in Nat \ {0}
  BY EmptySeq, LenProperties DEF IInv, TypeOK
<1>2. Caller \in Frames /\ SliceOK(Caller) /\ Caller.fn = "unmarshal"
  BY <1>1, ElementOfSeq DEF Caller, IInv, SlicesInv
<1>3. /\ OtherCallers \in Seq(Frames) /\ Len(OtherCallers) = Len(callers) - 1
      /\ \A i \in 1 .. Len(callers) - 1 : OtherCallers[i] = callers[i]
  <2>1. \A i \in 1 .. Len(callers) - 1 : callers[i] \in Frames
    BY <1>1, ElementOfSeq
  <2> DEFINE n == Len(callers) - 1
  <2>2. n \in Nat /\ \A i \in 1 .. n : callers[i] \in Frames
    BY <1>1, <2>1
  <2> HIDE DEF n
  <2>3. /\ SubSeq(callers, 1, n) \in Seq(Frames)
        /\ Len(SubSeq(callers, 1, n)) = IF 1 <= n THEN n - 1 + 1 ELSE 0
        /\ \A i \in 1 .. n - 1 + 1 : SubSeq(callers, 1, n)[i] = callers[1 + i - 1]
    BY <2>2, SubSeqProperties
  <2>4. /\ SubSeq(callers, 1, n) \in Seq(Frames) /\ Len(SubSeq(callers, 1, n)) = n
        /\ \A i \in 1 .. n : SubSeq(callers, 1, n)[i] = callers[i]
    BY <2>2, <2>3
  <2> QED
    BY <2>4 DEF OtherCallers, n
<1>4. \A i \in 1 .. Len(OtherCallers) : i \in 1 .. Len(callers) /\ OtherCallers[i] = callers[i]
  BY <1>1, <1>3
<1> QED
  BY <1>2, <1>3, <1>4 DEF IInv, SlicesInv

\* A return to the caller, at an index within its slice.
LEMMA ReturnKeepsInv ==
    ASSUME IInv, callers # <<>>, NEW i \in Nat, i <= Caller.l,
           frame' = [Caller EXCEPT !.iNdEx = i],
           callers' = OtherCallers, pc' = "loop", UNCHANGED <<dAtA, m, word, place>>
    PROVE  IInv'
<1>1. /\ frame' \in Frames /\ frame'.fn = "unmarshal" /\ frame'.iNdEx = i
      /\ frame'.base = Caller.base /\ frame'.l = Caller.l
      /\ frame'.preIndex = Caller.preIndex
  BY CallerFacts, FrameWithIndex
<1>2. SliceOK(frame)'
  <2>1. Caller.l \in Nat /\ Caller.base \in Nat /\ Len(dAtA) \in Nat /\ Half \in Nat
    BY CallerFacts, WireAssumption, LenProperties DEF Frames, IInv, TypeOK
  <2> QED
    BY <1>1, <2>1, CallerFacts DEF SliceOK, IInv, SlicesInv
<1>3. SlicesInv'
  BY <1>1, <1>2, CallerFacts DEF IInv, SlicesInv, SliceOK
<1>4. TypeOK'
  BY <1>1, CallerFacts DEF IInv, TypeOK
<1> QED
  BY <1>3, <1>4 DEF IInv, FieldInv, InBounds

-----------------------------------------------------------------------------
(***************************************************************************)
(* Unmarshal and the varint loop.                                          *)
(***************************************************************************)
\* Types that every step uses.
LEMMA TypeFacts ==
    ASSUME IInv
    PROVE  /\ frame \in Frames /\ frame.iNdEx \in Nat /\ frame.l \in Nat
           /\ frame.base \in Nat /\ frame.preIndex \in Nat /\ frame.depth \in Nat
           /\ frame.fn \in {"unmarshal", "skip"} /\ frame.msg \in DOMAIN Schema
           /\ Len(dAtA) \in Nat /\ word \in 0 .. Word - 1 /\ place \in Nat
           /\ Half \in Nat \ {0}
  BY LenProperties, WireAssumption DEF IInv, TypeOK, Frames

\* A varint starts at an index the loop has compared with the length.
LEMMA NextFieldKeepsInv ==
    ASSUME IInv, NextField
    PROVE  IInv'
<1>1. /\ frame' \in Frames /\ frame'.preIndex = frame.iNdEx /\ frame'.iNdEx = frame.iNdEx
      /\ frame'.base = frame.base /\ frame'.l = frame.l /\ frame'.fn = frame.fn
  BY TypeFacts DEF NextField, Frames
<1>2. /\ pc' = "tag" /\ word' = 0 /\ place' = 1 /\ UNCHANGED <<dAtA, m, callers>>
      /\ frame.iNdEx < frame.l
  BY DEF NextField, ReadVarint
<1>3. SlicesInv'
  BY <1>1, <1>2, TypeFacts DEF IInv, SlicesInv, SliceOK
<1>4. TypeOK'
  BY <1>1, <1>2, WireAssumption DEF IInv, TypeOK, Reading, Word
<1> QED
  BY <1>2, <1>3, <1>4 DEF IInv, FieldInv, InBounds

\* A byte of a varint is read inside the slice.
LEMMA VarintByteKeepsInv ==
    ASSUME IInv, VarintByte
    PROVE  IInv'
<1>1. CASE place >= Word \/ frame.iNdEx >= frame.l
  BY <1>1, FailKeepsInv DEF VarintByte
<1>2. CASE ~ (place >= Word \/ frame.iNdEx >= frame.l)
  <2> DEFINE b == dAtA[frame.base + frame.iNdEx + 1]
  <2>1. frame.iNdEx \in 0 .. frame.l - 1
    BY <1>2, TypeFacts
  <2>2. frame.base + frame.iNdEx + 1 \in 1 .. Len(dAtA)
    BY <2>1, TypeFacts DEF IInv, SlicesInv, SliceOK
  <2>3. b \in Nat
    BY <2>2, ElementOfSeq, WireAssumption DEF IInv, TypeOK, Byte
  <2>4. /\ frame' = [frame EXCEPT !.iNdEx = frame.iNdEx + 1]
        /\ word' = (word + ((b % Group) * place)) % Word
        /\ place' = place * Group
        /\ pc' = IF b < Group THEN AfterVarint[pc] ELSE pc
        /\ UNCHANGED <<dAtA, m, callers>>
        /\ pc \in Reading
    BY <1>2, <2>1 DEF VarintByte
  <2> HIDE DEF b
  <2>5. /\ frame' \in Frames /\ frame'.iNdEx = frame.iNdEx + 1 /\ frame'.base = frame.base
        /\ frame'.l = frame.l /\ frame'.preIndex = frame.preIndex /\ frame'.fn = frame.fn
        /\ frame'.msg = frame.msg /\ frame'.field = frame.field
    <3>1. frame.iNdEx + 1 \in Nat
      BY TypeFacts
    <3> QED
      BY <2>4, <3>1, TypeFacts, FrameWithIndex
  <2>6. word' \in 0 .. Word - 1 /\ place' \in Nat
    <3> DEFINE seven == (b % Group) * place
    <3>1. b % Group \in Nat /\ Group \in Nat
      BY <2>3, WireAssumption
    <3>2. seven \in Nat /\ place' \in Nat
      BY <2>4, <3>1, TypeFacts, SMTT(60)
    <3>3. word' = (word + seven) % Word
      BY <2>4
    <3> HIDE DEF seven
    <3> QED
      BY <3>2, <3>3, TypeFacts, WireAssumption DEF Word
  <2>7. SlicesInv'
    BY <2>1, <2>4, <2>5, TypeFacts DEF IInv, SlicesInv, SliceOK
  <2>8. /\ pc' \in Reading \cup {"switch", "extent", "store"}
        /\ pc' \in {"value", "store"} <=> pc = "value"
        /\ pc' \in {"length", "extent"} <=> pc = "length"
    BY <2>4 DEF AfterVarint, Reading
  <2>9. TypeOK'
    BY <2>4, <2>5, <2>6, <2>8 DEF IInv, TypeOK
  <2>10. FieldInv'
    BY <2>5, <2>8 DEF IInv, FieldInv, Fields
  <2> QED
    BY <2>7, <2>8, <2>9, <2>10 DEF IInv, InBounds, Reading
<1> QED
  BY <1>1, <1>2

\* A known field of the right wire type is the one FieldInv speaks of.
LEMMA KnownFieldKeepsInv ==
    ASSUME IInv, KnownField
    PROVE  IInv'
<1> DEFINE right == wireType = (IF Fields[fieldNum] = "varint" THEN 0 ELSE 2)
<1>1. CASE ~ right
  BY <1>1, FailKeepsInv DEF KnownField
<1>2. CASE right
  <2>1. fieldNum \in 1 .. FieldHalf - 1
    <3> DEFINE n == (word \div 8) % (2 * FieldHalf)
    <3>1. word \div 8 \in Nat
      BY TypeFacts DEF Word
    <3>2. n \in 0 .. 2 * FieldHalf - 1
      BY <3>1, WireAssumption
    <3>3. fieldNum = (IF n < FieldHalf THEN n ELSE n - 2 * FieldHalf) /\ fieldNum > 0
      BY DEF fieldNum, KnownField
    <3> HIDE DEF n
    <3> QED
      BY <3>2, <3>3, WireAssumption
  <2>2. /\ frame' = [frame EXCEPT !.field = fieldNum]
        /\ pc' = (IF Fields[fieldNum] = "varint" THEN "value" ELSE "length")
        /\ word' = 0 /\ place' = 1 /\ UNCHANGED <<dAtA, m, callers>>
        /\ fieldNum \in DOMAIN Fields
    BY <1>2 DEF KnownField, ReadVarint
  <2>3. /\ frame' \in Frames /\ frame'.iNdEx = frame.iNdEx /\ frame'.base = frame.base
        /\ frame'.l = frame.l /\ frame'.preIndex = frame.preIndex /\ frame'.fn = frame.fn
        /\ frame'.msg = frame.msg /\ frame'.field = fieldNum
    BY <2>1, <2>2, TypeFacts DEF Frames
  <2>4. SlicesInv'
    BY <2>2, <2>3 DEF IInv, SlicesInv, SliceOK
  <2>5. TypeOK'
    BY <2>2, <2>3, WireAssumption DEF IInv, TypeOK, Reading, Word
  <2>6. FieldInv'
    BY <2>1, <2>2, <2>3 DEF FieldInv, Fields
  <2> QED
    BY <2>2, <2>4, <2>5, <2>6 DEF IInv, InBounds
<1> QED
  BY <1>1, <1>2

\* skip gets what is left of the slice, from the tag on.
LEMMA UnknownFieldKeepsInv ==
    ASSUME IInv, UnknownField
    PROVE  IInv'
<1>1. frame.fn = "unmarshal" /\ Call("skip", frame.msg, frame.preIndex, frame.l, frame.preIndex)
  BY DEF UnknownField, InUnmarshal
<1>2. frame.preIndex <= frame.l
  BY DEF IInv, SlicesInv, SliceOK
<1> QED
  BY <1>1, <1>2, TypeFacts, CallKeepsInv

\* A word is stored in a varint field.
LEMMA StoreVarintKeepsInv ==
    ASSUME IInv, StoreVarint
    PROVE  IInv'
<1> DEFINE f == <<frame.msg, frame.field>>
<1>1. f \in ScalarFields /\ Schema[f[1]][f[2]] = "varint"
  BY TypeFacts DEF IInv, FieldInv, StoreVarint, InUnmarshal, Fields, ScalarFields
<1>2. m' = [m EXCEPT ![f] = word] /\ pc' = "loop"
      /\ UNCHANGED <<dAtA, frame, callers, word, place>>
  BY DEF StoreVarint, Goto
<1>3. DOMAIN m' = ScalarFields
  BY <1>2 DEF IInv, TypeOK
<1>4. \A g \in ScalarFields : m'[g] = IF g = f THEN word ELSE m[g]
  BY <1>2 DEF IInv, TypeOK
<1> HIDE DEF f
<1>5. \A g \in ScalarFields :
        m'[g] \in (IF Schema[g[1]][g[2]] = "varint" THEN 0 .. Word - 1 ELSE Seq(Byte))
  BY <1>1, <1>4, TypeFacts DEF IInv, TypeOK
<1>6. TypeOK'
  BY <1>2, <1>3, <1>5 DEF IInv, TypeOK
<1> QED
  BY <1>2, <1>6 DEF IInv, SlicesInv, SliceOK, FieldInv, InBounds

\* What ExtentRefused lets pass ends inside the slice.
LEMMA ExtentFacts ==
    ASSUME IInv, ~ ExtentRefused
    PROVE  /\ postIndex \in Nat
           /\ frame.iNdEx <= postIndex /\ postIndex <= frame.l
<1>1. AsInt(word) \in Nat /\ AsInt(word) < Half
  BY TypeFacts, AsIntFacts DEF ExtentRefused
<1>2. frame.iNdEx \in Nat /\ frame.iNdEx < Half
  BY TypeFacts DEF IInv, SlicesInv, SliceOK
<1>3. AsInt(word) < Word
  BY <1>1, TypeFacts DEF Word
<1>4. postIndex \in Int /\ (postIndex >= 0 => postIndex = frame.iNdEx + AsInt(word))
  BY <1>1, <1>2, <1>3, PlusFacts DEF postIndex
<1> QED
  <2>1. frame.l \in Nat /\ ~ postIndex < 0 /\ ~ postIndex > frame.l
    BY TypeFacts DEF ExtentRefused
  <2> QED
    BY <1>1, <1>2, <1>4, <2>1

\* A string is a slice of the buffer.
LEMMA StringFieldKeepsInv ==
    ASSUME IInv, StringField
    PROVE  IInv'
<1>1. CASE ExtentRefused
  BY <1>1, FailKeepsInv DEF StringField
<1>2. CASE ~ ExtentRefused
  <2> DEFINE f == <<frame.msg, frame.field>>
             from == frame.base + frame.iNdEx + 1
             to == frame.base + postIndex
             s == SubSeq(dAtA, from, to)
  <2>1. /\ postIndex \in Nat /\ frame.iNdEx <= postIndex /\ postIndex <= frame.l
        /\ 0 <= frame.iNdEx
    BY <1>2, ExtentFacts, TypeFacts
  <2>2. /\ m' = [m EXCEPT ![f] = s] /\ frame' = [frame EXCEPT !.iNdEx = postIndex]
        /\ pc' = "loop" /\ UNCHANGED <<dAtA, callers, word, place>>
    BY <1>2, <2>1 DEF StringField, Goto
  <2>3. f \in ScalarFields /\ Schema[f[1]][f[2]] = "string"
    BY TypeFacts DEF IInv, FieldInv, StringField, InUnmarshal, Fields, ScalarFields
  <2>4. /\ from \in Int /\ to \in Int
        /\ \A i \in from .. to : i \in 1 .. Len(dAtA)
    <3>1. frame.base + frame.l <= Len(dAtA)
      BY DEF IInv, SlicesInv, SliceOK
    <3>2. from \in Nat /\ from >= 1 /\ to \in Nat
      BY <2>1, TypeFacts, SMTT(60)
    <3>3. to <= Len(dAtA)
      BY <2>1, <3>1, TypeFacts
    <3> HIDE DEF from, to
    <3> QED
      BY <3>2, <3>3, TypeFacts
  <2>5. \A i \in from .. to : dAtA[i] \in Byte
    BY <2>4, ElementOfSeq DEF IInv, TypeOK
  <2> HIDE DEF from, to
  <2>6. s \in Seq(Byte)
    BY <2>4, <2>5, SubSeqProperties
  <2> HIDE DEF s
  <2>7. DOMAIN m' = ScalarFields /\ \A g \in ScalarFields : m'[g] = IF g = f THEN s ELSE m[g]
    BY <2>2 DEF IInv, TypeOK
  <2> HIDE DEF f
  <2>8. \A g \in ScalarFields :
          m'[g] \in (IF Schema[g[1]][g[2]] = "varint" THEN 0 .. Word - 1 ELSE Seq(Byte))
    BY <2>3, <2>6, <2>7 DEF IInv, TypeOK
  <2>9. /\ frame' \in Frames /\ frame'.iNdEx = postIndex /\ frame'.base = frame.base
        /\ frame'.l = frame.l /\ frame'.preIndex = frame.preIndex /\ frame'.fn = frame.fn
    BY <2>1, <2>2, TypeFacts, FrameWithIndex
  <2>10. TypeOK'
    BY <2>2, <2>7, <2>8, <2>9 DEF IInv, TypeOK
  <2>11. SlicesInv'
    BY <2>1, <2>2, <2>9, TypeFacts DEF IInv, SlicesInv, SliceOK
  <2> QED
    BY <2>2, <2>10, <2>11 DEF IInv, FieldInv, InBounds
<1> QED
  BY <1>1, <1>2

\* An embedded message is decoded from a slice of the buffer.
LEMMA MessageFieldKeepsInv ==
    ASSUME IInv, MessageField
    PROVE  IInv'
<1>1. CASE ExtentRefused
  BY <1>1, FailKeepsInv DEF MessageField
<1>2. CASE ~ ExtentRefused
  <2>1. frame.fn = "unmarshal"
        /\ Call("unmarshal", Fields[frame.field], frame.iNdEx, postIndex, postIndex)
    BY <1>2 DEF MessageField, InUnmarshal
  <2>2. Fields[frame.field] \in DOMAIN Schema
    BY TypeFacts, WireAssumption DEF IInv, FieldInv, MessageField, InUnmarshal, Fields
  <2> QED
    BY <1>2, <2>1, <2>2, ExtentFacts, TypeFacts, CallKeepsInv
<1> QED
  BY <1>1, <1>2

\* Unmarshal returns with its index at the end, never past it.
LEMMA EndOfMessageKeepsInv ==
    ASSUME IInv, EndOfMessage
    PROVE  IInv'
<1>1. frame.iNdEx <= frame.l
  BY DEF EndOfMessage, InUnmarshal, IInv, SlicesInv, SliceOK
<1>2. ~ frame.iNdEx > frame.l
  BY <1>1, TypeFacts
<1>3. CASE callers = <<>>
  <2>1. pc' = "ok" /\ UNCHANGED <<dAtA, m, frame, callers, word, place>>
    BY <1>2, <1>3 DEF EndOfMessage, Goto
  <2> QED
    BY <2>1 DEF IInv, TypeOK, SlicesInv, SliceOK, FieldInv, InBounds
<1>4. CASE callers # <<>>
  <2>1. /\ frame' = Caller /\ callers' = OtherCallers /\ pc' = "loop"
        /\ UNCHANGED <<dAtA, m, word, place>>
    BY <1>2, <1>4 DEF EndOfMessage, Goto
  <2>2. TypeOK'
    BY <1>4, <2>1, CallerFacts DEF IInv, TypeOK
  <2>3. SlicesInv'
    BY <1>4, <2>1, CallerFacts DEF IInv, SlicesInv, SliceOK
  <2> QED
    BY <2>1, <2>2, <2>3 DEF IInv, FieldInv, InBounds
<1> QED
  BY <1>3, <1>4

-----------------------------------------------------------------------------
(***************************************************************************)
(* skip.                                                                   *)
(***************************************************************************)
\* The caller checks what skip returns.
LEMMA SkipReturnKeepsInv ==
    ASSUME IInv, frame.fn = "skip", NEW skippy \in Nat, skippy < Half, SkipReturn(skippy)
    PROVE  IInv'
<1> DEFINE next == Plus(Caller.iNdEx, skippy)
<1>1. callers # <<>>
  BY DEF IInv, SlicesInv
<1>2. Caller.iNdEx \in Nat /\ Caller.iNdEx < Half /\ Caller.l \in Nat
  BY <1>1, CallerFacts DEF Frames, SliceOK
<1>3. next \in Int
  BY <1>2, TypeFacts, PlusFacts, SMTT(60) DEF Word
<1>4. CASE skippy < 0 \/ next < 0 \/ next > Caller.l
  BY <1>4, FailKeepsInv DEF SkipReturn
<1>5. CASE ~ (skippy < 0 \/ next < 0 \/ next > Caller.l)
  <2>1. /\ frame' = [Caller EXCEPT !.iNdEx = next] /\ callers' = OtherCallers
        /\ pc' = "loop" /\ UNCHANGED <<dAtA, m, word, place>>
    BY <1>5 DEF SkipReturn, Goto
  <2>2. next \in Nat /\ next <= Caller.l
    BY <1>2, <1>3, <1>5
  <2> HIDE DEF next
  <2> QED
    BY <1>1, <2>1, <2>2, ReturnKeepsInv
<1> QED
  BY <1>4, <1>5

\* The body of skip's loop ends at an index that may be past the slice.
LEMMA SkipNextKeepsInv ==
    ASSUME IInv, frame.fn = "skip",
           NEW i \in Int, i < Half, NEW d \in Nat, SkipNext(i, d)
    PROVE  IInv'
<1>1. CASE i < 0
  BY <1>1, FailKeepsInv DEF SkipNext
<1>2. CASE ~ (i < 0) /\ d = 0
  BY <1>2, SkipReturnKeepsInv DEF SkipNext
<1>3. CASE ~ (i < 0) /\ d # 0
  <2>1. /\ frame' = [frame EXCEPT !.iNdEx = i, !.depth = d] /\ pc' = "loop"
        /\ UNCHANGED <<dAtA, m, callers, word, place>>
    BY <1>3 DEF SkipNext, Goto
  <2>2. i \in Nat
    BY <1>3
  <2>3. /\ frame' \in Frames /\ frame'.iNdEx = i /\ frame'.base = frame.base
        /\ frame'.l = frame.l /\ frame'.preIndex = frame.preIndex /\ frame'.fn = frame.fn
    BY <2>1, <2>2, TypeFacts DEF Frames
  <2>4. TypeOK'
    BY <2>1, <2>3 DEF IInv, TypeOK
  <2>5. SlicesInv'
    BY <2>1, <2>3 DEF IInv, SlicesInv, SliceOK
  <2> QED
    BY <2>1, <2>4, <2>5 DEF IInv, FieldInv, InBounds
<1> QED
  BY <1>1, <1>2, <1>3

\* Every step of skip.
LEMMA SkipKeepsInv ==
    ASSUME IInv, skip
    PROVE  IInv'
<1>1. frame.iNdEx < Half
  BY DEF IInv, SlicesInv, SliceOK
<1>2. CASE SkipStartVarint
  <2>1. /\ pc' \in {"value", "length"} /\ word' = 0 /\ place' = 1 /\ frame.fn = "skip"
        /\ UNCHANGED <<dAtA, m, frame, callers>>
    BY <1>2 DEF SkipStartVarint, ReadVarint, InSkip
  <2> QED
    BY <2>1, WireAssumption
    DEF IInv, TypeOK, SlicesInv, SliceOK, FieldInv, InBounds, Reading, Word
<1>3. CASE SkipVarint
  BY <1>1, <1>3, TypeFacts, SkipNextKeepsInv DEF SkipVarint, InSkip
<1>4. CASE SkipFixed
  <2> DEFINE width == IF wireType = 1 THEN 8 ELSE 4
  <2>1. frame.fn = "skip" /\ SkipNext(Plus(frame.iNdEx, width), frame.depth)
    BY <1>4 DEF SkipFixed, InSkip
  <2>2. Plus(frame.iNdEx, width) \in Int /\ Plus(frame.iNdEx, width) < Half
    <3>1. width \in Nat
      OBVIOUS
    <3> HIDE DEF width
    <3>2. (frame.iNdEx + width) % Word \in 0 .. Word - 1
      BY <3>1, TypeFacts, SMTT(60) DEF Word
    <3> QED
      BY <3>2, AsIntFacts DEF Plus
  <2> HIDE DEF width
  <2> QED
    BY <2>1, <2>2, TypeFacts, SkipNextKeepsInv
<1>5. CASE SkipBytes
  <2>1. CASE AsInt(word) < 0
    BY <1>5, <2>1, FailKeepsInv DEF SkipBytes
  <2>2. CASE ~ (AsInt(word) < 0)
    <3>1. frame.fn = "skip" /\ SkipNext(postIndex, frame.depth)
      BY <1>5, <2>2 DEF SkipBytes, InSkip
    <3>2. AsInt(word) \in Nat /\ AsInt(word) < Half
      BY <2>2, TypeFacts, AsIntFacts
    <3>3. AsInt(word) < Word
      BY <3>2, TypeFacts DEF Word
    <3>4. postIndex \in Int /\ postIndex < Half
      BY <1>1, <3>2, <3>3, TypeFacts, PlusFacts DEF postIndex
    <3> QED
      BY <3>1, <3>4, TypeFacts, SkipNextKeepsInv
  <2> QED
    BY <2>1, <2>2
<1>6. CASE SkipGroup
  <2>1. PICK d \in Nat : frame.fn = "skip" /\ SkipNext(frame.iNdEx, d)
    BY <1>6, TypeFacts DEF SkipGroup, InSkip
  <2> QED
    BY <1>1, <2>1, TypeFacts, SkipNextKeepsInv
<1>7. CASE SkipIllegal
  BY <1>7, FailKeepsInv DEF SkipIllegal
<1>8. CASE SkipRunsOut
  BY <1>8, FailKeepsInv DEF SkipRunsOut
<1> QED
  BY <1>2, <1>3, <1>4, <1>5, <1>6, <1>7, <1>8 DEF skip

-----------------------------------------------------------------------------
(***************************************************************************)
(* The invariant holds in every reachable state.                           *)
(***************************************************************************)
\* A buffer whose length is an int, and nothing decoded yet.
LEMMA InitInv == Init => IInv
<1> SUFFICES ASSUME Init PROVE IInv
  OBVIOUS
<1>1. PICK type \in Roots, data \in Inputs :
        dAtA = data /\ frame = NewFrame("unmarshal", type, 0, Len(data))
  BY DEF Init
<1>2. /\ dAtA \in Seq(Byte) /\ Len(dAtA) < Half /\ Len(dAtA) \in Nat
      /\ type \in DOMAIN Schema
  BY <1>1, WireAssumption, LenProperties
<1>3. /\ frame \in Frames /\ frame.base = 0 /\ frame.l = Len(dAtA)
      /\ frame.iNdEx = 0 /\ frame.preIndex = 0 /\ frame.fn = "unmarshal"
  BY <1>1, <1>2 DEF NewFrame, Frames
<1>4. DOMAIN m = ScalarFields /\ \A f \in ScalarFields :
        m[f] \in (IF Schema[f[1]][f[2]] = "varint" THEN 0 .. Word - 1 ELSE Seq(Byte))
  <2>1. m = [f \in ScalarFields |-> IF Schema[f[1]][f[2]] = "varint" THEN 0 ELSE <<>>]
    BY DEF Init, Zero
  <2>2. 0 \in 0 .. Word - 1 /\ <<>> \in Seq(Byte)
    BY WireAssumption, EmptySeq DEF Word
  <2> QED
    BY <2>1, <2>2
<1>5. callers = <<>> /\ callers \in Seq(Frames) /\ Len(callers) = 0
  BY EmptySeq DEF Init
<1>6. TypeOK
  BY <1>2, <1>3, <1>4, <1>5, WireAssumption DEF Init, TypeOK, Word
<1>7. SlicesInv
  BY <1>2, <1>3, <1>5, WireAssumption DEF SlicesInv, SliceOK
<1> QED
  BY <1>6, <1>7 DEF IInv, FieldInv, InBounds, Init

\* Every step keeps it.
LEMMA StepInv == IInv /\ [Next]_vars => IInv'
<1> SUFFICES ASSUME IInv, [Next]_vars PROVE IInv'
  OBVIOUS
<1>1. CASE UNCHANGED vars
  BY <1>1 DEF vars, IInv, TypeOK, SlicesInv, SliceOK, FieldInv, InBounds, Fields
<1>2. CASE IllegalTag
  BY <1>2, FailKeepsInv DEF IllegalTag
<1>3. CASE Unmarshal
  BY <1>2, <1>3, NextFieldKeepsInv, VarintByteKeepsInv, KnownFieldKeepsInv,
     UnknownFieldKeepsInv, StoreVarintKeepsInv, StringFieldKeepsInv,
     MessageFieldKeepsInv, EndOfMessageKeepsInv DEF Unmarshal
<1>4. CASE skip
  BY <1>4, SkipKeepsInv
<1> QED
  BY <1>1, <1>3, <1>4 DEF Next

\* Whatever the bytes, the width of integers and the message: every decoded
\* field has a value of its type.
THEOREM DecodedTypes == Spec => []TypeOK
<1>1. IInv => TypeOK
  BY DEF IInv
<1> QED
  BY <1>1, InitInv, StepInv, PTL DEF Spec

\* Whatever the bytes, the width of integers and the message: no Unmarshal or
\* skip of x/distro/types leaves the slice it works on.
THEOREM DecodingStaysInBounds == Spec => []InBounds
<1>1. IInv => InBounds
  BY DEF IInv
<1> QED
  BY <1>1, InitInv, StepInv, PTL DEF Spec

=============================================================================
