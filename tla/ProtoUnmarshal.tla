--------------------------- MODULE ProtoUnmarshal ---------------------------
(***************************************************************************)
(* The Unmarshal methods and skip functions that the protobuf compiler     *)
(* generated for x/distro/types.  They differ from message to message only *)
(* in the cases of one switch, which is the table Schema, and run on bytes *)
(* anybody may send.                                                       *)
(*                                                                         *)
(* Every call works on a slice of its caller's buffer with an index of its *)
(* own.  An index or slice expression that would leave the slice does not  *)
(* happen in the model; pc says that it was evaluated.                     *)
(*                                                                         *)
(* Integers have 2 * Half values, as 64 bits have twice 2^63.  A shift is  *)
(* kept as the number it multiplies by: shift >= 64 is place >= Word.      *)
(***************************************************************************)
EXTENDS Integers, Sequences

CONSTANTS
    Half,       \* 2^63
    Group,      \* 2^7: a byte holds seven bits of a varint and a flag
    FieldHalf,  \* 2^31, for the conversion of field numbers to int32
    Schema,     \* message type -> field number -> "varint", "string" or a type
    Inputs,     \* buffers to decode
    Roots       \* message types they are decoded as

Word == 2 * Half

Byte == 0 .. 2 * Group - 1

\* The fields that hold a value and not a message.
ScalarFields ==
    {f \in (DOMAIN Schema) \X (1 .. FieldHalf - 1) :
        f[2] \in DOMAIN Schema[f[1]] /\ Schema[f[1]][f[2]] \in {"varint", "string"}}

\* A slice has a length an int can hold.
ASSUME WireAssumption ==
    /\ Half \in Nat \ {0} /\ Group \in Nat \ {0} /\ FieldHalf \in Nat \ {0}
    /\ Inputs \subseteq Seq(Byte)
    /\ \A d \in Inputs : Len(d) < Half
    /\ Roots \subseteq DOMAIN Schema
    /\ \A type \in DOMAIN Schema : \A n \in DOMAIN Schema[type] :
        Schema[type][n] \in {"varint", "string"} \cup DOMAIN Schema

VARIABLES
    dAtA,     \* the buffer of the outermost call
    m,        \* the message: the value of every field decoded so far
    frame,    \* the running call: its slice, its index, its locals
    callers,  \* the calls that wait for it
    pc,
    word,     \* the varint that is being read
    place     \* what its next seven bits count

vars == <<dAtA, m, frame, callers, pc, word, place>>

-----------------------------------------------------------------------------
(***************************************************************************)
(* Conversions and sums of Go's int, which wrap around.                    *)
(***************************************************************************)
AsInt(x) == IF x < Half THEN x ELSE x - Word

Plus(a, b) == AsInt((a + b) % Word)

fieldNum == LET n == (word \div 8) % (2 * FieldHalf)
            IN  IF n < FieldHalf THEN n ELSE n - 2 * FieldHalf

wireType == word % 8

Fields == Schema[frame.msg]

-----------------------------------------------------------------------------
(***************************************************************************)
(* Control.                                                                *)
(***************************************************************************)
NewFrame(fn, type, base, l) ==
    [fn |-> fn, msg |-> type, base |-> base, l |-> l,
     iNdEx |-> 0, preIndex |-> 0, field |-> 0, depth |-> 0]

\* Every error ends all calls: callers pass it on.
Fail ==
    /\ pc' = "error"
    /\ UNCHANGED <<dAtA, m, frame, callers, word, place>>

LeavesSlice ==
    /\ pc' = "outside"
    /\ UNCHANGED <<dAtA, m, frame, callers, word, place>>

ReadVarint(what) == pc' = what /\ word' = 0 /\ place' = 1

Goto(where) == pc' = where /\ UNCHANGED <<word, place>>

\* A call of fn on dAtA[from:to]; the caller goes on at index resume.
Call(fn, type, from, to, resume) ==
    IF 0 <= from /\ from <= to /\ to <= frame.l
    THEN /\ frame' = NewFrame(fn, type, frame.base + from, to - from)
         /\ callers' = Append(callers, [frame EXCEPT !.iNdEx = resume])
         /\ Goto("loop") /\ UNCHANGED <<dAtA, m>>
    ELSE LeavesSlice

\* The caller of the running call, and what is left of the callers without it.
Caller == callers[Len(callers)]

OtherCallers == SubSeq(callers, 1, Len(callers) - 1)

-----------------------------------------------------------------------------
(***************************************************************************)
(* Unmarshal and skip alike: the loop over the fields, and the loop over   *)
(* the bytes of a varint.                                                  *)
(***************************************************************************)
NextField ==
    /\ pc = "loop" /\ frame.iNdEx < frame.l
    /\ frame' = [frame EXCEPT !.preIndex = frame.iNdEx]
    /\ ReadVarint("tag")
    /\ UNCHANGED <<dAtA, m, callers>>

Reading == {"tag", "length", "value"}

AfterVarint == [what \in Reading |->
    CASE what = "tag" -> "switch" [] what = "length" -> "extent" [] what = "value" -> "store"]

VarintByte ==
    /\ pc \in Reading
    /\ IF place >= Word \/ frame.iNdEx >= frame.l
       THEN Fail
       ELSE IF frame.iNdEx \notin 0 .. frame.l - 1
       THEN LeavesSlice
       ELSE LET b == dAtA[frame.base + frame.iNdEx + 1]
            IN  /\ frame' = [frame EXCEPT !.iNdEx = @ + 1]
                /\ word' = (word + ((b % Group) * place)) % Word
                /\ place' = place * Group
                /\ pc' = IF b < Group THEN AfterVarint[pc] ELSE pc
                /\ UNCHANGED <<dAtA, m, callers>>

-----------------------------------------------------------------------------
(***************************************************************************)
(* Unmarshal.                                                              *)
(***************************************************************************)
InUnmarshal(where) == pc = where /\ frame.fn = "unmarshal"

IllegalTag ==
    /\ InUnmarshal("switch")
    /\ wireType = 4 \/ fieldNum <= 0
    /\ Fail

\* A field the message has.
KnownField ==
    /\ InUnmarshal("switch")
    /\ wireType # 4 /\ fieldNum > 0 /\ fieldNum \in DOMAIN Fields
    /\ IF wireType = (IF Fields[fieldNum] = "varint" THEN 0 ELSE 2)
       THEN /\ frame' = [frame EXCEPT !.field = fieldNum]
            /\ ReadVarint(IF Fields[fieldNum] = "varint" THEN "value" ELSE "length")
            /\ UNCHANGED <<dAtA, m, callers>>
       ELSE Fail

\* A field it does not have: skip is called on everything from its tag on.
UnknownField ==
    /\ InUnmarshal("switch")
    /\ wireType # 4 /\ fieldNum > 0 /\ fieldNum \notin DOMAIN Fields
    /\ Call("skip", frame.msg, frame.preIndex, frame.l, frame.preIndex)

StoreVarint ==
    /\ InUnmarshal("store")
    /\ m' = [m EXCEPT ![<<frame.msg, frame.field>>] = word]
    /\ Goto("loop")
    /\ UNCHANGED <<dAtA, frame, callers>>

postIndex == Plus(frame.iNdEx, AsInt(word))

\* Bug: the sum of the index and the length is not checked for wrap-around.
ExtentRefused_noWrapCheck == AsInt(word) < 0 \/ postIndex > frame.l

ExtentRefused == AsInt(word) < 0 \/ postIndex < 0 \/ postIndex > frame.l

StringField ==
    /\ InUnmarshal("extent") /\ Fields[frame.field] = "string"
    /\ IF ExtentRefused
       THEN Fail
       ELSE IF ~ (0 <= frame.iNdEx /\ frame.iNdEx <= postIndex /\ postIndex <= frame.l)
       THEN LeavesSlice
       ELSE /\ m' = [m EXCEPT ![<<frame.msg, frame.field>>] =
                        SubSeq(dAtA, frame.base + frame.iNdEx + 1, frame.base + postIndex)]
            /\ frame' = [frame EXCEPT !.iNdEx = postIndex]
            /\ Goto("loop")
            /\ UNCHANGED <<dAtA, callers>>

\* The Unmarshal of the embedded message runs on the field's bytes and adds
\* to what an earlier occurrence of the field has left.
MessageField ==
    /\ InUnmarshal("extent") /\ Fields[frame.field] # "string"
    /\ IF ExtentRefused
       THEN Fail
       ELSE Call("unmarshal", Fields[frame.field], frame.iNdEx, postIndex, postIndex)

EndOfMessage ==
    /\ InUnmarshal("loop") /\ frame.iNdEx >= frame.l
    /\ IF frame.iNdEx > frame.l THEN Fail
       ELSE IF callers = <<>>
       THEN Goto("ok") /\ UNCHANGED <<dAtA, m, frame, callers>>
       ELSE /\ frame' = Caller /\ callers' = OtherCallers
            /\ Goto("loop") /\ UNCHANGED <<dAtA, m>>

-----------------------------------------------------------------------------
(***************************************************************************)
(* skip: one field, or a group with all it contains.                       *)
(***************************************************************************)
InSkip(where) == pc = where /\ frame.fn = "skip"

\* Bug: the index goes back to the tag, and not past the field.
SkipReturn_noProgress(skippy) ==
    LET next == Plus(Caller.iNdEx, skippy)
    IN  IF skippy < 0 \/ next < 0 \/ next > Caller.l
        THEN Fail
        ELSE /\ frame' = Caller /\ callers' = OtherCallers
             /\ Goto("loop") /\ UNCHANGED <<dAtA, m>>

\* Back in Unmarshal with the number of bytes to skip.
SkipReturn(skippy) ==
    LET next == Plus(Caller.iNdEx, skippy)
    IN  IF skippy < 0 \/ next < 0 \/ next > Caller.l
        THEN Fail
        ELSE /\ frame' = [Caller EXCEPT !.iNdEx = next]
             /\ callers' = OtherCallers
             /\ Goto("loop") /\ UNCHANGED <<dAtA, m>>

\* The end of the loop's body, at index i and depth d.
SkipNext(i, d) ==
    IF i < 0 THEN Fail
    ELSE IF d = 0 THEN SkipReturn(i)
    ELSE /\ frame' = [frame EXCEPT !.iNdEx = i, !.depth = d]
         /\ Goto("loop") /\ UNCHANGED <<dAtA, m, callers>>

SkipStartVarint ==
    /\ InSkip("switch") /\ wireType \in {0, 2}
    /\ ReadVarint(IF wireType = 0 THEN "value" ELSE "length")
    /\ UNCHANGED <<dAtA, m, frame, callers>>

SkipVarint == InSkip("store") /\ SkipNext(frame.iNdEx, frame.depth)

SkipFixed ==
    /\ InSkip("switch") /\ wireType \in {1, 5}
    /\ SkipNext(Plus(frame.iNdEx, IF wireType = 1 THEN 8 ELSE 4), frame.depth)

SkipBytes ==
    /\ InSkip("extent")
    /\ IF AsInt(word) < 0 THEN Fail ELSE SkipNext(postIndex, frame.depth)

SkipGroup ==
    /\ InSkip("switch")
    /\ \/ wireType = 3 /\ SkipNext(frame.iNdEx, frame.depth + 1)
       \/ wireType = 4 /\ frame.depth > 0 /\ SkipNext(frame.iNdEx, frame.depth - 1)

SkipIllegal ==
    /\ InSkip("switch")
    /\ wireType \in {6, 7} \/ (wireType = 4 /\ frame.depth = 0)
    /\ Fail

SkipRunsOut == InSkip("loop") /\ frame.iNdEx >= frame.l /\ Fail

-----------------------------------------------------------------------------
(***************************************************************************)
(* The specification: a new message, and Unmarshal called on it.           *)
(***************************************************************************)
Zero == [f \in ScalarFields |-> IF Schema[f[1]][f[2]] = "varint" THEN 0 ELSE <<>>]

Init ==
    /\ \E type \in Roots, data \in Inputs :
        /\ dAtA = data
        /\ frame = NewFrame("unmarshal", type, 0, Len(data))
    /\ m = Zero
    /\ callers = <<>>
    /\ pc = "loop" /\ word = 0 /\ place = 1

Unmarshal ==
    \/ NextField \/ VarintByte
    \/ IllegalTag \/ KnownField \/ UnknownField
    \/ StoreVarint \/ StringField \/ MessageField \/ EndOfMessage

skip ==
    \/ SkipStartVarint \/ SkipVarint \/ SkipFixed \/ SkipBytes
    \/ SkipGroup \/ SkipIllegal \/ SkipRunsOut

Next == Unmarshal \/ skip

Spec == Init /\ [][Next]_vars

-----------------------------------------------------------------------------
Frames ==
    [fn : {"unmarshal", "skip"}, msg : DOMAIN Schema, base : Nat, l : Nat,
     iNdEx : Nat, preIndex : Nat, field : Nat, depth : Nat]

\* Every decoded field has a value of its type, whatever the bytes.
TypeOK ==
    /\ dAtA \in Seq(Byte)
    /\ DOMAIN m = ScalarFields
    /\ \A f \in ScalarFields :
        m[f] \in (IF Schema[f[1]][f[2]] = "varint" THEN 0 .. Word - 1 ELSE Seq(Byte))
    /\ frame \in Frames
    /\ callers \in Seq(Frames)
    /\ pc \in Reading \cup {"loop", "switch", "extent", "store", "ok", "error", "outside"}
    /\ word \in 0 .. Word - 1
    /\ place \in Nat

\* No Unmarshal or skip evaluates an index or slice expression that leaves
\* the slice it was given, whatever the bytes: an embedded message is not
\* read past the length it was announced with, a group not past the message
\* it is in, and no wrapped sum gets past the checks.
InBounds == pc # "outside"

=============================================================================
