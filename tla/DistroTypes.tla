----------------------------- MODULE DistroTypes -----------------------------
(***************************************************************************)
(* The protobuf messages of x/distro/types: their fields, their Size and   *)
(* Marshal methods, and a round trip through the Unmarshal methods of      *)
(* ProtoUnmarshal.  Marshal asks Size for the length of the buffer, fills  *)
(* the buffer from its end and returns as many bytes from its start as it  *)
(* wrote, so the two methods must agree to the byte.                       *)
(*                                                                         *)
(* m[type, n] is field n of the message of that type; no message holds two *)
(* messages of one type.                                                   *)
(***************************************************************************)
EXTENDS ProtoUnmarshal

CONSTANTS
    Messages,   \* pairs of a message type and a value to encode
    None        \* for bytes that are nobody's encoding

VARIABLE want   \* the message dAtA is the encoding of

codecVars == <<vars, want>>

-----------------------------------------------------------------------------
(***************************************************************************)
(* The cases of the switch in every Unmarshal.                             *)
(***************************************************************************)
Params == <<"string", "string", "string", "varint", "string", "varint">>

MsgUpdateParams == <<"string", "Params">>

MsgUpdateParamsResponse == <<>>

MsgMint == <<"varint", "string">>

MsgMintResponse == <<>>

GenesisState == <<"Params">>

QueryParamsRequest == <<>>

QueryParamsResponse == <<"Params">>

Module == <<"string">>

DistroSchema ==
    [Params                  |-> Params,
     MsgUpdateParams         |-> MsgUpdateParams,
     MsgUpdateParamsResponse |-> MsgUpdateParamsResponse,
     MsgMint                 |-> MsgMint,
     MsgMintResponse         |-> MsgMintResponse,
     GenesisState            |-> GenesisState,
     QueryParamsRequest      |-> QueryParamsRequest,
     QueryParamsResponse     |-> QueryParamsResponse,
     Module                  |-> Module]

-----------------------------------------------------------------------------
(***************************************************************************)
(* Varints.                                                                *)
(***************************************************************************)
\* math/bits.Len64.
Len64(x) == CHOOSE n \in 0 .. 31 : x < 2 ^ n /\ \A k \in 0 .. n - 1 : x >= 2 ^ k

\* x | 1 is x made odd.
sov(x) == (Len64(x + 1 - (x % 2)) + 6) \div 7

\* How often the loop of encodeVarint turns: as long as v >= 1<<7.
Turns(v) == CHOOSE k \in 0 .. 4 : v < Group ^ (k + 1) /\ \A j \in 1 .. k : v >= Group ^ j

\* The bytes it writes: seven bits each, all but the last with the flag.
VarintBytes(v) ==
    [i \in 1 .. Turns(v) + 1 |->
        ((v \div Group ^ (i - 1)) % Group) + (IF i <= Turns(v) THEN Group ELSE 0)]

Zeros(n) == [i \in 1 .. n |-> 0]

\* Room for sov(v) bytes is made before what is written already, and the
\* loop writes forwards into it.
encodeVarint(rest, v) ==
    VarintBytes(v) \o SubSeq(Zeros(sov(v)), Turns(v) + 2, sov(v)) \o rest

-----------------------------------------------------------------------------
(***************************************************************************)
(* MarshalToSizedBuffer: what is in the buffer from index i on.  A field   *)
(* with its zero value is left out, an embedded message never is.          *)
(***************************************************************************)
PutVarint(tag, v, rest) == IF v = 0 THEN rest ELSE <<tag>> \o encodeVarint(rest, v)

PutMessage(tag, bytes, rest) == <<tag>> \o encodeVarint(bytes \o rest, Len(bytes))

PutString(tag, v, rest) == IF v = <<>> THEN rest ELSE PutMessage(tag, v, rest)

MarshalParams(v) ==
    PutString(\h0a, v["Params", 1],
    PutString(\h12, v["Params", 2],
    PutString(\h1a, v["Params", 3],
    PutVarint(\h20, v["Params", 4],
    PutString(\h2a, v["Params", 5],
    PutVarint(\h30, v["Params", 6], <<>>))))))

MarshalMsgUpdateParams(v) ==
    PutString(\h0a, v["MsgUpdateParams", 1], PutMessage(\h12, MarshalParams(v), <<>>))

MarshalMsgUpdateParamsResponse(v) == <<>>

MarshalMsgMint(v) ==
    PutVarint(\h08, v["MsgMint", 1], PutString(\h12, v["MsgMint", 2], <<>>))

MarshalMsgMintResponse(v) == <<>>

MarshalGenesisState(v) == PutMessage(\h0a, MarshalParams(v), <<>>)

MarshalQueryParamsRequest(v) == <<>>

MarshalQueryParamsResponse(v) == PutMessage(\h0a, MarshalParams(v), <<>>)

MarshalModule(v) == PutString(\h0a, v["Module", 1], <<>>)

-----------------------------------------------------------------------------
(***************************************************************************)
(* Size.                                                                   *)
(***************************************************************************)
\* Bug: a zero, which is not written, is counted.
SizeVarint_zeroToo(v) == 1 + sov(v)

SizeVarint(v) == IF v = 0 THEN 0 ELSE 1 + sov(v)

SizeMessage(l) == 1 + l + sov(l)

SizeString(v) == IF Len(v) = 0 THEN 0 ELSE SizeMessage(Len(v))

SizeParams(v) ==
    SizeString(v["Params", 1]) + SizeString(v["Params", 2]) + SizeString(v["Params", 3])
    + SizeVarint(v["Params", 4]) + SizeString(v["Params", 5]) + SizeVarint(v["Params", 6])

SizeMsgUpdateParams(v) ==
    SizeString(v["MsgUpdateParams", 1]) + SizeMessage(SizeParams(v))

SizeMsgUpdateParamsResponse(v) == 0

SizeMsgMint(v) == SizeVarint(v["MsgMint", 1]) + SizeString(v["MsgMint", 2])

SizeMsgMintResponse(v) == 0

SizeGenesisState(v) == SizeMessage(SizeParams(v))

SizeQueryParamsRequest(v) == 0

SizeQueryParamsResponse(v) == SizeMessage(SizeParams(v))

SizeModule(v) == SizeString(v["Module", 1])

-----------------------------------------------------------------------------
(***************************************************************************)
(* Marshal.                                                                *)
(***************************************************************************)
Written(type, v) ==
    CASE type = "Params" -> MarshalParams(v)
      [] type = "MsgUpdateParams" -> MarshalMsgUpdateParams(v)
      [] type = "MsgUpdateParamsResponse" -> MarshalMsgUpdateParamsResponse(v)
      [] type = "MsgMint" -> MarshalMsgMint(v)
      [] type = "MsgMintResponse" -> MarshalMsgMintResponse(v)
      [] type = "GenesisState" -> MarshalGenesisState(v)
      [] type = "QueryParamsRequest" -> MarshalQueryParamsRequest(v)
      [] type = "QueryParamsResponse" -> MarshalQueryParamsResponse(v)
      [] type = "Module" -> MarshalModule(v)

Size(type, v) ==
    CASE type = "Params" -> SizeParams(v)
      [] type = "MsgUpdateParams" -> SizeMsgUpdateParams(v)
      [] type = "MsgUpdateParamsResponse" -> SizeMsgUpdateParamsResponse(v)
      [] type = "MsgMint" -> SizeMsgMint(v)
      [] type = "MsgMintResponse" -> SizeMsgMintResponse(v)
      [] type = "GenesisState" -> SizeGenesisState(v)
      [] type = "QueryParamsRequest" -> SizeQueryParamsRequest(v)
      [] type = "QueryParamsResponse" -> SizeQueryParamsResponse(v)
      [] type = "Module" -> SizeModule(v)

\* dAtA[:n] of a buffer of size bytes, the last n of which are the written.
Marshal(size, written) ==
    SubSeq(Zeros(size - Len(written)) \o written, 1, Len(written))

\* A message is encoded and decoded again: one that somebody's bytes were
\* decoded to, or one the program has built.  What does not fit into the
\* buffer has an index below zero.
Store ==
    LET written == Written(frame.msg, m)
        size    == Size(frame.msg, m)
    IN  /\ pc = "ok" /\ want = None
        /\ want' = m /\ m' = Zero
        /\ dAtA' = Marshal(size, written)
        /\ frame' = NewFrame("unmarshal", frame.msg, 0, Len(written))
        /\ pc' = IF Len(written) <= size THEN "loop" ELSE "outside"
        /\ UNCHANGED <<callers, word, place>>

CodecInit ==
    /\ want = None
    /\ \/ Init
       \/ /\ \E msg \in Messages : frame = NewFrame("unmarshal", msg[1], 0, 0) /\ m = msg[2]
          /\ dAtA = <<>> /\ callers = <<>>
          /\ pc = "ok" /\ word = 0 /\ place = 1

CodecNext == (Next /\ UNCHANGED want) \/ Store

\* A call runs to its end.
CodecSpec == CodecInit /\ [][CodecNext]_codecVars /\ WF_codecVars(CodecNext)

-----------------------------------------------------------------------------
(***************************************************************************)
(* Properties.                                                             *)
(***************************************************************************)
\* What Marshal writes is accepted by Unmarshal and is the same message
\* again, for every message and for what was decoded from any bytes: omitted
\* zero values, repeated fields, unknown fields, varints longer than
\* necessary.  Size and Marshal must agree to the byte for that.
RoundTrip ==
    /\ pc = "ok" /\ want # None => m = want
    /\ pc = "error" => want = None

\* Every buffer is accepted or refused after finitely many steps: no field,
\* no group and no unknown field leaves the loop where it was.
Decided == <>[](pc \in {"ok", "error"})

=============================================================================
