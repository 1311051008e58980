---------------------------- MODULE MCProtoCodec -----------------------------
EXTENDS ProtoCodec

\* string values: empty (not written), one byte, and 130 bytes, whose
\* length needs a two-byte varint
MCStrings == {<<>>, <<97>>, [k \in 1..130 |-> 97]}

\* marshalled sdk.Int values "0" and "10"
MCPayloads == {<<48>>, <<49, 48>>}

\* keys of fields 1-4 and 5 (unknown to every type) under several wire
\* types, continuation bytes, and a length byte that makes a two-byte
\* varint run to the top of int
MCFuzzBytes == {0, 1, 10, 11, 12, 18, 26, 33, 45, 47, 127, 128, 255}

\* fields 5, 6 and 31 (the largest valid field number at the scaled int32
\* width, as 2^29 - 1 is at 32 bits): a varint of one and of two bytes, a fixed64, a
\* length-delimited field, a fixed32, an empty group and a group holding a
\* varint
MCUnknownFields ==
    {<<40, 1>>, <<40, 128, 1>>, <<41, 1, 2, 3, 4, 5, 6, 7, 8>>, <<42, 2, 7, 7>>,
     <<45, 1, 2, 3, 4>>, <<51, 52>>, <<51, 40, 1, 52>>, <<248, 1, 0>>}
=============================================================================
