---------------------------- MODULE FixtureTypes --------------------------
(***************************************************************************)
(* The structs the generator is tested with, sszgen/testcases/*.go and     *)
(* tests/codetrie.go, as their generated methods treat them.  Case4, whose *)
(* fields have stub methods of another package, is left out.               *)
(***************************************************************************)
EXTENDS SSZTypes

Case1A == Struct(4, <<ByteList(2048)>>)
Case1B == Struct(4, <<ByteList(32)>>)
Case2A == Struct(8, <<Uint(8)>>)
Case2B == Struct(16, <<Uint(8), Uint(8)>>)
Case3B == Struct(0, <<>>)
Case3A == Struct(0, <<Val(Case3B), Case3B, Val(Case3B), Case3B>>)
Case5A == Struct(12, <<
    Vector(ByteVector(2), 2), Vector(ByteVector(2), 2),
    Vector(ByteVector(2), 2)>>)
Case6 == Struct(32, <<ByteArray(32)>>)
Case7 == Struct(4, <<List(ByteVector(48), 16)>>)
Vec == Struct(48, <<Vector(Uint(8), 6)>>)
Vec2 == Struct(4, <<List(Uint(4), 100)>>)
Obj2 == Struct(4, <<List(ByteList(256), 1024)>>)
Issue136 == Struct(0, <<Val(Case3B)>>)
Issue153 == Struct(128, <<ByteArray(32), ByteArray(48), ByteArray(48)>>)
Issue156 == Struct(128, <<
    ByteArray(32), ByteArray(32), ByteArray(32), ByteVector(32)>>)
BytesWrapper == Struct(48, <<ByteVector(48)>>)
ListC == Struct(4, <<List(Val(BytesWrapper), 32)>>)
ListP == Struct(4, <<List(BytesWrapper, 32)>>)
PR1512 == Struct(4, <<List(ByteArray(48), 32)>>)
TimeType == Struct(16, <<Time, Uint(8)>>)
TimeRawType == Struct(16, <<Uint(8), Uint(8)>>)
Uints == Struct(15, <<Uint(1), Uint(2), Uint(4), Uint(8)>>)
Metadata == Struct(35, <<Uint(1), ByteVector(32), Uint(2)>>)
Chunk == Struct(33, <<Uint(1), ByteVector(32)>>)
CodeTrieSmall == Struct(39, <<Metadata, List(Chunk, 4)>>)
CodeTrieBig == Struct(39, <<Metadata, List(Chunk, 1024)>>)

Fixtures == [
    Case1A |-> Case1A, Case1B |-> Case1B, Case2A |-> Case2A,
    Case2B |-> Case2B, Case3B |-> Case3B, Case3A |-> Case3A,
    Case5A |-> Case5A, Case6 |-> Case6, Case7 |-> Case7, Vec |-> Vec,
    Vec2 |-> Vec2, Obj2 |-> Obj2, Issue136 |-> Issue136,
    Issue153 |-> Issue153, Issue156 |-> Issue156,
    BytesWrapper |-> BytesWrapper, ListC |-> ListC, ListP |-> ListP,
    PR1512 |-> PR1512, TimeType |-> TimeType, TimeRawType |-> TimeRawType,
    Uints |-> Uints, Metadata |-> Metadata, Chunk |-> Chunk,
    CodeTrieSmall |-> CodeTrieSmall, CodeTrieBig |-> CodeTrieBig]
===========================================================================
