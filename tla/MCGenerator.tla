---------------------------- MODULE MCGenerator ---------------------------
(* Packages of one to three files for the generator: what the test cases   *)
(* of sszgen and the specification types are made of, and what the         *)
(* generator refuses.                                                      *)
EXTENDS Declared

Id(n)      == [x |-> "ident", name |-> n]
Star(t)    == [x |-> "star", of |-> t]
Sel(p, n)  == [x |-> "sel", pack |-> p, name |-> n]
Arr(t)     == [x |-> "array", len |-> "none", num |-> 0, const |-> "", elt |-> t]
ArrN(n, t) == [Arr(t) EXCEPT !.len = "lit", !.num = n]
ArrC(c, t) == [Arr(t) EXCEPT !.len = "const", !.const = c]
ArrE(n, t) == [Arr(t) EXCEPT !.len = "expr", !.num = n]
Bytes      == Arr(Id("byte"))
U64        == Id("uint64")

P(key, items) == [key |-> key, items |-> items, plain |-> TRUE, quoted |-> TRUE]
Bare(pair)    == [pair EXCEPT !.quoted = FALSE]
Size(items)   == P(SszSize, items)
Maxi(items)   == P(SszMax, items)
Json          == P(<<"json">>, <<"x">>)
F(n, t, pairs) == [names |-> <<n>>, exported |-> TRUE, xxx |-> FALSE,
                   pairs |-> pairs, blanks |-> 1, typ |-> t]
Embed(n)       == [F("", Id(n), << >>) EXCEPT !.names = << >>]
Struct(n, fields) == [name |-> n, alias |-> FALSE, typ |-> Id(n), fields |-> fields]
Alias(n, t)       == [name |-> n, alias |-> TRUE, typ |-> t, fields |-> << >>]
Import(a, b) == [alias |-> a, dir |-> "eth", base |-> b]
None == [n \in {} |-> 0]
File(pack, imports, types) ==
    [pack |-> pack, imports |-> imports, types |-> types, methods |-> None, consts |-> None]
Pkg(files) == [files |-> files, include |-> None, targets |-> {}, excluded |-> {}, together |-> FALSE]

A(fields) == Struct("A", fields)
B(fields) == Struct("B", fields)
Two(fs, gs) == [a |-> File("p", << >>, fs), b |-> File("p", << >>, gs)]
One(types)  == [a |-> File("p", << >>, types)]

(* One field, its tag in every way that is of interest.                    *)
Root == Alias("Root", ArrN(2, Id("byte")))
Deep == {Bytes, Arr(Bytes), Arr(Id("Root")), Arr(U64), Arr(Star(Id("B"))), Sel("bf", "Bitlist"),
         Sel("bf", "Bitvector"), Arr(Arr(U64)), Arr(Id("bool")), [x |-> "other"],
         ArrN(2, Id("byte")), ArrE(2, Id("byte")), ArrC("N", Id("Root")), Id("Root"), Sel("time", "Time")}
Tags == {<<Size(<<"2">>)>>, <<Maxi(<<"4">>)>>, <<Size(<<"2", "3">>)>>,
         <<Size(<<"?", "2">>), Maxi(<<"4">>)>>, <<Maxi(<<"4", "3">>)>>,
         <<Maxi(<<"4">>), Json, Size(<<"?", "2">>)>>, <<Maxi(<<"?">>), Size(<<"?">>)>>,
         <<P(Ssz, <<"-">>), Size(<<"2">>)>>, <<Maxi(<<"4">>), P(Ssz, <<"bitlist">>)>>,
         <<Size(<<"-2">>)>>, <<Maxi(<<"-1">>)>>, <<Maxi(<<"4">>), Bare(Json)>>,
         << >>, <<Json>>}
OneField ==
    {Pkg([a |-> [File("p", << >>, <<Root, A(<<F("X", t, tag), F("Y", U64, <<Json>>)>>),
                                    B(<<F("Z", U64, << >>)>>)>>) EXCEPT !.consts = [N |-> 2]]]) :
        t \in Deep, tag \in Tags}

(* Tags that are not written the usual way.                                *)
Odd(pairs, blanks, t) ==
    Pkg(One(<<A(<<[F("X", t, pairs) EXCEPT !.blanks = blanks], F("Y", U64, << >>)>>)>>))
OddTags ==
    {Odd(<<Json, Size(<<"2">>)>>, b, Bytes) : b \in 0 .. 2} \cup
    {Odd(<<Json, P(Ssz, <<"-">>)>>, b, Bytes) : b \in 0 .. 2} \cup
    {Odd(<<[Json EXCEPT !.plain = FALSE], Maxi(<<"4">>)>>, 1, Sel("bf", "Bitlist"))}

(* Files that need each other: a chain, a diamond, embedding, a loop, an   *)
(* alias with its tags in two places, fields of several kinds.             *)
Across ==
    {Pkg(Two(<<A(<<F("X", Star(Id("B")), << >>)>>)>>, <<B(<<F("Y", U64, << >>)>>)>>)),
     Pkg([c |-> File("p", << >>, <<A(<<F("X", Star(Id("B")), << >>), F("Y", Star(Id("D")), << >>)>>)>>)]
         @@ Two(<<B(<<F("X", Star(Id("D")), << >>)>>)>>, <<Struct("D", <<F("Z", Id("bool"), << >>)>>)>>)),
     Pkg(Two(<<A(<<Embed("B"), F("X", U64, << >>)>>)>>, <<B(<<F("Y", Bytes, <<Size(<<"2">>)>>)>>)>>)),
     Pkg(Two(<<A(<<Embed("B")>>)>>, <<B(<<Embed("A")>>)>>)),
     Pkg(Two(<<A(<<F("X", Star(Id("B")), << >>)>>)>>, <<B(<<F("Y", Star(Id("A")), << >>)>>)>>)),
     Pkg(Two(<<A(<<F("X", Id("R"), <<Maxi(<<"4">>)>>)>>), Alias("R", Bytes)>>,
             <<B(<<F("X", Id("R"), <<Maxi(<<"2">>)>>)>>)>>)),
     Pkg(Two(<<A(<<F("X", Id("C"), << >>)>>), Alias("C", Id("B"))>>, <<B(<<F("Y", U64, << >>)>>)>>)),
     Pkg(Two(<<A(<<[F("X", U64, << >>) EXCEPT !.names = <<"X", "Y">>]>>)>>,
             <<B(<<[F("y", U64, << >>) EXCEPT !.exported = FALSE],
                   [F("XXX_Z", Bytes, << >>) EXCEPT !.xxx = TRUE], F("Z", Id("uint8"), << >>)>>)>>)),
     Pkg(Two(<<A(<<[Embed("B") EXCEPT !.pairs = <<P(Ssz, <<"-">>)>>]>>)>>, <<B(<<F("Y", U64, << >>)>>)>>)),
     Pkg(Two(<<A(<<F("X", ArrC("N", Id("Root")), <<Size(<<"2", "2">>)>>)>>)>>, <<Root>>)),
     Pkg(Two(<<A(<<F("X", Star(Id("E")), << >>)>>)>>, << >>)),
     [Pkg(One(<<A(<<F("X", Star(Id("B")), << >>)>>)>>))
        EXCEPT !.include = [o |-> File("p", << >>, <<B(<<F("Y", U64, << >>)>>)>>)]]}

(* The same with targets, exclusions and one file of output.               *)
Options(p) == {[p EXCEPT !.targets = {"A"}], [p EXCEPT !.excluded = {"B"}], [p EXCEPT !.together = TRUE]}

(* Methods written by hand for B, and the sizes its users give.            *)
ByHand(types, n) == [Pkg([a |-> File("p", << >>, types),
                          b |-> [File("p", << >>, <<B(<<F("Y", U64, << >>)>>)>>)
                                   EXCEPT !.methods = ("B" :> n)]]) EXCEPT !.excluded = {"B"}]
Hand == {ByHand(<<A(<<F("X", Star(Id("B")), <<Size(<<"2">>)>>)>>)>>, n) : n \in {3, 4}} \cup
        {[ByHand(<<A(<<F("X", Star(Id("B")), <<Size(<<"2">>)>>)>>),
                   Struct("D", <<F("X", Star(Id("B")), <<Size(<<s>>)>>)>>)>>, 4) EXCEPT !.excluded = x] :
            s \in {"2", "3"}, x \in {{}, {"B"}}} \cup
        {Pkg([a |-> [File("p", << >>, << >>) EXCEPT !.methods = ("B" :> 4)]])}

(* Another package, imported under one alias or under several.             *)
Other == File("q", << >>, <<Alias("Slot", U64), Root, Alias("Blob", Bytes), Struct("C", <<F("Z", Id("Slot"), << >>)>>)>>)
Uses(alias, t, pairs) == LET r == IF alias = "" THEN "q" ELSE alias
                         IN  F("X", CASE t = "C" -> Star(Sel(r, "C"))
                                      [] t = "Cs" -> Arr(Star(Sel(r, "C")))
                                      [] t = "Roots" -> Arr(Sel(r, "Root"))
                                      [] t = "copy" -> Sel(r, "C")
                                      [] t \in {"Slot", "Root", "Blob"} -> Sel(r, t), pairs)
Tag(t) == CASE t = "Roots" -> <<Size(<<"?", "2">>), Maxi(<<"4">>)>>
            [] t \in {"Cs", "Blob"} -> <<Maxi(<<"4">>)>>
            [] OTHER -> << >>
Importing(a1, t1, a2, t2) ==
    [Pkg([a |-> File("p", <<Import(a1, "q"), Import("_", "z")>>, <<A(<<Uses(a1, t1, Tag(t1))>>)>>),
          b |-> File("p", <<Import(a2, "q")>>, <<B(<<Uses(a2, t2, Tag(t2))>>)>>)])
        EXCEPT !.include = [o |-> Other]]
Imports ==
    {Importing(a1, t1, a1, t2) : a1 \in {"", "qq"}, t1 \in {"C", "Slot", "Root", "Blob"},
                                 t2 \in {"Cs", "Roots", "copy"}} \cup
    {Importing("", "C", a, "Slot") : a \in {"qq"}} \cup
    {[Importing("", "C", "", "Slot") EXCEPT !.include = [o |-> Other, p |-> Other]],
     [Importing("", "C", "", "Slot") EXCEPT
        !.include = [o |-> Other, p |-> File("r", << >>, <<Alias("Slot", Id("uint8"))>>)]],
     [Importing("", "C", "", "Slot") EXCEPT !.together = TRUE]}

mcPackages == OneField \cup OddTags \cup Across \cup UNION {Options(p) : p \in Across}
                \cup Hand \cup Imports
===========================================================================
