------------------------------ MODULE Declared ----------------------------
(***************************************************************************)
(* What the Go declarations mean, read the way the Go compiler and         *)
(* reflect.StructTag read them and not the way the generator does: a name  *)
(* is looked up in its own package or in the package that its file         *)
(* imports, a key in the pairs of the tag, and the k-th dimension is that  *)
(* of the k-th level, where an array's length is its own whatever the tag  *)
(* says and a slice that no dimension bounds has none.  The generator is   *)
(* held against this.                                                      *)
(***************************************************************************)
EXTENDS Generator

(* The files of the source and of the included packages.  A package has    *)
(* the name of its directory.                                              *)
Files == {pkg.files[f] : f \in DOMAIN pkg.files} \cup {pkg.include[f] : f \in DOMAIN pkg.include}

Declarations == UNION {{[file |-> f, type |-> f.types[i]] : i \in DOMAIN f.types} : f \in Files}
Declares(pack, name) ==
    \E d \in Declarations : d.file.pack = pack /\ d.type.name = name
Declaration(pack, name) ==
    CHOOSE d \in Declarations : d.file.pack = pack /\ d.type.name = name

HandWritten(pack, name) == \E f \in Files : f.pack = pack /\ name \in funcs(f)

(* What file calls ref.                                                    *)
Meant(file, ref) == {i \in ToSet(decodeASTImports(file)) : match(i, ref)}
PackageOf(file, ref) == (CHOOSE i \in Meant(file, ref) : TRUE).base

Lookup(pairs, key) ==
    LET hits == {i \in DOMAIN pairs : pairs[i].key = key}
    IN  IF hits = {} THEN << >> ELSE pairs[Min(hits)].items

Dimensions(pairs) ==
    LET size == Lookup(pairs, SszSize)
        max  == Lookup(pairs, SszMax)
        n    == Max({Len(size), Len(max)})
        sized(i) == i <= Len(size) /\ IsNumber(size[i])
    IN  [i \in 1 .. n |-> [list    |-> ~ sized(i),
                           len     |-> Atoi(IF sized(i) THEN size[i] ELSE max[i]).n,
                           bitlist |-> i = n /\ "bitlist" \in ToSet(Lookup(pairs, Ssz))]]

(* The fields of a struct with the files that declare them, those of       *)
(* embedded structs in their place; omitted and unexported ones and those  *)
(* of protobuf left out.                                                   *)
RECURSIVE FieldsOf(_, _)
FieldsOf(pack, name) ==
    LET d == Declaration(pack, name)
        one(f) == IF Lookup(f.pairs, Ssz) = <<"-">> THEN << >>
                  ELSE IF f.names = << >> THEN FieldsOf(pack, f.typ.name)
                  ELSE IF ~ f.exported \/ f.xxx THEN << >>
                  ELSE [i \in DOMAIN f.names |-> [name |-> f.names[i], file |-> d.file,
                                                  typ |-> f.typ, pairs |-> f.pairs]]
    IN  FlattenSeq([i \in DOMAIN d.type.fields |-> one(d.type.fields[i])])

(* The length that the declaration of an array gives.                      *)
LengthOf(x) == IF x.len = "const"
               THEN LET f == CHOOSE f \in Files : x.const \in DOMAIN f.consts
                    IN  f.consts[x.const]
               ELSE x.num

(* The SSZ type of a Go type, a struct by its name.  An array of bytes is  *)
(* never a list.                                                           *)
GoByte == [x |-> "ident", name |-> "byte"]
Below(dims) == IF dims = << >> THEN << >> ELSE Tail(dims)
RECURSIVE Meaning(_, _, _)
Meaning(file, x, dims) ==
    LET named(pack, name) ==
            LET d == Declaration(pack, name)
                m == Meaning(d.file, d.type.typ, dims)
            IN  IF HandWritten(pack, name) \/ ~ d.type.alias \/ m[1] = "struct"
                THEN <<"struct", name>> ELSE m
        d == Head(dims)
    IN  CASE x.x = "star" -> Meaning(file, x.of, dims)
          [] x.x = "ident" /\ x.name \in DOMAIN UintSize -> <<"uint", UintSize[x.name]>>
          [] x.x = "ident" /\ x.name = "bool" -> <<"bool">>
          [] x.x = "ident" /\ x.name \notin DOMAIN UintSize \cup {"bool"} -> named(file.pack, x.name)
          [] x.x = "sel" /\ x.name = "Time" -> <<"time">>
          [] x.x = "sel" /\ x.name = "Bitlist" -> <<"bitlist", d.len>>
          [] x.x = "sel" /\ x.name = "Bitvector" -> <<"bytes", Last(dims).len>>
          [] x.x = "sel" /\ x.name \notin {"Time", "Bitlist", "Bitvector"} ->
               named(PackageOf(file, x.pack), x.name)
          [] x.x = "array" /\ x.len = "none" /\ dims = << >> -> <<"unbounded">>
          [] x.x = "array" /\ x.len = "none" /\ dims # << >> ->
               IF x.elt = GoByte
               THEN <<IF d.bitlist THEN "bitlist" ELSE IF d.list THEN "bytelist" ELSE "bytes", d.len>>
               ELSE <<IF d.list THEN "list" ELSE "vector", d.len, Meaning(file, x.elt, Tail(dims))>>
          [] x.x = "array" /\ x.len # "none" ->
               IF x.elt = GoByte THEN <<"bytes", LengthOf(x)>>
               ELSE <<"vector", LengthOf(x), Meaning(file, x.elt, Below(dims))>>

(* The slices and arrays that a type is made of, the outermost first.      *)
RECURSIVE Levels(_, _)
Levels(file, x) ==
    LET named(pack, name) ==
            LET d == Declaration(pack, name)
            IN  IF HandWritten(pack, name) \/ ~ d.type.alias THEN << >>
                ELSE Levels(d.file, d.type.typ)
    IN  CASE x.x = "star" -> Levels(file, x.of)
          [] x.x = "ident" /\ x.name \notin DOMAIN UintSize \cup {"bool", "byte"} ->
               named(file.pack, x.name)
          [] x.x = "sel" /\ x.name \notin {"Time", "Bitlist", "Bitvector"} ->
               named(PackageOf(file, x.pack), x.name)
          [] x.x = "array" -> <<x>> \o Levels(file, x.elt)
          [] OTHER -> << >>

(* The SSZ type that a Value stands for.                                   *)
RECURSIVE Shape(_)
Shape(v) ==
    CASE v.t = "uint" -> <<"uint", v.s>>
      [] v.t \in {"bool", "time"} -> <<v.t>>
      [] v.t = "bytes"   -> IF v.fixed THEN <<"bytes", v.s>> ELSE <<"bytelist", v.m>>
      [] v.t = "bitlist" -> <<"bitlist", v.m>>
      [] v.t = "list"    -> <<"list", v.m, Shape(v.e[1])>>
      [] v.t = "vector"  -> <<"vector", v.s, Shape(v.e[1])>>
      [] v.t \in {"container", "reference"} -> <<"struct", v.obj>>
      [] OTHER -> <<"none">>

---------------------------------------------------------------------------
(* Inputs for which the declarations alone do not settle the output.       *)

RawFields == UNION {ToSet(d.type.fields) : d \in Declarations}

(* The generator looks names up without their packages.                    *)
SharedNames ==
    \E f \in Files, g \in Files :
        /\ f.pack # g.pack
        /\ \/ {t.name : t \in ToSet(f.types)} \cap {t.name : t \in ToSet(g.types)} # {}
           \/ DOMAIN f.consts \cap DOMAIN g.consts # {}

(* The size of a struct with methods of its own is taken from the tag of   *)
(* whichever use comes first, and is 0 if the struct itself does.          *)
SizesOf(d) ==
    {Lookup(f.pairs, SszSize) :
        f \in {g \in RawFields : LET x == IF g.typ.x = "star" THEN g.typ.of ELSE g.typ
                                 IN  x.x \in {"ident", "sel"} /\ x.name = d.type.name}}
      \cup (IF d.file \in Range(pkg.files) /\ d.type.name \notin pkg.excluded THEN {<< >>} ELSE {})
DifferentSizes ==
    \E d \in Declarations : /\ ~ d.type.alias /\ HandWritten(d.file.pack, d.type.name)
                            /\ Cardinality(SizesOf(d)) > 1

(* Two packages go by one name in different files.                         *)
SharedRefs == \E f \in Files, g \in Range(pkg.files) :
                 \E i \in ToSet(f.imports), j \in ToSet(g.imports) :
                    ~ SamePath(i, j) /\ \E r \in {i.alias, i.base} \ {""} : match(i, r) /\ match(j, r)

(* Tags that getTags does not read as reflect does: it needs exactly one   *)
(* blank between pairs, and no blank or colon in a value.                  *)
Unreadable == \E f \in RawFields : /\ f.pairs # << >>
                                   /\ \/ f.blanks # 1 /\ Len(f.pairs) > 1
                                      \/ \E i \in DOMAIN f.pairs :
                                            ~ f.pairs[i].plain \/ ~ f.pairs[i].quoted

(* Fields declared together are dropped, an embedded struct is not.        *)
Dropped == \E f \in RawFields : \/ Len(f.names) > 1
                                \/ f.names = << >> /\ Lookup(f.pairs, Ssz) = <<"-">>

(* Fields with a tag that gives an array another length than its own or    *)
(* makes it a list, with a slice (or an array the length of which is an    *)
(* expression) that no dimension bounds, or with a negative dimension.     *)
Redimensioned(f) ==
    LET own == Levels(f.file, f.typ)
        dims == Dimensions(f.pairs)
    IN  \E k \in DOMAIN own \cap DOMAIN dims :
            /\ own[k].len # "none"
            /\ dims[k] # [list |-> FALSE, len |-> LengthOf(own[k]), bitlist |-> FALSE]
Unbounded(f) ==
    LET own == Levels(f.file, f.typ)
    IN  \E k \in DOMAIN own : /\ own[k].len \in {"none", "expr"}
                              /\ k \notin DOMAIN Dimensions(f.pairs)
Negative(f) ==
    \E key \in {SszSize, SszMax} : \E item \in ToSet(Lookup(f.pairs, key)) :
        IsNumber(item) /\ Atoi(item).n > MaxNumber
Settled(f) == ~ Redimensioned(f) /\ ~ Unbounded(f) /\ ~ Negative(f)

---------------------------------------------------------------------------
Source  == (CHOOSE f \in Range(pkg.files) : TRUE).pack
Printed == UNION {ToSet(o.objs) : o \in ToSet(e.out)}

(* The generator run with the files in one order.                          *)
Ordered(files)     == [i \in DOMAIN Sorted(DOMAIN files) |-> files[Sorted(DOMAIN files)[i]]]
ImportAll(env)     == Fold(addImports, env, Ordered(pkg.files))
DeclareAll(env)    == Fold(LAMBDA acc, f : addStructs(acc, f, FALSE), env, Ordered(pkg.files))
IncludeAll(env)    == Fold(LAMBDA acc, f : addStructs(acc, f, TRUE), env, Ordered(pkg.include))
CheckAll(env)      == Fold(checkImplFunc, env, env.results)
EncodeAll(env)     == Fold(LAMBDA acc, o : encodeRaw(acc, o, pkg.targets, pkg.excluded),
                           env, env.raw)
AllNames           == FlattenSeq([i \in DOMAIN Ordered(pkg.files) |-> order(Ordered(pkg.files)[i])])
PrintAll(env) ==
    IF pkg.together
    THEN Fold(LAMBDA acc, f : print(acc, f, AllNames, pkg.excluded), env, <<"output">>)
    ELSE Fold(LAMBDA acc, f : print(acc, f, order(pkg.files[f]), pkg.excluded),
              env, Sorted(DOMAIN pkg.files))
InOrder == PrintAll(EncodeAll(CheckAll(IncludeAll(DeclareAll(ImportAll(NewEnv))))))

Texts(env) == {<<o.file, o.objs, o.named>> : o \in ToSet(env.out)}

SameOutput(a, b) ==
    /\ (a.err = "") = (b.err = "")
    /\ a.err = "" => a.objs = b.objs /\ Texts(a) = Texts(b)

(* Whether the generator accepts a package, and what it then makes of      *)
(* every struct, does not depend on the order in which Go's maps yield the *)
(* files: not the encoding that is cached by the first use of a struct,    *)
(* nor the sizes of arrays and aliases that other files declare.           *)
OutputIgnoresOrder ==
    Finished /\ ~ SharedNames /\ ~ DifferentSizes => SameOutput(e, InOrder)

(* The encoding of a printed struct has the fields of its declaration, in  *)
(* order and of the declared types: no dimension of a tag goes to another  *)
(* level or another field, and no alias or cached struct carries what one  *)
(* field says over to the next.  What the type of a field is has to be     *)
(* settled by its declaration: of an array with another length in the tag  *)
(* the generator believes the tag, and a slice that nothing bounds, where  *)
(* README.md 36 says that it will fail, gets the limit 0.                  *)
FieldsAsDeclared ==
    Finished /\ e.err = "" /\ ~ SharedNames /\ ~ Unreadable /\ ~ Dropped =>
        \A n \in {m \in Printed : e.objs[m].t = "container"} :
            LET fields == FieldsOf(Source, n)
                o      == e.objs[n].o
            IN  /\ [i \in DOMAIN o |-> o[i].name] = [i \in DOMAIN fields |-> fields[i].name]
                /\ \A i \in DOMAIN fields :
                      LET f == fields[i]
                      IN  Settled(f) => Shape(o[i]) = Meaning(f.file, f.typ, Dimensions(f.pairs))

(* The packages that the code for a field has to name, but for that of a   *)
(* byte string of another package, which the generator imports only for    *)
(* the elements of a slice.                                                *)
Foreign(f) ==
    LET x   == f.typ
        sel == IF x.x = "star" THEN x.of ELSE IF x.x = "array" THEN x.elt ELSE x
        y   == IF sel.x = "star" THEN sel.of ELSE sel
        m   == Meaning(f.file, y, << >>)[1]
    IN  IF /\ y.x = "sel" /\ y.name \notin {"Time", "Bitlist", "Bitvector"}
           /\ \/ m = "uint"
              \/ m = "struct" /\ x.x \in {"star", "array"}
              \/ m = "bytes" /\ x.x = "array" /\ x.len = "none"
        THEN Meant(f.file, y.pack) ELSE {}

(* A file of output imports the packages that its structs need, as the     *)
(* files that declare the fields import them, and no other but those that  *)
(* a file printed before it needed: the collected imports are kept.        *)
ImportsAsMeant ==
    Finished /\ e.err = "" /\ ~ SharedNames /\ ~ SharedRefs /\ ~ Dropped /\ ~ Unreadable =>
        \A k \in DOMAIN e.out :
            LET needs(j) == UNION {Foreign(f) : f \in UNION {ToSet(FieldsOf(Source, n)) :
                                                    n \in ToSet(e.out[j].objs)}}
            IN  /\ needs(k) \subseteq e.out[k].imports
                /\ e.out[k].imports \subseteq UNION {needs(j) : j \in 1 .. k}

(* The structs of this package whose methods the methods of n call.        *)
Callees(n) ==
    {v \in UNION {{v, IF v.t = "list" THEN v.e[1] ELSE v} : v \in ToSet(e.objs[n].o)} :
        v.t \in {"container", "reference"} /\ v.ref = ""}

(* Each struct that printed methods call has its methods once over all the *)
(* files, written by hand or printed: none is left out because it was no   *)
(* target or met in another file first, and none is printed twice.  An     *)
(* alias of a struct has none, one of an included file is another run's,   *)
(* and what the user wrote by hand has to be excluded or it is printed     *)
(* again.                                                                  *)
OneSetOfMethods ==
    LET sets(n) == Len(SelectSeq(FlattenSeq([k \in DOMAIN e.out |-> e.out[k].objs]),
                                 LAMBDA m : m = n))
                     + (IF HandWritten(Source, n) THEN 1 ELSE 0)
        given(n) == \/ Declaration(Source, n).type.alias
                    \/ Declaration(Source, n).file \in Range(pkg.include)
                    \/ HandWritten(Source, n) # (n \in pkg.excluded)
    IN  Finished /\ e.err = "" /\ ~ SharedNames =>
            \A n \in Printed :
                /\ given(n) \/ sets(n) = 1
                /\ \A v \in Callees(n) : given(v.obj) \/ sets(v.obj) = 1
===========================================================================
