----------------------------- MODULE Generator ----------------------------
(***************************************************************************)
(* generator.go: from parsed Go files to the intermediate form (Value) of  *)
(* every struct, and from that to the files of generated code with their   *)
(* imports.  Files are held in Go maps, so that every loop over them may   *)
(* visit them in any order: each visit is a step.                          *)
(*                                                                         *)
(* The text of the templates is abstracted to what depends on this module: *)
(* which structs get methods, which packages the text names, and whether   *)
(* a template meets a type it cannot be executed for.                      *)
(***************************************************************************)
EXTENDS Tags, FiniteSets

(* What sszgen is run on: a set of records                                 *)
(*   files, include   functions from file names to                         *)
(*                      [pack, imports, types, methods, consts]            *)
(*   targets, excluded   sets of type names                                *)
(*   together            output goes to one file                           *)
(* An import is [alias, dir, base].  A type is [name, alias, typ, fields], *)
(* a field [names, exported, xxx, pairs, blanks, typ], where xxx says that *)
(* its name has protobuf's prefix XXX_.  methods counts, for a type name,  *)
(* those of the four methods that a file declares.                         *)
CONSTANT Packages

VARIABLES
    pkg,      \* the input
    phase,    \* of generateIR and the output
    left,     \* files that the loop at hand has not visited
    next,     \* the next item of raw to encode
    e         \* env

vars == <<pkg, phase, left, next, e>>

V0 == [t |-> "undefined", s |-> 0, m |-> 0, c |-> FALSE, fixed |-> FALSE, ref |-> "",
       noPtr |-> FALSE, name |-> "", obj |-> "", o |-> << >>, e |-> << >>]

(* env: valuesImported holds the references that detectImports makes of    *)
(* it, out the output files in the order of printing.                      *)
NewEnv == [imports |-> << >>, raw |-> << >>, results |-> << >>, objs |-> << >>,
           valuesImported |-> {}, out |-> << >>, err |-> ""]

Fold(Op(_, _), env, seq) ==
    FoldLeft(LAMBDA acc, x : IF acc.err # "" THEN acc ELSE Op(acc, x), env, seq)

---------------------------------------------------------------------------
(* What the files declare                                                  *)

SamePath(i, j) == i.dir = j.dir /\ i.base = j.base

(* Variant: aliases are not compared.                                      *)
AddImportUnchecked(env, i) ==
    IF \E j \in ToSet(env.imports) : SamePath(i, j) THEN env
    ELSE [env EXCEPT !.imports = Append(@, i)]

(* A path has one alias in all files of the source.                        *)
AddImport(env, i) ==
    IF \E j \in ToSet(env.imports) : SamePath(i, j) /\ i.alias # j.alias
    THEN [env EXCEPT !.err = "error"]
    ELSE IF \E j \in ToSet(env.imports) : SamePath(i, j) THEN env
    ELSE [env EXCEPT !.imports = Append(@, i)]

decodeASTImports(file) == SelectSeq(file.imports, LAMBDA i : i.alias # "_")
addImports(env, file)  == Fold(AddImport, env, decodeASTImports(file))

addStructs(env, file, isRef) ==
    LET add(acc, type) ==
            IF \E r \in ToSet(acc.raw) : r.name = type.name /\ r.packName = file.pack
            THEN [acc EXCEPT !.err = "error"]
            ELSE [acc EXCEPT !.raw =
                    Append(@, [name |-> type.name, packName |-> file.pack, alias |-> type.alias,
                               typ |-> type.typ, fields |-> type.fields,
                               implFunc |-> FALSE, isRef |-> isRef])]
    IN  [Fold(add, env, file.types) EXCEPT !.results = Append(@, file)]

(* The types whose four methods are all in this file.                      *)
funcs(file) == {n \in DOMAIN file.methods : file.methods[n] = 4}

checkImplFunc(env, file) ==
    IF \E n \in funcs(file) : ~ \E r \in ToSet(env.raw) : r.name = n /\ r.packName = file.pack
    THEN [env EXCEPT !.err = "error"]
    ELSE [env EXCEPT !.raw =
            [i \in DOMAIN @ |->
                IF @[i].packName = file.pack /\ @[i].name \in funcs(file)
                THEN [@[i] EXCEPT !.implFunc = TRUE] ELSE @[i]]]

HasRaw(env, name) == \E i \in DOMAIN env.raw : env.raw[i].name = name
getRawItemByName(env, name) ==
    env.raw[Min({i \in DOMAIN env.raw : env.raw[i].name = name})]

HasAlias(env, name) == \E i \in DOMAIN env.results : name \in DOMAIN env.results[i].consts
resolveAlias(env, name) ==
    env.results[Min({i \in DOMAIN env.results : name \in DOMAIN env.results[i].consts})].consts[name]

---------------------------------------------------------------------------
(* From types to Values.  A result is the env, changed by what was cached  *)
(* on the way, and a sequence of the Value, empty for an omitted field.    *)

Got(env, v)     == [err |-> "", env |-> env, v |-> <<v>>]
Refuse(env, why) == [err |-> why, env |-> [env EXCEPT !.err = why], v |-> << >>]
Then(got, Op(_)) == IF got.err # "" THEN got ELSE [got EXCEPT !.v = <<Op(@[1])>>]

(* isFixed, which panics on a type that nothing has determined.            *)
RECURSIVE isFixed(_)
isFixed(v) ==
    CASE v.t \in {"uint", "bool", "time"} -> "fixed"
      [] v.t \in {"list", "bitlist"}      -> "variable"
      [] v.t = "vector"    -> IF v.e = << >> THEN "panic" ELSE isFixed(v.e[1])
      [] v.t = "bytes"     -> IF v.fixed THEN "fixed" ELSE "variable"
      [] v.t = "container" ->
           LET stop == {i \in DOMAIN v.o : isFixed(v.o[i]) # "fixed"}
           IN  IF stop = {} THEN "fixed" ELSE isFixed(v.o[Min(stop)])
      [] v.t = "reference" -> IF v.s # 0 THEN "fixed" ELSE "variable"
      [] v.t = "undefined" -> "panic"

(* Variant: the innermost dimension comes first.                           *)
RECURSIVE ApplyReversed(_, _)
ApplyReversed(v, dims) ==
    IF dims = << >> THEN [err |-> "", v |-> v]
    ELSE LET d == Last(dims)
             w == [v EXCEPT !.t = IF @ = "bytes" THEN IF d.bitlist THEN "bitlist" ELSE @
                                  ELSE IF d.list THEN "list" ELSE "vector",
                            !.fixed = @ \/ (v.t = "bytes" /\ ~ d.list),
                            !.s = d.len, !.m = IF d.list THEN d.len ELSE @]
             r == ApplyReversed(w.e[1], Front(dims))
         IN  IF Len(dims) = 1 THEN [err |-> "", v |-> w]
             ELSE IF w.e = << >> THEN [err |-> "panic", v |-> w]
             ELSE [r EXCEPT !.v = [w EXCEPT !.e = <<r.v>>]]

(* The i-th dimension goes to the i-th level; a level too few is a nil     *)
(* pointer.                                                                *)
RECURSIVE ApplyDims(_, _)
ApplyDims(v, dims) ==
    IF dims = << >> THEN [err |-> "", v |-> v]
    ELSE LET d == Head(dims)
             w == [v EXCEPT !.t = IF @ = "bytes" THEN IF d.bitlist THEN "bitlist" ELSE @
                                  ELSE IF d.list THEN "list" ELSE "vector",
                            !.fixed = @ \/ (v.t = "bytes" /\ ~ d.list),
                            !.s = d.len, !.m = IF d.list THEN d.len ELSE @]
             r == ApplyDims(w.e[1], Tail(dims))
         IN  IF Len(dims) = 1 THEN [err |-> "", v |-> w]
             ELSE IF w.e = << >> THEN [err |-> "panic", v |-> w]
             ELSE [r EXCEPT !.v = [w EXCEPT !.e = <<r.v>>]]

UintSize == [uint64 |-> 8, uint32 |-> 4, uint16 |-> 2, uint8 |-> 1]

(* Variant: aliases are kept as well.                                      *)
CacheAll(got, raw) == IF got.err # "" THEN got
                      ELSE [got EXCEPT !.env.objs = (raw.name :> got.v[1]) @@ @]

(* Structs are encoded once; an alias is parsed anew with the tags of      *)
(* every field that has it.                                                *)
Cache(got, raw) == IF got.err # "" \/ raw.alias THEN got
                   ELSE [got EXCEPT !.env.objs = (raw.name :> got.v[1]) @@ @]

RECURSIVE encodeItem(_, _, _, _), parseASTStructType(_, _, _), parseASTFieldType(_, _, _, _),
          getFields(_, _, _)

(* The struct or alias called name, in whatever package.  path are the     *)
(* names being encoded, and one of them again is a recursion that does not *)
(* end.                                                                    *)
encodeItem(env, name, tags, path) ==
    IF name \in DOMAIN env.objs THEN Got(env, env.objs[name])
    ELSE IF ~ HasRaw(env, name) THEN Refuse(env, "error")
    ELSE IF name \in path THEN Refuse(env, "overflow")
    ELSE LET raw == getRawItemByName(env, name)
             got == IF raw.implFunc
                    THEN Got(env, [V0 EXCEPT !.t = "reference", !.noPtr = raw.alias,
                                             !.s = getTagsInt(tags, SszSize).n])
                    ELSE IF raw.alias
                    THEN parseASTFieldType(env, tags, raw.typ, path \cup {name})
                    ELSE parseASTStructType(env, name, path \cup {name})
         IN  Cache(Then(got, LAMBDA v : [v EXCEPT !.name = name, !.obj = name]), raw)

(* The fields, those of embedded structs in their place.  Fields declared  *)
(* together (A, B uint64) are neither.                                     *)
getFields(env, sub, visited) ==
    IF sub \in visited \/ ~ HasRaw(env, sub)
    THEN [err |-> "error", fields |-> << >>, visited |-> visited]
    ELSE IF getRawItemByName(env, sub).alias
    THEN [err |-> "panic", fields |-> << >>, visited |-> visited]
    ELSE Fold(LAMBDA acc, f :
                IF Len(f.names) = 1 /\ f.exported /\ ~ f.xxx
                THEN [acc EXCEPT !.fields = Append(@, f)]
                ELSE IF f.names # << >> THEN acc
                ELSE IF f.typ.x # "ident" THEN [acc EXCEPT !.err = "error"]
                ELSE LET r == getFields(env, f.typ.name, acc.visited)
                     IN  [r EXCEPT !.fields = acc.fields \o @],
              [err |-> "", fields |-> << >>, visited |-> visited \cup {sub}],
              getRawItemByName(env, sub).fields)

parseASTStructType(env, name, path) ==
    LET found == getFields(env, name, {})
        add(acc, f) ==
            LET r == parseASTFieldType(acc.env, Text(f.pairs, f.blanks), f.typ, path)
            IN  IF r.err # "" \/ r.v = << >> THEN [acc EXCEPT !.err = r.err, !.env = r.env]
                ELSE [acc EXCEPT !.env = r.env,
                                 !.v[1].o = Append(@, [r.v[1] EXCEPT !.name = f.names[1]])]
    IN  IF found.err # "" THEN Refuse(env, found.err)
        ELSE Fold(add, Got(env, [V0 EXCEPT !.t = "container"]), found.fields)

(* The dimensions of a tag, on a type that knows some of its own.          *)
Dimensioned(whole, dims) ==
    LET done == ApplyDims(whole.v[1], dims.dims)
        own  == isFixed(whole.v[1])
    IN  IF dims.err = "dimNotFound" /\ own = "panic" THEN Refuse(whole.env, "panic")
        ELSE IF dims.err = "dimNotFound" /\ own = "fixed" THEN whole
        ELSE IF dims.err # "" THEN Refuse(whole.env, "error")
        ELSE IF done.err # "" THEN Refuse(whole.env, done.err)
        ELSE [whole EXCEPT !.v = <<done.v>>]

(* Of a length that is neither a literal nor a name (pkg.N, 2 * N) the     *)
(* generator takes no notice.                                              *)
Outer(env, x) ==
    CASE x.len \in {"none", "expr"} -> V0
      [] x.len = "lit"   -> [V0 EXCEPT !.c = TRUE, !.s = x.num, !.fixed = TRUE]
      [] x.len = "const" -> [V0 EXCEPT !.c = TRUE, !.s = resolveAlias(env, x.const), !.fixed = TRUE]

(* A slice or an array.                                                    *)
ArrayType(env, tags, x, path) ==
    LET whole == IF x.elt.x = "ident" /\ x.elt.name = "byte"
                 THEN Got(env, [Outer(env, x) EXCEPT !.t = "bytes"])
                 ELSE Then(parseASTFieldType(env, << >>, x.elt, path),
                           LAMBDA v : [Outer(env, x) EXCEPT !.e = <<v>>])
    IN  IF x.len = "const" /\ ~ HasAlias(env, x.const) THEN Refuse(env, "error")
        ELSE IF whole.err # "" \/ tags = << >> THEN whole
        ELSE Dimensioned(whole, extractSSZDimensions(tags))

(* The types of go-bitfield.                                               *)
Bitlist(env, max) ==
    IF max.ok THEN Got(env, [V0 EXCEPT !.t = "bitlist", !.s = max.n, !.m = max.n])
    ELSE Refuse(env, "error")
Bitvector(env, dims) ==
    IF dims.err # "" \/ Last(dims.dims).list THEN Refuse(env, "error")
    ELSE Got(env, [V0 EXCEPT !.t = "bytes", !.fixed = TRUE, !.s = Last(dims.dims).len])

(* A type of another package, or of time and go-bitfield.                  *)
SelectorType(env, tags, x, path) ==
    IF x.pack = "time" /\ x.name = "Time" THEN Got(env, [V0 EXCEPT !.t = "time", !.s = 8])
    ELSE IF x.name = "Bitlist"   THEN Bitlist(env, getTagsInt(tags, SszMax))
    ELSE IF x.name = "Bitvector" THEN Bitvector(env, extractSSZDimensions(tags))
    ELSE Then(encodeItem(env, x.name, tags, path),
              LAMBDA v : [v EXCEPT !.ref = x.pack, !.noPtr = TRUE])

parseASTFieldType(env, tags, x, path) ==
    IF getTags(tags, Ssz) = <<"-">> THEN [err |-> "", env |-> env, v |-> << >>]
    ELSE CASE x.x = "star" /\ x.of.x = "ident" -> encodeItem(env, x.of.name, tags, path)
           [] x.x = "star" /\ x.of.x = "sel" ->
                Then(encodeItem(env, x.of.name, tags, path), LAMBDA v : [v EXCEPT !.ref = x.of.pack])
           [] x.x = "star" /\ x.of.x \notin {"ident", "sel"} -> Refuse(env, "error")
           [] x.x = "array" -> ArrayType(env, tags, x, path)
           [] x.x = "ident" /\ x.name \in DOMAIN UintSize ->
                Got(env, [V0 EXCEPT !.t = "uint", !.s = UintSize[x.name]])
           [] x.x = "ident" /\ x.name = "bool" -> Got(env, [V0 EXCEPT !.t = "bool", !.s = 1])
           [] x.x = "ident" /\ x.name \notin DOMAIN UintSize \cup {"bool"} ->
                Then(encodeItem(env, x.name, tags, path), LAMBDA v : [v EXCEPT !.noPtr = TRUE])
           [] x.x = "sel" -> SelectorType(env, tags, x, path)
           [] x.x = "other" -> Refuse(env, "panic")

(* One round of the loop over raw.                                         *)
encodeRaw(env, obj, targets, excluded) ==
    IF \/ obj.name \in excluded \/ obj.isRef
       \/ targets # {} /\ obj.name \notin targets
    THEN env
    ELSE encodeItem(env, obj.name, << >>, {}).env

---------------------------------------------------------------------------
(* The output                                                              *)

(* The templates know lists of integers, byte strings and structs, and     *)
(* vectors of integers and fixed byte strings.                             *)
Prints(v) ==
    /\ isFixed(v) # "panic"
    /\ v.t = "list"   => v.e # << >> /\ v.e[1].t \in {"uint", "bytes", "container"}
                        /\ isFixed(v.e[1]) # "panic"
    /\ v.t = "vector" => v.e # << >> /\ v.e[1].t \in {"uint", "bytes"}
                        /\ isFixed(v.e[1]) = "fixed"

(* The packages that the text for a field names, and those among them that *)
(* objRef, called on the way, leaves in valuesImported.                    *)
Ref(v) == IF v.ref = "" THEN {} ELSE {v.ref}
RECURSIVE Named(_), Recorded(_)
Named(v) ==
    CASE v.t \in {"container", "reference"} -> IF v.noPtr THEN {} ELSE Ref(v)
      [] v.t = "uint"  -> Ref(v)
      [] v.t = "bytes" -> IF v.c THEN {} ELSE Ref(v)
      [] v.t \in {"list", "vector"} ->
           Named(v.e[1]) \cup (IF v.e[1].t = "container" \/ (v.e[1].t = "bytes" /\ ~ v.c)
                               THEN Ref(v.e[1]) ELSE {})
      [] OTHER -> {}
Recorded(v) ==
    CASE v.t \in {"container", "reference"} -> IF v.noPtr THEN {} ELSE Ref(v)
      [] v.t = "uint" -> Ref(v)
      [] v.t \in {"list", "vector"} ->
           Recorded(v.e[1]) \cup (IF v.e[1].t = "container" \/ (v.e[1].t = "bytes" /\ ~ v.c)
                                  THEN Ref(v.e[1]) ELSE {})
      [] OTHER -> {}

(* The methods of one struct, or nothing for a basic type.                 *)
Methods(env, name) ==
    LET v == env.objs[name] IN
    IF \E i \in DOMAIN v.o : ~ Prints(v.o[i]) THEN [env EXCEPT !.err = "panic"]
    ELSE IF isFixed(v) = "fixed" /\ v.t \in {"uint", "bool", "bytes"} THEN env
    ELSE [env EXCEPT
            !.out[Len(env.out)].objs = Append(@, name),
            !.out[Len(env.out)].named = @ \cup UNION {Named(v.o[i]) : i \in DOMAIN v.o},
            !.valuesImported = @ \cup UNION {Recorded(v.o[i]) : i \in DOMAIN v.o}]

(* Variant: the excluded types are printed where they are used.            *)
PrintExcluded(env, name, excluded) ==
    IF name \notin DOMAIN env.objs THEN env ELSE Methods(env, name)

printObject(env, name, excluded) ==
    IF name \in excluded \/ name \notin DOMAIN env.objs THEN env ELSE Methods(env, name)

match(i, ref) == IF i.alias # "" THEN i.alias = ref ELSE i.base = ref

(* The first import that matches; none if no file has one.                 *)
findImport(env, ref) ==
    LET hits == {i \in DOMAIN env.imports : match(env.imports[i], ref)}
    IN  IF hits = {} THEN {} ELSE {env.imports[Min(hits)]}

(* One file of output for the structs of order; no file when there are     *)
(* none.  valuesImported is never reset.                                   *)
print(env, file, order, excluded) ==
    LET p == Fold(LAMBDA acc, name : printObject(acc, name, excluded),
                  [env EXCEPT !.out = Append(@, [file |-> file, objs |-> << >>, named |-> {},
                                                 imports |-> {}])], order)
    IN  IF p.err # "" THEN p
        ELSE IF Last(p.out).objs = << >> THEN [p EXCEPT !.out = Front(@)]
        ELSE [p EXCEPT !.out[Len(p.out)].imports =
                UNION {findImport(p, ref) : ref \in p.valuesImported}]

order(file) == [i \in DOMAIN file.types |-> file.types[i].name]

(* sort.Strings: some fixed order.                                         *)
Sorted(files) == SetToSeq(files)

---------------------------------------------------------------------------
Init ==
    /\ pkg \in Packages
    /\ phase = "imports" /\ left = DOMAIN pkg.files
    /\ next = 1 /\ e = NewEnv

InPhase(p) == phase = p /\ e.err = ""

(* The loop over a map goes on with any file it has not visited.           *)
Visit(p, f) == InPhase(p) /\ f \in left /\ left' = left \ {f} /\ UNCHANGED <<pkg, phase, next>>
Leave(p, q, files) == InPhase(p) /\ left = {} /\ phase' = q /\ left' = files
                      /\ UNCHANGED <<pkg, next, e>>

ImportFile(f)  == Visit("imports", f) /\ e' = addImports(e, pkg.files[f])
DecodeFile(f)  == Visit("structs", f) /\ e' = addStructs(e, pkg.files[f], FALSE)
IncludeFile(f) == Visit("include", f) /\ e' = addStructs(e, pkg.include[f], TRUE)

CheckFuncs ==
    /\ InPhase("methods")
    /\ e' = Fold(checkImplFunc, e, e.results)
    /\ phase' = "encode"
    /\ UNCHANGED <<pkg, left, next>>

EncodeNext ==
    /\ InPhase("encode") /\ next <= Len(e.raw)
    /\ e' = encodeRaw(e, e.raw[next], pkg.targets, pkg.excluded)
    /\ next' = next + 1
    /\ UNCHANGED <<pkg, phase, left>>

EndEncode ==
    /\ InPhase("encode") /\ next > Len(e.raw)
    /\ phase' = "print" /\ left' = DOMAIN pkg.files
    /\ UNCHANGED <<pkg, next, e>>

(* generateEncodings                                                       *)
PrintFile(f) ==
    /\ ~ pkg.together
    /\ Visit("print", f)
    /\ e' = print(e, f, order(pkg.files[f]), pkg.excluded)

(* generateOutputEncodings                                                 *)
PrintTogether ==
    /\ pkg.together /\ InPhase("print") /\ left # {}
    /\ e' = print(e, "output", FlattenSeq([i \in DOMAIN Sorted(left) |->
                                              order(pkg.files[Sorted(left)[i]])]), pkg.excluded)
    /\ left' = {}
    /\ UNCHANGED <<pkg, phase, next>>

Finished == phase = "done" \/ e.err # ""

Stop == Finished /\ UNCHANGED vars

Next ==
    \/ \E f \in left : ImportFile(f) \/ DecodeFile(f) \/ IncludeFile(f) \/ PrintFile(f)
    \/ Leave("imports", "structs", DOMAIN pkg.files)
    \/ Leave("structs", "include", DOMAIN pkg.include)
    \/ Leave("include", "methods", {})
    \/ CheckFuncs \/ EncodeNext \/ EndEncode
    \/ PrintTogether
    \/ Leave("print", "done", {})
    \/ Stop

Spec == Init /\ [][Next]_vars
===========================================================================
