-------------------------------- MODULE Tags -------------------------------
(***************************************************************************)
(* The struct tags that tell the generator the dimensions of a field, and  *)
(* the two readers of them: the scanner of tag_parser.go and getTags of    *)
(* generator.go, which splits the text at blanks.                          *)
(*                                                                         *)
(* The text of a tag is a sequence of pieces: ticks, colons, blanks, words *)
(* (a dash is one), quoted values, and what the scanner of text/scanner    *)
(* reports as an error.  A value has items between commas, and is plain    *)
(* when there is no blank and no colon in the quotes.                      *)
(***************************************************************************)
EXTENDS Integers, Sequences, SequencesExt, FiniteSetsExt, TLC

CONSTANT MaxNumber    \* math.MaxInt, as far as the model counts
ASSUME MaxNumberAssumption == MaxNumber \in Nat

Tick  == [k |-> "tick"]
Colon == [k |-> "colon"]
Blank == [k |-> "blank"]
Bad   == [k |-> "bad"]    \* such as a value in single quotes
Word(s) == [k |-> "word", word |-> s]
Value(items, plain) == [k |-> "value", items |-> items, plain |-> plain]

(* A tag as it is meant: pairs of a key, the words of which are given, and *)
(* a value, in good quotes or not; between two pairs there is one blank,   *)
(* more, or none.                                                          *)
Text(pairs, blanks) ==
    LET pair(i) == [j \in DOMAIN pairs[i].key |-> Word(pairs[i].key[j])]
                     \o <<Colon, IF pairs[i].quoted
                                  THEN Value(pairs[i].items, pairs[i].plain) ELSE Bad>>
                     \o (IF i < Len(pairs) THEN [b \in 1 .. blanks |-> Blank] ELSE << >>)
    IN  IF pairs = << >> THEN << >>
        ELSE <<Tick>> \o FlattenSeq([i \in DOMAIN pairs |-> pair(i)]) \o <<Tick>>

Ssz     == <<"ssz">>
SszSize == <<"ssz", "-", "size">>
SszMax  == <<"ssz", "-", "max">>
Label(key) == [i \in DOMAIN key |-> Word(key[i])]

---------------------------------------------------------------------------
(* GetSSZTags                                                              *)

Scanner == [state |-> "begin", label |-> << >>, tags |-> << >>, err |-> FALSE]

(* Variant: the label is kept after its value.                             *)
ScanKeepingLabel(sc, piece) ==
    CASE piece.k = "blank" \/ sc.err -> sc
      [] piece.k # "blank" /\ ~ sc.err /\ (piece.k = "bad" \/ sc.state = "closeTick") ->
           [sc EXCEPT !.err = TRUE]
      [] piece.k = "tick" /\ sc.state = "begin" -> [sc EXCEPT !.state = "label"]
      [] piece.k = "tick" /\ sc.state = "label" -> [sc EXCEPT !.state = "closeTick"]
      [] piece.k = "colon" /\ sc.state = "label" -> [sc EXCEPT !.state = "value"]
      [] piece.k \in {"word", "value"} /\ sc.state = "value" ->
           [sc EXCEPT !.state = "label", !.tags = (sc.label :> piece) @@ @]
      [] piece.k \in {"word", "value"} /\ sc.state = "label" ->
           [sc EXCEPT !.label = Append(@, piece)]
      [] OTHER -> sc

(* One round of the loop: blanks are no tokens, an error of the scanner    *)
(* and a token after the closing tick end it, and a token that the state   *)
(* has no use for is skipped.                                              *)
Scan(sc, piece) ==
    CASE piece.k = "blank" \/ sc.err -> sc
      [] piece.k # "blank" /\ ~ sc.err /\ (piece.k = "bad" \/ sc.state = "closeTick") ->
           [sc EXCEPT !.err = TRUE]
      [] piece.k = "tick" /\ sc.state = "begin" -> [sc EXCEPT !.state = "label"]
      [] piece.k = "tick" /\ sc.state = "label" -> [sc EXCEPT !.state = "closeTick"]
      [] piece.k = "colon" /\ sc.state = "label" -> [sc EXCEPT !.state = "value"]
      [] piece.k \in {"word", "value"} /\ sc.state = "value" ->
           [sc EXCEPT !.state = "label", !.label = << >>, !.tags = (sc.label :> piece) @@ @]
      [] piece.k \in {"word", "value"} /\ sc.state = "label" ->
           [sc EXCEPT !.label = Append(@, piece)]
      [] OTHER -> sc

GetSSZTags(tag) == FoldLeft(Scan, Scanner, tag)

(* The items of a value; a key that is not there reads as one empty item.  *)
Items(piece) == IF piece.k = "value" THEN piece.items ELSE <<piece.word>>
ItemsAt(tags, key) == IF Label(key) \in DOMAIN tags THEN Items(tags[Label(key)]) ELSE <<"">>

isBitList(tags) == "bitlist" \in ToSet(ItemsAt(tags, Ssz))

(* strconv.Atoi, and uint64 of the number: a negative one becomes huge.    *)
Ints   == - MaxNumber - 1 .. MaxNumber
Uint64 == 2 * (MaxNumber + 1)
IsNumber(item) == \E n \in Ints : ToString(n) = item
Atoi(item) == [ok |-> IsNumber(item),
               n  |-> IF IsNumber(item)
                      THEN (CHOOSE n \in Ints : ToString(n) = item) % Uint64 ELSE 0]

Open(item) == item \in {"?", ""}

ItemAt(items, i) == IF i <= Len(items) THEN items[i] ELSE ""

Dimension(size, max, bits) ==
    [list    |-> Open(size),
     len     |-> Atoi(IF Open(size) THEN max ELSE size),
     bitlist |-> bits]

(* Each position of the two lists is a dimension, a vector's when there is *)
(* a size for it; the lists may be of different lengths.                   *)
Paired(size, max, bits) ==
    LET n    == Max({Len(size), Len(max)})
        dims == [i \in 1 .. n |-> Dimension(ItemAt(size, i), ItemAt(max, i), i = n /\ bits)]
    IN  IF \E i \in 1 .. n : ~ dims[i].len.ok THEN [err |-> "error", dims |-> << >>]
        ELSE [err |-> "", dims |-> [i \in 1 .. n |-> [dims[i] EXCEPT !.len = @.n]]]

DimensionsIn(tags) ==
    IF {Label(SszSize), Label(SszMax)} \cap DOMAIN tags = {}
    THEN [err |-> "dimNotFound", dims |-> << >>]
    ELSE Paired(ItemsAt(tags, SszSize), ItemsAt(tags, SszMax), isBitList(tags))

extractSSZDimensions(tag) ==
    LET sc == GetSSZTags(tag)
    IN  IF sc.err THEN [err |-> "error", dims |-> << >>] ELSE DimensionsIn(sc.tags)

---------------------------------------------------------------------------
(* getTags                                                                 *)

(* What lies between two blanks, the ticks trimmed.                        *)
Segments(tag) ==
    FoldLeft(LAMBDA segs, piece :
                IF piece.k = "blank" THEN Append(segs, << >>)
                ELSE [segs EXCEPT ![Len(segs)] = Append(@, piece)],
             <<<< >>>>, SelectSeq(tag, LAMBDA piece : piece.k # "tick"))

(* One colon, with something in quotes behind it.                          *)
Readable(seg) ==
    /\ Len(seg) >= 2
    /\ seg[Len(seg) - 1] = Colon /\ seg[Len(seg)].k = "value" /\ seg[Len(seg)].plain
    /\ \A i \in 1 .. Len(seg) - 2 : seg[i].k = "word"

(* The value of key, << >> if there is none: the search ends at the first  *)
(* segment it cannot read.                                                 *)
Is(seg, label) == SubSeq(seg, 1, Len(seg) - 2) = label
Found(segs, label) ==
    LET stop == {i \in DOMAIN segs : ~ Readable(segs[i]) \/ Is(segs[i], label)}
        seg  == segs[Min(stop)]
    IN  IF stop = {} \/ ~ Readable(seg) THEN << >> ELSE Last(seg).items
getTags(tag, key) == Found(Segments(tag), Label(key))

OneNumber(items) == IF Len(items) = 1 THEN Atoi(items[1]) ELSE [ok |-> FALSE, n |-> 0]
getTagsInt(tag, key) == OneNumber(getTags(tag, key))
===========================================================================
