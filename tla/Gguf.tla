---------------------------------- MODULE Gguf ----------------------------------
(***************************************************************************)
(* The reader of GGUF model files (src/src/gguf.rs).  A file is a record   *)
(* [header, len]: the header that was written, and the bytes that are      *)
(* there, fewer if a download was cut.  A header is [magic, kvs, tensors]: *)
(* kvs is a sequence of [key, len, value], tensors one of                  *)
(* [len, dims, type, offset], with len the bytes of the name.  A reader    *)
(* returns the set of its results, empty for an error.                     *)
(***************************************************************************)
EXTENDS Iterators, SequencesExt

CONSTANTS
    Word,         \* 2^64, scaled down: integers wrap or saturate there
    MAX_STRING,   \* the longest plausible name
    NotText       \* no value, or one that is no string

ASSUME GgufAssumption == Word \in Nat /\ Word > 1 /\ MAX_STRING \in Nat

(* <<block, bytes of a block>> of the tensor types that are known. *)
type_size ==
    [t \in (0..3) \cup (6..15) \cup {18, 20, 21} \cup (23..28) \cup {30, 39} |->
        CASE t \in {0, 26}     -> <<1, 4>>     [] t \in {1, 25, 30} -> <<1, 2>>
          [] t \in {27, 28}    -> <<1, 8>>     [] t = 24            -> <<1, 1>>
          [] t \in {2, 20}     -> <<32, 18>>   [] t = 3             -> <<32, 20>>
          [] t = 6             -> <<32, 22>>   [] t = 7             -> <<32, 24>>
          [] t = 8             -> <<32, 34>>   [] t = 9             -> <<32, 36>>
          [] t = 39            -> <<32, 17>>   [] t = 10            -> <<256, 84>>
          [] t = 18            -> <<256, 98>>  [] t \in {11, 21}    -> <<256, 110>>
          [] t = 23            -> <<256, 136>> [] t = 12            -> <<256, 144>>
          [] t = 13            -> <<256, 176>> [] t = 14            -> <<256, 210>>
          [] t = 15            -> <<256, 292>>]

StringType == 8
ArrayType  == 9

scalar_size ==
    [t \in (0..7) \cup (10..12) |->
        CASE t \in {0, 1, 7} -> 1 [] t \in {2, 3} -> 2 [] t \in 4..6 -> 4 [] t \in 10..12 -> 8]

-----------------------------------------------------------------------------
(* A step of the reader: bytes that must be there, or bytes to jump over,  *)
(* which may lie behind the end of the file.                               *)
Read(n) == [must |-> TRUE, n |-> n]
Skip(n) == [must |-> FALSE, n |-> n]

(* One array, without the arrays in it.  The strings of an array are alike.*)
array_steps(a) ==
    <<Read(12)>>
    \o CASE a.elem \in DOMAIN scalar_size -> <<Skip(scalar_size[a.elem] * a.count)>>
         [] a.elem = StringType -> FlattenSeq([i \in 1..a.count |-> <<Read(8), Skip(a.len)>>])
         [] OTHER -> <<>>

(* A value is [type], and [len] for a string.  For an array, [arrays] are  *)
(* it and all arrays in it as [elem, count, len], each before its elements,*)
(* which is the order in which the recursion reads them.                   *)
skip_value(v) ==
    CASE v.type \in DOMAIN scalar_size -> <<Skip(scalar_size[v.type])>>
      [] v.type = StringType -> <<Read(8), Skip(v.len)>>
      [] v.type = ArrayType  -> FlattenSeq([i \in DOMAIN v.arrays |-> array_steps(v.arrays[i])])
      [] OTHER               -> <<>>

(* Any other type is an error, but no element has the type of an empty     *)
(* array.                                                                  *)
KnownValue(v) ==
    \/ v.type \in DOMAIN scalar_size \cup {StringType}
    \/ v.type = ArrayType /\ \A i \in DOMAIN v.arrays :
            \/ v.arrays[i].elem \in DOMAIN scalar_size \cup {StringType, ArrayType}
            \/ v.arrays[i].count = 0

IsAlignment(kv) == kv.key = "general.alignment" /\ kv.value.type \in DOMAIN scalar_size

KeyValue(kv) ==
    <<Read(8 + kv.len + 4)>>
    \o (IF IsAlignment(kv) THEN <<Read(scalar_size[kv.value.type])>> ELSE skip_value(kv.value))

Tensor(t) == <<Read(8 + t.len + 4 + 8 * Len(t.dims) + 4 + 8)>>

Preamble == <<Read(4 + 4 + 8 + 8)>>

(* A reader behind the steps of its sequence; "bad length" is an i64.      *)
Position(steps) == Total([i \in DOMAIN steps |-> steps[i].n])

Passes(steps, len) ==
    \A i \in DOMAIN steps :
        IF steps[i].must THEN Position(SubSeq(steps, 1, i)) <= len
                         ELSE steps[i].n < Word \div 2

Plausible(names) == \A i \in DOMAIN names : names[i].len <= MAX_STRING

-----------------------------------------------------------------------------
(* The header up to the first string value of the key, and the value.      *)
metadata_string(file, wanted) ==
    LET kvs == file.header.kvs
        hits == {i \in DOMAIN kvs : kvs[i].key = wanted /\ kvs[i].value.type = StringType}
        last == IF hits = {} THEN Len(kvs) ELSE Min(hits) - 1
        before == SubSeq(kvs, 1, last)
        steps == Preamble \o FlattenSeq([i \in DOMAIN before |->
                     <<Read(8 + before[i].len + 4)>> \o skip_value(before[i].value)])
                 \o (IF hits = {} THEN <<>>
                     ELSE <<Read(8 + kvs[Min(hits)].len + 4), Read(8 + kvs[Min(hits)].value.len)>>)
    IN  IF /\ file.header.magic
           /\ \A i \in 1..last : KnownValue(kvs[i].value)
           /\ Plausible(before) /\ Passes(steps, file.len)
           /\ hits # {} => kvs[Min(hits)].value.len <= MAX_STRING
        THEN {IF hits = {} THEN NotText ELSE kvs[Min(hits)].value.text}
        ELSE {}

Saturated(n) == Min({n, Word - 1})

Elements(t) ==
    LET product[k \in 0..Len(t.dims)] ==
            IF k = 0 THEN 1 ELSE Saturated(product[k-1] * t.dims[k])
    IN  product[Len(t.dims)]

(* The end of a tensor, from the start of the data.  The product of a      *)
(* release build wraps, the sum saturates.                                 *)
TensorEnd(t) ==
    IF t.type \in DOMAIN type_size
    THEN Saturated(t.offset + (((Elements(t) \div type_size[t.type][1]) * type_size[t.type][2]) % Word))
    ELSE 0

Alignment(kvs) ==
    LET set == {i \in DOMAIN kvs : IsAlignment(kvs[i])}
    IN  IF set = {} THEN 32 ELSE Max({1, kvs[Max(set)].value.number})

Aligned(n, a) == IF n % a = 0 THEN n ELSE n + (a - (n % a))

Steps(header) ==
    Preamble \o FlattenSeq([i \in DOMAIN header.kvs |-> KeyValue(header.kvs[i])])
          \o FlattenSeq([i \in DOMAIN header.tensors |-> Tensor(header.tensors[i])])

(* Mutant: the data start right behind the table. *)
DataStartUnaligned(header) == Position(Steps(header))

DataStart(header) == Aligned(Position(Steps(header)), Alignment(header.kvs))

LastEnd(header) == Max({0} \cup {TensorEnd(header.tensors[i]) : i \in DOMAIN header.tensors})

expected_min_size(file) ==
    LET h == file.header
    IN  IF /\ h.magic
           /\ \A i \in DOMAIN h.kvs : KnownValue(h.kvs[i].value)
           /\ Plausible(h.kvs) /\ Plausible(h.tensors)
           /\ Passes(Steps(h), file.len)
        THEN {(DataStart(h) + LastEnd(h)) % Word}
        ELSE {}

(* The arrays in an array, and those of one value: before the last of them *)
(* more have begun than have come.                                         *)
Inner(a) == IF a.elem = ArrayType THEN a.count ELSE 0

IsArray(arrays) ==
    /\ arrays \in Seq(ToSet(arrays))
    /\ \A a \in ToSet(arrays) : a.count \in Nat /\ a.len \in Nat
    /\ \A k \in 0..Len(arrays) :
          LET begun == 1 + Total([i \in 1..k |-> Inner(arrays[i])])
          IN  IF k < Len(arrays) THEN begun > k ELSE begun = k

(* A number, a length, a count or a value is none below 0. *)
IsKeyValue(kv) ==
    /\ kv.len \in Nat
    /\ kv.value.type = StringType => kv.value.len \in Nat
    /\ kv.value.type = ArrayType => IsArray(kv.value.arrays)
    /\ IsAlignment(kv) => kv.value.number \in Nat

IsTensor(t) == t.len \in Nat /\ t.dims \in Seq(Nat) /\ t.offset \in Nat

IsFile(f) ==
    /\ f.len \in Nat
    /\ f.header.kvs \in Seq(ToSet(f.header.kvs))
    /\ \A kv \in ToSet(f.header.kvs) : IsKeyValue(kv)
    /\ f.header.tensors \in Seq(ToSet(f.header.tensors))
    /\ \A t \in ToSet(f.header.tensors) : IsTensor(t)

(* A path is the set of the file that is there, empty if it is missing. *)
check(path) == \E f \in path : \E want \in expected_min_size(f) : f.len >= want
=============================================================================
