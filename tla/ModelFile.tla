------------------------------ MODULE ModelFile ------------------------------
(***************************************************************************)
(* A GGUF file and the weights found in it.  A file is what its header,     *)
(* metadata and tensor directory say, and how many bytes of it there are:   *)
(* a download that was cut short has fewer than they describe.  Metadata    *)
(* values are a type and a value, those of an array a view of the file.     *)
(*                                                                         *)
(* The numbers stay where a converter leaves them: no product or sum of     *)
(* them passes 64 bits.                                                     *)
(***************************************************************************)
EXTENDS Integers, Sequences, FiniteSets, SequencesExt

None == -1

\* block_size() and bytes_per_block(): <<0, 0>> for what has neither.
Packing(dtype) ==
    CASE dtype = "F32" -> <<1, 4>>
      [] dtype \in {"F16", "BF16"} -> <<1, 2>>
      [] dtype = "Q4_0" -> <<32, 18>> [] dtype = "Q4_1" -> <<32, 20>>
      [] dtype = "Q5_0" -> <<32, 22>> [] dtype = "Q5_1" -> <<32, 24>>
      [] dtype = "Q8_0" -> <<32, 34>>
      [] dtype = "Q2_K" -> <<256, 84>> [] dtype = "Q3_K" -> <<256, 110>>
      [] dtype = "Q4_K" -> <<256, 144>> [] dtype = "Q5_K" -> <<256, 176>>
      [] dtype = "Q6_K" -> <<256, 210>> [] dtype = "Q8_K" -> <<256, 292>>
      [] dtype = "PQ2_0" -> <<128, 34>> [] dtype = "PTQ1_0" -> <<128, 28>>
      [] dtype = "Q2_0" -> <<64, 18>>
      [] OTHER -> <<0, 0>>

BlockSize(dtype) == Packing(dtype)[1]
BytesPerBlock(dtype) == Packing(dtype)[2]

\* What a matvec can read, and what read_row() and dequant_1d() can.
MatvecTypes == {"F32", "BF16", "Q4_1", "Q5_0", "Q8_0", "Q4_K", "Q5_K", "Q6_K", "PQ2_0"}
RowTypes == MatvecTypes \cup {"F16", "Q2_0"}

ElementCount(dims) ==
    LET count[i \in 0 .. Len(dims)] == IF i = 0 THEN 1 ELSE count[i - 1] * dims[i]
    IN count[Len(dims)]

TensorBytes(dtype, dims) ==
    IF BlockSize(dtype) = 0 \/ ElementCount(dims) % BlockSize(dtype) # 0 THEN 0
    ELSE (ElementCount(dims) \div BlockSize(dtype)) * BytesPerBlock(dtype)

-----------------------------------------------------------------------------
(* Reading the file from its beginning                                      *)

ScalarBytes(type) ==
    CASE type \in {"U8", "I8", "Bool"} -> 1 [] type \in {"U16", "I16"} -> 2
      [] type \in {"U32", "I32", "F32"} -> 4 [] type \in {"U64", "I64", "F64"} -> 8

StringBytes(s) == 8 + Len(s)
Total(sizes) ==
    LET total[i \in 0 .. Len(sizes)] == IF i = 0 THEN 0 ELSE total[i - 1] + sizes[i]
    IN total[Len(sizes)]

\* An array of strings is read out, any other is kept as a view.
ValueBytes(v) ==
    CASE v.type = "String" -> StringBytes(v.value)
      [] v.type = "Strings" -> 12 + Total([i \in DOMAIN v.value |-> StringBytes(v.value[i])])
      [] v.type = "Array" -> 12 + v.count * ScalarBytes(v.element)
      [] OTHER -> ScalarBytes(v.type)

EntryBytes(entry) == StringBytes(entry.key) + 4 + ValueBytes(entry.value)
InfoBytes(info) == StringBytes(info.name) + 4 + 8 * Len(info.dims) + 4 + 8

EntriesEnd(file, n) == 24 + Total([i \in 1..n |-> EntryBytes(file.kv[i])])
DirectoryEnd(file) ==
    EntriesEnd(file, Len(file.kv))
    + Total([i \in DOMAIN file.tensors |-> InfoBytes(file.tensors[i])])

\* Of two entries with one key the later counts.
EntryOf(file, key) == Max({i \in DOMAIN file.kv : file.kv[i].key = key} \cup {0})

Integral == {"U8", "I8", "U16", "I16", "U32", "I32", "U64", "I64"}
GetUint(file, key) ==
    LET i == EntryOf(file, key)
    IN IF i = 0 THEN None
       ELSE IF file.kv[i].value.type \in Integral /\ file.kv[i].value.value >= 0
       THEN file.kv[i].value.value ELSE None

\* Where the elements of an array begin; read_*_array() reads them from there.
ArrayBegin(file, key) ==
    EntriesEnd(file, EntryOf(file, key) - 1) + StringBytes(key) + 4 + 12

Alignment(file) ==
    IF GetUint(file, "general.alignment") > 0 THEN GetUint(file, "general.alignment") ELSE 32

AlignUp(at, alignment) == ((at + alignment - 1) \div alignment) * alignment
DataBase(file) == AlignUp(DirectoryEnd(file), Alignment(file))

\* Mutated: a tensor need only begin within the file.
BeginsInFile(file, info) == DataBase(file) + info.offset <= file.size

\* A tensor of a type without a size is left alone.
FitsInFile(file, info) ==
    \/ TensorBytes(info.dtype, info.dims) = 0
    \/ DataBase(file) + info.offset + TensorBytes(info.dtype, info.dims) <= file.size

Loads(file) ==
    /\ file.magic = "GGUF" /\ file.version = 3
    /\ DirectoryEnd(file) <= file.size
    /\ \A i \in DOMAIN file.tensors :
          /\ Len(file.tensors[i].dims) \in 1..4
          /\ 0 \notin Range(file.tensors[i].dims)
    /\ EntryOf(file, "general.architecture") # 0
    /\ DataBase(file) <= file.size
    /\ \A i \in DOMAIN file.tensors : FitsInFile(file, file.tensors[i])

-----------------------------------------------------------------------------
(* Weights                                                                  *)

\* The first tensor of a name; 0 if there is none.
TensorNamed(file, name) ==
    LET named == {i \in DOMAIN file.tensors : file.tensors[i].name = name}
    IN IF named = {} THEN 0 ELSE Min(named)

MatrixBytes(dtype, rows, cols) ==
    IF BlockSize(dtype) = 0 \/ cols % BlockSize(dtype) # 0 THEN 0
    ELSE rows * (cols \div BlockSize(dtype)) * BytesPerBlock(dtype)

\* The shape a weight must have: [rows], [cols, rows] or [cols, rows, experts].
Shape(rows, cols, experts) ==
    IF cols = 0 THEN <<rows>>
    ELSE IF experts = 0 THEN <<cols, rows>> ELSE <<cols, rows, experts>>

\* resolve() and resolve_experts(): whether the weight can be had.
Resolves(file, name, rows, cols, experts) ==
    LET i == TensorNamed(file, name)
        info == file.tensors[i]
    IN /\ i # 0
       /\ info.dims = Shape(rows, cols, experts)
       /\ experts > 0 =>
             /\ MatrixBytes(info.dtype, rows, cols) # 0
             /\ MatrixBytes(info.dtype, rows, cols) * experts
                   = TensorBytes(info.dtype, info.dims)

Weight(file, name, rows, cols, experts) ==
    LET info == file.tensors[TensorNamed(file, name)]
    IN [dtype |-> info.dtype, data |-> DataBase(file) + info.offset,
        rows |-> rows, cols |-> cols,
        stride |-> IF experts = 0 THEN 0 ELSE MatrixBytes(info.dtype, rows, cols)]

\* Whether a product with so many tokens reads this weight, or fails.  Fewer
\* than four tokens go through a matvec, which does not ask for whole blocks.
Multiplies(w, n_tok) ==
    IF n_tok < 4 THEN w.dtype \in MatvecTypes
    ELSE w.dtype \in RowTypes /\ w.cols % BlockSize(w.dtype) = 0

\* Norms and biases: dequant_1d() of the whole vector.
Dequantises(w) == w.dtype \in RowTypes /\ w.rows % BlockSize(w.dtype) = 0

RowBytes(w) == (w.cols \div BlockSize(w.dtype)) * BytesPerBlock(w.dtype)

\* The bytes of a row of an expert (0 if there is but one matrix), from and to.
RowSpan(w, expert, row) ==
    LET begin == w.data + expert * w.stride + row * RowBytes(w)
    IN <<begin, begin + RowBytes(w)>>

VectorSpan(w) == <<w.data, w.data + (w.rows \div BlockSize(w.dtype)) * BytesPerBlock(w.dtype)>>

-----------------------------------------------------------------------------
(* What a file can be relied on to say, whatever is in it.                  *)

Scalars == Integral \cup {"Bool", "F32", "F64"}

IsValue(v) ==
    CASE v.type = "String" -> Len(v.value) \in Nat
      [] v.type = "Strings" -> v.value \in Seq(Range(v.value))
                               /\ \A i \in DOMAIN v.value : Len(v.value[i]) \in Nat
      [] v.type = "Array" -> v.count \in Nat /\ v.element \in Scalars
      [] OTHER -> v.type \in Scalars /\ (v.type \in Integral => v.value \in Int)

IsEntry(entry) == Len(entry.key) \in Nat /\ IsValue(entry.value)

IsInfo(info) == Len(info.name) \in Nat /\ info.offset \in Nat /\ info.dims \in Seq(Nat)

IsFile(file) ==
    /\ file.size \in Nat
    /\ file.kv \in Seq(Range(file.kv)) /\ \A i \in DOMAIN file.kv : IsEntry(file.kv[i])
    /\ file.tensors \in Seq(Range(file.tensors))
    /\ \A i \in DOMAIN file.tensors : IsInfo(file.tensors[i])
=============================================================================
