---------------------------- MODULE Safetensors ----------------------------
(***************************************************************************)
(* src/safetensors.cpp: loading a file of tensors.  A file begins with the *)
(* length of its header in LENGTH_BYTES bytes; the header is a JSON object *)
(* that gives each tensor its type, its shape and its range in the bytes   *)
(* behind the header.  A file is a record of its size, the given length    *)
(* and what that many bytes parse to: whether they are a JSON object, and  *)
(* its entries by name.  An element of an array that is no integer is -1,  *)
(* a field that is missing or of another kind is "none" or <<-1>>.         *)
(* Integers in a header are 64 bits wide and signed, sizes are unsigned.   *)
(***************************************************************************)
EXTENDS Integers, Sequences, FiniteSets, SequencesExt

CONSTANTS SIZE_MAX,        \* the largest size_t: 2^64 - 1
          LENGTH_BYTES,    \* bytes of the length: 8
          MaxHeaderBytes,  \* kMaxHeaderBytes: 100 MiB
          Files            \* the files that are loaded

ASSUME SafetensorsAssumption ==
    /\ SIZE_MAX \in Nat \ {0} /\ LENGTH_BYTES \in 1..SIZE_MAX /\ MaxHeaderBytes \in 1..SIZE_MAX
    /\ SIZE_MAX % 2 = 1

VARIABLES file,  \* the file that load_safetensors was called with
          loaded \* what it has returned: storages by name, or nothing (nullopt)

\* What an int64_t or a streamoff can hold.
INT_MAX == SIZE_MAX \div 2

\* map_safetensors_dtype, and the bytes of an element (safetensors_dtype_byte_size).
Supported == {"F32", "F16", "BF16", "I32", "I8", "BOOL"}
ByteSize(dtype) ==
    CASE dtype \in {"F64", "I64", "U64"} -> 8
      [] dtype \in {"F32", "I32", "U32"} -> 4
      [] dtype \in {"F16", "BF16", "I16", "U16"} -> 2
      [] OTHER -> 1

Overflow == -1

\* Faulty: the product of the dimensions is reduced modulo the width of a size_t.
WrappingElements(shape) ==
    IF 0 \in Range(shape) THEN 0
    ELSE FoldLeft(LAMBDA n, dim : (n * dim) % (SIZE_MAX + 1), 1, shape)

\* How many elements, if they can be counted.
Elements(shape) ==
    IF 0 \in Range(shape) THEN 0
    ELSE FoldLeft(LAMBDA n, dim : IF n = Overflow \/ n > SIZE_MAX \div dim THEN Overflow ELSE n * dim, 1, shape)

\* parse_single_tensor_entry returns an entry.
ValidEntry(e) ==
    /\ e.dtype \in Supported
    /\ -1 \notin Range(e.shape)
    /\ Elements(e.shape) # Overflow
    /\ Len(e.data_offsets) = 2 /\ -1 \notin Range(e.data_offsets)
    /\ e.data_offsets[2] >= e.data_offsets[1]
    /\ Elements(e.shape) <= SIZE_MAX \div ByteSize(e.dtype)
    /\ e.data_offsets[2] - e.data_offsets[1] = Elements(e.shape) * ByteSize(e.dtype)

\* The entries of a header that are tensors.
TensorNames(header) == DOMAIN header.entries \ {"__metadata__"}

\* validate_tensor_ranges: in the order of the sorted ranges each begins at or behind the end
\* of all before it.  Equal ranges stand in some order, so either may come first.
DisjointRanges(header) ==
    LET range(name) == header.entries[name].data_offsets
        sortedBefore(x, y) == x[1] < y[1] \/ (x[1] = y[1] /\ x[2] <= y[2])
    IN  \A m, n \in TensorNames(header) :
           m # n /\ sortedBefore(range(m), range(n)) => range(m)[2] <= range(n)[1]

\* parse_safetensors_header_impl returns a header.
ValidHeader(header) ==
    /\ header.parsed
    /\ \A name \in TensorNames(header) : ValidEntry(header.entries[name])
    /\ DisjointRanges(header)

\* read_safetensors_header_bytes returns the bytes of the header.
HeaderIsThere(f) ==
    /\ f.total >= LENGTH_BYTES
    /\ f.header_len # 0
    /\ f.header_len <= MaxHeaderBytes
    /\ f.header_len <= SIZE_MAX - LENGTH_BYTES
    /\ LENGTH_BYTES + f.header_len <= f.total

DataStart(f) == LENGTH_BYTES + f.header_len

\* read_tensor_storage_from_file returns a storage, with the bytes of the file it holds.
InFile(f, e) ==
    /\ e.data_offsets[2] <= f.total - DataStart(f)
    /\ e.data_offsets[1] <= SIZE_MAX - DataStart(f)
    /\ DataStart(f) + e.data_offsets[1] <= INT_MAX

TensorStorage(f, e) ==
    [dtype |-> e.dtype, shape |-> e.shape,
     from |-> DataStart(f) + e.data_offsets[1], to |-> DataStart(f) + e.data_offsets[2]]
-----------------------------------------------------------------------------
\* A file as large as a streamoff can say; lengths are unsigned, numbers in a header signed.
IsFile(f) ==
    /\ f.total \in 0 .. INT_MAX
    /\ f.header_len \in 0 .. SIZE_MAX
    /\ \A name \in TensorNames(f.header) :
          /\ f.header.entries[name].shape \in Seq(-1 .. INT_MAX)
          /\ f.header.entries[name].data_offsets \in Seq(-1 .. INT_MAX)

ASSUME FilesAssumption == \A f \in Files : IsFile(f)

NoFile == [total |-> -1]

nullopt == [ok |-> FALSE, tensors |-> <<>>]

SafetensorsInit == file = NoFile /\ loaded = nullopt

\* load_safetensors: all tensors or none.
LoadSafetensors(f) ==
    /\ file = NoFile
    /\ file' = f
    /\ loaded' = IF /\ HeaderIsThere(f)
                    /\ ValidHeader(f.header)
                    /\ \A name \in TensorNames(f.header) : InFile(f, f.header.entries[name])
                 THEN [ok |-> TRUE,
                       tensors |-> [name \in TensorNames(f.header) |-> TensorStorage(f, f.header.entries[name])]]
                 ELSE nullopt

\* The tensors are handed over and another file is loaded.
Release == file # NoFile /\ file' = NoFile /\ loaded' = nullopt

SafetensorsNext == (\E f \in Files : LoadSafetensors(f)) \/ Release

SafetensorsSpec == SafetensorsInit /\ [][SafetensorsNext]_<<file, loaded>>
-----------------------------------------------------------------------------
\* The bytes of a range, and how many an entry needs, with unbounded arithmetic.
BytesOf(from, to) == from .. to - 1
Needs(dtype, shape) == FoldLeft(LAMBDA n, dim : n * dim, ByteSize(dtype), shape)

\* Entry e describes a range of that size within the file.
Describes(f, e) ==
    /\ e.dtype \in Supported
    /\ -1 \notin Range(e.shape)
    /\ Len(e.data_offsets) = 2 /\ -1 \notin Range(e.data_offsets)
    /\ e.data_offsets[2] = e.data_offsets[1] + Needs(e.dtype, e.shape)
    /\ DataStart(f) + e.data_offsets[2] <= f.total

(* What is loaded is the file: every storage is as large as its shape and  *)
(* type say, whatever the products in a header overflow to, its bytes lie  *)
(* behind the header and inside the file, and no byte is in two tensors.   *)
(* And a file whose tensors are all of that kind, and none of them empty,  *)
(* is loaded (test_safetensors.cpp, "rejects integer overflow and          *)
(* overlapping data", "adjacent ranges succeed").                          *)
LoadedTensorsAreTheFile ==
    /\ LET tensors == loaded.tensors
           bytes(m) == BytesOf(tensors[m].from, tensors[m].to)
       IN  \A m \in DOMAIN tensors :
             /\ tensors[m].to - tensors[m].from = Needs(tensors[m].dtype, tensors[m].shape)
             /\ bytes(m) \subseteq DataStart(file) .. file.total - 1
             /\ \A n \in DOMAIN tensors \ {m} : bytes(m) \cap bytes(n) = {}
    /\ file # NoFile /\ ~ loaded.ok =>
         ~ /\ file.header_len \in 1..MaxHeaderBytes /\ DataStart(file) <= file.total
           /\ file.header.parsed
           /\ LET names == TensorNames(file.header)
                  bytes(n) == BytesOf(file.header.entries[n].data_offsets[1], file.header.entries[n].data_offsets[2])
              IN  /\ \A n \in names : Describes(file, file.header.entries[n]) /\ bytes(n) # {}
                  /\ \A m, n \in names : m # n => bytes(m) \cap bytes(n) = {}
=============================================================================
