----------------------------- MODULE BlobFormat -----------------------------
(***************************************************************************)
(* How a blob stands in a data file (blob_manager.cc, varint.h): a byte    *)
(* with the version and the compression flag, the size of the blob as a    *)
(* varint, its compressed size as a varint if it is compressed, and its    *)
(* bytes.  A byte of a varint carries 7 bits in the code; Base is 2^7.     *)
(*                                                                         *)
(* What is read is a function from addresses to bytes, so that a reader    *)
(* can run past what was written.  LZ4 is external: LZ4_compressBound      *)
(* allows for Expansion bytes more than there were.                        *)
(***************************************************************************)
EXTENDS Integers, Sequences, FiniteSets, Functions

CONSTANTS
    Base,            \* values of a varint byte below the flag that more follow
    MaxVarintBytes,  \* kMaxVarintBytes
    Expansion        \* what LZ4 adds to incompressible data at most

ASSUME FormatAssumption ==
    /\ Base \in Nat /\ Base > 1
    /\ MaxVarintBytes \in Nat \ {0}
    /\ Expansion \in Nat

Version  == 1
TooLong  == -1      \* DecodeVarint's -1, and a header that throws for it
NotCompressed == -1

-----------------------------------------------------------------------------
(* Varints, low digits first. *)

\* The value after each turn of the loop.
Shifted(value) ==
    LET shifted[k \in 0..MaxVarintBytes] ==
            IF k = 0 THEN value ELSE shifted[k - 1] \div Base
    IN  shifted

\* Mutant: the flag goes to a value that needs no byte more.
EncodeVarintLate(value) ==
    LET shifted == Shifted(value)
        last == CHOOSE k \in 0..MaxVarintBytes :
                    shifted[k] <= Base /\ \A j \in 0..(k - 1) : shifted[j] > Base
    IN  [i \in 1..(last + 1) |-> IF i = last + 1 THEN shifted[last]
                                 ELSE Base + (shifted[i - 1] % Base)]

\* The loop ends with the first value that fits a byte without the flag.
EncodeVarint(value) ==
    LET shifted == Shifted(value)
        last == CHOOSE k \in 0..MaxVarintBytes :
                    shifted[k] < Base /\ \A j \in 0..(k - 1) : shifted[j] >= Base
    IN  [i \in 1..(last + 1) |-> IF i = last + 1 THEN shifted[last]
                                 ELSE Base + (shifted[i - 1] % Base)]

\* Value and length of the varint at an address; more[i] is what its bytes from
\* number i on add, by the weight of the first of them.
DecodeVarint(byte, at) ==
    LET more[i \in 0..MaxVarintBytes] ==
            IF i = MaxVarintBytes THEN [value |-> 0, count |-> TooLong]
            ELSE IF byte[at + i] < Base THEN [value |-> byte[at + i], count |-> i + 1]
            ELSE [value |-> (byte[at + i] % Base) + (Base * more[i + 1].value),
                  count |-> more[i + 1].count]
    IN  more[0]

\* Powers of Base, of which GetVarintSize has a table.
Power[k \in 0..MaxVarintBytes] == IF k = 0 THEN 1 ELSE Base * Power[k - 1]

GetVarintSize(num) == 1 + Cardinality({k \in 1..(MaxVarintBytes - 1) : num >= Power[k]})

-----------------------------------------------------------------------------
(* LZ4, and what Put reserves. *)

\* LZ4_compressBound
CompressBound(n) == n + Expansion

\* GetCompressedSize; blobs are within LZ4_MAX_INPUT_SIZE here.
GetCompressedSize(n) == CompressBound(n)

\* Mutant: the varint of the compressed size is left out.
GetHeaderSizeOfOne(blobSize, compSize) == 1 + GetVarintSize(blobSize)

GetHeaderSize(blobSize, compSize) ==
    1 + GetVarintSize(blobSize)
      + IF compSize > NotCompressed THEN GetVarintSize(compSize) ELSE 0

EstimatedBytesToWrite(blobSize, compress) ==
    LET compSize == IF compress THEN GetCompressedSize(blobSize) ELSE NotCompressed
    IN  GetHeaderSize(blobSize, compSize) + IF compress THEN compSize ELSE blobSize

-----------------------------------------------------------------------------
(* The header. *)

WriteBlobHeader(compressed, blobSize, compSize) ==
    <<(16 * Version) + (IF compressed THEN 1 ELSE 0)>>
    \o EncodeVarint(blobSize)
    \o IF compressed THEN EncodeVarint(compSize) ELSE <<>>

\* The header at an address; next is where the bytes of the blob begin.
ReadBlobHeader(byte, at) ==
    LET compressed == byte[at] % 2 = 1
        size == DecodeVarint(byte, at + 1)
        comp == IF compressed THEN DecodeVarint(byte, at + 1 + size.count)
                ELSE [value |-> 0, count |-> 0]
    IN  [compressed |-> compressed,
         blobSize |-> size.value,
         compSize |-> comp.value,
         throws |-> TooLong \in {size.count, comp.count},
         next |-> at + 1 + size.count + comp.count]
=============================================================================
