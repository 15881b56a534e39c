------------------------------ MODULE MHTHash ------------------------------
(***************************************************************************)
(* The hash values stored in a Merkle hash tree file, and how mhtdefs.c    *)
(* combines two of them.                                                   *)
(*                                                                         *)
(* A stored hash is a string of bytes.  SHA-256 itself (sha256.c) is       *)
(* abstracted to an injective function: Digest(s) is the marker "H"        *)
(* followed by s, so a hash spells, in prefix notation, the tree it was    *)
(* computed from.  What is kept exactly is the string handed to SHA-256:   *)
(* generateCombinedHash_SHA256 measures the 64 concatenated bytes with     *)
(* strlen, so the message ends before the first zero byte of either child. *)
(***************************************************************************)
EXTENDS Integers, Sequences, FiniteSets

CONSTANT
    Data        \* names of leaf digests: the nonzero bytes that tell data apart

(* The byte 0x00, the marker of a combined digest, and the bytes of        *)
(* g_zeroHash, the digest given to padding leaves.                         *)
ZeroByte == "z"
Marker   == "H"
PadByte  == "0"

Byte == Data \cup {ZeroByte, Marker, PadByte}
Hash == Seq(Byte)

ZeroHash == <<PadByte>>         \* g_zeroHash; it contains no zero byte
NullHash == <<ZeroByte>>        \* the hash field of a buffer that memset cleared

(* strlen: the number of nonempty prefixes that hold no zero byte.         *)
StrLen(s) == Cardinality({n \in 1 .. Len(s) : \A i \in 1 .. n : s[i] # ZeroByte})

Digest(s) == <<Marker>> \o s

(* Faulty variant: the second hash is never copied behind the first.       *)
CombineFirst(hash1, hash2) == Digest(SubSeq(hash1, 1, StrLen(hash1)))

(* generateCombinedHash_SHA256: the digest of the C string in tmp_buf.     *)
Combine(hash1, hash2) ==
    LET tmp_buf == hash1 \o hash2
    IN  Digest(SubSeq(tmp_buf, 1, StrLen(tmp_buf)))
=============================================================================
