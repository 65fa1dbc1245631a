------------------------------- MODULE Words -------------------------------
(***************************************************************************)
(* Machine words as sets of bit positions.  A word is the set of the       *)
(* positions that hold a one, so masks are intersections, shifts move the  *)
(* positions, and a word of 64 bits costs TLC no arithmetic beyond 32 bits.*)
(* The linker computes every relocation in uint64_t or int64_t and narrows *)
(* it on the way out; so does every operator here.                         *)
(***************************************************************************)
EXTENDS Integers

Bits == 0..63
Word == SUBSET Bits

(* The lowest n bits: the mask 2^n - 1.                                    *)
Low(n) == 0..(n - 1)

(* The word of a number TLC can write.                                     *)
Num(n) == {i \in 0..30 : (n \div (2 ^ i)) % 2 = 1}

Shl(a, n) == {i + n : i \in a} \cap Bits
Shr(a, n) == {i - n : i \in {j \in a : j >= n}}

(* Sum modulo 2^64: what both words have is the carry, what one of them    *)
(* has is the sum without it.                                              *)
Plus[a \in Word, b \in Word] ==
    IF b = {} THEN a
    ELSE Plus[(a \ b) \cup (b \ a), Shl(a \cap b, 1)]

Neg(a) == Plus[Bits \ a, {0}]
Minus(a, b) == Plus[a, Neg(b)]

(* llvm::SignExtend64<n>, and the casts to intN_t and back.                *)
SignExtend(a, n) ==
    IF n - 1 \in a THEN (a \cap Low(n)) \cup (Bits \ Low(n)) ELSE a \cap Low(n)

Negative(a) == 63 \in a

(* llvm::isIntN and llvm::isUIntN.                                         *)
IsInt(n, a) == SignExtend(a, n) = a
IsUInt(n, a) == a \subseteq Low(n)

(* Bits lo .. lo + len - 1 of a, moved down to bit 0; and the word that    *)
(* has the runs <<from, to, length>> of a at their new places.             *)
Field(a, lo, len) == Shr(a, lo) \cap Low(len)
Scatter(a, runs) == UNION {Shl(Field(a, r[1], r[3]), r[2]) : r \in runs}
Span(lo, len) == lo .. (lo + len - 1)
=============================================================================
