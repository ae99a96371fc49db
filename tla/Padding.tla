------------------------------ MODULE Padding ------------------------------
(***************************************************************************)
(* The PKCS #7 padding under every text that bitw encrypts.                *)
(***************************************************************************)
EXTENDS Integers, Sequences

BlockSize == 16
Byte      == 0..255

(* padPKCS7 adds at least one byte. *)
Rem(src) == BlockSize - (Len(src) % BlockSize)
Pad(src) ==
  [i \in 1..(Len(src) + Rem(src)) |-> IF i <= Len(src) THEN src[i] ELSE Rem(src)]

(* unpadPKCS7 refuses what is not whole blocks, and padding that is all of  *)
(* them or more; it looks at the last byte only.                            *)
Unpads(src) == (Len(src) % BlockSize) = 0 /\ src[Len(src)] < Len(src)
Unpad(src)  == SubSeq(src, 1, Len(src) - src[Len(src)])

=============================================================================
