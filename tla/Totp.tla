-------------------------------- MODULE Totp --------------------------------
(***************************************************************************)
(* One-time codes: how the secret of a login is read, and the code that is *)
(* made of an HMAC under it.                                               *)
(***************************************************************************)
EXTENDS Integers, SequencesExt

(* The number that digits mean; a text without one of its characters.       *)
Value(digits, base) == FoldLeft(LAMBDA v, d : base * v + d, 0, digits)
Without(s, x) == FoldLeft(LAMBDA t, c : IF c = x THEN t ELSE Append(t, c), <<>>, s)

(* What each bit counts, of eight and of five.                              *)
Weight8 == <<128, 64, 32, 16, 8, 4, 2, 1>>
Weight5 == <<16, 8, 4, 2, 1>>

(* The characters of a base32 secret: 0..31 stand for the alphabet, A to Z  *)
(* and 2 to 7; a lower-case letter is the letter's number plus 32.          *)
Space   == 58
Equals  == 59
Strange == 60
Char == 0..60

UpperCase(c) == IF c \in 32..57 THEN c - 32 ELSE c

(* Faulty: what is missing is added when nothing is, too.                   *)
PaddedAlways(key) == key \o [i \in 1..(8 - (Len(key) % 8)) |-> Equals]

(* -len & 7 characters are missing. *)
Padded(key) == key \o [i \in 1..((-Len(key)) % 8) |-> Equals]

Normalized(raw) ==
  LET visible == Without(raw, Space)
  IN  Padded([i \in 1..Len(visible) |-> UpperCase(visible[i])])

(* base32.StdEncoding.DecodeString: whole groups of eight, of which the     *)
(* last may end in padding; five bits each, and what is left over of them   *)
(* is dropped.                                                              *)
Data(key) == Without(key, Equals)
Decodes(key) ==
  LET n == Len(Data(key)) IN
  /\ Len(key) % 8 = 0 /\ Len(key) - n < 8 /\ (n % 8) \in {0, 2, 4, 5, 7}
  /\ \A i \in 1..n : key[i] \in 0..31

BitOf(key, k)  == (key[(k \div 5) + 1] \div Weight5[(k % 5) + 1]) % 2
ByteOf(key, i) == Value([j \in 1..8 |-> BitOf(key, 8 * (i - 1) + j - 1)], 2)
Decoded(key) == [i \in 1..((5 * Len(Data(key))) \div 8) |-> ByteOf(key, i)]

(* totpSecret, given what follows steam:// or the secret of an otpauth URL; *)
(* <<>> if it does not decode.                                              *)
TotpSecret(raw) == IF Decodes(Normalized(raw)) THEN Decoded(Normalized(raw)) ELSE <<>>

-----------------------------------------------------------------------------
(* Dynamic truncation of the 20 bytes of an HMAC to 31 bits. *)
Truncated(sum) ==
  LET o == sum[20] % 16 IN
  (sum[o + 1] % 128) * (256 * 256 * 256) + sum[o + 2] * (256 * 256) + sum[o + 3] * 256 + sum[o + 4]

(* Six digits, with leading zeros, and five of the 26 Steam characters,     *)
(* the last digit first.                                                    *)
TotpHotp(sum) ==
  LET v0 == Truncated(sum) % (1000 * 1000)
      v1 == v0 \div 10  v2 == v1 \div 10  v3 == v2 \div 10  v4 == v3 \div 10  v5 == v4 \div 10
  IN  <<v5, v4 % 10, v3 % 10, v2 % 10, v1 % 10, v0 % 10>>
SteamCode(sum) ==
  LET v0 == Truncated(sum)
      v1 == v0 \div 26  v2 == v1 \div 26  v3 == v2 \div 26  v4 == v3 \div 26
  IN  <<v0 % 26, v1 % 26, v2 % 26, v3 % 26, v4 % 26>>

-----------------------------------------------------------------------------
(* How services write a secret: with its padding or without, in groups,     *)
(* in lower case.                                                          *)
Bits(bytes, k) ==
  IF k \div 8 < Len(bytes) THEN (bytes[(k \div 8) + 1] \div Weight8[(k % 8) + 1]) % 2 ELSE 0
Encoded(bytes) ==
  [i \in 1..((8 * Len(bytes) + 4) \div 5) |->
     Value([j \in 1..5 |-> Bits(bytes, 5 * (i - 1) + j - 1)], 2)]

LowerCase(c) == IF c \in 0..25 THEN c + 32 ELSE c
Written(bytes, style) ==
  LET key    == Encoded(bytes)
      padded == IF style.padded THEN Padded(key) ELSE key
      cased  == IF style.lower THEN [i \in 1..Len(padded) |-> LowerCase(padded[i])] ELSE padded
  IN  IF style.spaced THEN SubSeq(cased, 1, 2) \o <<Space>> \o SubSeq(cased, 3, Len(cased))
      ELSE cased
=============================================================================
