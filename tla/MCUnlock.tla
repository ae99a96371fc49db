------------------------------ MODULE MCUnlock ------------------------------
(* A terminal on a desktop, one without a keyring, a cron job whose dialogs *)
(* have no display, a script that feeds lines, a locked keyring.            *)
EXTENDS Unlock

e(dialogs, stdin, tool, password) ==
  [dialogs |-> dialogs, stdin |-> stdin, tool |-> tool, password |-> password]
SomeEnvs == { e(1, "tty", "works", 0), e(0, "tty", "none", 0), e(2, "none", "works", 0),
              e(0, "lines", "works", 1), e(1, "lines", "locked", 0), e(0, "none", "none", 2) }

AllSetups == { [home |-> "cloud", configured |-> "none"], [home |-> "self", configured |-> "none"],
               [home |-> "self", configured |-> "self"] }

SomeTexts == UNION {[1..n -> {"'", "\\", "x"}] : n \in 0..4}
SomeKeys  == {[i \in 1..n |-> (97 * i + 31 * n) % 256] : n \in 1..11}
AllStyles == [padded : BOOLEAN, lower : BOOLEAN, spaced : BOOLEAN]
(* The first four bytes from the offset, which is the last digit.           *)
sum(a, b, o) == [i \in 1..20 |-> CASE i = 20 -> 16 * 7 + o [] i = o + 1 -> a [] OTHER -> b]
SomeSums  == {sum(a, b, o) : a \in {0, 127, 128, 255}, b \in {0, 64, 255}, o \in {0, 1, 15}}
=============================================================================
