----------------------------- MODULE PairingCode -----------------------------
(***************************************************************************)
(* The manual pairing code: the upper four bits of the discriminator and   *)
(* the passcode packed into ten decimal digits, and a check digit after    *)
(* Verhoeff.  commissioning.rs and dev-commission.rs each have a copy.     *)
(***************************************************************************)
LOCAL INSTANCE Integers
LOCAL INSTANCE Sequences

Digit == 0..9

\* What fits the fields: twelve bits of discriminator, 27 bits of passcode.
MaxDiscriminator == 4095
MaxPasscode == 134217727

\* The digits of n, the first of them of weight 10^(count - 1).
Digits(n, count) == [i \in 1..count |-> (n \div 10 ^ (count - i)) % 10]

\* The number a sequence of digits stands for.
ValueOf(digits) ==
  LET value[i \in 0..Len(digits)] == IF i = 0 THEN 0 ELSE 10 * value[i - 1] + digits[i]
  IN  value[Len(digits)]

\* The tables of verhoeff_checksum, by row and column from 0.
Table(rows) == [r \in 0..Len(rows) - 1 |-> [c \in Digit |-> rows[r + 1][c + 1]]]

D == Table(<< <<0, 1, 2, 3, 4, 5, 6, 7, 8, 9>>, <<1, 2, 3, 4, 0, 6, 7, 8, 9, 5>>,
              <<2, 3, 4, 0, 1, 7, 8, 9, 5, 6>>, <<3, 4, 0, 1, 2, 8, 9, 5, 6, 7>>,
              <<4, 0, 1, 2, 3, 9, 5, 6, 7, 8>>, <<5, 9, 8, 7, 6, 0, 4, 3, 2, 1>>,
              <<6, 5, 9, 8, 7, 1, 0, 4, 3, 2>>, <<7, 6, 5, 9, 8, 2, 1, 0, 4, 3>>,
              <<8, 7, 6, 5, 9, 3, 2, 1, 0, 4>>, <<9, 8, 7, 6, 5, 4, 3, 2, 1, 0>> >>)

P == Table(<< <<0, 1, 2, 3, 4, 5, 6, 7, 8, 9>>, <<1, 5, 7, 6, 2, 8, 3, 0, 9, 4>>,
              <<5, 8, 0, 3, 7, 9, 6, 1, 4, 2>>, <<8, 9, 1, 6, 0, 4, 3, 5, 2, 7>>,
              <<9, 4, 5, 3, 1, 2, 6, 8, 7, 0>>, <<4, 2, 8, 6, 5, 7, 3, 9, 0, 1>>,
              <<2, 7, 9, 3, 8, 0, 6, 4, 1, 5>>, <<7, 0, 4, 6, 9, 1, 3, 2, 5, 8>> >>)

INV == Table(<< <<0, 4, 3, 2, 1, 5, 6, 7, 8, 9>> >>)[0]

\* The sum over the digits from the last to the first, the digit i places from
\* the end permuted by row (i + shift) % 8.
VerhoeffSum(digits, shift) ==
  LET n == Len(digits)
      sum[i \in 0..n] ==
        IF i = 0 THEN 0 ELSE D[sum[i - 1]][P[(i - 1 + shift) % 8][digits[n + 1 - i]]]
  IN  sum[n]

\* Mutant: the last digit of the payload keeps row 0, as if it were the check digit.
ChecksumShifted(digits) == INV[VerhoeffSum(digits, 0)]

\* verhoeff_checksum
Checksum(digits) == INV[VerhoeffSum(digits, 1)]

\* The three chunks: bits 11-10 of the discriminator; its bits 9-8 and the
\* passcode's bits 13-0; the passcode's bits 26-14.
Payload(discriminator, passcode) ==
  Digits((discriminator \div 1024) % 4, 1)
    \o Digits(((discriminator \div 256) % 4) * 16384 + (passcode % 16384), 5)
    \o Digits((passcode \div 16384) % 8192, 4)

\* generate_pairing_code
PairingCodeOf(discriminator, passcode) ==
  LET payload == Payload(discriminator, passcode)
  IN  Append(payload, Checksum(payload))
-----------------------------------------------------------------------------
(* What a controller reads from the code, after the Matter specification. *)

\* A code is valid when the sum over all its digits, unshifted, is 0.
ValidCode(code) == VerhoeffSum(code, 0) = 0

ReadCode(code) ==
  LET chunk2 == ValueOf(SubSeq(code, 2, 6))
      chunk3 == ValueOf(SubSeq(code, 7, 10))
  IN  [upper    |-> 4 * code[1] + (chunk2 \div 16384),
       passcode |-> 16384 * chunk3 + (chunk2 % 16384)]

\* The code with one digit mistaken, or two neighbours swapped.
Mistaken(code) ==
  {[code EXCEPT ![i] = d] : i \in DOMAIN code, d \in Digit}
    \cup {[code EXCEPT ![i] = code[i + 1], ![i + 1] = code[i]] : i \in 1..Len(code) - 1}
=============================================================================
