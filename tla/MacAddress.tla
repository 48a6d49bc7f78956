----------------------------- MODULE MacAddress -----------------------------
(***************************************************************************)
(* MacAddress of src/src/types.rs: six bytes, their text, and the address  *)
(* that is derived from a host and a VM.                                   *)
(*                                                                         *)
(* A text is what split(':') makes of it, a sequence of parts.  A part is  *)
(* a sequence of characters: 0..15 is a hexadecimal digit in either case.  *)
(***************************************************************************)
EXTENDS Naturals, Sequences

Byte    == 0..255
Address == [1..6 -> Byte]

Plus == 16
Odd  == 17  \* any other character
Char == 0..Odd
Text == Seq(Seq(Char))

(* u8::from_str_radix(part, 16) allows a plus sign before the digits ...   *)
Digits(part) == IF Len(part) > 1 /\ part[1] = Plus THEN Tail(part) ELSE part

(* ... of which there is at least one, and any number of leading zeros.    *)
IsByte(part) ==
  /\ part # << >>
  /\ LET d == Digits(part)
     IN  \A i \in 1..Len(d) : d[i] < 16 /\ (i + 1 < Len(d) => d[i] = 0)

(* Mutant of ByteOf: the digits are taken for decimal ones.                *)
ByteOfDecimal(part) ==
  LET d == Digits(part)
      n == Len(d)
  IN  (IF n = 1 THEN 0 ELSE 10 * d[n - 1]) + d[n]

(* The value of a part that is a byte: that of its last two digits.        *)
ByteOf(part) ==
  LET d == Digits(part)
      n == Len(d)
  IN  (IF n = 1 THEN 0 ELSE 16 * d[n - 1]) + d[n]

(* MacAddress::parse returns Ok, and what it returns then.                 *)
Parses(text) == Len(text) = 6 /\ \A i \in 1..6 : IsByte(text[i])

parse(text) == [ i \in 1..6 |-> ByteOf(text[i]) ]

(* Display: two digits a byte.                                             *)
to_string(m) == [ i \in 1..6 |-> << m[i] \div 16, m[i] % 16 >> ]

(* 52:55:55 and the first three bytes of the hash of the seed and the id.  *)
deterministic(hash) == << 82, 85, 85, hash[1], hash[2], hash[3] >>
=============================================================================
