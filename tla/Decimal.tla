------------------------------ MODULE Decimal ------------------------------
(***************************************************************************)
(* Numbers as text: what sprintf writes and what float and atoi read.      *)
(* The recursion is over the prefixes of the text, and over the numbers    *)
(* that the leading digits make.                                           *)
(***************************************************************************)
EXTENDS Integers, Sequences

Digit == 48 .. 57   \* '0' to '9'

\* Faulty: the digit itself in place of its character.
CharacterRaw(n) == n
Character(n) == 48 + n

\* "%d"
Decimal(number) ==
  LET text[n \in 0 .. number] ==
        IF n < 10 THEN <<Character(n)>>
        ELSE Append(text[n \div 10], Character(n % 10))
  IN  text[number]

FourPlaces == 10000   \* how many numbers four digits write

\* "%04d" of one of them
Padded(number) ==
  <<Character(number \div 1000), Character((number \div 100) % 10),
    Character((number \div 10) % 10), Character(number % 10)>>

\* The number that a text of digits means; none at all mean 0.
Number(digits) ==
  LET value[n \in 0 .. Len(digits)] ==
        IF n = 0 THEN 0 ELSE 10 * value[n - 1] + (digits[n] - 48)
  IN  value[Len(digits)]
=============================================================================
