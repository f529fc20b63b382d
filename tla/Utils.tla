------------------------------- MODULE Utils --------------------------------
(***************************************************************************)
(* The scanners of utils.c: UTILS_IsIPV4, UTILS_StrToIP and UTILS_Atoh     *)
(* read the same text, a character a step, each until it returns.          *)
(* MQTT_Connect asks UTILS_StrToIP whether the host is an address.         *)
(*                                                                         *)
(* Characters are their codes.  MaxDigits keeps the int of UTILS_StrToIP,  *)
(* whose overflow is undefined, and the 8-bit count of UTILS_IsIPV4 short  *)
(* of their limits: ten digits in a row reach the one, 256 the other.      *)
(***************************************************************************)
EXTENDS Integers, Sequences, Functions

CONSTANTS
  Alphabet,     \* the characters a text is made of, NUL among them
  MaxLength,    \* bound: characters of a text
  MaxDigits,    \* bound: hexadecimal digits in a row
  Word          \* what the uint32_t of UTILS_Atoh counts modulo: 2^32

ASSUME UtilsAssumption ==
  /\ Alphabet \subseteq 0 .. 127
  /\ MaxLength \in Nat /\ MaxDigits \in 1 .. 9 /\ Word \in Nat \ {0}

VARIABLES
  string,       \* what has been read, in order
  isIPV4,       \* UTILS_IsIPV4: segs, chcnt, accum and what it returned
  strToIP,      \* UTILS_StrToIP: n, the bytes stored (i of them), and that
  atoh          \* UTILS_Atoh: value, and whether it returned

scanVars == <<string, isIPV4, strToIP, atoh>>

NUL == 0
Dot == 46
Digits == 48 .. 57

(* What a scanner that has not returned has for a result. *)
Unfinished == 2

ScanInit ==
  /\ string = <<>>
  /\ isIPV4 = [segs |-> 0, chcnt |-> 0, accum |-> 0, result |-> Unfinished]
  /\ strToIP = [n |-> 0, ip |-> <<>>, result |-> Unfinished]
  /\ atoh = [value |-> 0, result |-> Unfinished]

-----------------------------------------------------------------------------
(* UTILS_IsIPV4.  accum is a uint8_t, and so is the assignment that is     *)
(* compared with 255: that test never fails.                               *)

Returns(s, r) == [s EXCEPT !.result = r]

(* Mutant: a segment may be empty. *)
IsIPV4EmptySegment(c) ==
  IF isIPV4.result # Unfinished THEN isIPV4
  ELSE IF c = NUL
    THEN Returns(isIPV4, IF isIPV4.segs = 3 /\ isIPV4.chcnt > 0 THEN 1 ELSE 0)
  ELSE IF c = Dot
    THEN IF isIPV4.segs + 1 = 4 THEN Returns(isIPV4, 0)
         ELSE [isIPV4 EXCEPT !.segs = @ + 1, !.chcnt = 0, !.accum = 0]
  ELSE IF c \notin Digits THEN Returns(isIPV4, 0)
  ELSE [isIPV4 EXCEPT !.chcnt = (@ + 1) % 256, !.accum = (@ * 10 + c - 48) % 256]

UTILS_IsIPV4(c) ==
  IF isIPV4.result # Unfinished THEN isIPV4
  ELSE IF c = NUL
    THEN Returns(isIPV4, IF isIPV4.segs = 3 /\ isIPV4.chcnt > 0 THEN 1 ELSE 0)
  ELSE IF c = Dot
    THEN IF isIPV4.chcnt = 0 \/ isIPV4.segs + 1 = 4 THEN Returns(isIPV4, 0)
         ELSE [isIPV4 EXCEPT !.segs = @ + 1, !.chcnt = 0, !.accum = 0]
  ELSE IF c \notin Digits THEN Returns(isIPV4, 0)
  ELSE [isIPV4 EXCEPT !.chcnt = (@ + 1) % 256, !.accum = (@ * 10 + c - 48) % 256]

-----------------------------------------------------------------------------
(* UTILS_StrToIP.  The first three numbers have to end at a dot and the    *)
(* last one may end at anything.                                           *)

(* Mutant: off by one, 256 is stored. *)
FitsByte256 == strToIP.n <= 256

(* The number just ended fits the byte it is stored in. *)
FitsByte == strToIP.n < 256

UTILS_StrToIP(c) ==
  IF strToIP.result # Unfinished THEN strToIP
  ELSE IF c \in Digits THEN [strToIP EXCEPT !.n = @ * 10 + c - 48]
  ELSE IF Len(strToIP.ip) = 3 \/ c = Dot
    THEN IF ~FitsByte THEN Returns(strToIP, 0)
         ELSE [n |-> 0, ip |-> Append(strToIP.ip, strToIP.n),
               result |-> IF Len(strToIP.ip) = 3 THEN 1 ELSE Unfinished]
  ELSE Returns(strToIP, 0)

-----------------------------------------------------------------------------
(* UTILS_Atoh, which ends at the first character that is no hex digit. *)

(* Mutant: lower case letters count from a. *)
HexOfLetter(c) == CASE c \in Digits -> c - 48 [] c \in 65 .. 70 -> c - 55 [] OTHER -> c - 97

HexDigits == Digits \cup 65 .. 70 \cup 97 .. 102

HexOf(c) == CASE c \in Digits -> c - 48 [] c \in 65 .. 70 -> c - 55 [] OTHER -> c - 87

UTILS_Atoh(c) ==
  IF atoh.result # Unfinished THEN atoh
  ELSE IF c \notin HexDigits THEN Returns(atoh, 1)
  ELSE [atoh EXCEPT !.value = (@ * 16 + HexOf(c)) % Word]

-----------------------------------------------------------------------------

DigitsEnough ==
  /\ Len(string) >= MaxDigits
  /\ \A i \in Len(string) - MaxDigits + 1 .. Len(string) : string[i] \in HexDigits

Read(c) ==
  /\ Unfinished \in {isIPV4.result, strToIP.result, atoh.result}
  /\ Len(string) < MaxLength
  /\ c \in HexDigits => ~DigitsEnough
  /\ string' = Append(string, c)
  /\ isIPV4' = UTILS_IsIPV4(c)
  /\ strToIP' = UTILS_StrToIP(c)
  /\ atoh' = UTILS_Atoh(c)

(* A text ends at NUL. *)
ScanNext == \E c \in Alphabet : NUL \notin Range(string) /\ Read(c)

ScanSpec == ScanInit /\ [][ScanNext]_scanVars

-----------------------------------------------------------------------------
(* What the text is *)

UpperCase == <<48, 49, 50, 51, 52, 53, 54, 55, 56, 57, 65, 66, 67, 68, 69, 70>>
LowerCase == <<48, 49, 50, 51, 52, 53, 54, 55, 56, 57, 97, 98, 99, 100, 101, 102>>

(* What a digit counts: its place, from zero, in a row of them. *)
Worth(c) == (CHOOSE k \in 1 .. 16 : c \in {UpperCase[k], LowerCase[k]}) - 1

(* The number that the digits s write to base b. *)
ValueOf(s, b) ==
  LET value[k \in 0 .. Len(s)] == IF k = 0 THEN 0 ELSE value[k - 1] * b + Worth(s[k])
  IN  value[Len(s)]

(* Where the next character of s behind place i is that is not in S. *)
After(s, S, i) ==
  LET stops == {j \in i + 1 .. Len(s) : s[j] \notin S}
  IN  IF stops = {} THEN Len(s) + 1 ELSE CHOOSE j \in stops : \A m \in stops : j <= m

(* The first four characters that are no digits end the first four         *)
(* numbers.                                                                *)
Ends(s) ==
  LET e1 == After(s, Digits, 0)
      e2 == After(s, Digits, e1)
      e3 == After(s, Digits, e2)
  IN  <<e1, e2, e3, After(s, Digits, e3)>>

Before(s, k) == IF k = 1 THEN 0 ELSE Ends(s)[k - 1]

Number(s, k) == SubSeq(s, Before(s, k) + 1, Ends(s)[k] - 1)

Dotted(s) == \A k \in 1 .. 3 : Ends(s)[k] \in DOMAIN s /\ s[Ends(s)[k]] = Dot

(* Four numbers between three dots, and nothing else. *)
FourNumbers(s) ==
  /\ Dotted(s) /\ \A k \in 1 .. 4 : Number(s, k) # <<>>
  /\ Ends(s)[4] = Len(s) /\ s[Ends(s)[4]] = NUL

DottedQuad(s) == FourNumbers(s) /\ \A k \in 1 .. 4 : ValueOf(Number(s, k), 10) < 256

-----------------------------------------------------------------------------
(* Properties *)

(* What UTILS_StrToIP takes for an address begins with four numbers that   *)
(* fit a byte, the first three in front of dots, and these are the bytes   *)
(* it stores.                                                              *)
AddressRead ==
  strToIP.result = 1 =>
    /\ Dotted(string) /\ Ends(string)[4] \in DOMAIN string
    /\ \A k \in 1 .. 4 :
         strToIP.ip[k] \in 0 .. 255 /\ strToIP.ip[k] = ValueOf(Number(string, k), 10)

(* Every dotted quad is taken for an address by both functions, and        *)
(* UTILS_IsIPV4 accepts nothing but four numbers between dots.             *)
QuadsAccepted ==
  /\ DottedQuad(string) => strToIP.result = 1 /\ isIPV4.result = 1
  /\ isIPV4.result = 1 => FourNumbers(string)

(* UTILS_Atoh has read the number that the hex digits in front of the      *)
(* first other character write, modulo the width of its word.              *)
HexRead ==
  LET stop == After(string, HexDigits, 0)
  IN  /\ atoh.value = ValueOf(SubSeq(string, 1, stop - 1), 16) % Word
      /\ atoh.result = 1 <=> stop \in DOMAIN string

=============================================================================
