------------------------------ MODULE HttpText ------------------------------
(***************************************************************************)
(* How the demo programs of src/tests look at HTTP text: memmem,           *)
(* body_beginning and get_first_header_value (common.c), and the strtoul   *)
(* of client.c:251, as operators on a memory block, next to what they      *)
(* should find.                                                            *)
(*                                                                         *)
(* A text is a sequence of characters.  A block holds the text             *)
(* received so far and, after it, whatever malloc left there: the scanners *)
(* are told where the text ends, and are checked on whether they mind.     *)
(* Positions count from 1, and 0 stands for NULL.                          *)
(***************************************************************************)
EXTENDS Naturals, Sequences, FiniteSetsExt

CONSTANTS Name,   \* the header name looked for, in lower case
          Word    \* the values of a size_t or unsigned long, 2^64: longer than a text

CR == "CR"
LF == "LF"
CRLF == <<CR, LF>>
Blank == {" ", CR, LF}
Digit == [d \in {"0", "1", "2", "3"} |->
             CASE d = "0" -> 0 [] d = "1" -> 1 [] d = "2" -> 2 [] d = "3" -> 3]
Lower == [c \in {"C", "L"} |-> IF c = "C" THEN "c" ELSE "l"]

ASSUME NameAssumption == Name \in Seq(STRING) /\ Name # <<>> /\ Word \in Nat \ {0}

\* A block whose first bytes are the text and the rest what was there before;
\* a byte of neither is the zero of a fresh page.
Block(text, before) ==
    text \o SubSeq(before, Len(text) + 1, Len(before))

Byte(m, i) == IF i \in 1 .. Len(m) THEN m[i] ELSE "NUL"

\* memcmp(p, needle, needlelen) == 0
Matches(m, p, needle) == \A i \in 1 .. Len(needle) : Byte(m, p + i - 1) = needle[i]

-----------------------------------------------------------------------------
\* Mutant of memmem: a failed comparison skips the whole needle.
memmem_skips(m, start, n, needle) ==
    LET end == start + n
        Find[p \in start .. end + Len(needle)] ==
            LET hits == {q \in p .. end - 1 : Byte(m, q) = needle[1]}
            IN  IF p + Len(needle) > end \/ hits = {} THEN 0
                ELSE IF Matches(m, Min(hits), needle) THEN Min(hits)
                ELSE Find[Min(hits) + Len(needle)]
    IN  Find[start]

\* The room left is compared with the needle before memchr moves on to the
\* next candidate, and not again before memcmp looks at that one.
memmem(m, start, n, needle) ==
    LET end == start + n
        Find[p \in start .. end] ==
            LET hits == {q \in p .. end - 1 : Byte(m, q) = needle[1]}
            IN  IF p + Len(needle) > end \/ hits = {} THEN 0
                ELSE IF Matches(m, Min(hits), needle) THEN Min(hits)
                ELSE Find[Min(hits) + 1]
    IN  Find[start]

\* Where the body begins, in a block with `len' bytes of text.
body_beginning(m, len) ==
    LET hit == memmem(m, 1, len, CRLF \o CRLF) IN IF hit = 0 THEN 0 ELSE hit + 4

Fold(c) == IF c \in DOMAIN Lower THEN Lower[c] ELSE c

\* strncasecmp(name, p, name_len) == 0
SameName(m, p) == \A i \in 1 .. Len(Name) : Fold(Byte(m, p + i - 1)) = Name[i]

\* Where the value of the first header called Name begins.  The line that
\* `headers' starts with is skipped: it is the status line.
get_first_header_value(m, headers_len) ==
    LET Scan[current \in 1 .. headers_len + 2] ==
            LET len == headers_len + 1 - current
                hit == memmem(m, current, len, CRLF)
                next == hit + 2
            IN  IF len <= Len(Name) + 3 \/ hit = 0 THEN 0
                ELSE IF headers_len + 1 - next < Len(Name) + 2 THEN 0
                ELSE IF SameName(m, next) /\ Byte(m, next + Len(Name)) = ":"
                     THEN next + Len(Name) + 1
                ELSE Scan[next]
    IN  Scan[1]

\* strtoul(p, &end, 10): blanks, line ends included, are skipped; `ok' says
\* that there was a digit.  A number too large gives ULONG_MAX.  Signs are not
\* among the texts.
strtoul(m, p) ==
    LET start == Min({i \in p .. Len(m) + 1 : Byte(m, i) \notin Blank})
        stop  == Min({i \in start .. Len(m) + 1 : Byte(m, i) \notin DOMAIN Digit})
        Value[i \in start .. stop] ==
            IF i = start THEN 0 ELSE 10 * Value[i - 1] + Digit[Byte(m, i - 1)]
    IN  [ok |-> stop > start, value |-> Min({Value[stop], Word - 1})]

-----------------------------------------------------------------------------
(***************************************************************************)
(* What there is to find in a text, without scanning.                      *)
(***************************************************************************)
FirstOf(S) == IF S = {} THEN 0 ELSE Min(S)

\* The length of the headers, their empty line included; 0 when they have not
\* all been received.
HeadersLen(text) ==
    LET ends == {i \in 4 .. Len(text) : SubSeq(text, i - 3, i) = CRLF \o CRLF}
    IN  FirstOf(ends)

\* Where the values of the headers called Name begin.
Values(text) ==
    {i \in 4 + Len(Name) .. HeadersLen(text) :
        LET line == i - Len(Name) - 1
        IN  SubSeq(text, line - 2, line - 1) = CRLF /\ SameName(text, line) /\ text[i - 1] = ":"}

\* The digits of the number that the first of them gives, if it gives one.
Digits(text) ==
    LET v == Min(Values(text))
        IsDigits(i, j) == \A k \in i .. j : text[k] \in DOMAIN Digit
    IN  {k \in v .. HeadersLen(text) :
            \E i \in v .. k : IsDigits(i, k) /\ \A j \in v .. i - 1 : text[j] = " "}

HasLength(text) == Values(text) # {} /\ Digits(text) # {}

ContentLength(text) ==
    MapThenSumSet(LAMBDA k : Digit[text[k]] * 10 ^ (Max(Digits(text)) - k), Digits(text))
=============================================================================
