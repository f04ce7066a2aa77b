------------------------------ MODULE StringUtils -------------------------------
(***************************************************************************)
(* cifar-server/stringutils.c, and the parts of the C library it and       *)
(* handler.c read numbers with.  A text is a sequence of byte codes, its   *)
(* terminator left out; positions count from zero as in the code.          *)
(***************************************************************************)
EXTENDS Integers, Sequences, Powers

CONSTANTS
  MAX_INT_LEN,   \* the longest number a parameter may have
  INT_BITS       \* width of an int

\* Whatever ParseInt reads fits in an int.
ASSUME IntAssumption ==
  /\ MAX_INT_LEN \in Nat \ {0} /\ INT_BITS \in Nat \ {0}
  /\ Power(10, MAX_INT_LEN) <= Power(2, INT_BITS - 1)

NUL == 0
Whitespace == 9 .. 13 \cup {32}
Percent == 37
Ampersand == 38
Plus == 43
Minus == 45
Slash == 47
Digits == 48 .. 57
Equals == 61
QuestionMark == 63

Drop(s, n) == SubSeq(s, n + 1, Len(s))

\* The length of the longest beginning of s that is made of bytes in B.
Span(s, B) ==
  CHOOSE n \in 0 .. Len(s) :
    (\A i \in 1 .. n : s[i] \in B) /\ (n < Len(s) => s[n + 1] \notin B)

\* The search for byte b from position i on ends at j.
StopsAt(s, b, i, j) ==
  /\ j \in i .. Len(s)
  /\ \A k \in i .. j - 1 : s[k + 1] # b
  /\ j < Len(s) => s[j + 1] = b

--------------------------------------------------------------------------------
(* sscanf with %d: white space, a sign, digits.  A number that does not fit in  *)
(* an int is cut to its width, as glibc does.                              *)

Truncated(v) ==
  LET half == Power(2, INT_BITS - 1) IN ((v + half) % (2 * half)) - half

NextDigit(v, d) == 10 * v + (d - 48)

Number(digits) == FoldLeft(NextDigit, 0, digits)

Unsigned(s) == IF s # <<>> /\ s[1] \in {Plus, Minus} THEN Tail(s) ELSE s

ScanInt(s) ==
  LET t == Drop(s, Span(s, Whitespace))
      u == Unsigned(t)
      v == Number(SubSeq(u, 1, Span(u, Digits)))
  IN  [matched |-> Span(u, Digits) > 0,
       value |-> IF t # u /\ t[1] = Minus THEN -v ELSE v]

ParseInt(s) ==
  IF Len(s) <= MAX_INT_LEN /\ ScanInt(s).matched THEN Truncated(ScanInt(s).value) ELSE 0

StartsWith(s, prefix) == IsPrefix(prefix, s)

ToLower(b) == IF b \in 65 .. 90 THEN b + 32 ELSE b

\* Mutant: the first byte of the suffix is not compared.
EndsWithCIButFirst(s, suffix) ==
  /\ Len(suffix) <= Len(s)
  /\ \A i \in 2 .. Len(suffix) :
       ToLower(s[Len(s) - Len(suffix) + i]) = ToLower(suffix[i])

EndsWithCI(s, suffix) ==
  /\ Len(suffix) <= Len(s)
  /\ \A i \in 1 .. Len(suffix) :
       ToLower(s[Len(s) - Len(suffix) + i]) = ToLower(suffix[i])
================================================================================
