-------------------------- MODULE HttpConnectionProofs --------------------------
(***************************************************************************)
(* The reception of requests, for all texts, all ways recv() cuts them and *)
(* every number of failures.  What the parser knows is told from the text  *)
(* it has taken so far (Took, Judged), atom by atom; the loop over the     *)
(* data of one recv() is a fold, and induction over it is FoldProofs'.     *)
(***************************************************************************)
EXTENDS HttpConnection, FiniteSets, FiniteSetTheorems, SequenceTheorems,
        TLAPS

Parsing == INSTANCE FoldProofs WITH Op <- Take

\* The parser p has taken the text u and no more, and no line of it was empty
\* but the last.
Took(p, u) ==
  /\ \E s \in 0 .. Len(u) :
       /\ s = 0 \/ u[s] = LF
       /\ p.Line = SubSeq(u, s + 1, Len(u))
       /\ s = 0 <=> p.LineNum = 0
  /\ RequestEnds(u) = IF p.Complete THEN {Len(u)} ELSE {}
  /\ p.should_keep_alive = HasKeepAlive(u)
  /\ p.LineNum = 0 => p.Method = NULL
  /\ p.Method # NULL => p.Method[1] = u[1]

\* And what it thinks of the first line is right.
Judged(p, u) ==
  /\ p.Invalid => p.Method # NULL /\ ~HasRequestLine(u)
  /\ p.Method # NULL /\ ~p.Invalid => Len(u) >= 2 /\ p.Path[1] = u[2]

Pieces == Words \cup {CR}

--------------------------------------------------------------------------------
(* A piece of a line is no LF, the two words of the header are pieces, and *)
(* NULL is no token.                                                       *)
LEMMA AtomsApart ==
  /\ Atoms = Pieces \cup {LF}
  /\ LF \notin Pieces /\ CR \in Pieces /\ CR # LF /\ Words \subseteq Pieces
  /\ "Connection:" \in Pieces /\ "keep-alive" \in Pieces
  /\ "Connection:" \in Words /\ "keep-alive" \in Words
  /\ CR \notin Words /\ LF \notin Words
  /\ NULL \notin Seq(Atoms)
  BY HttpAssumption DEF Atoms, Pieces

(* IsSuffix, of the end CR LF of a line, said with indices.                *)
LEMMA SuffixIsEnd ==
  ASSUME NEW line \in Seq(Atoms)
  PROVE  IsSuffix(<<CR, LF>>, line) <=>
           Len(line) >= 2 /\ line[Len(line) - 1] = CR /\ line[Len(line)] = LF
<1> DEFINE s == <<CR, LF>>
           r == Reverse(s)
           t == Reverse(line)
<1>1. /\ Len(r) = 2 /\ r[1] = LF /\ r[2] = CR /\ r \in Seq({CR, LF})
  BY DEF Reverse
<1>2. /\ t \in Seq(Atoms) /\ Len(t) = Len(line)
      /\ \A i \in 1 .. Len(line) : t[i] = line[Len(line) - i + 1]
  BY DEF Reverse
<1>3. IsSuffix(s, line) <=> Len(r) <= Len(t) /\ SubSeq(r, 1, Len(r)) = SubSeq(t, 1, Len(r))
  BY DEF IsSuffix, IsPrefix
<1> HIDE DEF s, r, t
<1>4. ASSUME Len(line) >= 2
      PROVE  SubSeq(r, 1, 2) = SubSeq(t, 1, 2) <=> r[1] = t[1] /\ r[2] = t[2]
  BY <1>1, <1>2, <1>4
<1>5. Len(line) >= 2 => t[1] = line[Len(line)] /\ t[2] = line[Len(line) - 1]
  BY <1>2
<1> QED
  BY <1>1, <1>2, <1>3, <1>4, <1>5 DEF s

(* What the chop leaves of a line: it takes the CR before the LF together  *)
(* with it, and neither if there is no CR.                                 *)
LEMMA ChoppedLine ==
  ASSUME NEW body \in Seq(Pieces)
  PROVE  /\ Append(body, LF) \in Seq(Atoms)
         /\ Chop(Append(body, LF)) =
              IF body # <<>> /\ body[Len(body)] = CR THEN SubSeq(body, 1, Len(body) - 1)
              ELSE Append(body, LF)
<1> DEFINE line == Append(body, LF)
<1>1. /\ line \in Seq(Atoms) /\ Len(line) = Len(body) + 1 /\ line[Len(line)] = LF
      /\ \A i \in 1 .. Len(body) : line[i] = body[i]
  BY AtomsApart
<1>2. IsSuffix(<<CR, LF>>, line) <=> body # <<>> /\ body[Len(body)] = CR
  <2>1. IsSuffix(<<CR, LF>>, line) <=>
          Len(line) >= 2 /\ line[Len(line) - 1] = CR /\ line[Len(line)] = LF
    BY <1>1, SuffixIsEnd
  <2> HIDE DEF line
  <2> QED
    BY <1>1, <2>1
<1>3. body # <<>> => SubSeq(line, 1, Len(line) - 2) = SubSeq(body, 1, Len(body) - 1)
  <2> SUFFICES ASSUME body # <<>>
               PROVE  SubSeq(line, 1, Len(line) - 2) = SubSeq(body, 1, Len(body) - 1)
    OBVIOUS
  <2> HIDE DEF line
  <2> QED
    BY <1>1
<1> HIDE DEF line
<1> QED
  BY <1>1, <1>2, <1>3 DEF Chop, line

(* A prefix of a sequence, element by element.                             *)
LEMMA Prefix ==
  ASSUME NEW S, NEW s \in Seq(S), NEW n \in 0 .. Len(s)
  PROVE  /\ SubSeq(s, 1, n) \in Seq(S) /\ Len(SubSeq(s, 1, n)) = n
         /\ \A i \in 1 .. n : SubSeq(s, 1, n)[i] = s[i]
  OBVIOUS

(* A sequence is empty when its length is zero.                            *)
LEMMA EmptySequence ==
  ASSUME NEW S, NEW s \in Seq(S) PROVE s = <<>> <=> Len(s) = 0
  OBVIOUS

(* Sequences are equal when their elements are.                            *)
LEMMA SameElements ==
  ASSUME NEW S, NEW s \in Seq(S), NEW t \in Seq(S), Len(s) = Len(t),
         \A i \in 1 .. Len(s) : s[i] = t[i]
  PROVE  s = t
  OBVIOUS

(* Short sequences are equal when their elements are.                      *)
LEMMA OneElement ==
  ASSUME NEW S, NEW s \in Seq(S), NEW a
  PROVE  s = <<a>> <=> Len(s) = 1 /\ s[1] = a
  OBVIOUS

(* The same for two elements.                                              *)
LEMMA TwoElements ==
  ASSUME NEW S, NEW s \in Seq(S), NEW a, NEW b
  PROVE  s = <<a, b>> <=> Len(s) = 2 /\ s[1] = a /\ s[2] = b
  OBVIOUS

(* The same for three.                                                     *)
LEMMA ThreeElements ==
  ASSUME NEW S, NEW s \in Seq(S), NEW a, NEW b, NEW c
  PROVE  s = <<a, b, c>> <=> Len(s) = 3 /\ s[1] = a /\ s[2] = b /\ s[3] = c
  OBVIOUS

(* The same for five.                                                      *)
LEMMA FiveElements ==
  ASSUME NEW S, NEW s \in Seq(S), NEW a, NEW b, NEW c, NEW d, NEW e
  PROVE  s = <<a, b, c, d, e>> <=>
           Len(s) = 5 /\ s[1] = a /\ s[2] = b /\ s[3] = c /\ s[4] = d /\ s[5] = e
  OBVIOUS

(* A line is empty after the chop when there was only a CR before its LF:  *)
(* a lone LF is not an empty line.                                         *)
LEMMA ChopIsEmpty ==
  ASSUME NEW body \in Seq(Pieces)
  PROVE  Chop(Append(body, LF)) = <<>> <=> body = <<CR>>
<1>0. Len(body) \in Nat /\ (body # <<>> <=> Len(body) >= 1)
  BY EmptySequence
<1>1. CASE body # <<>> /\ body[Len(body)] = CR
  <2> DEFINE line == SubSeq(body, 1, Len(body) - 1)
  <2>1. Chop(Append(body, LF)) = line
    BY <1>1, ChoppedLine
  <2>2. line \in Seq(Pieces) /\ Len(line) = Len(body) - 1
    <3>1. Len(body) - 1 \in 0 .. Len(body)
      BY <1>0, <1>1
    <3> QED
      BY <3>1, Prefix
  <2> HIDE DEF line
  <2> QED
    BY <1>0, <1>1, <2>1, <2>2, EmptySequence, OneElement
<1>2. CASE ~(body # <<>> /\ body[Len(body)] = CR)
  <2>1. Chop(Append(body, LF)) = Append(body, LF)
    BY <1>2, ChoppedLine
  <2>2. body # <<CR>>
    BY <1>0, <1>2, OneElement
  <2>3. Append(body, LF) # <<>>
    BY ChoppedLine, EmptySequence
  <2> QED
    BY <2>1, <2>2, <2>3
<1> QED
  BY <1>1, <1>2

(* The chopped line is the header the parser knows when the words were the *)
(* two of it and CR came before the LF.                                    *)
LEMMA ChopIsHeader ==
  ASSUME NEW body \in Seq(Pieces)
  PROVE  Chop(Append(body, LF)) = <<"Connection:", "keep-alive">>
           <=> body = <<"Connection:", "keep-alive", CR>>
<1>0. Len(body) \in Nat /\ (body # <<>> <=> Len(body) >= 1)
  BY EmptySequence
<1>1. CASE body # <<>> /\ body[Len(body)] = CR
  <2> DEFINE line == SubSeq(body, 1, Len(body) - 1)
  <2>1. Chop(Append(body, LF)) = line
    BY <1>1, ChoppedLine
  <2>2. /\ line \in Seq(Pieces) /\ Len(line) = Len(body) - 1
        /\ \A i \in 1 .. Len(body) - 1 : line[i] = body[i]
    <3>1. Len(body) - 1 \in 0 .. Len(body)
      BY <1>0, <1>1
    <3> QED
      BY <3>1, Prefix
  <2>3. line = <<"Connection:", "keep-alive">> <=>
          Len(line) = 2 /\ line[1] = "Connection:" /\ line[2] = "keep-alive"
    <3> HIDE DEF line
    <3>1. ASSUME NEW a, NEW b
          PROVE  line = <<a, b>> <=> Len(line) = 2 /\ line[1] = a /\ line[2] = b
      <4>1. line \in Seq(Pieces)
        BY <2>2
      <4> QED
        BY ONLY <4>1, TwoElements
    <3> QED
      BY <3>1, Zenon
  <2>4. body = <<"Connection:", "keep-alive", CR>> <=>
          Len(body) = 3 /\ body[1] = "Connection:" /\ body[2] = "keep-alive" /\ body[3] = CR
    BY ThreeElements
  <2> HIDE DEF line
  <2> QED
    BY <1>0, <1>1, <2>1, <2>2, <2>3, <2>4
<1>2. CASE ~(body # <<>> /\ body[Len(body)] = CR)
  <2> DEFINE line == Append(body, LF)
  <2>1. Chop(line) = line
    BY <1>2, ChoppedLine
  <2>2. body # <<"Connection:", "keep-alive", CR>>
    BY <1>0, <1>2, ThreeElements
  <2>3. line \in Seq(Atoms) /\ line[Len(line)] = LF
    BY ChoppedLine
  <2>4. LF # "keep-alive"
    BY AtomsApart
  <2> HIDE DEF line
  <2>5. line # <<"Connection:", "keep-alive">>
    BY <2>3, <2>4
  <2> QED
    BY <2>1, <2>2, <2>5 DEF line
<1> QED
  BY <1>1, <1>2

--------------------------------------------------------------------------------
(* Take on anything but LF: the line grows, and nothing else changes but   *)
(* the count.                                                              *)
LEMMA TakeText ==
  ASSUME NEW p \in Parsers, ~p.Complete, NEW a \in Pieces
  PROVE  LET q == Take(p, a)
         IN  /\ q \in Parsers
             /\ q.Line = Append(p.Line, a) /\ q.consumed = p.consumed + 1
             /\ q.LineNum = p.LineNum /\ q.Complete = p.Complete
             /\ q.Method = p.Method /\ q.Path = p.Path /\ q.Invalid = p.Invalid
             /\ q.should_keep_alive = p.should_keep_alive
<1> DEFINE q == [p EXCEPT !.Line = Append(@, a), !.consumed = @ + 1]
<1>1. Take(p, a) = q
  BY AtomsApart DEF Take
<1>2. /\ q.Line = Append(p.Line, a) /\ q.consumed = p.consumed + 1
      /\ q.LineNum = p.LineNum /\ q.Complete = p.Complete
      /\ q.Method = p.Method /\ q.Path = p.Path /\ q.Invalid = p.Invalid
      /\ q.should_keep_alive = p.should_keep_alive
  BY DEF Parsers
<1>3. q \in Parsers
  <2>1. Append(p.Line, a) \in Seq(Words \cup {CR}) /\ p.consumed + 1 \in Nat
    BY DEF Parsers, Pieces
  <2> QED
    BY <2>1 DEF Parsers
<1> HIDE DEF q
<1> QED
  BY <1>1, <1>2, <1>3

(* A token of a line is a text, and starts with the word at its position.  *)
LEMMA LineTokenType ==
  ASSUME NEW line \in Seq(Atoms), NEW i \in 1 .. Len(line)
  PROVE  LineToken(line, i) \in Seq(Atoms) /\ LineToken(line, i)[1] = line[i]
<1> DEFINE j == IF i < Len(line) /\ line[i + 1] = LF THEN i + 1 ELSE i
<1>1. j \in i .. Len(line) /\ LineToken(line, i) = SubSeq(line, i, j)
  BY DEF LineToken
<1> HIDE DEF j
<1> QED
  BY <1>1

\* A parser in the middle of ProcessLine: its line has its LF.
OpenParsers ==
  [Line : Seq(Atoms), LineNum : Nat, Complete : BOOLEAN,
   Invalid : BOOLEAN, Method : Tokens, Path : Tokens,
   should_keep_alive : BOOLEAN, consumed : Nat]

\* What the line does to the parser: nothing more if it is empty.
ParsedLine(p, line) ==
  CASE line = <<>> -> [p EXCEPT !.Complete = TRUE]
    [] line # <<>> /\ p.LineNum = 0 -> ParseRequestLine(p, line)
    [] OTHER -> ParseHeaderLine(p, line)

(* What a line does to the parser, field by field.                         *)
LEMMA ParsedLineFields ==
  ASSUME NEW p \in OpenParsers, ~p.Complete, NEW line \in Seq(Atoms)
  PROVE  LET q == ParsedLine(p, line)
         IN  /\ q \in OpenParsers /\ q.LineNum = p.LineNum /\ q.consumed = p.consumed
             /\ q.Complete <=> line = <<>>
             /\ q.should_keep_alive <=>
                  \/ p.should_keep_alive
                  \/ p.LineNum # 0 /\ line = <<"Connection:", "keep-alive">>
             /\ line = <<>> \/ p.LineNum # 0 =>
                  q.Method = p.Method /\ q.Path = p.Path /\ q.Invalid = p.Invalid
             /\ line # <<>> /\ p.LineNum = 0 =>
                  /\ q.Method = LineToken(line, 1)
                  /\ IF Len(line) >= 2 /\ line[2] \in Words
                     THEN q.Path = LineToken(line, 2) /\ q.Invalid = p.Invalid
                     ELSE q.Invalid
<1> DEFINE q == ParsedLine(p, line)
<1>1. CASE line = <<>>
  <2>1. q = [p EXCEPT !.Complete = TRUE]
    BY <1>1 DEF ParsedLine
  <2>2. line # <<"Connection:", "keep-alive">>
    BY <1>1
  <2> HIDE DEF q
  <2>3. q \in OpenParsers
    BY <2>1 DEF OpenParsers
  <2> QED
    BY <1>1, <2>1, <2>2, <2>3 DEF OpenParsers, q
<1>2. CASE line # <<>> /\ p.LineNum = 0
  <2> DEFINE m == [p EXCEPT !.Method = LineToken(line, 1)]
  <2>1. 1 \in 1 .. Len(line) /\ LineToken(line, 1) \in Tokens
    BY <1>2, EmptySequence, LineTokenType DEF Tokens
  <2>2. m \in OpenParsers /\ m.Method = LineToken(line, 1) /\ m.Path = p.Path
        /\ m.Invalid = p.Invalid /\ m.LineNum = p.LineNum /\ m.consumed = p.consumed
        /\ m.Complete = p.Complete /\ m.should_keep_alive = p.should_keep_alive
    BY <2>1 DEF OpenParsers
  <2>3. q = IF Len(line) >= 2 /\ line[2] \in Words
            THEN [m EXCEPT !.Path = LineToken(line, 2)] ELSE [m EXCEPT !.Invalid = TRUE]
    BY <1>2 DEF ParsedLine, ParseRequestLine
  <2> HIDE DEF m, q
  <2>4. CASE Len(line) >= 2 /\ line[2] \in Words
    <3>1. 2 \in 1 .. Len(line) /\ LineToken(line, 2) \in Tokens
      BY <2>4, LineTokenType DEF Tokens
    <3>2. q = [m EXCEPT !.Path = LineToken(line, 2)]
      BY <2>3, <2>4
    <3>3. q \in OpenParsers
      BY <2>2, <3>1, <3>2 DEF OpenParsers
    <3> QED
      BY <1>2, <2>2, <2>4, <3>2, <3>3 DEF OpenParsers, q
  <2>5. CASE ~(Len(line) >= 2 /\ line[2] \in Words)
    <3>2. q = [m EXCEPT !.Invalid = TRUE]
      BY <2>3, <2>5
    <3>3. q \in OpenParsers
      BY <2>2, <3>2 DEF OpenParsers
    <3> QED
      BY <1>2, <2>2, <2>5, <3>2, <3>3 DEF OpenParsers, q
  <2> QED
    BY <2>4, <2>5
<1>3. CASE line # <<>> /\ p.LineNum # 0
  <2>1. q = IF line = <<"Connection:", "keep-alive">>
            THEN [p EXCEPT !.should_keep_alive = TRUE] ELSE p
    BY <1>3 DEF ParsedLine, ParseHeaderLine
  <2> HIDE DEF q
  <2>2. q \in OpenParsers
    BY <2>1 DEF OpenParsers
  <2> QED
    BY <1>3, <2>1, <2>2 DEF OpenParsers, q
<1> QED
  BY <1>1, <1>2, <1>3

(* Take on LF: what the line was decides about the rest, the line is empty *)
(* and counted.                                                            *)
LEMMA TakeLF ==
  ASSUME NEW p \in Parsers, ~p.Complete
  PROVE  LET q == Take(p, LF)
             line == Chop(Append(p.Line, LF))
         IN  /\ q \in Parsers
             /\ q.Line = <<>> /\ q.LineNum = p.LineNum + 1 /\ q.consumed = p.consumed + 1
             /\ q.Complete <=> line = <<>>
             /\ q.should_keep_alive <=>
                  \/ p.should_keep_alive
                  \/ p.LineNum # 0 /\ line = <<"Connection:", "keep-alive">>
             /\ line = <<>> \/ p.LineNum # 0 =>
                  q.Method = p.Method /\ q.Path = p.Path /\ q.Invalid = p.Invalid
             /\ line # <<>> /\ p.LineNum = 0 =>
                  /\ q.Method = LineToken(line, 1)
                  /\ IF Len(line) >= 2 /\ line[2] \in Words
                     THEN q.Path = LineToken(line, 2) /\ q.Invalid = p.Invalid
                     ELSE q.Invalid
<1> DEFINE r == [p EXCEPT !.Line = Append(@, LF), !.consumed = @ + 1]
           line == Chop(Append(p.Line, LF))
           o == ParsedLine(r, line)
           c == [o EXCEPT !.Line = <<>>]
           q == [c EXCEPT !.LineNum = @ + 1]
<1>1. Take(p, LF) = q
  BY DEF Take, ProcessLine, ParsedLine, Parsers
<1>2. p.Line \in Seq(Pieces)
  BY DEF Parsers, Pieces
<1>3. Append(p.Line, LF) \in Seq(Atoms) /\ line \in Seq(Atoms)
  <2>1. SubSeq(p.Line, 1, Len(p.Line) - 1) \in Seq(Atoms)
    BY <1>2, AtomsApart
  <2> QED
    BY <1>2, <2>1, ChoppedLine
<1>4. /\ r \in OpenParsers /\ ~r.Complete /\ r.LineNum = p.LineNum
      /\ r.consumed = p.consumed + 1
      /\ r.Method = p.Method /\ r.Path = p.Path /\ r.Invalid = p.Invalid
      /\ r.should_keep_alive = p.should_keep_alive
  <2>1. /\ r.LineNum = p.LineNum /\ r.Complete = p.Complete
        /\ r.consumed = p.consumed + 1
        /\ r.Method = p.Method /\ r.Path = p.Path /\ r.Invalid = p.Invalid
        /\ r.should_keep_alive = p.should_keep_alive
    BY DEF Parsers
  <2>2. p.consumed + 1 \in Nat
    BY DEF Parsers
  <2>3. r \in OpenParsers
    BY <1>3, <2>2 DEF Parsers, OpenParsers
  <2> QED
    BY <2>1, <2>3 DEF Parsers
<1> HIDE DEF r, line, o
<1>5. /\ o \in OpenParsers /\ o.LineNum = r.LineNum /\ o.consumed = r.consumed
      /\ o.Complete <=> line = <<>>
      /\ o.should_keep_alive <=>
           \/ r.should_keep_alive
           \/ r.LineNum # 0 /\ line = <<"Connection:", "keep-alive">>
      /\ line = <<>> \/ r.LineNum # 0 =>
           o.Method = r.Method /\ o.Path = r.Path /\ o.Invalid = r.Invalid
      /\ line # <<>> /\ r.LineNum = 0 =>
           /\ o.Method = LineToken(line, 1)
           /\ IF Len(line) >= 2 /\ line[2] \in Words
              THEN o.Path = LineToken(line, 2) /\ o.Invalid = r.Invalid
              ELSE o.Invalid
  BY <1>3, <1>4, ParsedLineFields DEF o
<1>6. c = [Line |-> <<>>, LineNum |-> o.LineNum, Complete |-> o.Complete,
           Invalid |-> o.Invalid, Method |-> o.Method, Path |-> o.Path,
           should_keep_alive |-> o.should_keep_alive, consumed |-> o.consumed]
  BY <1>5 DEF OpenParsers
<1> HIDE DEF c
<1>7. q = [Line |-> <<>>, LineNum |-> o.LineNum + 1, Complete |-> o.Complete,
           Invalid |-> o.Invalid, Method |-> o.Method, Path |-> o.Path,
           should_keep_alive |-> o.should_keep_alive, consumed |-> o.consumed]
  BY <1>6
<1> HIDE DEF q
<1>8. q \in Parsers
  BY <1>5, <1>7 DEF Parsers, OpenParsers
<1>9. /\ q.Line = <<>> /\ q.LineNum = o.LineNum + 1 /\ q.Complete = o.Complete
      /\ q.Invalid = o.Invalid /\ q.Method = o.Method /\ q.Path = o.Path
      /\ q.should_keep_alive = o.should_keep_alive /\ q.consumed = o.consumed
  BY <1>7
<1> QED
  BY <1>1, <1>4, <1>5, <1>8, <1>9 DEF line

--------------------------------------------------------------------------------
(* A text with one atom more, element by element.                          *)
LEMMA Appended ==
  ASSUME NEW u \in Seq(Atoms), NEW a \in Atoms
  PROVE  /\ Append(u, a) \in Seq(Atoms) /\ Len(Append(u, a)) = Len(u) + 1
         /\ Append(u, a)[Len(u) + 1] = a
         /\ \A i \in 1 .. Len(u) : Append(u, a)[i] = u[i]
  OBVIOUS

(* With one atom more, at most one request more ends, and at that atom.    *)
LEMMA EndsAppend ==
  ASSUME NEW u \in Seq(Atoms), NEW a \in Atoms
  PROVE  RequestEnds(Append(u, a)) =
           RequestEnds(u) \cup {i \in {Len(u) + 1} : EmptyLineEndsAt(Append(u, a), i)}
<1> DEFINE t == Append(u, a)
<1>1. /\ Len(t) = Len(u) + 1 /\ Len(u) \in Nat
      /\ \A i \in 1 .. Len(u) : t[i] = u[i]
  BY Appended
<1> HIDE DEF t
<1>2. \A i \in 1 .. Len(u) : EmptyLineEndsAt(t, i) <=> EmptyLineEndsAt(u, i)
  BY <1>1 DEF EmptyLineEndsAt
<1> QED
  BY <1>1, <1>2 DEF RequestEnds, t

\* The header keep-alive stands at position i, between two ends of lines.
KeepAliveAt(t, i) ==
  SubSeq(t, i, i + 4) = <<LF, "Connection:", "keep-alive", CR, LF>>

(* The keep-alive header at a position, atom by atom.                      *)
LEMMA KeepAliveIs ==
  ASSUME NEW t \in Seq(Atoms), NEW i \in 1 .. Len(t) - 4
  PROVE  KeepAliveAt(t, i) <=>
           /\ t[i] = LF /\ t[i + 1] = "Connection:" /\ t[i + 2] = "keep-alive"
           /\ t[i + 3] = CR /\ t[i + 4] = LF
<1> DEFINE w == SubSeq(t, i, i + 4)
<1>1. /\ w \in Seq(Atoms) /\ Len(w) = 5
      /\ w[1] = t[i] /\ w[2] = t[i + 1] /\ w[3] = t[i + 2] /\ w[4] = t[i + 3]
      /\ w[5] = t[i + 4]
  OBVIOUS
<1> HIDE DEF w
<1>2. w = <<LF, "Connection:", "keep-alive", CR, LF>> <=>
        /\ Len(w) = 5 /\ w[1] = LF /\ w[2] = "Connection:" /\ w[3] = "keep-alive"
        /\ w[4] = CR /\ w[5] = LF
  BY <1>1, FiveElements
<1>3. KeepAliveAt(t, i) <=> w = <<LF, "Connection:", "keep-alive", CR, LF>>
  BY DEF KeepAliveAt, w
<1> QED
  BY <1>1, <1>2, <1>3

(* With one atom more, at most one header more is there, and ends at that  *)
(* atom.                                                                   *)
LEMMA KeepAliveAppend ==
  ASSUME NEW u \in Seq(Atoms), NEW a \in Atoms
  PROVE  HasKeepAlive(Append(u, a)) <=>
           \/ HasKeepAlive(u)
           \/ Len(u) >= 4 /\ KeepAliveAt(Append(u, a), Len(u) - 3)
<1> DEFINE t == Append(u, a)
<1>1. /\ t \in Seq(Atoms) /\ Len(t) = Len(u) + 1 /\ Len(u) \in Nat
      /\ \A i \in 1 .. Len(u) : t[i] = u[i]
  BY Appended
<1> HIDE DEF t
<1>2. ASSUME NEW i \in 1 .. Len(u) - 4 PROVE KeepAliveAt(t, i) <=> KeepAliveAt(u, i)
  <2>1. i \in 1 .. Len(t) - 4
    BY <1>1
  <2>2. \A k \in {i, i + 1, i + 2, i + 3, i + 4} : t[k] = u[k]
    BY <1>1
  <2> QED
    BY <2>1, <2>2, <1>1, KeepAliveIs
<1>3. HasKeepAlive(t) <=> \E i \in 1 .. Len(u) - 3 : KeepAliveAt(t, i)
  <2>1. Len(t) - 4 = Len(u) - 3
    BY <1>1
  <2> QED
    BY <2>1 DEF HasKeepAlive, KeepAliveAt
<1>4. HasKeepAlive(u) <=> \E i \in 1 .. Len(u) - 4 : KeepAliveAt(u, i)
  BY DEF HasKeepAlive, KeepAliveAt
<1>5. \A i : i \in 1 .. Len(u) - 3 <=>
              i \in 1 .. Len(u) - 4 \/ (Len(u) >= 4 /\ i = Len(u) - 3)
  BY <1>1
<1> QED
  BY <1>2, <1>3, <1>4, <1>5 DEF t

(* Once there has been a LF, more text does not change what the first two  *)
(* atoms were, or make a request line of something that was none.          *)
LEMMA RequestLineStays ==
  ASSUME NEW u \in Seq(Atoms), NEW a \in Atoms, NEW s \in 1 .. Len(u), u[s] = LF
  PROVE  /\ Append(u, a)[1] = u[1]
         /\ HasRequestLine(Append(u, a)) => HasRequestLine(u)
         /\ Len(u) >= 2 => Append(u, a)[2] = u[2]
<1> DEFINE t == Append(u, a)
<1>1. /\ \A i \in 1 .. Len(u) : t[i] = u[i]
      /\ Len(u) \in Nat
  BY Appended
<1> HIDE DEF t
<1>2. t[1] = u[1]
  BY <1>1
<1>3. Len(u) >= 2 => t[2] = u[2]
  BY <1>1
<1>4. Len(u) < 2 => t[1] = LF
  BY <1>1
<1>5. HasRequestLine(t) => HasRequestLine(u)
  BY <1>1, <1>2, <1>3, <1>4, AtomsApart DEF HasRequestLine
<1> QED
  BY <1>2, <1>3, <1>5 DEF t

--------------------------------------------------------------------------------
\* The line that is open after u begins behind position s.
OpenLine(u, s) ==
  /\ s \in 0 .. Len(u)
  /\ s = 0 \/ u[s] = LF
  /\ SubSeq(u, s + 1, Len(u)) \in Seq(Pieces)

(* In the open line there is no LF.                                        *)
LEMMA OpenLineIs ==
  ASSUME NEW u \in Seq(Atoms), NEW s, OpenLine(u, s)
  PROVE  LET body == SubSeq(u, s + 1, Len(u))
         IN  /\ Len(body) = Len(u) - s
             /\ \A i \in 1 .. Len(u) - s : body[i] = u[s + i]
             /\ \A i \in s + 1 .. Len(u) : u[i] # LF
<1> DEFINE body == SubSeq(u, s + 1, Len(u))
<1>1. /\ Len(body) = Len(u) - s
      /\ \A i \in 1 .. Len(u) - s : body[i] = u[s + i]
  BY DEF OpenLine
<1>2. body \in Seq(Pieces)
  BY DEF OpenLine
<1> HIDE DEF body
<1>3. \A i \in 1 .. Len(body) : body[i] # LF
  BY <1>2, AtomsApart
<1>4. ASSUME NEW i \in s + 1 .. Len(u) PROVE u[i] # LF
  <2>1. i - s \in 1 .. Len(u) - s /\ s + (i - s) = i
    BY DEF OpenLine
  <2> QED
    BY <1>1, <1>3, <2>1
<1> QED
  BY <1>1, <1>4 DEF body

(* The next atom ends an empty line when it is LF and the open line is CR  *)
(* alone.                                                                  *)
LEMMA EmptyLineHere ==
  ASSUME NEW u \in Seq(Atoms), NEW a \in Atoms, NEW s, OpenLine(u, s)
  PROVE  EmptyLineEndsAt(Append(u, a), Len(u) + 1)
           <=> a = LF /\ SubSeq(u, s + 1, Len(u)) = <<CR>>
<1> DEFINE t == Append(u, a)
           body == SubSeq(u, s + 1, Len(u))
           n == Len(u)
<1>1. /\ n \in Nat /\ t[n + 1] = a /\ \A i \in 1 .. n : t[i] = u[i]
  BY Appended
<1>2. /\ Len(body) = n - s /\ body \in Seq(Pieces)
      /\ \A i \in 1 .. n - s : body[i] = u[s + i]
      /\ \A i \in s + 1 .. n : u[i] # LF
      /\ s \in 0 .. n
      /\ s = 0 \/ u[s] = LF
  BY OpenLineIs DEF OpenLine
<1>3. body = <<CR>> <=> Len(body) = 1 /\ body[1] = CR
  BY <1>2, OneElement
<1> HIDE DEF t, body, n
<1>4. EmptyLineEndsAt(t, n + 1) <=>
        n >= 1 /\ a = LF /\ u[n] = CR /\ (n = 1 \/ u[n - 1] = LF)
  BY <1>1 DEF EmptyLineEndsAt
<1>5. ASSUME n >= 1, u[n] = CR, n = 1 \/ u[n - 1] = LF PROVE s = n - 1
  <2>1. s # n
    BY <1>2, <1>5, AtomsApart
  <2>2. s >= n - 1
    BY <1>1, <1>2, <1>5
  <2> QED
    BY <1>1, <1>2, <2>1, <2>2
<1>6. ASSUME n >= 1, u[n] = CR, n = 1 \/ u[n - 1] = LF PROVE body = <<CR>>
  <2>1. Len(body) = 1 /\ body[1] = u[n]
    BY <1>1, <1>2, <1>5, <1>6
  <2> QED
    BY <1>3, <1>6, <2>1
<1>7. ASSUME body = <<CR>> PROVE n >= 1 /\ u[n] = CR /\ (n = 1 \/ u[n - 1] = LF)
  <2>1. s = n - 1 /\ body[1] = u[n]
    BY <1>1, <1>2, <1>3, <1>7
  <2> QED
    BY <1>1, <1>2, <1>3, <1>7, <2>1
<1> QED
  BY <1>4, <1>6, <1>7 DEF t, body, n

(* The next atom ends the header when it is LF, and the open line is the   *)
(* two words and CR, and is not the first.                                 *)
LEMMA KeepAliveHere ==
  ASSUME NEW u \in Seq(Atoms), NEW a \in Atoms, NEW s, OpenLine(u, s)
  PROVE  Len(u) >= 4 /\ KeepAliveAt(Append(u, a), Len(u) - 3)
           <=> /\ a = LF /\ s # 0
               /\ SubSeq(u, s + 1, Len(u)) = <<"Connection:", "keep-alive", CR>>
<1> DEFINE t == Append(u, a)
           body == SubSeq(u, s + 1, Len(u))
           n == Len(u)
<1>1. /\ t \in Seq(Atoms) /\ Len(t) = n + 1
      /\ n \in Nat /\ t[n + 1] = a /\ \A i \in 1 .. n : t[i] = u[i]
  BY Appended
<1>2. /\ Len(body) = n - s /\ body \in Seq(Pieces)
      /\ \A i \in 1 .. n - s : body[i] = u[s + i]
      /\ \A i \in s + 1 .. n : u[i] # LF
      /\ s \in 0 .. n
      /\ s = 0 \/ u[s] = LF
  BY OpenLineIs DEF OpenLine
<1> HIDE DEF t, body, n
<1>3. body = <<"Connection:", "keep-alive", CR>> <=>
        Len(body) = 3 /\ body[1] = "Connection:" /\ body[2] = "keep-alive" /\ body[3] = CR
  BY <1>2, ThreeElements
<1>4. ASSUME n >= 4
      PROVE  KeepAliveAt(t, n - 3) <=>
               /\ u[n - 3] = LF /\ u[n - 2] = "Connection:" /\ u[n - 1] = "keep-alive"
               /\ u[n] = CR /\ a = LF
  <2>1. n - 3 \in 1 .. Len(t) - 4
    BY <1>1, <1>4
  <2>2. KeepAliveAt(t, n - 3) <=>
          /\ t[n - 3] = LF /\ t[(n - 3) + 1] = "Connection:"
          /\ t[(n - 3) + 2] = "keep-alive" /\ t[(n - 3) + 3] = CR /\ t[(n - 3) + 4] = LF
    BY <1>1, <2>1, KeepAliveIs
  <2>3. /\ (n - 3) + 1 = n - 2 /\ (n - 3) + 2 = n - 1 /\ (n - 3) + 3 = n
        /\ (n - 3) + 4 = n + 1
    BY <1>1
  <2>4. t[n - 3] = u[n - 3] /\ t[n - 2] = u[n - 2] /\ t[n - 1] = u[n - 1] /\ t[n] = u[n]
    BY <1>1, <1>4
  <2> QED
    BY <1>1, <2>2, <2>3, <2>4
<1>5. ASSUME n >= 4, u[n - 3] = LF, u[n - 2] = "Connection:", u[n - 1] = "keep-alive",
             u[n] = CR
      PROVE  s # 0 /\ body = <<"Connection:", "keep-alive", CR>>
  <2>1. s >= n - 3
    BY <1>1, <1>2, <1>5
  <2>2. u[n - 2] # LF /\ u[n - 1] # LF /\ u[n] # LF
    BY <1>5, AtomsApart
  <2>3. s = n - 3
    BY <1>1, <1>2, <1>5, <2>1, <2>2
  <2>4. Len(body) = 3 /\ body[1] = u[n - 2] /\ body[2] = u[n - 1] /\ body[3] = u[n]
    BY <1>1, <1>2, <1>5, <2>3
  <2> QED
    BY <1>1, <1>3, <1>5, <2>3, <2>4
<1>6. ASSUME s # 0, body = <<"Connection:", "keep-alive", CR>>
      PROVE  /\ n >= 4 /\ u[n - 3] = LF /\ u[n - 2] = "Connection:"
             /\ u[n - 1] = "keep-alive" /\ u[n] = CR
  <2>1. s = n - 3 /\ n >= 4 /\ u[s] = LF
    BY <1>1, <1>2, <1>3, <1>6
  <2>2. body[1] = u[n - 2] /\ body[2] = u[n - 1] /\ body[3] = u[n]
    BY <1>1, <1>2, <2>1
  <2> QED
    BY <1>3, <1>6, <2>1, <2>2
<1> QED
  BY <1>4, <1>5, <1>6 DEF t, body, n

(* The first line after the chop begins as the text does, and when the     *)
(* text has a request line the chopped line has its two words.             *)
LEMMA FirstLine ==
  ASSUME NEW u \in Seq(Pieces), Chop(Append(u, LF)) # <<>>
  PROVE  LET t == Append(u, LF)
             line == Chop(t)
         IN  /\ line \in Seq(Atoms) /\ Len(line) \in 1 .. Len(t)
             /\ \A i \in 1 .. Len(line) : line[i] = t[i]
             /\ HasRequestLine(t) => Len(line) >= 2 /\ line[2] \in Words
<1> DEFINE t == Append(u, LF)
           line == Chop(t)
           n == Len(u)
<1>1. /\ u \in Seq(Atoms) /\ t \in Seq(Atoms) /\ Len(t) = n + 1 /\ n \in Nat
      /\ t[n + 1] = LF /\ \A i \in 1 .. n : t[i] = u[i]
  <2>1. u \in Seq(Atoms) /\ LF \in Atoms
    BY AtomsApart
  <2> QED
    BY <2>1, Appended
<1>2. CASE u # <<>> /\ u[n] = CR
  <2>1. line = SubSeq(u, 1, n - 1)
    BY <1>2, ChoppedLine
  <2>2. n >= 1
    BY <1>2, EmptySequence
  <2>3. /\ line \in Seq(Atoms) /\ Len(line) = n - 1
        /\ \A i \in 1 .. n - 1 : line[i] = u[i]
    <3>1. n - 1 \in 0 .. Len(u)
      BY <1>1, <2>2
    <3> HIDE DEF n, line
    <3> QED
      BY <1>1, <2>1, <3>1, Prefix
  <2> HIDE DEF t, line, n
  <2>4. Len(line) # 0
    BY <2>3, EmptySequence DEF line, t
  <2>5. \A i \in 1 .. Len(line) : line[i] = t[i]
    BY <1>1, <2>3
  <2>6. n = 2 => t[2] = CR
    BY <1>1, <1>2
  <2>7. HasRequestLine(t) => Len(line) >= 2 /\ line[2] \in Words
    BY <1>1, <2>3, <2>4, <2>5, <2>6, AtomsApart DEF HasRequestLine
  <2> QED
    BY <1>1, <2>3, <2>4, <2>5, <2>7 DEF line, t
<1>3. CASE ~(u # <<>> /\ u[n] = CR)
  <2>1. line = t
    BY <1>3, ChoppedLine
  <2> HIDE DEF t, line, n
  <2>2. n = 0 => t[1] = LF
    BY <1>1
  <2>3. HasRequestLine(t) => Len(line) >= 2 /\ line[2] \in Words
    BY <1>1, <2>1, <2>2, AtomsApart DEF HasRequestLine
  <2> QED
    BY <1>1, <2>1, <2>3 DEF line, t
<1> QED
  BY <1>2, <1>3

(* A parser that has taken a text has its open line in hand.               *)
LEMMA TookOpen ==
  ASSUME NEW u \in Seq(Atoms), NEW p \in Parsers, Took(p, u)
  PROVE  \E s : OpenLine(u, s) /\ p.Line = SubSeq(u, s + 1, Len(u)) /\ (s = 0 <=> p.LineNum = 0)
  BY DEF Took, OpenLine, Parsers, Pieces

(* Take, on anything but LF, takes the text with one atom more, and judges *)
(* it as before.                                                           *)
LEMMA TookText ==
  ASSUME NEW u \in Seq(Atoms), NEW p \in Parsers, Took(p, u), Judged(p, u), ~p.Complete,
         NEW a \in Pieces
  PROVE  Took(Take(p, a), Append(u, a)) /\ Judged(Take(p, a), Append(u, a))
<1> DEFINE t == Append(u, a)
           q == Take(p, a)
           n == Len(u)
<1>0. a \in Atoms /\ a # LF
  BY AtomsApart
<1>1. /\ t \in Seq(Atoms) /\ Len(t) = n + 1
      /\ n \in Nat /\ t[n + 1] = a /\ \A i \in 1 .. n : t[i] = u[i]
  BY <1>0, Appended
<1>2. PICK s : OpenLine(u, s) /\ p.Line = SubSeq(u, s + 1, n) /\ (s = 0 <=> p.LineNum = 0)
  BY TookOpen
<1>3. /\ q.Line = Append(p.Line, a) /\ q.LineNum = p.LineNum /\ q.Complete = p.Complete
      /\ q.Method = p.Method /\ q.Path = p.Path /\ q.Invalid = p.Invalid
      /\ q.should_keep_alive = p.should_keep_alive
  BY TakeText
<1>4. RequestEnds(t) = RequestEnds(u)
  <2>1. RequestEnds(t) = RequestEnds(u) \cup {i \in {n + 1} : EmptyLineEndsAt(t, i)}
    BY <1>0, EndsAppend
  <2>2. ~EmptyLineEndsAt(t, n + 1)
    BY <1>0, <1>2, EmptyLineHere
  <2> HIDE DEF t, n
  <2> QED
    BY <2>1, <2>2
<1>5. HasKeepAlive(t) <=> HasKeepAlive(u)
  BY <1>0, <1>2, KeepAliveAppend, KeepAliveHere
<1>6. s # 0 => /\ t[1] = u[1] /\ (HasRequestLine(t) => HasRequestLine(u))
               /\ (n >= 2 => t[2] = u[2])
  <2>1. s # 0 => s \in 1 .. n /\ u[s] = LF
    BY <1>2 DEF OpenLine
  <2> QED
    BY <1>0, <2>1, RequestLineStays
<1>7. SubSeq(t, s + 1, n + 1) = Append(SubSeq(u, s + 1, n), a)
  <2>1. s \in 0 .. n
    BY <1>2 DEF OpenLine
  <2> DEFINE b == SubSeq(u, s + 1, n)
             c == SubSeq(t, s + 1, n + 1)
  <2>2. b \in Seq(Atoms) /\ Len(b) = n - s /\ \A i \in 1 .. n - s : b[i] = u[s + i]
    BY <2>1
  <2>3. c \in Seq(Atoms) /\ Len(c) = n + 1 - s /\ \A i \in 1 .. n + 1 - s : c[i] = t[s + i]
    <3> HIDE DEF t, n
    <3> QED
      BY <1>1, <2>1
  <2> HIDE DEF b, c, t, n
  <2>4. c[n + 1 - s] = a /\ \A i \in 1 .. n - s : c[i] = b[i]
    <3>1. s + (n + 1 - s) = n + 1 /\ n + 1 - s \in 1 .. n + 1 - s
      BY <1>1, <2>1
    <3>2. ASSUME NEW i \in 1 .. n - s PROVE c[i] = b[i]
      <4>1. i \in 1 .. n + 1 - s /\ s + i \in 1 .. n
        BY <1>1, <2>1
      <4> QED
        BY <1>1, <2>2, <2>3, <4>1
    <3> QED
      BY <1>1, <2>3, <3>1, <3>2
  <2>5. c = Append(b, a)
    BY <1>0, <1>1, <2>1, <2>2, <2>3, <2>4
  <2> QED
    BY <2>5 DEF b, c
<1>8. s \in 0 .. n + 1 /\ (s = 0 \/ t[s] = LF)
  BY <1>1, <1>2 DEF OpenLine
<1> HIDE DEF t, q, n
<1>9. Took(q, t)
  <2>1. RequestEnds(t) = IF q.Complete THEN {Len(t)} ELSE {}
    BY <1>3, <1>4 DEF Took
  <2>2. q.should_keep_alive = HasKeepAlive(t)
    <3>1. q.should_keep_alive = HasKeepAlive(u)
      BY <1>3 DEF Took
    <3> QED
      BY <1>5, <3>1 DEF HasKeepAlive
  <2>3. (q.LineNum = 0 => q.Method = NULL) /\ (q.Method # NULL => q.Method[1] = t[1])
    BY <1>2, <1>3, <1>6 DEF Took
  <2>4. \E z \in 0 .. Len(t) :
          /\ z = 0 \/ t[z] = LF
          /\ q.Line = SubSeq(t, z + 1, Len(t))
          /\ z = 0 <=> q.LineNum = 0
    BY <1>1, <1>2, <1>3, <1>7, <1>8
  <2> QED
    BY <2>1, <2>2, <2>3, <2>4 DEF Took
<1>10. Judged(q, t)
  BY <1>1, <1>2, <1>3, <1>6 DEF Took, Judged, n
<1> QED
  BY <1>9, <1>10 DEF t, q

(* Take on LF: the parser has taken the text with the LF, a request line   *)
(* is found invalid only if the text has none, and its method and path are *)
(* the first two words.                                                    *)
LEMMA TookLF ==
  ASSUME NEW u \in Seq(Atoms), NEW p \in Parsers, Took(p, u), Judged(p, u), ~p.Complete
  PROVE  Took(Take(p, LF), Append(u, LF)) /\ Judged(Take(p, LF), Append(u, LF))
<1> DEFINE t == Append(u, LF)
           q == Take(p, LF)
           n == Len(u)
           line == Chop(Append(p.Line, LF))
<1>0. LF \in Atoms
  BY AtomsApart
<1>1. /\ t \in Seq(Atoms) /\ Len(t) = n + 1
      /\ n \in Nat /\ t[n + 1] = LF /\ \A i \in 1 .. n : t[i] = u[i]
  BY <1>0, Appended
<1>2. PICK s : OpenLine(u, s) /\ p.Line = SubSeq(u, s + 1, n) /\ (s = 0 <=> p.LineNum = 0)
  BY TookOpen
<1>3. /\ q.Line = <<>> /\ q.LineNum = p.LineNum + 1
      /\ q.Complete <=> line = <<>>
      /\ q.should_keep_alive <=>
           \/ p.should_keep_alive
           \/ p.LineNum # 0 /\ line = <<"Connection:", "keep-alive">>
      /\ line = <<>> \/ p.LineNum # 0 =>
           q.Method = p.Method /\ q.Path = p.Path /\ q.Invalid = p.Invalid
      /\ line # <<>> /\ p.LineNum = 0 =>
           /\ q.Method = LineToken(line, 1)
           /\ IF Len(line) >= 2 /\ line[2] \in Words
              THEN q.Path = LineToken(line, 2) /\ q.Invalid = p.Invalid
              ELSE q.Invalid
  BY TakeLF
<1>4. p.Line \in Seq(Pieces) /\ p.LineNum \in Nat
  BY DEF Parsers, Pieces
<1>5. RequestEnds(t) = IF q.Complete THEN {n + 1} ELSE {}
  <2>1. line = <<>> <=> p.Line = <<CR>>
    BY <1>4, ChopIsEmpty
  <2>2. EmptyLineEndsAt(t, n + 1) <=> p.Line = <<CR>>
    BY <1>0, <1>2, EmptyLineHere
  <2>3. RequestEnds(t) = RequestEnds(u) \cup {i \in {n + 1} : EmptyLineEndsAt(t, i)}
    BY <1>0, EndsAppend
  <2>4. RequestEnds(u) = {}
    BY DEF Took
  <2> HIDE DEF t, n, q, line
  <2> QED
    BY <1>3, <2>1, <2>2, <2>3, <2>4
<1>6. HasKeepAlive(t) <=> q.should_keep_alive
  <2>1. line = <<"Connection:", "keep-alive">> <=> p.Line = <<"Connection:", "keep-alive", CR>>
    BY <1>4, ChopIsHeader
  <2>2. Len(u) >= 4 /\ KeepAliveAt(t, Len(u) - 3) <=>
          s # 0 /\ p.Line = <<"Connection:", "keep-alive", CR>>
    BY <1>0, <1>2, KeepAliveHere
  <2>3. HasKeepAlive(t) <=> HasKeepAlive(u) \/ (Len(u) >= 4 /\ KeepAliveAt(t, Len(u) - 3))
    BY <1>0, KeepAliveAppend
  <2>4. p.should_keep_alive = HasKeepAlive(u)
    BY DEF Took
  <2> HIDE DEF t, q, line
  <2> QED
    BY <1>2, <1>3, <2>1, <2>2, <2>3, <2>4
<1>7. s # 0 => /\ t[1] = u[1] /\ (HasRequestLine(t) => HasRequestLine(u))
               /\ (n >= 2 => t[2] = u[2])
  <2>1. s # 0 => s \in 1 .. n /\ u[s] = LF
    BY <1>2 DEF OpenLine
  <2> QED
    BY <1>0, <2>1, RequestLineStays
<1>8. p.LineNum = 0 => p.Method = NULL /\ ~p.Invalid
  BY DEF Took, Judged
<1>9. ASSUME p.LineNum = 0, line # <<>>
      PROVE  /\ q.Method # NULL /\ q.Method[1] = t[1]
             /\ q.Invalid => ~HasRequestLine(t)
             /\ ~q.Invalid => Len(t) >= 2 /\ q.Path[1] = t[2]
  <2>1. p.Line = u
    BY <1>2, <1>9
  <2>2. u \in Seq(Pieces) /\ line = Chop(t)
    BY <1>4, <2>1
  <2>3. /\ line \in Seq(Atoms) /\ Len(line) \in 1 .. Len(t)
        /\ \A i \in 1 .. Len(line) : line[i] = t[i]
        /\ HasRequestLine(t) => Len(line) >= 2 /\ line[2] \in Words
    BY <1>9, <2>2, FirstLine
  <2> HIDE DEF t, q, line, n
  <2>4. 1 \in 1 .. Len(line) /\ line[1] = t[1]
    BY <1>1, <2>3
  <2>5. q.Method \in Seq(Atoms) /\ q.Method[1] = t[1]
    BY <1>3, <1>9, <2>3, <2>4, LineTokenType
  <2>6. Len(line) >= 2 /\ line[2] \in Words => Len(t) >= 2 /\ q.Path[1] = t[2]
    <3> SUFFICES ASSUME Len(line) >= 2, line[2] \in Words
                 PROVE  Len(t) >= 2 /\ q.Path[1] = t[2]
      OBVIOUS
    <3>1. 2 \in 1 .. Len(line)
      BY <2>3
    <3>2. q.Path = LineToken(line, 2)
      BY <1>3, <1>9
    <3> QED
      BY <1>1, <2>3, <3>1, <3>2, LineTokenType
  <2> QED
    BY <1>3, <1>8, <1>9, <2>3, <2>5, <2>6, AtomsApart
<1>10. q.Line = SubSeq(t, n + 2, Len(t))
  BY <1>1, <1>3
<1> HIDE DEF t, q, n, line
<1>11. Took(q, t)
  <2>1. RequestEnds(t) = IF q.Complete THEN {Len(t)} ELSE {}
    BY <1>1, <1>5
  <2>2. q.should_keep_alive \in BOOLEAN
    <3>1. q \in Parsers
      BY TakeLF DEF q
    <3> QED
      BY <3>1 DEF Parsers
  <2>3. q.should_keep_alive = HasKeepAlive(t)
    BY <1>6, <2>2 DEF HasKeepAlive
  <2>4. q.LineNum # 0
    BY <1>3, <1>4
  <2>5. q.Method # NULL => q.Method[1] = t[1]
    BY <1>2, <1>3, <1>7, <1>8, <1>9 DEF Took
  <2>6. \E z \in 0 .. Len(t) :
          /\ z = 0 \/ t[z] = LF
          /\ q.Line = SubSeq(t, z + 1, Len(t))
          /\ z = 0 <=> q.LineNum = 0
    <3>1. n + 1 \in 0 .. Len(t) /\ n + 1 # 0 /\ (n + 1) + 1 = n + 2
      BY <1>1
    <3> QED
      BY <1>1, <1>10, <2>4, <3>1
  <2> QED
    BY <2>1, <2>3, <2>4, <2>5, <2>6 DEF Took
<1>12. Judged(q, t)
  <2>1. CASE p.LineNum = 0 /\ line # <<>>
    BY <1>9, <2>1 DEF Judged
  <2>2. CASE p.LineNum = 0 /\ line = <<>>
    BY <1>3, <1>8, <2>2 DEF Judged
  <2>3. CASE p.LineNum # 0
    BY <1>1, <1>2, <1>3, <1>7, <2>3 DEF Judged, n
  <2> QED
    BY <2>1, <2>2, <2>3
<1> QED
  BY <1>11, <1>12 DEF t, q

--------------------------------------------------------------------------------
(* A text goes on with one atom more of the data.                          *)
LEMMA LongerPrefix ==
  ASSUME NEW u \in Seq(Atoms), NEW d \in Seq(Atoms), NEW k \in 0 .. Len(d) - 1
  PROVE  /\ u \o SubSeq(d, 1, k) \in Seq(Atoms) /\ d[k + 1] \in Atoms
         /\ Append(u \o SubSeq(d, 1, k), d[k + 1]) = u \o SubSeq(d, 1, k + 1)
<1> DEFINE x == SubSeq(d, 1, k)
           y == SubSeq(d, 1, k + 1)
<1>1. x \in Seq(Atoms) /\ Len(x) = k /\ \A i \in 1 .. k : x[i] = d[i]
  OBVIOUS
<1>2. y \in Seq(Atoms) /\ Len(y) = k + 1 /\ \A i \in 1 .. k + 1 : y[i] = d[i]
  OBVIOUS
<1>3. d[k + 1] \in Atoms
  OBVIOUS
<1> HIDE DEF x, y
<1>4. y = Append(x, d[k + 1])
  BY <1>1, <1>2, <1>3
<1>6. u \in Seq(Atoms) /\ u \o x \in Seq(Atoms) /\ <<d[k + 1]>> \in Seq(Atoms)
  BY <1>1, <1>3
<1>5. Append(u \o x, d[k + 1]) = u \o Append(x, d[k + 1])
  <2>1. Append(u \o x, d[k + 1]) = (u \o x) \o <<d[k + 1]>>
    BY ONLY <1>3, <1>6, AppendIsConcat
  <2>2. Append(x, d[k + 1]) = x \o <<d[k + 1]>>
    BY ONLY <1>1, <1>3, AppendIsConcat
  <2>3. (u \o x) \o <<d[k + 1]>> = u \o (x \o <<d[k + 1]>>)
    <3>1. PICK e : e = <<d[k + 1]>>
      OBVIOUS
    <3>2. u \in Seq(Atoms) /\ x \in Seq(Atoms) /\ e \in Seq(Atoms)
      BY <1>1, <1>6, <3>1
    <3>3. (u \o x) \o e = u \o (x \o e)
      BY ONLY <3>2, ConcatAssociative, SMTT(20)
    <3> QED
      BY ONLY <3>1, <3>3
  <2> QED
    BY <2>1, <2>2, <2>3
<1> QED
  BY <1>3, <1>4, <1>5, <1>6 DEF x, y

(* The parser's loop over the data is the fold of FoldProofs.              *)
LEMMA ConsumeIsFold ==
  ASSUME NEW p, NEW data
  PROVE  Consume(p, data) = Parsing!Fold([p EXCEPT !.consumed = 0], data)
  BY DEF Consume, FoldLeft, MapThenFoldSet, Max, Parsing!Fold, Parsing!FoldLeft,
         Parsing!MapThenFoldSet, Parsing!Max

\* q has taken what of data it could after u.
TookOf(q, u, data) ==
  \E k \in 0 .. Len(data) :
    /\ Took(q, u \o SubSeq(data, 1, k)) /\ Judged(q, u \o SubSeq(data, 1, k))
    /\ q.consumed = k
    /\ k < Len(data) => q.Complete

(* One step of the loop, wherever the data comes from.                     *)
LEMMA TakeTook ==
  ASSUME NEW q \in Parsers, NEW u \in Seq(Atoms), NEW d \in Seq(Atoms),
         NEW k \in 0 .. Len(d) - 1, ~q.Complete, q.consumed = k,
         Took(q, u \o SubSeq(d, 1, k)), Judged(q, u \o SubSeq(d, 1, k))
  PROVE  LET r == Take(q, d[k + 1])
         IN  /\ r \in Parsers /\ r.consumed = k + 1
             /\ Took(r, u \o SubSeq(d, 1, k + 1)) /\ Judged(r, u \o SubSeq(d, 1, k + 1))
<1> DEFINE t == u \o SubSeq(d, 1, k)
           a == d[k + 1]
<1>1. t \in Seq(Atoms) /\ a \in Atoms /\ Append(t, a) = u \o SubSeq(d, 1, k + 1)
  BY LongerPrefix
<1>2. a = LF \/ a \in Pieces
  BY <1>1, AtomsApart
<1> HIDE DEF t, a
<1>3. Took(Take(q, a), Append(t, a)) /\ Judged(Take(q, a), Append(t, a))
  BY <1>1, <1>2, TookText, TookLF DEF t
<1>4. Take(q, a) \in Parsers /\ Take(q, a).consumed = k + 1
  BY <1>2, TakeText, TakeLF
<1> QED
  BY <1>1, <1>3, <1>4 DEF a

(* The loop of Consume (http_request.c:122-144), for data of any length:   *)
(* the parser has taken what it counts, and stops before the end of the    *)
(* data only when the request is complete. By induction over the data.     *)
LEMMA ConsumeTook ==
  ASSUME NEW p \in Parsers, NEW u \in Seq(Atoms), NEW data \in Seq(Atoms),
         Took(p, u), Judged(p, u), ~p.Complete
  PROVE  Consume(p, data) \in Parsers /\ TookOf(Consume(p, data), u, data)
<1> DEFINE base == [p EXCEPT !.consumed = 0]
           After(j) == Parsing!Fold(base, SubSeq(data, 1, j))
           S == {j \in Nat : j <= Len(data) =>
                   After(j) \in Parsers /\ TookOf(After(j), u, SubSeq(data, 1, j))}
<1>1. /\ base \in Parsers /\ base.consumed = 0 /\ base.Complete = p.Complete
      /\ base.Line = p.Line /\ base.LineNum = p.LineNum /\ base.Invalid = p.Invalid
      /\ base.Method = p.Method /\ base.Path = p.Path
      /\ base.should_keep_alive = p.should_keep_alive
  BY DEF Parsers
<1> HIDE DEF base
<1>2. Took(base, u) /\ Judged(base, u)
  BY <1>1 DEF Took, Judged
<1>3. 0 \in S
  <2>1. SubSeq(data, 1, 0) = <<>> /\ SubSeq(<<>>, 1, 0) = <<>> /\ u \o <<>> = u
        /\ Len(<<>>) = 0
    OBVIOUS
  <2>2. After(0) = base
    BY <2>1, Parsing!FoldEmpty
  <2>3. TookOf(base, u, <<>>)
    <3>1. 0 \in 0 .. Len(<<>>) /\ ~(0 < Len(<<>>))
      OBVIOUS
    <3>2. Took(base, u \o SubSeq(<<>>, 1, 0)) /\ Judged(base, u \o SubSeq(<<>>, 1, 0))
      BY <1>2, <2>1
    <3> QED
      BY <1>1, <3>1, <3>2 DEF TookOf
  <2> QED
    BY <1>1, <2>1, <2>2, <2>3
<1>4. ASSUME NEW j \in Nat, j \in S PROVE j + 1 \in S
  <2> SUFFICES ASSUME j + 1 <= Len(data)
               PROVE  /\ After(j + 1) \in Parsers
                      /\ TookOf(After(j + 1), u, SubSeq(data, 1, j + 1))
    OBVIOUS
  <2> DEFINE d == SubSeq(data, 1, j + 1)
             e == SubSeq(data, 1, j)
  <2>1. /\ d \in Seq(Atoms) /\ Len(d) = j + 1 /\ d[j + 1] = data[j + 1]
        /\ Len(e) = j
        /\ \A k \in 0 .. j : SubSeq(e, 1, k) = SubSeq(d, 1, k)
    OBVIOUS
  <2>2. After(j + 1) = Take(After(j), data[j + 1])
    <3>1. j + 1 \in 1 .. Len(data) /\ (j + 1) - 1 = j
      OBVIOUS
    <3> QED
      BY <3>1, Parsing!FoldPrefix
  <2>3. After(j) \in Parsers /\ TookOf(After(j), u, e)
    BY <1>4
  <2> HIDE DEF d, e, After
  <2>4. PICK k \in 0 .. j :
          /\ Took(After(j), u \o SubSeq(d, 1, k)) /\ Judged(After(j), u \o SubSeq(d, 1, k))
          /\ After(j).consumed = k /\ (k < j => After(j).Complete)
    BY <2>1, <2>3 DEF TookOf
  <2>5. CASE After(j).Complete
    <3>1. After(j + 1) = After(j)
      BY <2>2, <2>5 DEF Take
    <3>2. k \in 0 .. Len(d)
      BY <2>1
    <3>3. TookOf(After(j), u, d)
      BY <2>4, <2>5, <3>2 DEF TookOf
    <3> QED
      BY <2>3, <3>1, <3>3 DEF d
  <2>6. CASE ~After(j).Complete
    <3>1. k = j /\ j \in 0 .. Len(d) - 1 /\ j + 1 \in 0 .. Len(d)
      BY <2>1, <2>4, <2>6
    <3>2. /\ After(j + 1) \in Parsers /\ After(j + 1).consumed = j + 1
          /\ Took(After(j + 1), u \o SubSeq(d, 1, j + 1))
          /\ Judged(After(j + 1), u \o SubSeq(d, 1, j + 1))
      BY <2>1, <2>2, <2>3, <2>4, <2>6, <3>1, TakeTook
    <3>3. TookOf(After(j + 1), u, d)
      BY <2>1, <3>1, <3>2 DEF TookOf
    <3> QED
      BY <3>2, <3>3 DEF d
  <2> QED
    BY <2>5, <2>6
<1> HIDE DEF S
<1>5. Len(data) \in S
  BY <1>3, <1>4, Parsing!NatSetInduction
<1>6. SubSeq(data, 1, Len(data)) = data
  OBVIOUS
<1>7. Consume(p, data) = After(Len(data))
  BY <1>6, ConsumeIsFold DEF base
<1>8. Len(data) \in Nat /\ Len(data) <= Len(data)
  OBVIOUS
<1> HIDE DEF After
<1>9. /\ After(Len(data)) \in Parsers
      /\ TookOf(After(Len(data)), u, SubSeq(data, 1, Len(data)))
  BY <1>5, <1>8 DEF S
<1> QED
  BY <1>6, <1>7, <1>9

--------------------------------------------------------------------------------
\* The parser p stands where the text t leaves it: it has taken all of it, or
\* the request was over before and it has been made invalid.
Reads(p, t) ==
  \E m \in 0 .. Len(t) :
    /\ Took(p, SubSeq(t, 1, m))
    /\ m < Len(t) => p.Complete /\ p.Invalid
    /\ m = Len(t) => Judged(p, t)

(* THttpRequest_Receive after one recv(): however the text was cut, the    *)
(* parser stands where the whole text leaves it.                           *)
LEMMA AfterRecvReads ==
  ASSUME NEW p \in Parsers, NEW t \in Seq(Atoms), NEW data \in Seq(Atoms),
         Reads(p, t), ~p.Complete
  PROVE  AfterRecv(p, data) \in Parsers /\ Reads(AfterRecv(p, data), t \o data)
<1> DEFINE q == Consume(p, data)
           r == AfterRecv(p, data)
<1>1. Took(p, t) /\ Judged(p, t)
  <2>1. PICK m \in 0 .. Len(t) :
          /\ Took(p, SubSeq(t, 1, m))
          /\ m < Len(t) => p.Complete /\ p.Invalid
          /\ m = Len(t) => Judged(p, t)
    BY DEF Reads
  <2>2. m = Len(t) /\ SubSeq(t, 1, Len(t)) = t
    BY <2>1
  <2> QED
    BY <2>1, <2>2
<1>2. q \in Parsers /\ TookOf(q, t, data)
  BY <1>1, ConsumeTook
<1>3. r = IF q.consumed # Len(data) THEN [q EXCEPT !.Invalid = TRUE] ELSE q
  BY DEF AfterRecv
<1> HIDE DEF q, r
<1>4. PICK k \in 0 .. Len(data) :
        /\ Took(q, t \o SubSeq(data, 1, k)) /\ Judged(q, t \o SubSeq(data, 1, k))
        /\ q.consumed = k /\ (k < Len(data) => q.Complete)
  BY <1>2 DEF TookOf
<1>5. /\ Len(t) + k \in 0 .. Len(t \o data) /\ Len(t \o data) = Len(t) + Len(data)
      /\ SubSeq(t \o data, 1, Len(t) + k) = t \o SubSeq(data, 1, k)
  OBVIOUS
<1>6. CASE k = Len(data)
  <2>1. r = q /\ SubSeq(data, 1, k) = data /\ Len(t) + k = Len(t \o data)
    BY <1>3, <1>4, <1>5, <1>6
  <2>2. Took(q, SubSeq(t \o data, 1, Len(t) + k)) /\ Judged(q, t \o data)
    BY <1>4, <1>5, <2>1
  <2>3. Reads(q, t \o data)
    BY <1>5, <2>1, <2>2 DEF Reads
  <2> QED
    BY <1>2, <2>1, <2>3 DEF r
<1>7. CASE k # Len(data)
  <2>1. /\ r \in Parsers /\ r.Invalid
        /\ r.Line = q.Line /\ r.LineNum = q.LineNum /\ r.Complete = q.Complete
        /\ r.Method = q.Method /\ r.Path = q.Path
        /\ r.should_keep_alive = q.should_keep_alive
    BY <1>2, <1>3, <1>4, <1>7 DEF Parsers
  <2>2. Took(r, t \o SubSeq(data, 1, k))
    BY <1>4, <2>1 DEF Took
  <2>3. r.Complete /\ Len(t) + k < Len(t \o data)
    BY <1>4, <1>5, <1>7, <2>1
  <2>4. Took(r, SubSeq(t \o data, 1, Len(t) + k))
    BY <1>5, <2>2
  <2>5. Len(t) + k # Len(t \o data)
    BY <1>5, <1>7
  <2>6. Reads(r, t \o data)
    BY <1>5, <2>1, <2>3, <2>4, <2>5 DEF Reads
  <2> QED
    BY <2>1, <2>6 DEF r
<1> QED
  BY <1>6, <1>7

(* The requests that end in a prefix are those of the text that end there. *)
LEMMA EndsOfPrefix ==
  ASSUME NEW t \in Seq(Atoms), NEW m \in 0 .. Len(t)
  PROVE  RequestEnds(SubSeq(t, 1, m)) = RequestEnds(t) \cap 1 .. m
<1> DEFINE u == SubSeq(t, 1, m)
<1>1. Len(u) = m /\ \A i \in 1 .. m : u[i] = t[i]
  OBVIOUS
<1> HIDE DEF u
<1>2. \A i \in 1 .. m : EmptyLineEndsAt(u, i) <=> EmptyLineEndsAt(t, i)
  BY <1>1 DEF EmptyLineEndsAt
<1> QED
  BY <1>1, <1>2 DEF RequestEnds, u

(* A complete and valid request is one request, with the header, the       *)
(* method and the path it has.                                             *)
LEMMA ReadWell ==
  ASSUME NEW p \in Parsers, NEW t \in Seq(Atoms), Reads(p, t), p.Complete, ~p.Invalid
  PROVE  /\ RequestEnds(t) = {Len(t)} /\ p.should_keep_alive = HasKeepAlive(t)
         /\ p.Method # NULL => p.Method[1] = t[1] /\ p.Path[1] = t[2]
<1>1. SubSeq(t, 1, Len(t)) = t
  OBVIOUS
<1>2. PICK m \in 0 .. Len(t) :
        /\ Took(p, SubSeq(t, 1, m))
        /\ m < Len(t) => p.Complete /\ p.Invalid
        /\ m = Len(t) => Judged(p, t)
  BY DEF Reads
<1>3. m = Len(t)
  BY <1>2
<1> QED
  BY <1>1, <1>2, <1>3 DEF Took, Judged

(* An invalid request has no request line, or something after its end.     *)
LEMMA ReadBadly ==
  ASSUME NEW p \in Parsers, NEW t \in Seq(Atoms), Reads(p, t), p.Invalid
  PROVE  ~HasRequestLine(t) \/ \E i \in RequestEnds(t) : i < Len(t)
<1>1. PICK m \in 0 .. Len(t) :
        /\ Took(p, SubSeq(t, 1, m))
        /\ m < Len(t) => p.Complete /\ p.Invalid
        /\ m = Len(t) => Judged(p, t)
  BY DEF Reads
<1>2. CASE m = Len(t)
  BY <1>1, <1>2 DEF Judged
<1>3. CASE m < Len(t)
  <2>1. RequestEnds(SubSeq(t, 1, m)) = {m}
    <3>1. Len(SubSeq(t, 1, m)) = m
      OBVIOUS
    <3> QED
      BY <1>1, <1>3, <3>1 DEF Took
  <2>2. m \in RequestEnds(t)
    BY <2>1, EndsOfPrefix
  <2> QED
    BY <1>3, <2>2
<1> QED
  BY <1>2, <1>3

(* Behind whole requests, one more request ends where it ends by itself:   *)
(* no empty line and no header is made by the seam.                        *)
LEMMA EndsOfTwo ==
  ASSUME NEW a \in Seq(Atoms), NEW r \in Seq(Atoms), RequestEnds(r) = {Len(r)},
         a # <<>> => Len(a) \in RequestEnds(a)
  PROVE  RequestEnds(a \o r) = RequestEnds(a) \cup {Len(a) + Len(r)}
<1> DEFINE t == a \o r
           n == Len(a)
<1>1. /\ n \in Nat /\ Len(r) \in Nat /\ Len(t) = n + Len(r)
      /\ \A i \in 1 .. n : t[i] = a[i]
      /\ \A i \in 1 .. Len(r) : t[n + i] = r[i]
  OBVIOUS
<1>2. n # 0 => a[n] = LF
  <2>1. a # <<>> <=> n # 0
    BY EmptySequence
  <2> QED
    BY <2>1 DEF RequestEnds, EmptyLineEndsAt
<1> HIDE DEF t, n
<1>3. ASSUME NEW i \in 1 .. n PROVE EmptyLineEndsAt(t, i) <=> EmptyLineEndsAt(a, i)
  <2>1. t[i] = a[i] /\ (i >= 2 => t[i - 1] = a[i - 1]) /\ (i > 2 => t[i - 2] = a[i - 2])
    BY <1>1
  <2> QED
    BY <2>1 DEF EmptyLineEndsAt
<1>4. ASSUME NEW j \in 1 .. Len(r) PROVE EmptyLineEndsAt(t, n + j) <=> EmptyLineEndsAt(r, j)
  <2>1. CASE j = 1
    <3>1. ~EmptyLineEndsAt(r, j)
      BY <2>1 DEF EmptyLineEndsAt
    <3>2. n # 0 => t[n + j - 1] = LF
      BY <1>1, <1>2, <2>1
    <3>3. ~EmptyLineEndsAt(t, n + j)
      BY <1>1, <2>1, <3>2, AtomsApart DEF EmptyLineEndsAt
    <3> QED
      BY <3>1, <3>3
  <2>2. CASE j = 2
    <3>1. t[n + 2] = r[2] /\ t[n + 1] = r[1] /\ (n # 0 => t[n] = LF)
      <4>1. 1 \in 1 .. Len(r) /\ 2 \in 1 .. Len(r)
        BY <2>2
      <4> QED
        BY <1>1, <1>2, <4>1
    <3>2. n + 2 >= 2 /\ (n + 2) - 1 = n + 1 /\ (n + 2) - 2 = n /\ (n + 2 = 2 <=> n = 0)
      BY <1>1
    <3> QED
      BY <2>2, <3>1, <3>2 DEF EmptyLineEndsAt
  <2>3. CASE j > 2
    <3>1. t[n + j] = r[j] /\ t[n + (j - 1)] = r[j - 1] /\ t[n + (j - 2)] = r[j - 2]
      BY <1>1, <2>3
    <3>2. n + j - 1 = n + (j - 1) /\ n + j - 2 = n + (j - 2) /\ n + j > 2
      BY <1>1, <2>3
    <3> QED
      BY <1>1, <2>3, <3>1, <3>2 DEF EmptyLineEndsAt
  <2> QED
    BY <2>1, <2>2, <2>3
<1>5. \A i : i \in 1 .. n + Len(r) <=> i \in 1 .. n \/ \E j \in 1 .. Len(r) : i = n + j
  <2>1. ASSUME NEW i \in 1 .. n + Len(r), i \notin 1 .. n
        PROVE  \E j \in 1 .. Len(r) : i = n + j
    <3>1. i - n \in 1 .. Len(r) /\ i = n + (i - n)
      BY <1>1, <2>1
    <3> QED
      BY <3>1
  <2>2. \A j \in 1 .. Len(r) : n + j \in 1 .. n + Len(r)
    BY <1>1
  <2>3. \A i \in 1 .. n : i \in 1 .. n + Len(r)
    BY <1>1
  <2> QED
    BY <2>1, <2>2, <2>3
<1>6. \A j \in 1 .. Len(r) : EmptyLineEndsAt(r, j) <=> j = Len(r)
  BY DEF RequestEnds
<1>7. Len(r) \in 1 .. Len(r)
  BY DEF RequestEnds
<1>8. RequestEnds(t) = {i \in 1 .. n + Len(r) : EmptyLineEndsAt(t, i)}
  BY <1>1 DEF RequestEnds
<1>9. RequestEnds(a) = {i \in 1 .. n : EmptyLineEndsAt(a, i)}
  BY DEF RequestEnds, n
<1>10. ASSUME NEW i \in RequestEnds(t) PROVE i \in RequestEnds(a) \cup {n + Len(r)}
  <2>1. CASE i \in 1 .. n
    BY <1>3, <1>8, <1>9, <1>10, <2>1
  <2>2. CASE i \notin 1 .. n
    <3>1. PICK j \in 1 .. Len(r) : i = n + j
      BY <1>5, <1>8, <1>10, <2>2
    <3>2. EmptyLineEndsAt(r, j)
      BY <1>4, <1>8, <1>10, <3>1
    <3> QED
      BY <1>6, <3>1, <3>2
  <2> QED
    BY <2>1, <2>2
<1>11. ASSUME NEW i \in RequestEnds(a) PROVE i \in RequestEnds(t)
  BY <1>3, <1>5, <1>8, <1>9, <1>11
<1>12. n + Len(r) \in RequestEnds(t)
  BY <1>4, <1>5, <1>6, <1>7, <1>8
<1>13. RequestEnds(t) = RequestEnds(a) \cup {n + Len(r)}
  BY <1>10, <1>11, <1>12
<1> QED
  BY <1>13 DEF t, n

(* So one more request is one more end.                                    *)
LEMMA OneRequestMore ==
  ASSUME NEW a \in Seq(Atoms), NEW r \in Seq(Atoms), RequestEnds(r) = {Len(r)},
         a # <<>> => Len(a) \in RequestEnds(a)
  PROVE  /\ Cardinality(RequestEnds(a)) \in Nat
         /\ Cardinality(RequestEnds(a \o r)) = Cardinality(RequestEnds(a)) + 1
         /\ Len(a \o r) \in RequestEnds(a \o r)
<1>1. Len(r) >= 1 /\ Len(a) \in Nat /\ Len(a \o r) = Len(a) + Len(r)
  BY DEF RequestEnds
<1>2. RequestEnds(a \o r) = RequestEnds(a) \cup {Len(a) + Len(r)}
  BY EndsOfTwo
<1>3. RequestEnds(a) \subseteq 1 .. Len(a)
  BY DEF RequestEnds
<1>4. IsFiniteSet(RequestEnds(a))
  <2>1. IsFiniteSet(1 .. Len(a))
    BY <1>1, FS_Interval
  <2> QED
    BY <1>3, <2>1, FS_Subset
<1>5. Len(a) + Len(r) \notin RequestEnds(a)
  BY <1>1, <1>3
<1> QED
  BY <1>1, <1>2, <1>4, <1>5, FS_AddElement, FS_CardinalityType

--------------------------------------------------------------------------------
\* What the server knows at each point of ServeClient.
StateFollowsPC ==
  /\ pc \in {"poll", "recv"} => ~parser.Complete
  /\ pc = "recv" => result = "SUCCESS"
  /\ pc \in {"poll", "recv", "serve"} => should_keep_alive
  /\ pc = "serve" /\ result = "SUCCESS" => parser.Complete /\ ~parser.Invalid
  /\ pc = "serve" /\ result = "BAD_REQUEST" => parser.Invalid
  /\ pc = "send" /\ should_keep_alive => parser.Complete /\ ~parser.Invalid

\* As long as the connection goes on, every request read has its response.
InStep ==
  should_keep_alive /\ ~client_eof =>
    /\ Len(responses) = Cardinality(RequestEnds(answered))
    /\ answered # <<>> => Len(answered) \in RequestEnds(answered)

IInv == TypeOK /\ Reads(parser, received) /\ StateFollowsPC /\ InStep

(* A fresh parser has taken the empty text.                                *)
LEMMA NewParserReads == NewParser \in Parsers /\ Reads(NewParser, <<>>)
<1>1. NewParser \in Parsers
  BY DEF NewParser, Parsers, Tokens
<1>2. RequestEnds(<<>>) = {} /\ ~HasKeepAlive(<<>>)
  BY DEF RequestEnds, HasKeepAlive
<1>4. SubSeq(<<>>, 1, 0) = <<>> /\ SubSeq(<<>>, 0 + 1, Len(<<>>)) = <<>> /\ Len(<<>>) = 0
  OBVIOUS
<1>6. 0 \in 0 .. Len(<<>>)
  OBVIOUS
<1>7. /\ NewParser.Line = <<>> /\ NewParser.LineNum = 0 /\ NewParser.Complete = FALSE
      /\ NewParser.Invalid = FALSE /\ NewParser.Method = NULL
      /\ NewParser.should_keep_alive = FALSE
  BY DEF NewParser
<1>3. Took(NewParser, <<>>) /\ Judged(NewParser, <<>>)
  <2>1. \E s \in 0 .. Len(<<>>) :
          /\ s = 0 \/ <<>>[s] = LF
          /\ NewParser.Line = SubSeq(<<>>, s + 1, Len(<<>>))
          /\ s = 0 <=> NewParser.LineNum = 0
    BY <1>4, <1>6, <1>7
  <2>2. NewParser.should_keep_alive = HasKeepAlive(<<>>)
    BY <1>2, <1>7 DEF HasKeepAlive
  <2> QED
    BY <1>2, <1>7, <2>1, <2>2 DEF Took, Judged
<1>5. Reads(NewParser, <<>>)
  <2>1. Took(NewParser, SubSeq(<<>>, 1, 0))
    BY <1>3, <1>4, Zenon
  <2>2. ~(0 < Len(<<>>))
    OBVIOUS
  <2> QED
    BY <1>3, <1>6, <2>1, <2>2 DEF Reads
<1> QED
  BY <1>1, <1>5

(* A connection starts in step.                                            *)
LEMMA InitIInv == Init => IInv
<1> SUFFICES ASSUME Init PROVE IInv
  OBVIOUS
<1>1. TypeOK
  <2>1. 0 \in 0 .. MaxTexts /\ 0 \in 0 .. MaxErrors
    BY HttpAssumption
  <2>2. <<>> \in Seq(Atoms) /\ <<>> \in Seq(Codes)
    OBVIOUS
  <2> QED
    BY <2>1, <2>2, NewParserReads DEF Init, TypeOK, Results, Codes
<1>2. Reads(parser, received)
  BY NewParserReads DEF Init
<1>3. StateFollowsPC
  BY DEF Init, StateFollowsPC, NewParser
<1>4. InStep
  <2>1. RequestEnds(<<>>) = {} /\ Len(<<>>) = 0
    BY DEF RequestEnds
  <2>2. Cardinality({}) = 0
    BY FS_EmptySet
  <2> QED
    BY <2>1, <2>2 DEF Init, InStep
<1> QED
  BY <1>1, <1>2, <1>3, <1>4 DEF IInv

\* The server's own steps between two receptions: nothing is read.
LEMMA QuietStep ==
  ASSUME IInv, pc' \in {"poll", "recv", "serve", "send", "returned", "crashed"},
         UNCHANGED <<parser, received, answered, responses, client_eof>>,
         result' \in Results, should_keep_alive' \in BOOLEAN, code' \in Codes,
         to_server' \in Seq(Atoms), texts' \in 0 .. MaxTexts, errors' \in 0 .. MaxErrors,
         should_keep_alive' => should_keep_alive,
         StateFollowsPC'
  PROVE  IInv'
<1>1. TypeOK'
  BY DEF IInv, TypeOK
<1>2. Reads(parser, received)'
  BY DEF IInv
<1>3. InStep'
  BY DEF IInv, InStep
<1> QED
  BY <1>1, <1>2, <1>3 DEF IInv

(* The steps of THttpRequest_Receive but recv() itself.                    *)
LEMMA PollStep ==
  ASSUME IInv, PollReady \/ PollTimeout \/ RecvEof \/ ReceiveFails \/ RecvInterrupted
  PROVE  IInv'
<1> USE DEF IInv
<1>1. CASE PollReady
  <2>1. StateFollowsPC'
    BY <1>1 DEF PollReady, StateFollowsPC
  <2> QED
    BY <1>1, <2>1, QuietStep DEF PollReady, client_vars, TypeOK, Results
<1>2. CASE PollTimeout
  <2>1. StateFollowsPC'
    BY <1>2 DEF PollTimeout, ReceiveReturns, StateFollowsPC
  <2> QED
    BY <1>2, <2>1, QuietStep DEF PollTimeout, ReceiveReturns, client_vars, TypeOK, Results
<1>3. CASE RecvEof
  <2>1. StateFollowsPC'
    BY <1>3 DEF RecvEof, ReceiveReturns, StateFollowsPC
  <2> QED
    BY <1>3, <2>1, QuietStep DEF RecvEof, ReceiveReturns, client_vars, TypeOK, Results
<1>4. CASE ReceiveFails
  <2>1. StateFollowsPC'
    BY <1>4 DEF ReceiveFails, ReceiveReturns, StateFollowsPC
  <2>2. errors' \in 0 .. MaxErrors
    BY <1>4, HttpAssumption DEF ReceiveFails, TypeOK
  <2> QED
    BY <1>4, <2>1, <2>2, QuietStep DEF ReceiveFails, ReceiveReturns, client_vars, TypeOK, Results
<1>5. CASE RecvInterrupted
  <2>1. StateFollowsPC'
    BY <1>5 DEF RecvInterrupted, StateFollowsPC
  <2>2. errors' \in 0 .. MaxErrors
    BY <1>5, HttpAssumption DEF RecvInterrupted, TypeOK
  <2> QED
    BY <1>5, <2>1, <2>2, QuietStep DEF RecvInterrupted, client_vars, TypeOK
<1> QED
  BY <1>1, <1>2, <1>3, <1>4, <1>5

(* ServeClient's choice of a response.                                     *)
LEMMA ServeStep ==
  ASSUME IInv,
         \/ \E c \in Codes : ServeGood(c)
         \/ ServeGoodCrashes \/ ServeBad \/ ServeError \/ ServeDisconnected
  PROVE  IInv'
<1> USE DEF IInv
<1>1. ASSUME NEW c \in Codes, ServeGood(c) PROVE IInv'
  <2>1. StateFollowsPC'
    BY <1>1 DEF ServeGood, Respond, StateFollowsPC
  <2>2. parser.should_keep_alive \in BOOLEAN
    BY DEF TypeOK, Parsers
  <2> QED
    BY <1>1, <2>1, <2>2, QuietStep DEF ServeGood, Respond, client_vars, TypeOK
<1>2. CASE ServeGoodCrashes
  <2>1. StateFollowsPC'
    BY <1>2 DEF ServeGoodCrashes, StateFollowsPC
  <2> QED
    BY <1>2, <2>1, QuietStep DEF ServeGoodCrashes, client_vars, TypeOK
<1>3. CASE ServeBad
  <2>1. StateFollowsPC'
    BY <1>3 DEF ServeBad, Respond, StateFollowsPC
  <2> QED
    BY <1>3, <2>1, QuietStep DEF ServeBad, Respond, client_vars, TypeOK, Codes
<1>4. CASE ServeError
  <2>1. StateFollowsPC'
    BY <1>4 DEF ServeError, Respond, StateFollowsPC
  <2> QED
    BY <1>4, <2>1, QuietStep DEF ServeError, Respond, client_vars, TypeOK, Codes
<1>5. CASE ServeDisconnected
  <2>1. StateFollowsPC'
    BY <1>5 DEF ServeDisconnected, StateFollowsPC
  <2> QED
    BY <1>5, <2>1, QuietStep DEF ServeDisconnected, client_vars, TypeOK
<1> QED
  BY <1>1, <1>2, <1>3, <1>4, <1>5

(* recv() and the parser.                                                  *)
LEMMA RecvStep ==
  ASSUME IInv, NEW n \in 1 .. RECV_BUF_SIZE, Recv(n)
  PROVE  IInv'
<1> DEFINE data == SubSeq(to_server, 1, n)
<1>1. /\ parser \in Parsers /\ received \in Seq(Atoms) /\ to_server \in Seq(Atoms)
      /\ result \in Results /\ n <= Len(to_server) /\ n \in Nat
  BY DEF IInv, TypeOK, Recv
<1>2. data \in Seq(Atoms) /\ SubSeq(to_server, n + 1, Len(to_server)) \in Seq(Atoms)
  BY <1>1
<1>3. /\ pc = "recv" /\ result = "SUCCESS" /\ ~parser.Complete /\ should_keep_alive
      /\ Reads(parser, received)
  BY DEF IInv, StateFollowsPC, Recv
<1>4. parser' = AfterRecv(parser, data) /\ received' = received \o data
  BY DEF Recv
<1> HIDE DEF data
<1>5. parser' \in Parsers /\ Reads(parser', received')
  BY <1>1, <1>2, <1>3, <1>4, AfterRecvReads
<1>6. received' \in Seq(Atoms)
  BY <1>1, <1>2, <1>4
<1>7. TypeOK'
  BY <1>2, <1>5, <1>6 DEF IInv, TypeOK, Recv, ReceiveReturns, Results
<1>8. StateFollowsPC'
  BY <1>3 DEF IInv, StateFollowsPC, Recv, ReceiveReturns
<1>9. InStep'
  BY DEF IInv, InStep, Recv
<1> QED
  BY <1>5, <1>7, <1>8, <1>9 DEF IInv

(* A response is sent: on a connection that is kept, the requests answered *)
(* grow by one, and so do the responses.                                   *)
LEMMA SendStep ==
  ASSUME IInv, Send
  PROVE  IInv'
<1>1. parser' = NewParser /\ received' = <<>> /\ answered' = answered \o received
  BY DEF Send
<1>2. TypeOK'
  <2>1. answered' \in Seq(Atoms) /\ received' \in Seq(Atoms)
    BY <1>1 DEF IInv, TypeOK
  <2>2. responses' \in Seq(Codes)
    BY DEF IInv, TypeOK, Send
  <2>3. parser' \in Parsers
    BY <1>1, NewParserReads
  <2> QED
    BY <2>1, <2>2, <2>3 DEF IInv, TypeOK, Send, client_vars, Results, Codes
<1>3. Reads(parser, received)'
  BY <1>1, NewParserReads
<1>4. StateFollowsPC'
  BY <1>1 DEF IInv, StateFollowsPC, Send, NewParser
<1>5. InStep'
  <2> SUFFICES ASSUME should_keep_alive', ~client_eof'
               PROVE  /\ Len(responses') = Cardinality(RequestEnds(answered'))
                      /\ Len(answered') \in RequestEnds(answered')
    BY DEF InStep
  <2>1. /\ pc = "send" /\ should_keep_alive /\ ~client_eof
        /\ responses' = Append(responses, code)
    BY DEF Send, client_vars
  <2>2. /\ received \in Seq(Atoms) /\ answered \in Seq(Atoms) /\ parser \in Parsers
        /\ responses \in Seq(Codes) /\ code \in Codes
    BY DEF IInv, TypeOK
  <2>3. RequestEnds(received) = {Len(received)}
    BY <2>1, <2>2, ReadWell DEF IInv, StateFollowsPC
  <2>4. /\ Len(responses) = Cardinality(RequestEnds(answered))
        /\ answered # <<>> => Len(answered) \in RequestEnds(answered)
    BY <2>1 DEF IInv, InStep
  <2>5. Len(responses') = Len(responses) + 1
    BY <2>1, <2>2
  <2> QED
    BY <1>1, <2>2, <2>3, <2>4, <2>5, OneRequestMore
<1> QED
  BY <1>2, <1>3, <1>4, <1>5 DEF IInv

(* What the client does leaves the server as it is.                        *)
LEMMA ClientStep ==
  ASSUME IInv, Hangup \/ \E t \in Texts : SendText(t)
  PROVE  IInv'
<1>1. ASSUME NEW t \in Texts, SendText(t) PROVE IInv'
  <2>1. t \in Seq(Atoms)
    BY HttpAssumption DEF Atoms
  <2>2. to_server' \in Seq(Atoms)
    BY <1>1, <2>1 DEF IInv, TypeOK, SendText
  <2>3. texts' \in 0 .. MaxTexts
    BY <1>1, HttpAssumption DEF IInv, TypeOK, SendText
  <2>4. StateFollowsPC'
    BY <1>1 DEF IInv, StateFollowsPC, SendText, server_vars
  <2> QED
    BY <1>1, <2>2, <2>3, <2>4, QuietStep DEF IInv, TypeOK, SendText, server_vars
<1>2. CASE Hangup
  <2>1. TypeOK'
    BY <1>2 DEF IInv, TypeOK, Hangup, server_vars
  <2>2. Reads(parser, received)' /\ StateFollowsPC' /\ InStep'
    BY <1>2 DEF IInv, StateFollowsPC, InStep, Hangup, server_vars
  <2> QED
    BY <2>1, <2>2 DEF IInv
<1> QED
  BY <1>1, <1>2

(* Every step keeps the invariant.                                         *)
LEMMA NextIInv == IInv /\ [Next]_vars => IInv'
<1> SUFFICES ASSUME IInv, [Next]_vars PROVE IInv'
  OBVIOUS
<1>1. CASE UNCHANGED vars
  BY <1>1 DEF vars, server_vars, client_vars, IInv, TypeOK, StateFollowsPC, InStep
<1>2. CASE Next
  BY <1>2, PollStep, ServeStep, RecvStep, SendStep, ClientStep DEF Next, Server
<1> QED
  BY <1>1, <1>2

(* The parser's state is a function of the text received, however recv()   *)
(* cuts it, and the responses keep step with the requests                  *)
(* (handler.c:66-115, http_request.c:93-217).                               *)
THEOREM HttpInvariant == Spec => []IInv
  BY InitIInv, NextIInv, PTL DEF Spec

(* Every field of the parser and of the connection keeps its type, for all *)
(* texts and numbers of failures.                                          *)
THEOREM HttpTypeOK == Spec => []TypeOK
<1>1. IInv => TypeOK
  BY DEF IInv
<1> QED
  BY <1>1, HttpInvariant, PTL

(* However it arrives, a request handled as good is exactly one request,   *)
(* with the keep-alive header, the method and the path it has              *)
(* (handler.c:79).                                                         *)
THEOREM GoodRequests == Spec => []GoodRequestIsWhatWasSent
<1>1. IInv => GoodRequestIsWhatWasSent
  BY ReadWell DEF IInv, TypeOK, StateFollowsPC, GoodRequestIsWhatWasSent, OneRequest
<1> QED
  BY <1>1, HttpInvariant, PTL

(* A request is refused only if its first line is not a request line or if *)
(* something follows it in the buffer (http_request.c:150-205).            *)
THEOREM BadRequests == Spec => []BadRequestIsBad
<1>1. IInv => BadRequestIsBad
  BY ReadBadly DEF IInv, TypeOK, StateFollowsPC, BadRequestIsBad
<1> QED
  BY <1>1, HttpInvariant, PTL

(* On a connection that goes on, there is one response for every request   *)
(* read, and the next one starts where the last ended (handler.c:66-115).   *)
THEOREM ResponsesMatch == Spec => []ResponsesMatchRequests
<1>1. IInv => ResponsesMatchRequests
  BY DEF IInv, StateFollowsPC, InStep, ResponsesMatchRequests
<1> QED
  BY <1>1, HttpInvariant, PTL
================================================================================
