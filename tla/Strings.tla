------------------------------- MODULE Strings -------------------------------
(***************************************************************************)
(* String literals (ConversionUtils) and the operations on them            *)
(* (StringUtils, both in src/core/util.cpp).                               *)
(*                                                                         *)
(* A text is a sequence of character codes below 128, each one byte.  The  *)
(* operations are given the text of a literal as it is written, with the   *)
(* quotes around it and the escapes inside, and work on the escapes too.   *)
(* An operation throws where its ...Throws operator says so; its result is *)
(* asked for elsewhere only.                                               *)
(***************************************************************************)
EXTENDS Integers, SequencesExt

QUOTE == 34
BACKSLASH == 92
OPEN == 123
CLOSE == 125

IsDigit(c) == c \in 48..57
IsHex(c) == IsDigit(c) \/ c \in 65..70 \/ c \in 97..102
HexValue(c) == IF IsDigit(c) THEN c - 48 ELSE IF c <= 70 THEN c - 55 ELSE c - 87
HexDigit(d) == IF d < 10 THEN 48 + d ELSE 87 + d
-----------------------------------------------------------------------------
(* Literals *)

UnicodeEscape(digits) == <<BACKSLASH, 117, OPEN>> \o digits \o <<CLOSE>>

EscapeChar(c) ==
    CASE c = QUOTE -> <<QUOTE, QUOTE>>
      [] c = BACKSLASH -> UnicodeEscape(<<HexDigit(5), HexDigit(12)>>)
      [] c < 16 -> UnicodeEscape(<<HexDigit(c)>>)
      [] c \in 16..31 -> UnicodeEscape(<<HexDigit(c \div 16), HexDigit(c % 16)>>)
      [] OTHER -> <<c>>
Escape(text) == FlattenSeq([i \in DOMAIN text |-> EscapeChar(text[i])])

(* The digits between braces, at most five, or the four after \u; none where *)
(* the text begins with no escape.                                            *)
EscapeDigits(s) ==
    LET close == SelectInSubSeq(s, 4, Len(s), LAMBDA c : c = CLOSE)
        digits == IF Len(s) > 2 /\ s[3] = OPEN THEN IF close \in 5..9 THEN SubSeq(s, 4, close - 1) ELSE <<>>
                  ELSE IF Len(s) >= 6 THEN SubSeq(s, 3, 6) ELSE <<>>
    IN  IF IsPrefix(<<BACKSLASH, 117>>, s) /\ \A c \in ToSet(digits) : IsHex(c) THEN digits ELSE <<>>
EscapeLength(s) == IF s[3] = OPEN THEN Len(EscapeDigits(s)) + 4 ELSE 6
CodePoint(digits) == FoldLeft(LAMBDA n, c : 16 * n + HexValue(c), 0, digits)

RECURSIVE Unescape(_)
Unescape(s) ==
    CASE s = <<>> -> <<>>
      [] IsPrefix(<<QUOTE, QUOTE>>, s) -> <<QUOTE>> \o Unescape(SubSeq(s, 3, Len(s)))
      [] EscapeDigits(s) # <<>> -> <<CodePoint(EscapeDigits(s))>> \o Unescape(SubSeq(s, EscapeLength(s) + 1, Len(s)))
      [] OTHER -> <<Head(s)>> \o Unescape(Tail(s))

Quoted(s) == <<QUOTE>> \o s \o <<QUOTE>>
Clean(s) == IF s # <<>> /\ Head(s) = QUOTE /\ Last(s) = QUOTE THEN SubSeq(s, 2, Len(s) - 1) ELSE s

(* The text that a constant is made of: a literal or the text itself.        *)
Literal(s) == IF Len(s) >= 2 /\ Head(s) = QUOTE /\ Last(s) = QUOTE THEN Unescape(Clean(s)) ELSE s
-----------------------------------------------------------------------------
(* std::string.  Positions count from 0. *)

Substr(s, start, length) == SubSeq(s, start + 1, start + length)
Rest(s, start) == SubSeq(s, start + 1, Len(s))
Occurs(t, s, at) == at + Len(t) <= Len(s) /\ Substr(s, at, Len(t)) = t
Find(s, t, from) ==
    LET places == {at \in from..Len(s) : Occurs(t, s, at)}
    IN  IF places = {} THEN -1 ELSE CHOOSE at \in places : \A other \in places : at <= other
Less(s, t) ==
    \E n \in 0..Len(s) : /\ n < Len(t) /\ SubSeq(s, 1, n) = SubSeq(t, 1, n)
                         /\ n < Len(s) => s[n + 1] < t[n + 1]
-----------------------------------------------------------------------------
(* StringUtils *)

StrSubstr(s, i, j) == Quoted(Substr(Clean(s), i, IF i + j > Len(Clean(s)) THEN Len(Clean(s)) - i ELSE j))
StrSubstrThrows(i, j) == i < 0 \/ j < 0

StrPrefixof(s, t) == IsPrefix(Clean(s), Clean(t))
StrSuffixof(s, t) == IsSuffix(Clean(s), Clean(t))
StrContains(s, t) == Find(Clean(s), Clean(t), 0) # -1

StrIndexof(s, t, i) == IF i > Len(Clean(s)) THEN -1 ELSE Find(Clean(s), Clean(t), i)
StrIndexofThrows(i) == i < 0

StrCharAt(s, i) == Quoted(Substr(Clean(s), i, IF i < Len(Clean(s)) THEN 1 ELSE 0))
StrCharAtThrows(s, i) == i < 0 \/ i > Len(Clean(s))

StrUpdate(s, i, t) == Quoted(Substr(Clean(s), 0, i) \o Clean(t) \o Rest(Clean(s), i + Len(Clean(t))))
StrUpdateThrows(s, i, t) == i < 0 \/ i + Len(Clean(t)) > Len(Clean(s))

StrReplace(s, t, u) ==
    LET at == Find(Clean(s), Clean(t), 0)
    IN  IF at = -1 THEN s ELSE Quoted(Substr(Clean(s), 0, at) \o Clean(u) \o Rest(Clean(s), at + Len(Clean(t))))

(* What was put in is not searched again.                                    *)
RECURSIVE ReplaceFrom(_, _, _, _)
ReplaceFrom(s, t, u, from) ==
    LET at == Find(s, t, from)
    IN  IF at = -1 THEN s ELSE ReplaceFrom(Substr(s, 0, at) \o u \o Rest(s, at + Len(t)), t, u, at + Len(u))
StrReplaceAll(s, t, u) == IF Clean(t) = <<>> THEN s ELSE Quoted(ReplaceFrom(Clean(s), Clean(t), Clean(u), 0))

StrToLower(s) == Quoted([i \in DOMAIN Clean(s) |-> IF Clean(s)[i] \in 65..90 THEN Clean(s)[i] + 32 ELSE Clean(s)[i]])
StrToUpper(s) == Quoted([i \in DOMAIN Clean(s) |-> IF Clean(s)[i] \in 97..122 THEN Clean(s)[i] - 32 ELSE Clean(s)[i]])
StrRev(s) == Quoted(Reverse(Clean(s)))
-----------------------------------------------------------------------------
(* Decimal numerals *)

RECURSIVE Decimal(_)
Decimal(n) == IF n < 0 THEN <<45>> \o Decimal(-n) ELSE IF n < 10 THEN <<48 + n>> ELSE Append(Decimal(n \div 10), 48 + (n % 10))
IsNumber(s) == s # <<>> /\ \A c \in ToSet(s) : IsDigit(c)
NumberIn(s) == FoldLeft(LAMBDA n, c : 10 * n + c - 48, 0, s)
=============================================================================
