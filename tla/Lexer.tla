-------------------------------- MODULE Lexer --------------------------------
(***************************************************************************)
(* The scanner of Parser (src/frontend/base_parser.cpp, 520-775): a cursor *)
(* over a buffer, with a scan mode that one call leaves for the next.      *)
(*                                                                         *)
(* A text is a sequence of characters and of runs of symbol characters     *)
(* that no rule of the scanner tells apart ("and", "x", "12").             *)
(***************************************************************************)
EXTENDS Naturals, Sequences, FiniteSets

Blank == " "
NewLine == "\n"
Quote == "\""
Layout == {Blank, NewLine, ";"}
Delimiters == Layout \cup {"|", Quote, "(", ")"}

(* A number followed by an E: the symbol may go on in brackets and blanks. *)
MantissaE == "1.5E"

(* bufptr, scan_mode, line_number. *)
Cursor == [pos : Nat \ {0}, mode : {"common", "symbol", "quoted", "string"}, line : Nat]

At(text, p) == IF p \in DOMAIN text THEN text[p] ELSE "eof"

(* The first position from p on that satisfies a set, or the end. *)
FirstIn(text, p, chars) ==
    LET first[q \in Nat] == IF At(text, q) \in chars \cup {"eof"} THEN q ELSE first[q + 1]
    IN  first[p]

NewLines(text, p, q) == Cardinality({i \in p .. q - 1 : At(text, i) = NewLine})

(* Past blanks, ends of line and comments. *)
Skipped(text, p) ==
    LET skip[q \in Nat] ==
          CASE At(text, q) \in {Blank, NewLine} -> skip[q + 1]
            [] At(text, q) = ";" -> skip[FirstIn(text, q, {NewLine})]
            [] OTHER -> q
    IN  skip[p]

ModeOf(c) ==
    CASE c = "|" -> "quoted" [] c = Quote -> "string" [] c = "eof" -> "common" [] OTHER -> "symbol"

(* The calls that move the cursor are functions of it. *)
ScanToNextSymbol(text, c) ==
    LET at[q \in Nat, from \in Cursor] ==
          [pos |-> q, mode |-> ModeOf(At(text, q)), line |-> from.line + NewLines(text, from.pos, q)]
        scan[from \in Cursor] == at[Skipped(text, from.pos), from]
    IN  scan[c]

(* Past the character at c, which is not an end of line. *)
Past(text, c) == ScanToNextSymbol(text, [c EXCEPT !.pos = @ + 1])

(* The quote that ends a string: two quotes in a row stand for one. *)
StringEnd(text, p) ==
    LET end[q \in Nat] ==
          IF q > Len(text) THEN q
          ELSE IF At(text, q) # Quote THEN end[q + 1]
          ELSE IF At(text, q + 1) = Quote THEN end[q + 2] ELSE q
    IN  end[p]

(* After an E the symbol goes on over blanks, up to the bracket that closes  *)
(* its own, or to a delimiter.                                               *)
ScientificEnd(text, p) ==
    LET end[q \in Nat, level \in Nat] ==
          CASE At(text, q) = "(" -> end[q + 1, level + 1]
            [] At(text, q) = ")" ->
                 IF level = 0 THEN q ELSE IF level = 1 THEN q + 1 ELSE end[q + 1, level - 1]
            [] At(text, q) \in {"eof", NewLine, ";", "|", Quote} -> q
            [] OTHER -> end[q + 1, level]
    IN  end[p, 0]

(* Past the character at p, the terminator excepted. *)
OneMore(text, p) == IF p > Len(text) THEN p ELSE p + 1

IsScientific(text, c) == c.mode = "symbol" /\ At(text, c.pos) = MantissaE

(* Where the symbol that begins at c ends, in the mode left by the last      *)
(* scan; its first character is taken as it is.                              *)
SymbolEnd(text, c) ==
    CASE c.mode = "quoted" -> OneMore(text, FirstIn(text, c.pos + 1, {"|"}))
      [] c.mode = "string" -> OneMore(text, StringEnd(text, c.pos + 1))
      [] IsScientific(text, c) -> ScientificEnd(text, c.pos + 1)
      [] OTHER -> FirstIn(text, c.pos + 1, Delimiters)

(* Which symbols are followed by a scan: not those that a bracket, a quote   *)
(* or a comment ends; they leave the cursor there, and the mode as it was.   *)
ScansOn(text, c, q) ==
    \/ c.mode \in {"quoted", "string"}
    \/ IsScientific(text, c) /\ At(text, q - 1) = ")"
    \/ ~IsScientific(text, c) /\ At(text, q) \in {Blank, NewLine, "eof"}

AfterSymbol(text, c, q) ==
    LET here == [c EXCEPT !.pos = q, !.line = @ + NewLines(text, c.pos, q)]
    IN  IF ScansOn(text, c, q) THEN ScanToNextSymbol(text, here) ELSE here

Symbol(text, c) == SubSeq(text, c.pos, SymbolEnd(text, c) - 1)

GetSymbol(text, c) ==
    LET after[q \in Nat, from \in Cursor] == AfterSymbol(text, from, q)
        get[from \in Cursor] == after[SymbolEnd(text, from), from]
    IN  get[c]

(* Mutant: brackets in strings and quoted symbols count. *)
SkipToRparBlind(text, c) ==
    LET close[q \in Nat] ==
          CASE At(text, q) \in {")", "eof"} -> q
            [] At(text, q) = "(" -> close[OneMore(text, close[q + 1])]
            [] OTHER -> close[q + 1]
    IN  [c EXCEPT !.pos = close[c.pos]]

(* skipToRpar: to the bracket that closes the enclosing term. *)
SkipToRpar(text, c) ==
    LET close[q \in Nat] ==
          CASE At(text, q) \in {")", "eof"} -> q
            [] At(text, q) = "(" -> close[OneMore(text, close[q + 1])]
            [] At(text, q) = ";" -> close[FirstIn(text, q, {NewLine})]
            [] At(text, q) \in {"|", Quote} -> close[OneMore(text, FirstIn(text, q + 1, {At(text, q)}))]
            [] OTHER -> close[q + 1]
    IN  [c EXCEPT !.pos = close[c.pos], !.line = @ + NewLines(text, c.pos, close[c.pos])]
=============================================================================
