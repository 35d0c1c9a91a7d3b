------------------------------- MODULE Frozen -------------------------------
(***************************************************************************)
(* The JSON parser the configuration file is read with: how it cuts a text *)
(* into tokens and how a setting is found among them.  A text is a         *)
(* sequence of symbols: a letter, a digit, a word or a character beyond    *)
(* ASCII is one of them.  The tokens array always grows when it is full.   *)
(***************************************************************************)
EXTENDS Integers, FiniteSetsExt, SequencesExt

CONSTANTS Letter, Digit

QUOTE == "\""
LBRACE == "{"
RBRACE == "}"
COMMA == ","
BLANK == " "

Space == {BLANK}
Word == {"null", "true", "false"}
Alpha == Letter \cup Word          \* a word begins with a letter
Control == {"control"}             \* below 32, and no white space
HexDigit == Digit \cup (Letter \cap {"a", "b", "c", "d", "e", "f"})
Escaped == {QUOTE, "\\", "/", "b", "f", "n", "r", "t"}

INVALID == -1                      \* JSON_STRING_INVALID
INCOMPLETE == -2                   \* JSON_STRING_INCOMPLETE
END == "end"

(* A symbol is what it is: a letter, a digit, or one of the others.        *)
Other ==
  Space \cup Word \cup Control
    \cup {END, QUOTE, LBRACE, RBRACE, COMMA, "\\", "[", "]", ":", ".", "-", "+", "_"}
Symbol == Letter \cup Digit \cup Other
ASSUME SymbolAssumption ==
  Letter \cap Digit = {} /\ (Letter \cup Digit) \cap Other = {}

(* The symbol at place i, and the first place from i on that does not hold *)
(* one of the symbols C.                                                   *)
At(s, i) == IF i > Len(s) THEN END ELSE s[i]
After(s, i, C) == Min({k \in i .. Len(s) + 1 : k > Len(s) \/ s[k] \notin C})
Past(s, i, C) == IF At(s, i) \in C THEN i + 1 ELSE i

(* struct frozen: the text, where in it the parser is, the tokens, and the *)
(* error with which it stopped, or 0.  The tokens of the objects and       *)
(* arrays that are being parsed stand for the calls in progress, the       *)
(* innermost of them last.                                                 *)
Frozen(s) == [s |-> s, cur |-> 1, tokens |-> <<>>, code |-> 0, open |-> <<>>]

Failed(f, code) == [f EXCEPT !.code = code]
Left(f) == Len(f.s) + 1 - f.cur
Skip(f) == [f EXCEPT !.cur = After(f.s, @, Space)]
Cur(f) == At(f.s, Skip(f).cur)

Refusal(f) == Failed(f, IF Cur(f) = END THEN INCOMPLETE ELSE INVALID)

(* Each step below leaves alone what an earlier one has failed on.         *)
TestAndSkip(f, symbol) ==
  IF f.code # 0 THEN f
  ELSE IF Cur(f) = symbol THEN [f EXCEPT !.cur = Skip(f).cur + 1]
  ELSE Refusal(f)

CapturePtr(f, p, type) ==
  [f EXCEPT !.tokens = Append(@, [type |-> type, ptr |-> p, len |-> 0, num_desc |-> 0])]

CaptureLen(f, i, p) ==
  LET token == f.tokens[i]
  IN  [f EXCEPT !.tokens[i] = [token EXCEPT !.len = p - token.ptr,
                                            !.num_desc = Len(f.tokens) - i]]

(* A token without descendants, up to p, or the error that p is.           *)
Leaf(f, p, type) ==
  IF p < 0 THEN Failed(f, p)
  ELSE [f EXCEPT !.tokens = Append(@, [type |-> type, ptr |-> f.cur, len |-> p - f.cur,
                                       num_desc |-> 0]),
                 !.cur = p]

-----------------------------------------------------------------------------
(* The grammar.  A string and a number end at a place, or in an error.     *)

ParseIdentifier(f) == Leaf(f, After(f.s, f.cur, Alpha \cup Digit \cup {"_"}), "string")

(* What is escaped by the backslash at i.                                  *)
EscapeLen(s, i) ==
  IF s[i + 1] = "u"
  THEN IF Len(s) + 1 - i < 6 THEN INCOMPLETE
       ELSE IF \A k \in i + 2 .. i + 5 : s[k] \in HexDigit THEN 5 ELSE INVALID
  ELSE IF s[i + 1] \in Escaped THEN 1 ELSE INVALID

(* The place of the quote that ends the string that goes on at i.          *)
StringEnd(s) ==
  LET end[i \in 1 .. Len(s) + 1] ==
        IF i > Len(s) THEN INCOMPLETE
        ELSE IF s[i] \in Control THEN INVALID
        ELSE IF i = Len(s) THEN INCOMPLETE
        ELSE IF s[i] = QUOTE THEN i
        ELSE IF s[i] # "\\" THEN end[i + 1]
        ELSE IF EscapeLen(s, i) > 0 THEN end[i + 1 + EscapeLen(s, i)] ELSE EscapeLen(s, i)
  IN  end

ParseString(f) ==
  LET begun == TestAndSkip(f, QUOTE)
      end == StringEnd(f.s)[begun.cur]
  IN  IF begun.code # 0 THEN begun
      ELSE IF end < 0 THEN Failed(begun, end)
      ELSE [Leaf(begun, end, "string") EXCEPT !.cur = end + 1]

(* Digits, at least one of them, if there was no error before.             *)
Digits(s, i) ==
  IF i < 0 THEN i
  ELSE IF At(s, i) \in Digit THEN After(s, i, Digit)
  ELSE IF At(s, i) = END THEN INCOMPLETE ELSE INVALID

Fraction(s, i) == IF i > 0 /\ At(s, i) = "." THEN Digits(s, i + 1) ELSE i
Exponent(s, i) ==
  IF i > 0 /\ At(s, i) = "e" THEN Digits(s, Past(s, i + 1, {"+", "-"})) ELSE i

NumberEndWhole(s, i) == Digits(s, Past(s, i, {"-"}))   \* a mutant of NumberEnd
NumberEnd(s, i) == Exponent(s, Fraction(s, Digits(s, Past(s, i, {"-"}))))

ParseNumber(f) == Leaf(f, NumberEnd(f.s, f.cur), "number")

(* An object or array is begun with its bracket, which was tested for.     *)
Opened(f, bracket, type) ==
  LET begun == TestAndSkip(f, bracket)
  IN  IF begun.code # 0 THEN begun
      ELSE [CapturePtr(begun, begun.cur - 1, type) EXCEPT !.open = Append(@, Len(f.tokens) + 1)]

ParseObject(f) == Opened(f, LBRACE, "object")
ParseArray(f) == Opened(f, "[", "array")

(* A word, and "-" before a digit, need a symbol after them.               *)
ValueAt(f, ch) ==
  CASE ch = QUOTE -> ParseString(f)
    [] ch = LBRACE -> ParseObject(f)
    [] ch = "[" -> ParseArray(f)
    [] ch \in Word /\ Left(f) > 1 -> Leaf(f, f.cur + 1, ch)
    [] ch \in Digit \/ (ch = "-" /\ Left(f) > 1 /\ f.s[f.cur + 1] \in Digit) -> ParseNumber(f)
    [] OTHER -> Refusal(f)
ParseValue(f) == IF f.code # 0 THEN f ELSE ValueAt(Skip(f), Cur(f))

ParseKey(f) ==
  CASE Cur(f) \in Alpha -> ParseIdentifier(Skip(f))
    [] Cur(f) = QUOTE -> ParseString(f)
    [] OTHER -> Refusal(f)

ParsePair(f) == ParseValue(TestAndSkip(ParseKey(f), ":"))

(* A comma after a member is skipped, but none is asked for.               *)
Comma(f) ==
  IF f.code = 0 /\ f.open # <<>> /\ Cur(f) = COMMA THEN [f EXCEPT !.cur = Skip(f).cur + 1] ELSE f

Closing(f) == IF f.tokens[Last(f.open)].type = "object" THEN RBRACE ELSE "]"
Closed(f) ==
  LET done == TestAndSkip(f, Closing(f))
  IN  [CaptureLen(done, Last(f.open), done.cur) EXCEPT !.open = Front(@)]

Member(f) == IF Closing(f) = RBRACE THEN ParsePair(f) ELSE ParseValue(f)

(* One turn of the loop over the members of what is innermost: it ends, or *)
(* has one more member, which may be the next one to be parsed.            *)
Turn(f) ==
  IF f.code # 0 \/ f.open = <<>> THEN f
  ELSE IF Cur(f) = Closing(f) THEN Comma(Closed(f))
  ELSE IF Len(Member(f).open) > Len(f.open) THEN Member(f)
  ELSE Comma(Member(f))

(* Each turn skips a symbol at least.                                      *)
Turns(s) ==
  LET turn[n \in 0 .. Len(s)] == IF n = 0 THEN ParseObject(Frozen(s)) ELSE Turn(turn[n - 1])
  IN  turn

EndedUntried(f) == CapturePtr(Failed(f, 0), f.cur, "eof")    \* a mutant of Ended

(* What comes after the object is not looked at.                           *)
Ended(f) == IF f.code # 0 THEN f ELSE CapturePtr(f, f.cur, "eof")
Doit(s) == IF s = <<>> THEN Failed(Frozen(s), INCOMPLETE) ELSE Ended(Turns(s)[Len(s)])

Accepted(s) == Doit(s).code = 0

-----------------------------------------------------------------------------
(* Looking for a setting; a path of keys, as the server gives them.        *)

KeyOf(f, i) == SubSeq(f.s, f.tokens[i].ptr, f.tokens[i].ptr + f.tokens[i].len - 1)

(* A mutant of NextKey: does not step over what is in the value.          *)
NextKeySibling(f, i) == i + 2

(* The key after that of i and its value.                                  *)
NextKey(f, i) ==
  LET value == f.tokens[i + 1]
  IN  i + 2 + (IF value.type \in {"array", "object"} THEN value.num_desc ELSE 0)

(* The value of the first key from each place on, among those of an object *)
(* that ends with the token last, or 0.                                    *)
FindMember(f, last, key) ==
  LET find[i \in Nat] ==
        IF i > last \/ f.tokens[i].type # "string" THEN 0
        ELSE IF KeyOf(f, i) = key THEN i + 1
        ELSE find[NextKey(f, i)]
  IN  find

(* The token of the value, or 0.                                           *)
FindJsonToken(f, path) ==
  LET find[n \in 0 .. Len(path)] ==
        IF n = 0 THEN 1
        ELSE LET object == find[n - 1]
             IN  IF object = 0 \/ f.tokens[object].type # "object" THEN 0
                 ELSE FindMember(f, object + f.tokens[object].num_desc, path[n])[object + 1]
  IN  find[Len(path)]

-----------------------------------------------------------------------------
(* What the tokens promise.                                                *)

Span(f, i) == f.tokens[i].ptr .. f.tokens[i].ptr + f.tokens[i].len - 1
Proper(f) == 1 .. Len(f.tokens) - 1                  \* all but the end marker
Descendants(f, i) == {j \in Proper(f) \ {i} : f.tokens[j].ptr \in Span(f, i)}

(* The tokens as a tree, by the place they have in the text.               *)
Children(f, i) == {j \in Descendants(f, i) : \A k \in Descendants(f, i) : j \notin Descendants(f, k)}

(* The members of an object with the key, by the place of their values.    *)
MembersWith(f, object, key) ==
  {j + 1 : j \in {k \in Children(f, object) :
                    /\ Cardinality({l \in Children(f, object) : l < k}) % 2 = 0
                    /\ KeyOf(f, k) = key}}
=============================================================================
