----------------------------- MODULE ConfigText -----------------------------
(***************************************************************************)
(* The configuration file as text: what server_config_to_json prints is    *)
(* what the JSON parser has to read back, whole or cut off by a crash; and *)
(* somebody may type a file of his own, piece by piece, before the         *)
(* server has ever run.  A name, and a run of digits, is one symbol.       *)
(***************************************************************************)
EXTENDS ServerConfig, Frozen, TLC

CONSTANTS
  Pieces,     \* what is typed: texts of a few symbols
  MaxText     \* bound: symbols typed

VARIABLE text \* what was typed
textVars == <<vars, text>>

Name == [demo |-> "demoMode", tcp |-> "opcTcpPort", power |-> "lumCurvePower",
         e131 |-> "e131Port", dithering |-> "enableDithering", order |-> "colorChannelOrder"]
ASSUME TextAssumption ==
  /\ Pieces \subseteq Seq(Symbol)
  /\ {Name[s] : s \in Settings} \cup {"whitePoint", "red"} \subseteq Letter
  /\ {"none", "fade", "id", "black"} \subseteq Letter
  /\ {"RGB", "RBG", "GRB", "GBR", "BGR", "BRG"} \subseteq Letter
  /\ {"0", "1"} \cup {ToString(n) : n \in (0 .. PortMod - 1) \cup (0 .. MaxPower)} \subseteq Digit

Quoted(symbol) == <<QUOTE, symbol, QUOTE>>

(* The value of a setting as it is printed, without quotes.                *)
Value(s, text_) ==
  CASE s = "power" -> <<ToString(text_), ".", "0">>
    [] s \in {"demo", "dithering", "order"} -> <<text_>>
    [] OTHER -> <<ToString(text_)>>

MemberText(s, text_) ==
  Quoted(Name[s]) \o <<":", BLANK>>
    \o (IF s \in {"demo", "order"} THEN Quoted(text_) ELSE Value(s, text_)) \o <<COMMA, BLANK>>

(* Of the white point, which is an object of its own, one part.            *)
Printed(settings) ==
  LET Of(s) == IF s \in DOMAIN settings THEN MemberText(s, settings[s]) ELSE <<>>
  IN  <<LBRACE, BLANK>> \o Of("demo") \o Of("order") \o Of("tcp") \o Of("dithering") \o Of("power")
        \o Quoted("whitePoint") \o <<":", BLANK, LBRACE>> \o Quoted("red") \o <<":", BLANK, "1", RBRACE>>
        \o <<BLANK, RBRACE, BLANK>>

(* Typing goes on while the text may still become one that is read; a name *)
(* and a number go on in one symbol, so none follows directly on a name.   *)
Hopeful(s, piece) ==
  /\ ~(s # <<>> /\ Last(s) \in Letter /\ Head(piece) \in Letter \cup Digit)
  /\ Doit(s \o piece).code # INVALID

Untouched ==
  /\ phase = "off" /\ file.is = "absent" /\ config = Defaults
  /\ ~config_filename /\ options = 0 /\ plain /\ after = {}

TextInit == Init /\ text = <<>>
Type ==
  /\ Untouched /\ ~Accepted(text)
  /\ \E piece \in Pieces :
       /\ Len(text) + Len(piece) <= MaxText /\ Hopeful(text, piece)
       /\ text' = text \o piece
  /\ UNCHANGED vars
Retype == text # <<>> /\ text' = <<>> /\ UNCHANGED vars
Runs == text = <<>> /\ Next /\ UNCHANGED text
TextSpec == TextInit /\ [][Type \/ Retype \/ Runs]_textVars

(* The parses of what was typed, and of what the server that is running    *)
(* has just written.                                                       *)
Parses ==
  {Doit(s) : s \in {text}
               \cup (IF phase = "running" /\ kept = config THEN {Printed(file.settings)} ELSE {})}

-----------------------------------------------------------------------------
(* strlcpy, given the length of the token and one more.                    *)
strlcpy(src, size) == SubSeq(src, 1, Min({Len(src), size - 1}))
TokenValue(f, i) ==
  strlcpy(SubSeq(f.s, f.tokens[i].ptr, Len(f.s)), f.tokens[i].len + 1)

(* Every setting the server saved is found in the text it wrote, with its  *)
(* value and not with another's; so is one inside another object; and a    *)
(* setting that was not saved is not found.                                *)
SavedIsFound ==
  phase = "running" /\ kept = config =>
    \E f \in {Doit(Printed(file.settings))} :
      LET Found(path) == LET i == FindJsonToken(f, path) IN IF i = 0 THEN <<>> ELSE TokenValue(f, i)
      IN  /\ f.code = 0
          /\ \A s \in Settings :
               Found(<<<<Name[s]>>>>) = IF s \in Saved THEN Value(s, file.settings[s]) ELSE <<>>
          /\ Found(<<<<"whitePoint">>, <<"red">>>>) = <<"1">>

(* A text that is cut off anywhere before its last brace is refused, as    *)
(* the file is after a crash in the middle of writing it: no part of it is *)
(* taken for the settings.                                                 *)
CutOffRefused ==
  \A f \in Parses : f.code = 0 =>
    \A n \in 0 .. f.cur - 2 : ~Accepted(SubSeq(f.s, 1, n))

(* find_json_token, which steps over tokens by counting descendants, finds *)
(* the first member of that key of that object, and none that is deeper    *)
(* inside or in a value.                                                   *)
FindsFirst ==
  LET FirstOf(S) == IF S = {} THEN 0 ELSE Min(S)
      DeepIn(f, i, key) ==
        IF i # 0 /\ f.tokens[i].type = "object" THEN MembersWith(f, i, key) ELSE {}
      Keys(f) == {KeyOf(f, i) : i \in Proper(f)}
  IN  \A f \in Parses : f.code = 0 =>
        \A key \in Keys(f) : \E outer \in {FindJsonToken(f, <<key>>)} :
          /\ outer = FirstOf(MembersWith(f, 1, key))
          /\ \A inner \in Keys(f) :
               FindJsonToken(f, <<key, inner>>) = FirstOf(DeepIn(f, outer, inner))
=============================================================================
