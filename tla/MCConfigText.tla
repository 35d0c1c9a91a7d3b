---------------------------- MODULE MCConfigText ----------------------------
EXTENDS ConfigText

MCDigit == {"0", "1", "2", "3", "4", "5"}

(* The names of settings and the words among their values, and two others. *)
MCLetter ==
  {"demoMode", "opcTcpPort", "lumCurvePower", "whitePoint", "red", "e131Port",
   "enableDithering", "colorChannelOrder", "none", "fade", "id", "black",
   "RGB", "RBG", "GRB", "GBR", "BGR", "BRG", "a", "b"}

(* A value and what is around values, and keys, one of which has quotes in *)
(* it that are escaped.                                                    *)
MCPieces ==
  {<<symbol>> : symbol \in {LBRACE, RBRACE, "[", "]", COMMA, "null"}}
    \cup {<<"a", ":">>, <<"b", ":">>, <<QUOTE, "\\", QUOTE, QUOTE, ":">>}
=============================================================================
