---------------------------- MODULE ServerConfig ----------------------------
(***************************************************************************)
(* How the configuration comes about: the command line in its order, the   *)
(* configuration file it names, the validation, and the file written back, *)
(* over runs of the server that may be killed anywhere.  A setting stands  *)
(* for each way settings are treated: the TCP port (16 bits, saved), the   *)
(* E1.31 port (16 bits, not saved), the luminance power (saved to four     *)
(* decimals), the demo mode (a name), dithering (which an option can only  *)
(* disable) and the colour order (a name, which only the file can give).   *)
(***************************************************************************)
EXTENDS Integers

CONSTANTS
  PortMod,     \* 2^16
  Ports,       \* the numbers given as ports
  Coarse,      \* how many of the unit of power the fourth decimal is
  MaxPower,    \* the greatest valid power
  Powers,      \* the numbers given as powers
  DemoNames,   \* the names given as demo modes
  OrderNames,  \* the names given as colour orders
  MaxOptions   \* bound: options on a command line

ASSUME ConfigAssumption ==
  /\ PortMod \in Nat \ {0, 1} /\ Ports \subseteq Nat
  /\ Coarse \in Nat \ {0} /\ MaxPower \in Nat /\ MaxPower % Coarse = 0
  /\ Powers \subseteq Nat
  /\ MaxOptions \in Nat

VARIABLES
  phase,     \* "off", "args", "save", "writing", "running" or "died"
  config,    \* g_server_config
  config_filename,   \* whether g_config_filename is set
  file,      \* the configuration file
  options,   \* how many options of the command line were handled
  plain,     \* ghost: whether --config was the only option so far
  after,     \* ghost: the settings given after --config
  kept       \* ghost: what the file was written from, or NotKept

vars == <<phase, config, config_filename, file, options, plain, after, kept>>

Settings == {"tcp", "e131", "power", "demo", "dithering", "order"}
Saved == Settings \ {"e131"}            \* what server_config_to_json prints
Given == [tcp |-> Ports, e131 |-> Ports, power |-> Powers, demo |-> DemoNames,
          dithering |-> {"true", "false"}, order |-> OrderNames]

Defaults == [tcp |-> 1, e131 |-> 1, power |-> MaxPower, demo |-> "DEMO_MODE_FADE",
             dithering |-> TRUE, order |-> "COLOR_ORDER_BGR"]

Invalid == "-1"

demo_mode_to_string(mode) ==
  CASE mode = "DEMO_MODE_NONE" -> "none"
    [] mode = "DEMO_MODE_FADE" -> "fade"
    [] mode = "DEMO_MODE_IDENTIFY" -> "id"
    [] mode = "DEMO_MODE_BLACK" -> "black"
    [] OTHER -> "<invalid demo_mode>"

(* The names are known in capitals as well.                                *)
demo_mode_from_string(name) ==
  CASE name = "none" -> "DEMO_MODE_NONE"
    [] name = "id" -> "DEMO_MODE_IDENTIFY"
    [] name = "fade" -> "DEMO_MODE_FADE"
    [] name = "black" -> "DEMO_MODE_BLACK"
    [] OTHER -> Invalid

color_channel_order_to_string(order) ==
  CASE order = "COLOR_ORDER_RGB" -> "RGB"
    [] order = "COLOR_ORDER_RBG" -> "RBG"
    [] order = "COLOR_ORDER_GRB" -> "GRB"
    [] order = "COLOR_ORDER_GBR" -> "GBR"
    [] order = "COLOR_ORDER_BGR" -> "BGR"
    [] order = "COLOR_ORDER_BRG" -> "BRG"

(* A name that is not known is taken for RGB, and nobody is told.          *)
color_channel_order_from_string(name) ==
  CASE name = "RBG" -> "COLOR_ORDER_RBG"
    [] name = "GRB" -> "COLOR_ORDER_GRB"
    [] name = "GBR" -> "COLOR_ORDER_GBR"
    [] name = "BGR" -> "COLOR_ORDER_BGR"
    [] name = "BRG" -> "COLOR_ORDER_BRG"
    [] OTHER -> "COLOR_ORDER_RGB"

(* What is made of what the file gives for a setting, by atoi, atof, a     *)
(* table of names or a comparison with "true".                             *)
Parsed(s, given) ==
  CASE s \in {"tcp", "e131"} -> given % PortMod
    [] s = "power" -> given
    [] s = "demo" -> demo_mode_from_string(given)
    [] s = "dithering" -> given = "true"
    [] s = "order" -> color_channel_order_from_string(given)

Valid(s, value) ==
  CASE s \in {"tcp", "e131"} -> value \in 1 .. PortMod - 1
    [] s = "power" -> value <= MaxPower
    [] s = "dithering" -> value \in BOOLEAN            \* nothing is checked
    [] OTHER -> value # Invalid

-----------------------------------------------------------------------------
(* The file: what it is and, if it is JSON, the settings it has.           *)

NotJson(what) == [is |-> what, settings |-> <<>>]
Json(settings) == [is |-> "json", settings |-> settings]
NotKept == <<>>

(* "%.4f" keeps a multiple of Coarse.                                      *)
Rounded(power) == Coarse * ((power + Coarse \div 2) \div Coarse)

Text(s, value) ==
  CASE s \in {"tcp", "e131"} -> value
    [] s = "power" -> Rounded(value)
    [] s = "demo" -> demo_mode_to_string(value)
    [] s = "dithering" -> IF value THEN "true" ELSE "false"
    [] s = "order" -> color_channel_order_to_string(value)

ToJsonWithoutTcp(c) ==                                 \* a mutant of ToJson
  [s \in Saved \ {"tcp"} |-> Text(s, c[s])]

ToJson(c) == [s \in Saved |-> Text(s, c[s])]

FromJson(settings, c) ==
  [s \in Settings |-> IF s \in DOMAIN settings \cap Saved THEN Parsed(s, settings[s]) ELSE c[s]]

Init ==
  /\ phase = "off"
  /\ config = Defaults
  /\ config_filename = FALSE
  /\ file = NotJson("absent")
  /\ options = 0 /\ plain = TRUE /\ after = {}
  /\ kept = NotKept

-----------------------------------------------------------------------------
(* What happens to the server and its file from outside.                   *)

(* Whoever edits the file writes what he likes, or some of the settings.   *)
UserEdits ==
  /\ phase = "off"
  /\ \/ file' \in {NotJson("absent"), NotJson("malformed")}
     \/ \E s \in Settings : \E given \in Given[s] :
          file' = Json([t \in {s} |-> given])
  /\ kept' = NotKept
  /\ UNCHANGED <<phase, config, config_filename, options, plain, after>>

Start ==
  /\ phase = "off"
  /\ phase' = "args"
  /\ config' = Defaults /\ config_filename' = FALSE
  /\ options' = 0 /\ plain' = TRUE /\ after' = {}
  /\ UNCHANGED <<file, kept>>

(* The process ends, is killed, or the power fails.                        *)
Stop ==
  /\ phase # "off"
  /\ phase' = "off"
  /\ UNCHANGED <<config, config_filename, file, options, plain, after, kept>>

-----------------------------------------------------------------------------
(* handle_args.                                                            *)

NextOption == phase = "args" /\ options < MaxOptions /\ options' = options + 1

(* An option changes a setting, but for the colour order, of which it      *)
(* warns that it is not implemented.                                       *)
SetOption ==
  /\ NextOption
  /\ \/ \E s \in Settings \ {"dithering", "order"} : \E given \in Given[s] :
          /\ config' = [config EXCEPT ![s] = Parsed(s, given)]
          /\ after' = IF config_filename THEN after \cup {s} ELSE after
     \/ /\ config' = [config EXCEPT !["dithering"] = FALSE]
        /\ after' = IF config_filename THEN after \cup {"dithering"} ELSE after
     \/ UNCHANGED <<config, after>>
  /\ plain' = FALSE
  /\ UNCHANGED <<phase, config_filename, file, kept>>

(* An option that getopt_long does not know ends the process, which prints *)
(* its usage.                                                              *)
RejectedOption ==
  /\ NextOption
  /\ phase' = "died"
  /\ UNCHANGED <<config, config_filename, file, plain, after, kept>>

(* --help prints what each option is for, and the process ends: what was   *)
(* given so far is not validated and not saved.                            *)
HelpOption ==
  /\ NextOption
  /\ phase' = "off"
  /\ UNCHANGED <<config, config_filename, file, plain, after, kept>>

(* --config: read_config_file ignores what server_config_from_json returns.*)
ConfigOption ==
  /\ NextOption
  /\ config_filename' = TRUE
  /\ config' = IF file.is = "json" THEN FromJson(file.settings, config) ELSE config
  /\ after' = {}
  /\ UNCHANGED <<phase, file, plain, kept>>

-----------------------------------------------------------------------------
(* main: validate, then write the file back.                               *)

ValidateAlways ==                                      \* a mutant of Validate
  /\ phase = "args"
  /\ phase' = IF config_filename THEN "save" ELSE "running"
  /\ UNCHANGED <<config, config_filename, file, options, plain, after, kept>>

Validate ==
  /\ phase = "args"
  /\ phase' = IF \E s \in Settings : ~Valid(s, config[s]) THEN "died"
              ELSE IF config_filename THEN "save" ELSE "running"
  /\ UNCHANGED <<config, config_filename, file, options, plain, after, kept>>

(* fopen truncates the file, or fails and the server runs all the same.    *)
OpenForWriting ==
  /\ phase = "save"
  /\ \/ /\ phase' = "writing"
        /\ file' = NotJson("empty")
        /\ kept' = NotKept
     \/ /\ phase' = "running"
        /\ UNCHANGED <<file, kept>>
  /\ UNCHANGED <<config, config_filename, options, plain, after>>

Write ==
  /\ phase = "writing"
  /\ file' = Json(ToJson(config))
  /\ kept' = config
  /\ phase' = "running"
  /\ UNCHANGED <<config, config_filename, options, plain, after>>

Next ==
  \/ UserEdits \/ Start \/ Stop
  \/ SetOption \/ RejectedOption \/ HelpOption \/ ConfigOption
  \/ Validate \/ OpenForWriting \/ Write

Spec == Init /\ [][Next]_vars

-----------------------------------------------------------------------------
(* A file the server wrote never keeps it from starting: read back, every  *)
(* setting of it is valid, whatever the rounding made of it.               *)
SavedIsValid ==
  kept # NotKept =>
    \A s \in DOMAIN file.settings : Valid(s, Parsed(s, file.settings[s]))

(* A server started with --config and nothing else has the saved settings  *)
(* of the run that wrote the file, but for decimals beyond the fourth, and *)
(* writes the same file again: runs, kills and failures to open the file   *)
(* in between do not make the settings drift.                              *)
SettingsSurvive ==
  /\ phase = "running" /\ plain /\ config_filename /\ kept # NotKept
       => \A s \in Saved : Text(s, config[s]) = Text(s, kept[s])
  /\ phase = "save" /\ plain /\ kept # NotKept => ToJson(config) = file.settings

-----------------------------------------------------------------------------
(* What the help says and the code does not do.                            *)

(* "options afterwards will be saved to the config file".                  *)
OptionsAfterSaved ==
  phase = "running" /\ kept = config => after \subseteq DOMAIN file.settings
=============================================================================
