-------------------------- MODULE ConfigTextProofs --------------------------
(***************************************************************************)
(* The proofs about the configuration file: that what the server saves it  *)
(* can read back, for every width of a port, every precision the power is  *)
(* saved with, and any number of options, runs and kills; that no text is  *)
(* read which is cut off before its last brace; that find_json_token finds *)
(* the first member of a key, and no other; and that every saved setting   *)
(* is found in the text that was written. Of the parser they show, for     *)
(* texts of every length, that the parse of a prefix follows the parse of  *)
(* the text until the prefix ends (Behind), and that its tokens are a tree *)
(* in which the keys of an object are a chain (Tree, Objects).             *)
(***************************************************************************)
EXTENDS ConfigText, SequenceTheorems, FiniteSetTheorems, WellFoundedInduction, TLAPS

-----------------------------------------------------------------------------
(* The settings: what the server saves it can read back.                   *)

DemoMode == {"DEMO_MODE_NONE", "DEMO_MODE_FADE", "DEMO_MODE_IDENTIFY", "DEMO_MODE_BLACK"}
ColorOrder == {"COLOR_ORDER_RGB", "COLOR_ORDER_RBG", "COLOR_ORDER_GRB",
               "COLOR_ORDER_GBR", "COLOR_ORDER_BGR", "COLOR_ORDER_BRG"}

ValueType(s) ==
  CASE s \in {"tcp", "e131", "power"} -> Nat
    [] s = "demo" -> DemoMode \cup {Invalid}
    [] s = "dithering" -> BOOLEAN
    [] s = "order" -> ColorOrder

Typed(c) == DOMAIN c = Settings /\ \A s \in Settings : c[s] \in ValueType(s)
AllValid(c) == \A s \in Settings : Valid(s, c[s])

(* What can be read from the file is of the right type.                    *)
FileTyped ==
  file.is = "json" =>
    \A s \in DOMAIN file.settings \cap Saved : Parsed(s, file.settings[s]) \in ValueType(s)

(* The file is the one that was written from kept.                         *)
FileIsKept ==
  kept # NotKept => Typed(kept) /\ AllValid(kept) /\ file = Json(ToJson(kept))

(* Only valid settings get as far as being saved.                          *)
SavingValid == phase \in {"save", "writing"} => AllValid(config)

SameTexts(c, d) == \A s \in Saved : Text(s, c[s]) = Text(s, d[s])

(* With --config alone the settings are those that were kept.              *)
ReadBack ==
  /\ phase = "save" => config_filename
  /\ phase \in {"args", "save", "running"} /\ plain /\ config_filename /\ kept # NotKept
       => SameTexts(config, kept)

IInv == Typed(config) /\ FileTyped /\ FileIsKept /\ SavingValid /\ ReadBack

(* Division rounds down.                                                   *)
LEMMA DivBounds ==
  ASSUME NEW a \in Nat, NEW m \in Nat \ {0}
  PROVE  /\ a \div m \in Nat
         /\ m * (a \div m) <= a
         /\ a < m * (a \div m) + m
  BY Z3

(* The only multiple of m between m * q and the next is that one.          *)
LEMMA DivUnique ==
  ASSUME NEW m \in Nat \ {0}, NEW q \in Nat, NEW r \in 0 .. m - 1
  PROVE  (m * q + r) \div m = q
  BY Z3

(* Rounding to four decimals does not exceed the greatest power.           *)
LEMMA RoundedIsBounded ==
  ASSUME NEW power \in Nat, power <= MaxPower
  PROVE  Rounded(power) \in Nat /\ Rounded(power) <= MaxPower
<1> DEFINE a == power + Coarse \div 2
           q == a \div Coarse
           k == MaxPower \div Coarse
<1>1. Coarse \in Nat \ {0} /\ MaxPower \in Nat /\ MaxPower % Coarse = 0
  BY ConfigAssumption
<1>2. Coarse \div 2 \in 0 .. Coarse - 1
  BY <1>1
<1>3. k \in Nat /\ MaxPower = Coarse * k
  BY <1>1, Z3
<1>4. a \in Nat /\ a < Coarse * k + Coarse
  BY <1>1, <1>2, <1>3
<1>5. q \in Nat /\ Coarse * q <= a
  BY <1>1, <1>4, DivBounds
<1>6. q <= k
  <2> HIDE DEF q, k, a
  <2>1. ASSUME q >= k + 1 PROVE FALSE
    <3>1. Coarse * q >= Coarse * (k + 1)
      BY <1>1, <1>3, <1>5, <2>1, Z3
    <3>2. Coarse * (k + 1) = Coarse * k + Coarse
      BY <1>1, <1>3, Z3
    <3>3. Coarse * q \in Nat /\ Coarse * k \in Nat
      BY <1>1, <1>3, <1>5
    <3> QED
      BY <1>1, <1>4, <1>5, <3>1, <3>2, <3>3
  <2> QED
    BY <1>3, <1>5, <2>1
<1>7. Coarse * q \in Nat /\ Coarse * q <= Coarse * k
  <2> HIDE DEF q, k
  <2> QED
    BY <1>1, <1>3, <1>5, <1>6, Z3
<1> QED
  BY <1>3, <1>7 DEF Rounded

(* Rounding again changes nothing.                                         *)
LEMMA RoundedIsStable ==
  ASSUME NEW power \in Nat
  PROVE  Rounded(power) \in Nat /\ Rounded(Rounded(power)) = Rounded(power)
<1> DEFINE q == (power + Coarse \div 2) \div Coarse
<1>1. Coarse \in Nat \ {0}
  BY ConfigAssumption
<1>2. Coarse \div 2 \in 0 .. Coarse - 1
  BY <1>1
<1>3. q \in Nat
  BY <1>1, <1>2, DivBounds
<1>4. Rounded(power) = Coarse * q
  BY DEF Rounded
<1> HIDE DEF q
<1>5. (Coarse * q + Coarse \div 2) \div Coarse = q
  BY <1>1, <1>2, <1>3, DivUnique
<1>6. Coarse * q \in Nat
  BY <1>1, <1>3
<1> QED
  BY <1>4, <1>5, <1>6 DEF Rounded

(* What is read from a saved setting is valid, and is saved as the same    *)
(* text.                                                                   *)
LEMMA RoundTrip ==
  ASSUME NEW s \in Saved, NEW v \in ValueType(s), Valid(s, v)
  PROVE  /\ Parsed(s, Text(s, v)) \in ValueType(s)
         /\ Valid(s, Parsed(s, Text(s, v)))
         /\ Text(s, Parsed(s, Text(s, v))) = Text(s, v)
<1>1. CASE s = "tcp"
  <2>1. v \in 1 .. PortMod - 1 /\ PortMod \in Nat
    BY <1>1, ConfigAssumption DEF Valid
  <2>2. v % PortMod = v
    BY <2>1
  <2> QED
    BY <1>1, <2>1, <2>2 DEF Parsed, Text, Valid, ValueType
<1>2. CASE s = "power"
  <2>1. v \in Nat /\ v <= MaxPower
    BY <1>2 DEF Valid, ValueType
  <2> QED
    BY <1>2, <2>1, RoundedIsBounded, RoundedIsStable DEF Parsed, Text, Valid, ValueType
<1>3. CASE s = "demo"
  <2>1. v \in DemoMode
    BY <1>3 DEF Valid, ValueType
  <2>2. demo_mode_from_string(demo_mode_to_string(v)) = v
    BY <2>1 DEF DemoMode, demo_mode_from_string, demo_mode_to_string
  <2>3. v # Invalid
    BY <2>1 DEF DemoMode, Invalid
  <2> QED
    BY <1>3, <2>1, <2>2, <2>3 DEF Parsed, Text, Valid, ValueType
<1>4. CASE s = "dithering"
  BY <1>4 DEF Parsed, Text, Valid, ValueType
<1>5. CASE s = "order"
  <2>1. v \in ColorOrder
    BY <1>5 DEF ValueType
  <2>2. color_channel_order_from_string(color_channel_order_to_string(v)) = v
    BY <2>1 DEF ColorOrder, color_channel_order_from_string, color_channel_order_to_string
  <2>3. v # Invalid
    BY <2>1 DEF ColorOrder, Invalid
  <2> QED
    BY <1>5, <2>1, <2>2, <2>3 DEF Parsed, Text, Valid, ValueType
<1> QED
  BY <1>1, <1>2, <1>3, <1>4, <1>5 DEF Saved, Settings

(* Whatever is given for a setting becomes a value of it.                  *)
LEMMA ParsedTyped ==
  ASSUME NEW s \in Settings, NEW given \in Given[s]
  PROVE  Parsed(s, given) \in ValueType(s)
<1>1. CASE s \in {"tcp", "e131"}
  <2>1. given \in Nat /\ PortMod \in Nat \ {0}
    BY <1>1, ConfigAssumption DEF Given
  <2> QED
    BY <1>1, <2>1 DEF Parsed, ValueType
<1>2. CASE s = "power"
  BY <1>2, ConfigAssumption DEF Parsed, ValueType, Given
<1>3. CASE s = "demo"
  BY <1>3 DEF Parsed, ValueType, demo_mode_from_string, DemoMode
<1>4. CASE s = "dithering"
  BY <1>4 DEF Parsed, ValueType
<1>5. CASE s = "order"
  BY <1>5 DEF Parsed, ValueType, color_channel_order_from_string, ColorOrder
<1> QED
  BY <1>1, <1>2, <1>3, <1>4, <1>5 DEF Settings

(* The defaults are of the right types.                                    *)
LEMMA DefaultsTyped == Typed(Defaults)
<1>1. DOMAIN Defaults = Settings
  BY DEF Defaults, Settings
<1>2. ASSUME NEW s \in Settings PROVE Defaults[s] \in ValueType(s)
  <2>1. CASE s \in {"tcp", "e131", "power"}
    BY <2>1, ConfigAssumption DEF Defaults, ValueType
  <2>2. CASE s = "demo"
    BY <2>2 DEF Defaults, ValueType, DemoMode
  <2>3. CASE s = "dithering"
    BY <2>3 DEF Defaults, ValueType
  <2>4. CASE s = "order"
    BY <2>4 DEF Defaults, ValueType, ColorOrder
  <2> QED
    BY <2>1, <2>2, <2>3, <2>4 DEF Settings
<1> QED
  BY <1>1, <1>2 DEF Typed

(* Reading a file changes settings to values of theirs.                    *)
LEMMA FromJsonTyped ==
  ASSUME Typed(config), FileTyped, file.is = "json"
  PROVE  Typed(FromJson(file.settings, config))
  BY DEF Typed, FileTyped, FromJson

(* Reading the file that was kept gives back the settings, as their texts. *)
LEMMA FromJsonSame ==
  ASSUME FileIsKept, kept # NotKept
  PROVE  file.is = "json" /\ SameTexts(FromJson(file.settings, config), kept)
<1>1. file.is = "json" /\ file.settings = ToJson(kept)
  BY DEF FileIsKept, Json
<1>2. ASSUME NEW s \in Saved
      PROVE  Text(s, FromJson(file.settings, config)[s]) = Text(s, kept[s])
  <2>1. s \in Settings /\ s \in DOMAIN ToJson(kept) /\ ToJson(kept)[s] = Text(s, kept[s])
    BY DEF Saved, ToJson
  <2>2. FromJson(file.settings, config)[s] = Parsed(s, Text(s, kept[s]))
    BY <1>1, <2>1 DEF FromJson
  <2>3. kept[s] \in ValueType(s) /\ Valid(s, kept[s])
    BY <2>1 DEF FileIsKept, Typed, AllValid
  <2> QED
    BY <2>2, <2>3, RoundTrip
<1> QED
  BY <1>1, <1>2 DEF SameTexts

(* It holds before the first run.                                          *)
LEMMA InitInvariant == Init => IInv
<1> SUFFICES ASSUME Init PROVE IInv
  OBVIOUS
<1>1. Typed(config)
  BY DefaultsTyped DEF Init
<1>2. file.is # "json" /\ kept = NotKept /\ phase = "off"
  BY DEF Init, NotJson
<1> QED
  BY <1>1, <1>2 DEF IInv, FileTyped, FileIsKept, SavingValid, ReadBack

(* What the user writes is not what was kept.                              *)
LEMMA EditInvariant == IInv /\ UserEdits => IInv'
<1> SUFFICES ASSUME IInv, UserEdits PROVE IInv'
  OBVIOUS
<1>1. FileTyped'
  <2>1. CASE file' \in {NotJson("absent"), NotJson("malformed")}
    BY <2>1 DEF NotJson, FileTyped
  <2>2. ASSUME NEW s \in Settings, NEW given \in Given[s], file' = Json([t \in {s} |-> given])
        PROVE  FileTyped'
    <3>1. Parsed(s, given) \in ValueType(s)
      BY ParsedTyped
    <3> QED
      BY <2>2, <3>1 DEF Json, FileTyped
  <2> QED
    BY <2>1, <2>2 DEF UserEdits
<1>2. kept' = NotKept /\ phase' = phase /\ config' = config /\ config_filename' = config_filename
  BY DEF UserEdits
<1> QED
  BY <1>1, <1>2 DEF IInv, Typed, FileIsKept, SavingValid, AllValid, ReadBack

(* Starting forgets the settings, and no file has been named yet.          *)
LEMMA StartInvariant == IInv /\ Start => IInv'
  BY DefaultsTyped
     DEF Start, IInv, FileTyped, FileIsKept, SavingValid, ReadBack

(* An option of the command line keeps the invariant.                      *)
LEMMA OptionInvariant == IInv /\ SetOption => IInv'
<1> SUFFICES ASSUME IInv, SetOption PROVE IInv'
  OBVIOUS
<1>1. Typed(config')
  <2>1. ASSUME NEW s \in Settings, NEW v \in ValueType(s), config' = [config EXCEPT ![s] = v]
        PROVE  Typed(config')
    BY <2>1 DEF IInv, Typed
  <2>2. CASE \E s \in Settings \ {"dithering", "order"} : \E given \in Given[s] :
               config' = [config EXCEPT ![s] = Parsed(s, given)]
    BY <2>1, <2>2, ParsedTyped
  <2>3. CASE config' = [config EXCEPT !["dithering"] = FALSE]
    <3>1. "dithering" \in Settings /\ FALSE \in ValueType("dithering")
      BY DEF Settings, ValueType
    <3> QED
      BY <2>1, <2>3, <3>1
  <2>4. CASE config' = config
    BY <2>4 DEF IInv, Typed
  <2> QED
    BY <2>2, <2>3, <2>4 DEF SetOption
<1>2. ~plain' /\ phase' = "args" /\ file' = file /\ kept' = kept
  BY DEF SetOption, NextOption
<1> QED
  BY <1>1, <1>2 DEF IInv, FileTyped, FileIsKept, SavingValid, ReadBack

(* --config gives back the settings that were kept.                        *)
LEMMA ConfigInvariant == IInv /\ ConfigOption => IInv'
<1> SUFFICES ASSUME IInv, ConfigOption PROVE IInv'
  OBVIOUS
<1>1. phase' = "args" /\ file' = file /\ kept' = kept
  BY DEF ConfigOption, NextOption
<1>2. Typed(config')
  BY FromJsonTyped DEF ConfigOption, IInv
<1>3. kept # NotKept => SameTexts(config', kept)
  BY FromJsonSame DEF ConfigOption, IInv
<1>4. ReadBack'
  BY <1>1, <1>3 DEF ReadBack, SameTexts
<1> QED
  BY <1>1, <1>2, <1>4 DEF IInv, FileTyped, FileIsKept, SavingValid

(* main validates, and only valid settings go on to be saved.              *)
LEMMA ValidateInvariant == IInv /\ Validate => IInv'
<1> SUFFICES ASSUME IInv, Validate PROVE IInv'
  OBVIOUS
<1>1. phase = "args" /\ config' = config /\ config_filename' = config_filename
      /\ file' = file /\ plain' = plain /\ kept' = kept
  BY DEF Validate
<1>2. phase' \in {"died", "save", "running"}
      /\ (phase' = "save" => config_filename /\ AllValid(config))
  BY DEF Validate, AllValid
<1> QED
  BY <1>1, <1>2
     DEF IInv, Typed, FileTyped, FileIsKept, SavingValid, AllValid, ReadBack, SameTexts

(* Opening the file truncates it, or fails and leaves it.                  *)
LEMMA OpenInvariant == IInv /\ OpenForWriting => IInv'
<1> SUFFICES ASSUME IInv, OpenForWriting PROVE IInv'
  OBVIOUS
<1>1. phase = "save" /\ config' = config /\ config_filename' = config_filename /\ plain' = plain
  BY DEF OpenForWriting
<1>2. CASE phase' = "writing" /\ file' = NotJson("empty") /\ kept' = NotKept
  BY <1>1, <1>2
     DEF IInv, Typed, FileTyped, FileIsKept, SavingValid, AllValid, ReadBack, NotJson
<1>3. CASE phase' = "running" /\ UNCHANGED <<file, kept>>
  BY <1>1, <1>3
     DEF IInv, Typed, FileTyped, FileIsKept, SavingValid, AllValid, ReadBack, SameTexts
<1> QED
  BY <1>2, <1>3 DEF OpenForWriting

(* What is written can be read as settings of the right type.              *)
LEMMA WriteInvariant == IInv /\ Write => IInv'
<1> SUFFICES ASSUME IInv, Write PROVE IInv'
  OBVIOUS
<1>1. phase = "writing" /\ phase' = "running" /\ config' = config /\ kept' = config
      /\ file' = Json(ToJson(config))
  BY DEF Write
<1>2. Typed(config) /\ AllValid(config)
  BY <1>1 DEF IInv, SavingValid
<1>3. FileTyped'
  <2>1. file'.settings = ToJson(config)
    BY <1>1 DEF Json
  <2>2. ASSUME NEW s \in DOMAIN ToJson(config) \cap Saved
        PROVE  Parsed(s, ToJson(config)[s]) \in ValueType(s)
    <3>1. s \in Settings /\ ToJson(config)[s] = Text(s, config[s])
      BY DEF ToJson, Saved
    <3>2. config[s] \in ValueType(s) /\ Valid(s, config[s])
      BY <1>2, <3>1 DEF Typed, AllValid
    <3> QED
      BY <3>1, <3>2, RoundTrip
  <2> QED
    BY <2>1, <2>2 DEF FileTyped
<1>4. Typed(config)' /\ FileIsKept'
  BY <1>1, <1>2 DEF FileIsKept, Typed, AllValid
<1>5. SavingValid' /\ ReadBack'
  BY <1>1 DEF SavingValid, ReadBack, SameTexts
<1> QED
  BY <1>3, <1>4, <1>5 DEF IInv

(* Every step keeps the invariant.                                         *)
LEMMA NextInvariant == IInv /\ [Next]_vars => IInv'
<1> SUFFICES ASSUME IInv, [Next]_vars PROVE IInv'
  OBVIOUS
<1>1. CASE UNCHANGED vars
  BY <1>1 DEF vars, IInv, Typed, FileTyped, FileIsKept, SavingValid, AllValid, ReadBack, SameTexts
<1>2. CASE Stop \/ RejectedOption \/ HelpOption
  <2>1. phase' \in {"off", "died"} /\ config' = config /\ file' = file /\ kept' = kept
    BY <1>2 DEF Stop, RejectedOption, HelpOption
  <2> QED
    BY <2>1 DEF IInv, Typed, FileTyped, FileIsKept, SavingValid, AllValid, ReadBack
<1> QED
  BY <1>1, <1>2, EditInvariant, StartInvariant, OptionInvariant, ConfigInvariant,
     ValidateInvariant, OpenInvariant, WriteInvariant DEF Next

(* The inductive invariant: the file is the text of valid settings, and    *)
(* with --config alone the settings have the same texts.                   *)
THEOREM Invariance == Spec => []IInv
  BY InitInvariant, NextInvariant, PTL DEF Spec

(* Read back, what the server saved is valid: it never refuses to start    *)
(* with its own file.                                                      *)
THEOREM SavedFileIsValid == Spec => []SavedIsValid
<1>1. IInv => SavedIsValid
  <2> SUFFICES ASSUME IInv, kept # NotKept, NEW s \in DOMAIN file.settings
               PROVE  Valid(s, Parsed(s, file.settings[s]))
    BY DEF SavedIsValid
  <2>1. file.settings = ToJson(kept) /\ Typed(kept) /\ AllValid(kept)
    BY DEF IInv, FileIsKept, Json
  <2>2. s \in Saved /\ s \in Settings /\ file.settings[s] = Text(s, kept[s])
    BY <2>1 DEF ToJson, Saved
  <2> QED
    BY <2>1, <2>2, RoundTrip DEF Typed, AllValid
<1> QED
  BY <1>1, Invariance, PTL

(* Runs with --config alone, kills and failures to open the file in        *)
(* between do not make the saved settings drift.                           *)
THEOREM SettingsDoNotDrift == Spec => []SettingsSurvive
<1>1. IInv => SettingsSurvive
  <2> SUFFICES ASSUME IInv PROVE SettingsSurvive
    OBVIOUS
  <2>1. phase = "running" /\ plain /\ config_filename /\ kept # NotKept
          => \A s \in Saved : Text(s, config[s]) = Text(s, kept[s])
    BY DEF IInv, ReadBack, SameTexts
  <2>2. ASSUME phase = "save", plain, kept # NotKept
        PROVE  ToJson(config) = file.settings
    <3>1. file.settings = ToJson(kept) /\ SameTexts(config, kept)
      BY <2>2 DEF IInv, FileIsKept, ReadBack, Json
    <3> QED
      BY <3>1 DEF ToJson, SameTexts
  <2> QED
    BY <2>1, <2>2 DEF SettingsSurvive
<1> QED
  BY <1>1, Invariance, PTL

-----------------------------------------------------------------------------
(* Induction over a finite set of numbers, and functions that chase.       *)

(* Induction on the natural numbers, for a set, and from n downwards.      *)
LEMMA Induction ==
  ASSUME NEW S, 0 \in S, \A n \in Nat : n \in S => n + 1 \in S
  PROVE  \A n \in Nat : n \in S
<1> SUFFICES ASSUME NEW bad \in Nat, bad \notin S PROVE FALSE
  OBVIOUS
<1> DEFINE T == Nat \ S
<1>1. PICK n \in T : \A m \in T : ~(<<m, n>> \in OpToRel(<, Nat))
  <2>1. T \subseteq Nat /\ T # {}
    OBVIOUS
  <2> HIDE DEF T
  <2> QED
    BY <2>1, NatLessThanWellFounded, WFMin
<1>2. \A m \in T : ~(m < n)
  BY <1>1 DEF OpToRel
<1>3. n \in Nat /\ n # 0 /\ n \notin S
  OBVIOUS
<1>4. n - 1 \in Nat /\ n - 1 < n /\ (n - 1) + 1 = n
  BY <1>3
<1>5. n - 1 \in S
  BY <1>2, <1>4
<1> QED
  BY <1>3, <1>4, <1>5

(* Induction from n down to 0.                                             *)
LEMMA DownInduction ==
  ASSUME NEW n \in Nat, NEW S,
         \A i \in 0 .. n : (\A j \in 0 .. n : i < j => j \in S) => i \in S
  PROVE  \A i \in 0 .. n : i \in S
<1> DEFINE T == {m \in Nat : \A i \in 0 .. n : n - i < m => i \in S}
<1>1. 0 \in T
  OBVIOUS
<1>2. ASSUME NEW m \in Nat, m \in T
      PROVE  m + 1 \in T
  <2>1. ASSUME NEW i \in 0 .. n, n - i < m + 1
        PROVE  i \in S
    <3>1. \A j \in 0 .. n : i < j => n - j < m
      BY <2>1
    <3> QED
      BY <1>2, <3>1
  <2> QED
    BY <2>1
<1>3. n + 1 \in T
  <2> HIDE DEF T
  <2> QED
    BY <1>1, <1>2, Induction
<1>4. \A i \in 0 .. n : n - i < n + 1
  OBVIOUS
<1> QED
  BY <1>3, <1>4

(* The least of some numbers.                                              *)
LEMMA MinOf ==
  ASSUME NEW S, S \subseteq Nat, S # {}
  PROVE  Min(S) \in S /\ \A x \in S : Min(S) <= x
<1>1. PICK n \in S : \A m \in S : ~(<<m, n>> \in OpToRel(<, Nat))
  BY NatLessThanWellFounded, WFMin
<1>2. \A m \in S : ~(m < n)
  BY <1>1 DEF OpToRel
<1>3. \A m \in S : n <= m
  BY <1>2
<1> QED
  BY <1>1, <1>3 DEF Min

(* A function that is looked up at places further and further on.          *)
Chases(g, n, next, value) ==
  /\ DOMAIN g = 0 .. n
  /\ \A i \in 0 .. n : g[i] = IF next[i] \in i + 1 .. n THEN g[next[i]] ELSE value[i]

(* A function that is defined by where it goes on, always further on,      *)
(* exists.                                                                 *)
LEMMA Chase ==
  ASSUME NEW n \in Nat, NEW next, NEW value
  PROVE  \E g : Chases(g, n, next, value)
<1> DEFINE Def(g, i) == IF next[i] \in i + 1 .. n THEN g[next[i]] ELSE value[i]
           Is(g, m) == DOMAIN g = 0 .. n /\ \A i \in 0 .. n : n - i < m => g[i] = Def(g, i)
           T == {m \in Nat : m <= n + 1 => \E g : Is(g, m)}
<1>1. 0 \in T
  <2>1. Is([i \in 0 .. n |-> 0], 0)
    OBVIOUS
  <2> QED
    BY <2>1
<1>2. ASSUME NEW m \in Nat, m \in T
      PROVE  m + 1 \in T
  <2> SUFFICES ASSUME m + 1 <= n + 1
               PROVE  \E g : Is(g, m + 1)
    OBVIOUS
  <2>1. PICK g : Is(g, m)
    BY <1>2
  <2>2. n - m \in 0 .. n
    OBVIOUS
  <2> DEFINE h == [i \in 0 .. n |-> IF i = n - m THEN Def(g, i) ELSE g[i]]
  <2>3. ASSUME NEW i \in 0 .. n, n - i < m + 1
        PROVE  h[i] = Def(h, i)
    <3>1. next[i] \in i + 1 .. n => next[i] \in 0 .. n /\ next[i] # n - m
      BY <2>3
    <3>2. next[i] \in i + 1 .. n => h[next[i]] = g[next[i]]
      BY <3>1
    <3>3. Def(h, i) = Def(g, i)
      BY <3>2
    <3>4. i # n - m => n - i < m
      BY <2>3
    <3>5. i # n - m => g[i] = Def(g, i)
      BY <2>1, <3>4
    <3> HIDE DEF Def
    <3> QED
      BY <3>3, <3>5
  <2>4. Is(h, m + 1)
    BY <2>3
  <2> QED
    BY <2>4
<1>3. n + 1 \in T
  <2> HIDE DEF T
  <2> QED
    BY <1>1, <1>2, Induction
<1>4. PICK g : Is(g, n + 1)
  BY <1>3
<1>5. \A i \in 0 .. n : n - i < n + 1
  OBVIOUS
<1> QED
  BY <1>4, <1>5 DEF Chases

(* After stops at the first symbol that is not of C.                       *)
LEMMA AfterPlace ==
  ASSUME NEW S, NEW s \in Seq(S), NEW i \in 1 .. Len(s) + 1, NEW C
  PROVE  /\ After(s, i, C) \in i .. Len(s) + 1
         /\ \A k \in i .. After(s, i, C) - 1 : s[k] \in C
         /\ After(s, i, C) <= Len(s) => s[After(s, i, C)] \notin C
<1> DEFINE P == {k \in i .. Len(s) + 1 : k > Len(s) \/ s[k] \notin C}
<1>1. P \subseteq Nat /\ Len(s) + 1 \in P
  OBVIOUS
<1>2. Min(P) \in P /\ \A x \in P : Min(P) <= x
  <2> HIDE DEF P
  <2> QED
    BY <1>1, MinOf
<1>3. After(s, i, C) = Min(P)
  BY DEF After
<1>4. ASSUME NEW k \in i .. Min(P) - 1
      PROVE  s[k] \in C
  <2>1. Min(P) \in i .. Len(s) + 1
    BY <1>2
  <2>2. k \in i .. Len(s) + 1 /\ ~(Min(P) <= k) /\ ~(k > Len(s))
    BY <2>1
  <2>3. k \notin P
    BY <1>2, <2>2
  <2> QED
    BY <2>2, <2>3
<1> QED
  BY <1>2, <1>3, <1>4

(* What After returns for what is known of the symbols.                    *)
LEMMA AfterIs ==
  ASSUME NEW S, NEW s \in Seq(S), NEW i \in 1 .. Len(s) + 1, NEW C, NEW j \in i .. Len(s) + 1,
         \A k \in i .. j - 1 : s[k] \in C,
         j <= Len(s) => s[j] \notin C
  PROVE  After(s, i, C) = j
<1> DEFINE a == After(s, i, C)
<1>1. /\ a \in i .. Len(s) + 1
      /\ \A k \in i .. a - 1 : s[k] \in C
      /\ a <= Len(s) => s[a] \notin C
  BY AfterPlace
<1> HIDE DEF a
<1>2. ~(a < j)
  <2> SUFFICES ASSUME a < j PROVE FALSE
    OBVIOUS
  <2>1. a \in i .. j - 1 /\ a <= Len(s)
    BY <1>1
  <2> QED
    BY <1>1, <2>1
<1>3. ~(j < a)
  <2> SUFFICES ASSUME j < a PROVE FALSE
    OBVIOUS
  <2>1. j \in i .. a - 1 /\ j <= Len(s)
    BY <1>1
  <2> QED
    BY <1>1, <2>1
<1>4. a = j
  BY <1>1, <1>2, <1>3
<1> QED
  BY <1>4 DEF a

(* A prefix of a text agrees with it.                                      *)
Prefix(t, s) == Len(t) <= Len(s) /\ \A k \in 1 .. Len(t) : t[k] = s[k]

(* A run of symbols that ends inside a prefix ends there in the text.      *)
LEMMA PrefixAfter ==
  ASSUME NEW S, NEW s \in Seq(S), NEW t \in Seq(S), Prefix(t, s),
         NEW i \in 1 .. Len(t) + 1, NEW C, After(t, i, C) <= Len(t)
  PROVE  After(s, i, C) = After(t, i, C)
<1> DEFINE a == After(t, i, C)
<1>1. /\ a \in i .. Len(t) + 1
      /\ \A k \in i .. a - 1 : t[k] \in C
      /\ a <= Len(t) => t[a] \notin C
  BY AfterPlace
<1>2. Len(t) \in Nat /\ Len(s) \in Nat /\ Len(t) <= Len(s) /\ a <= Len(t)
  BY DEF Prefix
<1> HIDE DEF a
<1>3. a \in i .. Len(s) + 1 /\ i \in 1 .. Len(s) + 1
  BY <1>1, <1>2
<1>4. \A k \in i .. a - 1 : s[k] \in C
  <2> TAKE k \in i .. a - 1
  <2>1. k \in 1 .. Len(t)
    BY <1>1, <1>2
  <2> QED
    BY <1>1, <2>1 DEF Prefix
<1>5. s[a] \notin C
  <2>1. a \in 1 .. Len(t)
    BY <1>1, <1>2
  <2> QED
    BY <1>1, <1>2, <2>1 DEF Prefix
<1>6. After(s, i, C) = a
  BY <1>3, <1>4, <1>5, AfterIs
<1> QED
  BY <1>6 DEF a

(* Where a string ends.                                                    *)

(* The punctuation marks differ, and none is the end of the text.          *)
LEMMA Apart ==
  /\ QUOTE # "\\" /\ LBRACE # RBRACE /\ RBRACE # "]"
  /\ END \notin {QUOTE, LBRACE, RBRACE, COMMA, "[", "]", ":", "-", ".", "e", "null", "true", "false"}
  /\ QUOTE \notin {LBRACE, "[", "-", "null", "true", "false"}
  /\ LBRACE \notin {"[", "-", "null", "true", "false"}
  BY DEF QUOTE, LBRACE, RBRACE, COMMA, END

EndStep(s, end, i) ==
  IF i > Len(s) THEN INCOMPLETE
  ELSE IF s[i] \in Control THEN INVALID
  ELSE IF i = Len(s) THEN INCOMPLETE
  ELSE IF s[i] = QUOTE THEN i
  ELSE IF s[i] # "\\" THEN end[i + 1]
  ELSE IF EscapeLen(s, i) > 0 THEN end[i + 1 + EscapeLen(s, i)] ELSE EscapeLen(s, i)

(* An escape has one or five symbols, all in the text, or is refused.      *)
LEMMA EscapeLenType ==
  ASSUME NEW S, NEW s \in Seq(S), NEW i \in 1 .. Len(s) - 1
  PROVE  \/ EscapeLen(s, i) \in {INCOMPLETE, INVALID}
         \/ EscapeLen(s, i) \in {1, 5} /\ i + 1 + EscapeLen(s, i) \in i + 2 .. Len(s) + 1
<1>1. s[i + 1] # "u" => EscapeLen(s, i) \in {1, INVALID}
  BY DEF EscapeLen
<1>2. s[i + 1] = "u" =>
        EscapeLen(s, i) = IF Len(s) + 1 - i < 6 THEN INCOMPLETE
                          ELSE IF \A k \in i + 2 .. i + 5 : s[k] \in HexDigit THEN 5 ELSE INVALID
  BY DEF EscapeLen
<1>3. i \in Nat /\ Len(s) \in Nat
  OBVIOUS
<1> HIDE DEF EscapeLen
<1> QED
  BY <1>1, <1>2, <1>3

(* One step of the search for the end of a string.                         *)
LEMMA StringEndUnfolds ==
  ASSUME NEW S, NEW s \in Seq(S)
  PROVE  \A i \in 1 .. Len(s) + 1 : StringEnd(s)[i] = EndStep(s, StringEnd(s), i)
<1> DEFINE n == Len(s) + 1
           Is(g) == g = [i \in 1 .. n |-> EndStep(s, g, i)]
           Goes(i) == i < Len(s) /\ s[i] \notin Control /\ s[i] # QUOTE
                        /\ (s[i] = "\\" => EscapeLen(s, i) > 0)
           next == [i \in 0 .. n |-> IF ~Goes(i) THEN 0
                                     ELSE IF s[i] = "\\" THEN i + 1 + EscapeLen(s, i) ELSE i + 1]
           value == [i \in 0 .. n |-> EndStep(s, <<>>, i)]
<1>1. n \in Nat /\ Len(s) \in Nat
  OBVIOUS
<1>2. PICK g : Chases(g, n, next, value)
  <2> HIDE DEF next, value, n
  <2> QED
    BY <1>1, Chase
<1>3. ASSUME NEW i \in 1 .. n
      PROVE  g[i] = EndStep(s, g, i)
  <2>1. g[i] = IF next[i] \in i + 1 .. n THEN g[next[i]] ELSE value[i]
    <3> HIDE DEF next, value, n
    <3> QED
      BY <1>2, <1>1 DEF Chases
  <2>a. i \in 0 .. n /\ ~(0 \in i + 1 .. n)
    BY <1>1
  <2>b. next[i] = IF ~Goes(i) THEN 0 ELSE IF s[i] = "\\" THEN i + 1 + EscapeLen(s, i) ELSE i + 1
    <3> HIDE DEF n, Goes
    <3> QED
      BY <2>a
  <2>c. value[i] = EndStep(s, <<>>, i)
    <3> HIDE DEF n, EndStep
    <3> QED
      BY <2>a
  <2> HIDE DEF next, value
  <2>2. CASE ~Goes(i)
    <3>1. next[i] = 0
      BY <2>2, <2>b
    <3>2. g[i] = EndStep(s, <<>>, i)
      BY <2>1, <2>a, <2>c, <3>1
    <3>3. EndStep(s, <<>>, i) = EndStep(s, g, i)
      BY <1>1, <2>2 DEF EndStep
    <3> QED
      BY <3>2, <3>3
  <2>3. CASE Goes(i) /\ s[i] = "\\"
    <3>1. i \in 1 .. Len(s) - 1
      BY <2>3
    <3>2. next[i] = i + 1 + EscapeLen(s, i)
      BY <2>3, <2>b
    <3>3. next[i] \in i + 1 .. n
      <4>1. EscapeLen(s, i) > 0
        BY <2>3
      <4> QED
        BY <3>1, <3>2, <4>1, EscapeLenType DEF INVALID, INCOMPLETE
    <3>4. EndStep(s, g, i) = g[next[i]]
      BY <2>3, <3>1, <3>2 DEF EndStep
    <3> QED
      BY <2>1, <3>3, <3>4
  <2>4. CASE Goes(i) /\ s[i] # "\\"
    <3>1. next[i] = i + 1 /\ i + 1 \in i + 1 .. n
      BY <1>1, <2>4, <2>b
    <3>2. EndStep(s, g, i) = g[i + 1]
      BY <1>1, <2>4 DEF EndStep
    <3> QED
      BY <2>1, <3>1, <3>2
  <2> QED
    BY <2>2, <2>3, <2>4
<1>4. Is([i \in 1 .. n |-> g[i]])
  <2> DEFINE h == [i \in 1 .. n |-> g[i]]
  <2>1. ASSUME NEW i \in 1 .. n
        PROVE  h[i] = EndStep(s, h, i)
    <3>1. EndStep(s, h, i) = EndStep(s, g, i)
      <4>1. CASE ~Goes(i)
        BY <1>1, <4>1 DEF EndStep
      <4>2. CASE Goes(i) /\ s[i] = "\\"
        <5>1. i \in 1 .. Len(s) - 1
          BY <4>2
        <5>2. i + 1 + EscapeLen(s, i) \in 1 .. n
          BY <5>1, <4>2, EscapeLenType DEF INVALID, INCOMPLETE
        <5>3. h[i + 1 + EscapeLen(s, i)] = g[i + 1 + EscapeLen(s, i)]
          BY <5>2
        <5> QED
          BY <4>2, <5>3 DEF EndStep
      <4>3. CASE Goes(i) /\ s[i] # "\\"
        <5>1. i + 1 \in 1 .. n
          BY <4>3, <1>1
        <5>2. h[i + 1] = g[i + 1]
          BY <5>1
        <5> QED
          BY <4>3, <5>2 DEF EndStep
      <4> QED
        BY <4>1, <4>2, <4>3
    <3> QED
      BY <1>3, <3>1
  <2> HIDE DEF n
  <2>2. h = [i \in 1 .. n |-> EndStep(s, h, i)]
    BY <2>1
  <2> QED
    BY <2>2
<1>5. StringEnd(s) = CHOOSE g_ : Is(g_)
  BY DEF StringEnd, EndStep
<1>6. Is(StringEnd(s))
  <2> HIDE DEF Is
  <2> QED
    BY <1>4, <1>5
<1>7. \A i \in 1 .. n : StringEnd(s)[i] = EndStep(s, StringEnd(s), i)
  <2> HIDE DEF n
  <2> QED
    BY <1>6
<1> QED
  BY <1>7 DEF n

(* A string ends before the last symbol, or is refused.                    *)
LEMMA StringEndType ==
  ASSUME NEW S, NEW s \in Seq(S)
  PROVE  \A i \in 1 .. Len(s) + 1 :
           StringEnd(s)[i] \in {INVALID, INCOMPLETE} \cup (i .. Len(s) - 1)
<1> DEFINE n == Len(s) + 1
           T == {i \in 0 .. n : i > 0 =>
                   StringEnd(s)[i] \in {INVALID, INCOMPLETE} \cup (i .. Len(s) - 1)}
<1>1. n \in Nat /\ Len(s) \in Nat
  OBVIOUS
<1>2. ASSUME NEW i \in 0 .. n, \A j \in 0 .. n : i < j => j \in T
      PROVE  i \in T
  <2> SUFFICES ASSUME i > 0
               PROVE  StringEnd(s)[i] \in {INVALID, INCOMPLETE} \cup (i .. Len(s) - 1)
    OBVIOUS
  <2>1. StringEnd(s)[i] = EndStep(s, StringEnd(s), i)
    BY StringEndUnfolds
  <2>2. ASSUME NEW j \in i + 1 .. n
        PROVE  StringEnd(s)[j] \in {INVALID, INCOMPLETE} \cup (i .. Len(s) - 1)
    BY <1>2, <2>2
  <2>3. \/ EndStep(s, StringEnd(s), i) \in {INVALID, INCOMPLETE}
        \/ i < Len(s) /\ EndStep(s, StringEnd(s), i) = i
        \/ i < Len(s) /\ EndStep(s, StringEnd(s), i) = StringEnd(s)[i + 1]
        \/ i < Len(s) /\ EndStep(s, StringEnd(s), i) = EscapeLen(s, i) /\ ~(EscapeLen(s, i) > 0)
        \/ /\ i < Len(s) /\ EscapeLen(s, i) > 0
           /\ EndStep(s, StringEnd(s), i) = StringEnd(s)[i + 1 + EscapeLen(s, i)]
    BY <1>1 DEF EndStep
  <2>4. i < Len(s) => i \in 1 .. Len(s) - 1 /\ i + 1 \in i + 1 .. n
    OBVIOUS
  <2>5. i < Len(s) /\ EscapeLen(s, i) > 0 => i + 1 + EscapeLen(s, i) \in i + 1 .. n
    BY <2>4, EscapeLenType DEF INVALID, INCOMPLETE
  <2>6. i < Len(s) /\ ~(EscapeLen(s, i) > 0) => EscapeLen(s, i) \in {INVALID, INCOMPLETE}
    BY <2>4, EscapeLenType
  <2> QED
    BY <2>1, <2>2, <2>3, <2>4, <2>5, <2>6
<1>3. \A i \in 0 .. n : i \in T
  <2> HIDE DEF T, n
  <2> QED
    BY <1>1, <1>2, DownInduction
<1> QED
  BY <1>3

(* A string that ends in a prefix of a text ends there in the text.        *)
LEMMA PrefixStringEnd ==
  ASSUME NEW S, NEW s \in Seq(S), NEW t \in Seq(S), Prefix(t, s)
  PROVE  \A i \in 1 .. Len(t) + 1 : StringEnd(t)[i] > 0 => StringEnd(s)[i] = StringEnd(t)[i]
<1> DEFINE n == Len(t) + 1
           T == {i \in 0 .. n : i > 0 /\ StringEnd(t)[i] > 0 => StringEnd(s)[i] = StringEnd(t)[i]}
<1>1. n \in Nat /\ Len(t) \in Nat /\ Len(s) \in Nat /\ Len(t) <= Len(s)
  BY DEF Prefix
<1>2. ASSUME NEW i \in 0 .. n, \A j \in 0 .. n : i < j => j \in T
      PROVE  i \in T
  <2> SUFFICES ASSUME i > 0, StringEnd(t)[i] > 0
               PROVE  StringEnd(s)[i] = StringEnd(t)[i]
    OBVIOUS
  <2>1. StringEnd(t)[i] = EndStep(t, StringEnd(t), i)
    BY StringEndUnfolds
  <2>2. i \in 1 .. Len(s) + 1
    BY <1>1
  <2>3. StringEnd(s)[i] = EndStep(s, StringEnd(s), i)
    BY <2>2, StringEndUnfolds
  <2>4. i < Len(t) /\ t[i] \notin Control
    BY <1>1, <2>1 DEF EndStep, INVALID, INCOMPLETE
  <2>5. i < Len(s) /\ s[i] = t[i] /\ i \in 1 .. Len(t) - 1 /\ i \in 1 .. Len(s) - 1
    BY <1>1, <2>4 DEF Prefix
  <2>6. ASSUME NEW j \in i + 1 .. n, StringEnd(t)[j] > 0
        PROVE  StringEnd(s)[j] = StringEnd(t)[j]
    BY <1>2, <2>6
  <2>7. CASE t[i] = QUOTE
    BY <1>1, <2>1, <2>3, <2>4, <2>5, <2>7 DEF EndStep
  <2>8. CASE t[i] = "\\"
    <3>1. StringEnd(t)[i] = IF EscapeLen(t, i) > 0 THEN StringEnd(t)[i + 1 + EscapeLen(t, i)]
                            ELSE EscapeLen(t, i)
      BY <2>1, <2>4, <2>8, Apart DEF EndStep
    <3>2. EscapeLen(t, i) > 0
      BY <3>1
    <3>3. EscapeLen(t, i) \in {1, 5} /\ i + 1 + EscapeLen(t, i) \in i + 2 .. Len(t) + 1
      <4>1. i \in 1 .. Len(t) - 1
        BY <2>5
      <4>2. \/ EscapeLen(t, i) \in {INCOMPLETE, INVALID}
            \/ EscapeLen(t, i) \in {1, 5} /\ i + 1 + EscapeLen(t, i) \in i + 2 .. Len(t) + 1
        BY <4>1, EscapeLenType
      <4>3. EscapeLen(t, i) \notin {INCOMPLETE, INVALID}
        BY <3>2 DEF INVALID, INCOMPLETE
      <4> QED
        BY <4>2, <4>3
    <3>4. EscapeLen(s, i) = EscapeLen(t, i)
      <4>1. i + 1 \in 1 .. Len(t) /\ s[i + 1] = t[i + 1]
        BY <2>5 DEF Prefix
      <4>2. CASE t[i + 1] = "u"
        <5>1. EscapeLen(t, i) = IF Len(t) + 1 - i < 6 THEN INCOMPLETE
                                ELSE IF \A k \in i + 2 .. i + 5 : t[k] \in HexDigit THEN 5 ELSE INVALID
          BY <4>2 DEF EscapeLen
        <5>2. EscapeLen(s, i) = IF Len(s) + 1 - i < 6 THEN INCOMPLETE
                                ELSE IF \A k \in i + 2 .. i + 5 : s[k] \in HexDigit THEN 5 ELSE INVALID
          BY <4>1, <4>2 DEF EscapeLen
        <5>3. ~(Len(t) + 1 - i < 6) /\ ~(Len(s) + 1 - i < 6)
          BY <1>1, <3>2, <5>1 DEF INCOMPLETE
        <5>4. \A k \in i + 2 .. i + 5 : s[k] = t[k]
          <6>1. \A k \in i + 2 .. i + 5 : k \in 1 .. Len(t)
            BY <5>3
          <6> QED
            BY <6>1 DEF Prefix
        <5> QED
          BY <5>1, <5>2, <5>3, <5>4
      <4>3. CASE t[i + 1] # "u"
        BY <4>1, <4>3 DEF EscapeLen
      <4> QED
        BY <4>2, <4>3
    <3>5. StringEnd(s)[i] = StringEnd(s)[i + 1 + EscapeLen(t, i)]
      BY <2>3, <2>4, <2>5, <2>8, <3>2, <3>4, Apart DEF EndStep
    <3>6. i + 1 + EscapeLen(t, i) \in i + 1 .. n
      BY <3>3
    <3> QED
      BY <2>6, <3>1, <3>2, <3>5, <3>6
  <2>9. CASE t[i] \notin {QUOTE, "\\"}
    <3>1. StringEnd(t)[i] = StringEnd(t)[i + 1]
      BY <1>1, <2>1, <2>4, <2>9 DEF EndStep
    <3>2. StringEnd(s)[i] = StringEnd(s)[i + 1]
      BY <1>1, <2>3, <2>4, <2>5, <2>9 DEF EndStep
    <3>3. i + 1 \in i + 1 .. n
      BY <2>4
    <3> QED
      BY <2>6, <3>1, <3>2, <3>3
  <2> QED
    BY <2>7, <2>8, <2>9
<1>3. \A i \in 0 .. n : i \in T
  <2> HIDE DEF T, n
  <2> QED
    BY <1>1, <1>2, DownInduction
<1> QED
  BY <1>3

-----------------------------------------------------------------------------
(* The parser's state, and what the parts of a value leave of it.          *)

Types == {"string", "number", "object", "array", "eof"} \cup Word
Token == [type : Types, ptr : Nat, len : Int, num_desc : Int]

(* What a parser of the text s can be.                                     *)
Parser(s) ==
  [s : {s}, cur : 1 .. Len(s) + 1, tokens : Seq(Token), code : {0, INVALID, INCOMPLETE},
   open : Seq(Nat)]

Codes == {INVALID, INCOMPLETE}

(* Where the text has not ended there is a symbol.                         *)
LEMMA AtType ==
  ASSUME NEW S, NEW s \in Seq(S), NEW i \in 1 .. Len(s) + 1, At(s, i) # END
  PROVE  i \in 1 .. Len(s) /\ At(s, i) = s[i]
  BY DEF At

(* Skipping white space moves on to what is ahead.                         *)
LEMMA SkipType ==
  ASSUME NEW S, NEW s \in Seq(S), NEW f \in Parser(s)
  PROVE  /\ Skip(f) = [f EXCEPT !.cur = Skip(f).cur]
         /\ Skip(f) \in Parser(s)
         /\ Skip(f).cur \in f.cur .. Len(s) + 1
         /\ Cur(f) # END => Skip(f).cur \in 1 .. Len(s) /\ Cur(f) = s[Skip(f).cur]
<1> DEFINE k == After(s, f.cur, Space)
<1>1. f.s = s /\ f.cur \in 1 .. Len(s) + 1
  BY DEF Parser
<1>2. k \in f.cur .. Len(s) + 1
  BY <1>1, AfterPlace
<1>3. Skip(f) = [f EXCEPT !.cur = k]
  BY <1>1 DEF Skip
<1> HIDE DEF k
<1>4. k \in 1 .. Len(s) + 1
  BY <1>1, <1>2
<1>5. Skip(f).cur = k /\ Skip(f) \in Parser(s)
  BY <1>1, <1>3, <1>4 DEF Parser
<1>6. Cur(f) = At(s, k)
  BY <1>1, <1>5 DEF Cur
<1>7. Cur(f) # END => k \in 1 .. Len(s) /\ Cur(f) = s[k]
  BY <1>6, <1>4, AtType
<1> QED
  BY <1>2, <1>3, <1>5, <1>7

(* To refuse is to fail, for one of two reasons.                           *)
LEMMA RefusalType ==
  ASSUME NEW S, NEW s \in Seq(S), NEW f \in Parser(s)
  PROVE  Refusal(f) \in Parser(s) /\ Refusal(f).code \in Codes /\ Refusal(f).open = f.open
  BY DEF Refusal, Failed, Parser, Codes

(* A parser that failed has the reason as its code.                        *)
LEMMA FailedType ==
  ASSUME NEW s, NEW f \in Parser(s), NEW code \in Codes
  PROVE  Failed(f, code) \in Parser(s) /\ Failed(f, code).code = code /\ Failed(f, code).open = f.open
  BY DEF Failed, Parser, Codes

(* No reason to fail is 0, the code of success.                            *)
LEMMA CodesNotZero == 0 \notin Codes /\ \A p \in Codes : p \in Int /\ p < 0
  BY DEF Codes, INVALID, INCOMPLETE

(* A symbol that is required is taken, or the parser fails.                *)
LEMMA TestAndSkipType ==
  ASSUME NEW S, NEW s \in Seq(S), NEW f \in Parser(s), NEW x, x # END
  PROVE  /\ TestAndSkip(f, x) \in Parser(s)
         /\ TestAndSkip(f, x).open = f.open
         /\ f.code # 0 => TestAndSkip(f, x) = f
         /\ TestAndSkip(f, x).code = 0 =>
              /\ f.code = 0 /\ Cur(f) = x
              /\ TestAndSkip(f, x) = [f EXCEPT !.cur = Skip(f).cur + 1]
              /\ TestAndSkip(f, x).cur = Skip(f).cur + 1
              /\ Skip(f).cur \in f.cur .. Len(s) /\ s[Skip(f).cur] = x
<1>1. CASE f.code # 0
  BY <1>1 DEF TestAndSkip
<1>2. CASE f.code = 0 /\ Cur(f) = x
  <2>1. Skip(f).cur \in f.cur .. Len(s) + 1 /\ Skip(f).cur \in 1 .. Len(s) /\ s[Skip(f).cur] = x
    BY <1>2, SkipType
  <2>2. TestAndSkip(f, x) = [f EXCEPT !.cur = Skip(f).cur + 1]
    BY <1>2 DEF TestAndSkip
  <2>3. Skip(f).cur + 1 \in 1 .. Len(s) + 1 /\ Skip(f).cur \in f.cur .. Len(s)
    BY <2>1
  <2>4. /\ [f EXCEPT !.cur = Skip(f).cur + 1] \in Parser(s)
        /\ [f EXCEPT !.cur = Skip(f).cur + 1].cur = Skip(f).cur + 1
        /\ [f EXCEPT !.cur = Skip(f).cur + 1].open = f.open
    BY <2>3 DEF Parser
  <2> QED
    BY <1>2, <2>1, <2>2, <2>3, <2>4
<1>3. CASE f.code = 0 /\ Cur(f) # x
  <2>1. TestAndSkip(f, x) = Refusal(f)
    BY <1>3 DEF TestAndSkip
  <2> QED
    BY <1>3, <2>1, RefusalType, CodesNotZero
<1> QED
  BY <1>1, <1>2, <1>3

(* A token without descendants.                                            *)
Plain(type, ptr, len) == [type |-> type, ptr |-> ptr, len |-> len, num_desc |-> 0]

(* A token without descendants is added where the parser is.               *)
LEMMA LeafIs ==
  ASSUME NEW s, NEW f \in Parser(s), NEW p \in Nat, NEW type
  PROVE  Leaf(f, p, type) =
           [f EXCEPT !.tokens = Append(f.tokens, Plain(type, f.cur, p - f.cur)), !.cur = p]
  BY DEF Leaf, Plain

(* It is added, or the parser fails with the code that was handed over.    *)
LEMMA LeafType ==
  ASSUME NEW S, NEW s \in Seq(S), NEW f \in Parser(s), NEW type \in Types,
         NEW p \in Codes \cup (f.cur .. Len(s) + 1)
  PROVE  /\ Leaf(f, p, type) \in Parser(s)
         /\ Leaf(f, p, type).open = f.open
         /\ p \in Codes => Leaf(f, p, type).code = p
         /\ p \notin Codes =>
              /\ Leaf(f, p, type).code = f.code /\ Leaf(f, p, type).cur = p
              /\ Leaf(f, p, type).tokens = Append(f.tokens, Plain(type, f.cur, p - f.cur))
              /\ Plain(type, f.cur, p - f.cur) \in Token
<1>1. CASE p \in Codes
  <2>1. Leaf(f, p, type) = Failed(f, p)
    BY <1>1, CodesNotZero DEF Leaf
  <2> QED
    BY <1>1, <2>1, FailedType
<1>2. CASE p \notin Codes
  <2>1. p \in f.cur .. Len(s) + 1 /\ f.cur \in 1 .. Len(s) + 1 /\ f.tokens \in Seq(Token)
    BY <1>2 DEF Parser
  <2>2. p \in 1 .. Len(s) + 1 /\ p \in Nat
    BY <2>1
  <2>3. Plain(type, f.cur, p - f.cur) \in Token
    BY <2>1, <2>2 DEF Plain, Token
  <2>4. Append(f.tokens, Plain(type, f.cur, p - f.cur)) \in Seq(Token)
    BY <2>1, <2>3
  <2>5. Leaf(f, p, type) =
           [f EXCEPT !.tokens = Append(f.tokens, Plain(type, f.cur, p - f.cur)), !.cur = p]
    BY <2>2, LeafIs
  <2> QED
    BY <1>2, <2>2, <2>3, <2>4, <2>5 DEF Parser
<1> QED
  BY <1>1, <1>2

(* A name takes one symbol at least.                                       *)
LEMMA ParseIdentifierType ==
  ASSUME NEW S, NEW s \in Seq(S), NEW f \in Parser(s), At(s, f.cur) \in Alpha
  PROVE  LET a == After(s, f.cur, Alpha \cup Digit \cup {"_"})
         IN  /\ a \in f.cur + 1 .. Len(s) + 1
             /\ ParseIdentifier(f) = Leaf(f, a, "string")
<1> DEFINE C == Alpha \cup Digit \cup {"_"}
           a == After(s, f.cur, C)
<1>1. f.cur \in 1 .. Len(s) + 1 /\ f.s = s
  BY DEF Parser
<1>2. a \in f.cur .. Len(s) + 1 /\ (a <= Len(s) => s[a] \notin C)
  BY <1>1, AfterPlace
<1>3. END \notin Alpha
  BY SymbolAssumption, Apart DEF Other, Alpha, Word
<1>4. At(s, f.cur) # END
  BY <1>3
<1>5. f.cur \in 1 .. Len(s) /\ s[f.cur] \in C
  BY <1>1, <1>4, AtType
<1>6. ParseIdentifier(f) = Leaf(f, a, "string")
  BY <1>1 DEF ParseIdentifier
<1> HIDE DEF a, C
<1>7. a # f.cur
  BY <1>2, <1>5
<1>8. a \in f.cur + 1 .. Len(s) + 1
  BY <1>1, <1>2, <1>7
<1> QED
  BY <1>6, <1>8 DEF a, C

(* A string is taken from its first quote to its last, or the parser       *)
(* fails.                                                                  *)
LEMMA ParseStringType ==
  ASSUME NEW S, NEW s \in Seq(S), NEW f \in Parser(s)
  PROVE  LET begun == TestAndSkip(f, QUOTE)
             end == StringEnd(s)[begun.cur]
             g == ParseString(f)
         IN  /\ g \in Parser(s) /\ g.open = f.open
             /\ begun.code # 0 \/ end \in Codes => g.code # 0
             /\ begun.code = 0 /\ end \notin Codes =>
                  /\ end \in begun.cur .. Len(s) - 1
                  /\ g.cur = end + 1 /\ g.code = 0
                  /\ g = [f EXCEPT !.tokens = Append(f.tokens, Plain("string", begun.cur, end - begun.cur)),
                                   !.cur = end + 1]
                  /\ g.tokens = Append(f.tokens, Plain("string", begun.cur, end - begun.cur))
                  /\ Plain("string", begun.cur, end - begun.cur) \in Token
<1> DEFINE begun == TestAndSkip(f, QUOTE)
           end == StringEnd(s)[begun.cur]
           g == ParseString(f)
<1>1. QUOTE # END
  BY Apart
<1>2. f.s = s
  BY DEF Parser
<1>3. /\ begun \in Parser(s) /\ begun.open = f.open
      /\ begun.code = 0 => f.code = 0 /\ begun = [f EXCEPT !.cur = Skip(f).cur + 1]
  BY <1>1, TestAndSkipType
<1>4. begun.cur \in 1 .. Len(s) + 1
  BY <1>3 DEF Parser
<1>5. end \in Codes \cup (begun.cur .. Len(s) - 1)
  BY <1>4, StringEndType DEF Codes
<1>6. g = IF begun.code # 0 THEN begun
          ELSE IF end < 0 THEN Failed(begun, end)
          ELSE [Leaf(begun, end, "string") EXCEPT !.cur = end + 1]
  BY <1>2 DEF ParseString
<1> HIDE DEF begun, end, g
<1> DEFINE Plainly ==
             /\ end \in begun.cur .. Len(s) - 1
             /\ g.cur = end + 1 /\ g.code = 0
             /\ g = [f EXCEPT !.tokens = Append(f.tokens, Plain("string", begun.cur, end - begun.cur)),
                              !.cur = end + 1]
             /\ g.tokens = Append(f.tokens, Plain("string", begun.cur, end - begun.cur))
             /\ Plain("string", begun.cur, end - begun.cur) \in Token
<1>7. begun.code # 0 => g \in Parser(s) /\ g.open = f.open /\ g.code # 0
  BY <1>3, <1>6
<1>8. begun.code = 0 /\ end \in Codes => g \in Parser(s) /\ g.open = f.open /\ g.code # 0
  BY <1>3, <1>6, FailedType, CodesNotZero
<1>9. ASSUME begun.code = 0, end \notin Codes
      PROVE  g \in Parser(s) /\ g.open = f.open /\ Plainly
  <2>1. end \in begun.cur .. Len(s) - 1 /\ end \in Nat /\ end + 1 \in 1 .. Len(s) + 1
    BY <1>4, <1>5, <1>9
  <2>2. "string" \in Types /\ end \in Codes \cup (begun.cur .. Len(s) + 1)
    BY <1>4, <2>1 DEF Types
  <2>3. /\ Leaf(begun, end, "string") \in Parser(s)
        /\ Leaf(begun, end, "string").code = begun.code
        /\ Leaf(begun, end, "string").open = begun.open
        /\ Leaf(begun, end, "string").tokens = Append(begun.tokens, Plain("string", begun.cur, end - begun.cur))
        /\ Plain("string", begun.cur, end - begun.cur) \in Token
    BY <1>3, <1>9, <2>2, LeafType
  <2>4. g = [Leaf(begun, end, "string") EXCEPT !.cur = end + 1]
    BY <1>6, <1>9, <2>1
  <2>5. Leaf(begun, end, "string") =
         [begun EXCEPT !.tokens = Append(begun.tokens, Plain("string", begun.cur, end - begun.cur)), !.cur = end]
    BY <1>3, <2>1, LeafIs
  <2>6. begun.tokens = f.tokens
    BY <1>3, <1>9 DEF Parser
  <2>7. g \in Parser(s) /\ g.code = 0 /\ g.cur = end + 1 /\ g.open = f.open
        /\ g.tokens = Append(f.tokens, Plain("string", begun.cur, end - begun.cur))
    BY <1>3, <1>9, <2>1, <2>3, <2>4, <2>6 DEF Parser
  <2>8. g = [f EXCEPT !.tokens = Append(f.tokens, Plain("string", begun.cur, end - begun.cur)),
                      !.cur = end + 1]
    BY <1>3, <1>9, <2>4, <2>5, <2>6 DEF Parser
  <2> QED
    BY <1>9, <2>1, <2>3, <2>7, <2>8
<1>10. /\ g \in Parser(s) /\ g.open = f.open
       /\ begun.code # 0 \/ end \in Codes => g.code # 0
  BY <1>7, <1>8, <1>9
<1>11. begun.code = 0 /\ end \notin Codes => Plainly
  BY <1>9
<1> QED
  BY <1>10, <1>11 DEF begun, end, g

-----------------------------------------------------------------------------
(* Numbers, in a text and in a prefix of it.                               *)

(* At most one symbol is passed.                                           *)
LEMMA PastType ==
  ASSUME NEW S, NEW s \in Seq(S), NEW i \in 1 .. Len(s) + 1, NEW C, END \notin C
  PROVE  Past(s, i, C) \in i .. i + 1 /\ Past(s, i, C) \in 1 .. Len(s) + 1
<1>1. CASE At(s, i) \in C
  <2>1. i \in 1 .. Len(s)
    BY <1>1, AtType
  <2> QED
    BY <1>1, <2>1 DEF Past
<1>2. CASE At(s, i) \notin C
  BY <1>2 DEF Past
<1> QED
  BY <1>1, <1>2

(* The end of the text is no part of a number.                             *)
LEMMA EndApart == END \notin Digit /\ END \notin {"-"} /\ END \notin {"+", "-"} /\ END # "." /\ END # "e"
  BY SymbolAssumption, Apart DEF Other, END

(* Digits are one at least, or the number is refused.                      *)
LEMMA DigitsType ==
  ASSUME NEW S, NEW s \in Seq(S), NEW i \in 1 .. Len(s) + 1
  PROVE  Digits(s, i) \in Codes \cup (i + 1 .. Len(s) + 1)
<1>1. CASE At(s, i) \in Digit
  <2>1. i \in 1 .. Len(s) /\ s[i] \in Digit
    BY <1>1, EndApart, AtType
  <2>2. Digits(s, i) = After(s, i, Digit)
    BY <1>1, <2>1 DEF Digits
  <2>3. After(s, i, Digit) \in i .. Len(s) + 1 /\ After(s, i, Digit) # i
    BY <2>1, AfterPlace
  <2> QED
    BY <2>1, <2>2, <2>3
<1>2. CASE At(s, i) \notin Digit
  BY <1>2 DEF Digits, Codes
<1> QED
  BY <1>1, <1>2

(* A fraction goes on from the digits before it.                           *)
LEMMA FractionType ==
  ASSUME NEW S, NEW s \in Seq(S), NEW i \in Codes \cup (1 .. Len(s) + 1)
  PROVE  /\ Fraction(s, i) \in Codes \cup (1 .. Len(s) + 1)
         /\ i \in Codes => Fraction(s, i) = i
         /\ i \notin Codes /\ Fraction(s, i) \notin Codes => Fraction(s, i) >= i
<1>1. CASE i \in Codes
  BY <1>1, CodesNotZero DEF Fraction
<1>2. CASE i \notin Codes /\ At(s, i) = "."
  <2>1. i \in 1 .. Len(s)
    BY <1>2, EndApart, AtType
  <2>2. Fraction(s, i) = Digits(s, i + 1) /\ i + 1 \in 1 .. Len(s) + 1
    BY <1>2, <2>1 DEF Fraction
  <2>3. Digits(s, i + 1) \in Codes \cup ((i + 1) + 1 .. Len(s) + 1)
    BY <2>2, DigitsType
  <2> QED
    BY <1>2, <2>1, <2>2, <2>3
<1>3. CASE i \notin Codes /\ At(s, i) # "."
  BY <1>3 DEF Fraction
<1> QED
  BY <1>1, <1>2, <1>3

(* An exponent goes on from what is before it.                             *)
LEMMA ExponentType ==
  ASSUME NEW S, NEW s \in Seq(S), NEW i \in Codes \cup (1 .. Len(s) + 1)
  PROVE  /\ Exponent(s, i) \in Codes \cup (1 .. Len(s) + 1)
         /\ i \in Codes => Exponent(s, i) = i
         /\ i \notin Codes /\ Exponent(s, i) \notin Codes => Exponent(s, i) >= i
<1>1. CASE i \in Codes
  BY <1>1, CodesNotZero DEF Exponent
<1>2. CASE i \notin Codes /\ At(s, i) = "e"
  <2> DEFINE p == Past(s, i + 1, {"+", "-"})
  <2>1. i \in 1 .. Len(s)
    BY <1>2, EndApart, AtType
  <2>2. p \in i + 1 .. i + 2 /\ p \in 1 .. Len(s) + 1
    BY <2>1, EndApart, PastType
  <2>3. Exponent(s, i) = Digits(s, p)
    BY <1>2, <2>1 DEF Exponent
  <2> HIDE DEF p
  <2>4. Digits(s, p) \in Codes \cup (p + 1 .. Len(s) + 1)
    BY <2>2, DigitsType
  <2> QED
    BY <1>2, <2>1, <2>2, <2>3, <2>4
<1>3. CASE i \notin Codes /\ At(s, i) # "e"
  BY <1>3 DEF Exponent
<1> QED
  BY <1>1, <1>2, <1>3

(* A number takes one symbol at least, or is refused.                      *)
LEMMA NumberEndType ==
  ASSUME NEW S, NEW s \in Seq(S), NEW i \in 1 .. Len(s) + 1
  PROVE  NumberEnd(s, i) \in Codes \cup (i + 1 .. Len(s) + 1)
<1> DEFINE p == Past(s, i, {"-"})
           d == Digits(s, p)
           r == Fraction(s, d)
<1>1. p \in i .. i + 1 /\ p \in 1 .. Len(s) + 1
  BY EndApart, PastType
<1>2. NumberEnd(s, i) = Exponent(s, r)
  BY DEF NumberEnd
<1> HIDE DEF p
<1>3. d \in Codes \cup (p + 1 .. Len(s) + 1)
  BY <1>1, DigitsType
<1> HIDE DEF d
<1>4. d \in Codes \cup (1 .. Len(s) + 1)
  BY <1>1, <1>3
<1>5. /\ r \in Codes \cup (1 .. Len(s) + 1)
      /\ d \in Codes => r = d
      /\ d \notin Codes /\ r \notin Codes => r >= d
  BY <1>4, FractionType
<1> HIDE DEF r
<1>6. /\ Exponent(s, r) \in Codes \cup (1 .. Len(s) + 1)
      /\ r \in Codes => Exponent(s, r) = r
      /\ r \notin Codes /\ Exponent(s, r) \notin Codes => Exponent(s, r) >= r
  BY <1>5, ExponentType
<1> QED
  BY <1>1, <1>2, <1>3, <1>5, <1>6, CodesNotZero

(* A number that ends in a prefix of a text, and not with it, ends there   *)
(* in the text.                                                            *)
LEMMA PrefixAt ==
  ASSUME NEW S, NEW s \in Seq(S), NEW t \in Seq(S), Prefix(t, s), NEW i \in 1 .. Len(t)
  PROVE  At(s, i) = At(t, i) /\ i \in 1 .. Len(s)
  BY DEF Prefix, At

(* Digits that end inside a prefix end there in the text.                  *)
LEMMA PrefixDigits ==
  ASSUME NEW S, NEW s \in Seq(S), NEW t \in Seq(S), Prefix(t, s),
         NEW i \in 1 .. Len(t) + 1, Digits(t, i) \in 1 .. Len(t)
  PROVE  Digits(s, i) = Digits(t, i)
<1>1. At(t, i) \in Digit
  BY CodesNotZero DEF Digits, Codes
<1>2. i \in 1 .. Len(t)
  BY <1>1, EndApart, AtType
<1>3. At(s, i) \in Digit
  BY <1>1, <1>2, PrefixAt
<1>4. Digits(t, i) = After(t, i, Digit) /\ Digits(s, i) = After(s, i, Digit)
  BY <1>1, <1>2, <1>3 DEF Digits
<1>5. After(t, i, Digit) <= Len(t)
  BY <1>4
<1>6. After(s, i, Digit) = After(t, i, Digit)
  BY <1>5, PrefixAfter
<1> QED
  BY <1>4, <1>6

(* A number that ends inside a prefix ends there in the text.              *)
LEMMA PrefixNumberEnd ==
  ASSUME NEW S, NEW s \in Seq(S), NEW t \in Seq(S), Prefix(t, s),
         NEW i \in 1 .. Len(t) + 1, NumberEnd(t, i) \in 1 .. Len(t)
  PROVE  NumberEnd(s, i) = NumberEnd(t, i)
<1> DEFINE p == Past(t, i, {"-"})
           d == Digits(t, p)
           r == Fraction(t, d)
           e == Exponent(t, r)
<1>1. Len(t) \in Nat /\ Len(s) \in Nat /\ Len(t) <= Len(s)
  BY DEF Prefix
<1>2. p \in i .. i + 1 /\ p \in 1 .. Len(t) + 1
  BY EndApart, PastType
<1>3. e \in 1 .. Len(t)
  BY DEF NumberEnd
<1>4. d \in Codes \cup (p + 1 .. Len(t) + 1)
  <2> HIDE DEF p
  <2> QED
    BY <1>2, DigitsType
<1>5. d \in Codes \cup (1 .. Len(t) + 1)
  <2> HIDE DEF p, d
  <2> QED
    BY <1>2, <1>4
<1>6. /\ r \in Codes \cup (1 .. Len(t) + 1)
      /\ d \in Codes => r = d
      /\ d \notin Codes /\ r \notin Codes => r >= d
  <2> HIDE DEF d
  <2> QED
    BY <1>5, FractionType
<1>7. /\ r \in Codes => e = r
      /\ r \notin Codes /\ e \notin Codes => e >= r
  <2> HIDE DEF r
  <2> QED
    BY <1>6, ExponentType
<1>8. d \in p + 1 .. Len(t) /\ r \in 1 .. Len(t) /\ d \in 1 .. Len(t) /\ i \in 1 .. Len(t)
  <2> HIDE DEF p, d, r, e
  <2> QED
    BY <1>1, <1>2, <1>3, <1>4, <1>6, <1>7, CodesNotZero
<1>9. Past(s, i, {"-"}) = p
  BY <1>8, PrefixAt DEF Past
<1>10. Digits(s, p) = d
  <2> HIDE DEF p
  <2> QED
    BY <1>2, <1>8, PrefixDigits
<1>11. Fraction(s, d) = r
  <2>1. At(s, d) = At(t, d)
    BY <1>8, PrefixAt
  <2>2. CASE At(t, d) = "."
    <3>1. r = Digits(t, d + 1) /\ Fraction(s, d) = Digits(s, d + 1)
      BY <1>8, <2>1, <2>2 DEF Fraction
    <3>2. d + 1 \in 1 .. Len(t) + 1
      BY <1>8
    <3> HIDE DEF d, r
    <3> QED
      BY <1>8, <3>1, <3>2, PrefixDigits
  <2>3. CASE At(t, d) # "."
    BY <2>1, <2>3 DEF Fraction
  <2> QED
    BY <2>2, <2>3
<1>12. Exponent(s, r) = e
  <2>1. At(s, r) = At(t, r)
    BY <1>8, PrefixAt
  <2>2. CASE At(t, r) = "e"
    <3> DEFINE q == Past(t, r + 1, {"+", "-"})
    <3>1. e = Digits(t, q) /\ Exponent(s, r) = Digits(s, Past(s, r + 1, {"+", "-"}))
      BY <1>8, <2>1, <2>2 DEF Exponent
    <3>2. r + 1 \in 1 .. Len(t) + 1
      BY <1>8
    <3>3. q \in r + 1 .. (r + 1) + 1 /\ q \in 1 .. Len(t) + 1
      <4> HIDE DEF r
      <4> QED
        BY <3>2, EndApart, PastType
    <3>4. Digits(t, q) \in Codes \cup (q + 1 .. Len(t) + 1)
      <4> HIDE DEF q
      <4> QED
        BY <3>3, DigitsType
    <3>5. r + 1 \in 1 .. Len(t)
      <4> HIDE DEF q, r, e
      <4> QED
        BY <1>1, <1>3, <1>8, <3>1, <3>3, <3>4, CodesNotZero
    <3>6. Past(s, r + 1, {"+", "-"}) = q
      BY <3>5, PrefixAt DEF Past
    <3>7. Digits(s, q) = Digits(t, q)
      <4> HIDE DEF q, e
      <4> QED
        BY <1>3, <3>1, <3>3, PrefixDigits
    <3> QED
      BY <3>1, <3>6, <3>7
  <2>3. CASE At(t, r) # "e"
    BY <2>1, <2>3 DEF Exponent
  <2> QED
    BY <2>2, <2>3
<1>13. NumberEnd(s, i) = e
  <2> HIDE DEF p, d, r, e
  <2> QED
    BY <1>9, <1>10, <1>11, <1>12 DEF NumberEnd
<1> QED
  BY <1>13 DEF NumberEnd

-----------------------------------------------------------------------------
(* What a turn does: at most one token more, or one token closed.          *)

(* How one value, or a key and a value, go on from f.                      *)
Nested == {"object", "array"}
IsLeaf(f, g, tok) == g.open = f.open /\ tok.type \notin Nested \cup {"eof"} /\ tok.len >= 0
IsBegun(f, g, n, tok) == g.open = Append(f.open, n) /\ tok.type \in Nested

GrowsBy(f, g, n, tok) ==
  /\ tok \in Token /\ tok.num_desc = 0
  /\ tok.ptr >= f.cur /\ tok.ptr < g.cur
  /\ (IsLeaf(f, g, tok) /\ tok.ptr + tok.len <= g.cur) \/ IsBegun(f, g, n, tok)

ValueShape(f, g) ==
  /\ g.cur > f.cur
  /\ \E tok \in Token : g.tokens = Append(f.tokens, tok) /\ GrowsBy(f, g, Len(f.tokens) + 1, tok)

KeyShape(f, g) ==
  /\ g.cur > f.cur /\ g.open = f.open
  /\ \E tok \in Token :
       /\ g.tokens = Append(f.tokens, tok) /\ tok.type = "string" /\ tok.len >= 0
       /\ tok.num_desc = 0 /\ tok.ptr >= f.cur /\ tok.ptr < g.cur /\ tok.ptr + tok.len <= g.cur

PairShape(f, g) ==
  /\ g.cur > f.cur
  /\ \E h \in Parser(f.s) : KeyShape(f, h) /\ ValueShape(h, g)

NumberAhead(f, ch) ==
  ch \in Digit \/ (ch = "-" /\ Left(f) > 1 /\ f.s[f.cur + 1] \in Digit)

(* What a value is parsed as, by its first symbol.                         *)
LEMMA ValueAtIs ==
  ASSUME NEW f, NEW ch
  PROVE  /\ ch = QUOTE => ValueAt(f, ch) = ParseString(f)
         /\ ch = LBRACE => ValueAt(f, ch) = ParseObject(f)
         /\ ch = "[" => ValueAt(f, ch) = ParseArray(f)
         /\ ch \in Word /\ Left(f) > 1 => ValueAt(f, ch) = Leaf(f, f.cur + 1, ch)
         /\ NumberAhead(f, ch) => ValueAt(f, ch) = ParseNumber(f)
         /\ ch \notin {QUOTE, LBRACE, "["} /\ ~(ch \in Word /\ Left(f) > 1) /\ ~NumberAhead(f, ch)
              => ValueAt(f, ch) = Refusal(f)
<1>1. /\ QUOTE # LBRACE /\ QUOTE # "[" /\ LBRACE # "["
      /\ "-" \notin {QUOTE, LBRACE, "["} \cup Word
      /\ Word \cap {QUOTE, LBRACE, "["} = {}
  BY DEF QUOTE, LBRACE, Word
<1>2. Digit \cap ({QUOTE, LBRACE, "["} \cup Word) = {}
  BY SymbolAssumption DEF Other
<1>3. NumberAhead(f, ch) => ch \in Digit \cup {"-"}
  BY DEF NumberAhead
<1>4. ValueAt(f, ch) =
        CASE ch = QUOTE -> ParseString(f)
          [] ch = LBRACE -> ParseObject(f)
          [] ch = "[" -> ParseArray(f)
          [] ch \in Word /\ Left(f) > 1 -> Leaf(f, f.cur + 1, ch)
          [] NumberAhead(f, ch) -> ParseNumber(f)
          [] OTHER -> Refusal(f)
  BY DEF ValueAt, NumberAhead
<1> QED
  BY <1>1, <1>2, <1>3, <1>4, Zenon

(* A token without descendants is a value.                                 *)
LEMMA LeafShape ==
  ASSUME NEW S, NEW s \in Seq(S), NEW f \in Parser(s), NEW type \in Types \ (Nested \cup {"eof"}),
         NEW p \in Codes \cup (f.cur + 1 .. Len(s) + 1)
  PROVE  /\ Leaf(f, p, type) \in Parser(s)
         /\ Leaf(f, p, type).code = 0 => ValueShape(f, Leaf(f, p, type))
<1>1. f.cur \in 1 .. Len(s) + 1 /\ f.tokens \in Seq(Token)
  BY DEF Parser
<1>2. p \in Codes \cup (f.cur .. Len(s) + 1)
  BY <1>1
<1>3. /\ Leaf(f, p, type) \in Parser(s)
      /\ Leaf(f, p, type).open = f.open
      /\ p \in Codes => Leaf(f, p, type).code = p
      /\ p \notin Codes =>
           /\ Leaf(f, p, type).code = f.code /\ Leaf(f, p, type).cur = p
           /\ Leaf(f, p, type).tokens = Append(f.tokens, Plain(type, f.cur, p - f.cur))
           /\ Plain(type, f.cur, p - f.cur) \in Token
  BY <1>2, LeafType
<1>4. ASSUME Leaf(f, p, type).code = 0
      PROVE  ValueShape(f, Leaf(f, p, type))
  <2> DEFINE g == Leaf(f, p, type)
             tok == Plain(type, f.cur, p - f.cur)
  <2>1. p \notin Codes
    BY <1>3, <1>4, CodesNotZero
  <2>2. p \in f.cur + 1 .. Len(s) + 1
    BY <2>1
  <2>3. g.cur = p /\ g.tokens = Append(f.tokens, tok) /\ tok \in Token /\ g.open = f.open
    BY <1>3, <2>1
  <2>4. tok.type = type /\ tok.ptr = f.cur /\ tok.len = p - f.cur /\ tok.num_desc = 0
    BY DEF Plain
  <2> HIDE DEF g, tok
  <2>5. GrowsBy(f, g, Len(f.tokens) + 1, tok) /\ g.cur > f.cur
    BY <1>1, <2>2, <2>3, <2>4 DEF GrowsBy, IsLeaf
  <2>6. ValueShape(f, g)
    BY <2>3, <2>5 DEF ValueShape
  <2> QED
    BY <2>6 DEF g
<1> QED
  BY <1>3, <1>4

(* A string is a value, and may be a key.                                  *)
LEMMA StringShape ==
  ASSUME NEW S, NEW s \in Seq(S), NEW f \in Parser(s)
  PROVE  /\ ParseString(f) \in Parser(s)
         /\ ParseString(f).code = 0 => ValueShape(f, ParseString(f)) /\ KeyShape(f, ParseString(f))
<1> DEFINE begun == TestAndSkip(f, QUOTE)
           end == StringEnd(s)[begun.cur]
           g == ParseString(f)
           tok == Plain("string", begun.cur, end - begun.cur)
<1>1. /\ g \in Parser(s) /\ g.open = f.open
      /\ begun.code # 0 \/ end \in Codes => g.code # 0
      /\ begun.code = 0 /\ end \notin Codes =>
           /\ end \in begun.cur .. Len(s) - 1
           /\ g.cur = end + 1
           /\ g.tokens = Append(f.tokens, tok)
           /\ tok \in Token
  BY ParseStringType
<1>2. begun.code = 0 => begun.cur = Skip(f).cur + 1 /\ Skip(f).cur \in f.cur .. Len(s)
  BY TestAndSkipType, Apart
<1>3. f.cur \in 1 .. Len(s) + 1
  BY DEF Parser
<1>4. tok.type = "string" /\ tok.ptr = begun.cur /\ tok.len = end - begun.cur /\ tok.num_desc = 0
  BY DEF Plain
<1>5. "string" \notin Nested \cup {"eof"}
  BY DEF Nested
<1>6. ASSUME g.code = 0
      PROVE  ValueShape(f, g) /\ KeyShape(f, g)
  <2> HIDE DEF begun, end, g, tok
  <2>1. begun.code = 0 /\ end \notin Codes
    BY <1>1, <1>6
  <2>2. begun.cur \in f.cur + 1 .. Len(s) + 1 /\ end \in begun.cur .. Len(s) - 1 /\ g.cur = end + 1
    BY <1>1, <1>2, <1>3, <2>1
  <2>3. g.tokens = Append(f.tokens, tok) /\ tok \in Token /\ g.open = f.open
    BY <1>1, <2>1
  <2>4. GrowsBy(f, g, Len(f.tokens) + 1, tok) /\ g.cur > f.cur
    BY <1>3, <1>4, <1>5, <2>2, <2>3 DEF GrowsBy, IsLeaf
  <2>5. ValueShape(f, g)
    BY <2>3, <2>4 DEF ValueShape
  <2>6. KeyShape(f, g)
    <3>1. tok.ptr >= f.cur /\ tok.ptr < g.cur /\ tok.ptr + tok.len <= g.cur /\ tok.len >= 0
      BY <1>3, <1>4, <2>2
    <3> QED
      BY <1>4, <2>3, <2>4, <3>1 DEF KeyShape
  <2> QED
    BY <2>5, <2>6
<1> QED
  BY <1>1, <1>6

(* An object or array that begins is a value, still open.                  *)
LEMMA OpenedShape ==
  ASSUME NEW S, NEW s \in Seq(S), NEW f \in Parser(s), NEW x, x # END, NEW type \in Nested
  PROVE  /\ Opened(f, x, type) \in Parser(s)
         /\ Opened(f, x, type).code = 0 => ValueShape(f, Opened(f, x, type))
<1> DEFINE begun == TestAndSkip(f, x)
           tok == [type |-> type, ptr |-> begun.cur - 1, len |-> 0, num_desc |-> 0]
           g == Opened(f, x, type)
<1>1. /\ begun \in Parser(s) /\ begun.open = f.open
      /\ begun.code = 0 => begun = [f EXCEPT !.cur = Skip(f).cur + 1]
      /\ begun.code = 0 => f.code = 0
      /\ begun.code = 0 => begun.cur = Skip(f).cur + 1 /\ Skip(f).cur \in f.cur .. Len(s)
  BY TestAndSkipType
<1>2. f.cur \in 1 .. Len(s) + 1 /\ f.tokens \in Seq(Token) /\ f.open \in Seq(Nat)
  BY DEF Parser
<1>3. g = IF begun.code # 0 THEN begun
          ELSE [begun EXCEPT !.tokens = Append(begun.tokens, tok),
                             !.open = Append(begun.open, Len(f.tokens) + 1)]
  BY DEF Opened, CapturePtr
<1>4. type \in Types
  BY DEF Nested, Types
<1> HIDE DEF begun, g
<1>5. CASE begun.code = 0
  <2>1. begun.cur \in f.cur + 1 .. Len(s) + 1
    BY <1>1, <1>2, <1>5
  <2>2. tok \in Token /\ tok.num_desc = 0 /\ tok.type = type /\ tok.ptr = begun.cur - 1
    BY <1>2, <1>4, <2>1 DEF Token
  <2> HIDE DEF tok
  <2>3. begun.tokens = f.tokens
    BY <1>1, <1>5 DEF Parser
  <2>4. Append(f.tokens, tok) \in Seq(Token) /\ Append(f.open, Len(f.tokens) + 1) \in Seq(Nat)
    BY <1>2, <2>2
  <2>5. /\ g \in Parser(s) /\ g.cur = begun.cur /\ g.tokens = Append(f.tokens, tok)
        /\ g.open = Append(f.open, Len(f.tokens) + 1)
    BY <1>1, <1>3, <1>5, <2>3, <2>4 DEF Parser
  <2>6. GrowsBy(f, g, Len(f.tokens) + 1, tok) /\ g.cur > f.cur
    BY <1>2, <2>1, <2>2, <2>5 DEF GrowsBy, IsBegun
  <2>7. ValueShape(f, g)
    BY <2>2, <2>5, <2>6 DEF ValueShape
  <2> QED
    BY <2>5, <2>7 DEF g
<1>6. CASE begun.code # 0
  BY <1>1, <1>3, <1>6 DEF g
<1> QED
  BY <1>5, <1>6

(* What is true of a shape stays true when the parser goes further on.     *)
LEMMA LaterShape ==
  ASSUME NEW f, f.cur \in Nat, NEW g, g.cur \in Nat, NEW h, h.cur \in Nat,
         h.cur >= g.cur, h.tokens = g.tokens, h.open = g.open
  PROVE  /\ ValueShape(f, g) => ValueShape(f, h)
         /\ KeyShape(f, g) => KeyShape(f, h)
         /\ PairShape(f, g) => PairShape(f, h)
<1>1. ASSUME NEW e, e.cur \in Nat, ValueShape(e, g)
      PROVE  ValueShape(e, h)
  <2>1. PICK tok \in Token : g.tokens = Append(e.tokens, tok) /\ GrowsBy(e, g, Len(e.tokens) + 1, tok)
    BY <1>1 DEF ValueShape
  <2>2. tok.ptr \in Nat /\ tok.len \in Int
    BY DEF Token
  <2>3. GrowsBy(e, h, Len(e.tokens) + 1, tok)
    BY <1>1, <2>1, <2>2 DEF GrowsBy, IsLeaf, IsBegun
  <2>4. h.cur > e.cur
    BY <1>1 DEF ValueShape
  <2> QED
    BY <2>1, <2>3, <2>4 DEF ValueShape
<1>2. ASSUME KeyShape(f, g)
      PROVE  KeyShape(f, h)
  <2>1. PICK tok \in Token :
          /\ g.tokens = Append(f.tokens, tok) /\ tok.type = "string" /\ tok.len >= 0
          /\ tok.num_desc = 0 /\ tok.ptr >= f.cur /\ tok.ptr < g.cur /\ tok.ptr + tok.len <= g.cur
    BY <1>2 DEF KeyShape
  <2>2. tok.ptr \in Nat /\ tok.len \in Int
    BY DEF Token
  <2>3. tok.ptr < h.cur /\ tok.ptr + tok.len <= h.cur /\ h.cur > f.cur
    BY <1>2, <2>1, <2>2 DEF KeyShape
  <2> QED
    BY <1>2, <2>1, <2>3 DEF KeyShape
<1>3. ASSUME PairShape(f, g)
      PROVE  PairShape(f, h)
  <2>1. PICK k \in Parser(f.s) : KeyShape(f, k) /\ ValueShape(k, g)
    BY <1>3 DEF PairShape
  <2>2. k.cur \in Nat
    BY DEF Parser
  <2>3. ValueShape(k, h)
    BY <1>1, <2>1, <2>2
  <2>4. h.cur > f.cur
    BY <1>3 DEF PairShape
  <2> QED
    BY <2>1, <2>3, <2>4 DEF PairShape
<1> QED
  BY <1>1, <1>2, <1>3

(* ... and when it had not yet come so far.                                *)
LEMMA EarlierShape ==
  ASSUME NEW f, f.cur \in Nat, NEW g, g.cur \in Nat, NEW h, h.cur \in Nat,
         f.cur <= g.cur, f.tokens = g.tokens, f.open = g.open
  PROVE  /\ ValueShape(g, h) => ValueShape(f, h)
         /\ KeyShape(g, h) => KeyShape(f, h)
<1>1. ASSUME ValueShape(g, h)
      PROVE  ValueShape(f, h)
  <2>1. PICK tok \in Token : h.tokens = Append(g.tokens, tok) /\ GrowsBy(g, h, Len(g.tokens) + 1, tok)
    BY <1>1 DEF ValueShape
  <2>2. tok.ptr \in Nat /\ tok.len \in Int
    BY DEF Token
  <2>3. GrowsBy(f, h, Len(f.tokens) + 1, tok)
    BY <2>1, <2>2 DEF GrowsBy, IsLeaf, IsBegun
  <2>4. h.cur > f.cur
    BY <1>1 DEF ValueShape
  <2> QED
    BY <2>1, <2>3, <2>4 DEF ValueShape
<1>2. ASSUME KeyShape(g, h)
      PROVE  KeyShape(f, h)
  <2>1. PICK tok \in Token :
          /\ h.tokens = Append(g.tokens, tok) /\ tok.type = "string" /\ tok.len >= 0
          /\ tok.num_desc = 0 /\ tok.ptr >= g.cur /\ tok.ptr < h.cur /\ tok.ptr + tok.len <= h.cur
    BY <1>2 DEF KeyShape
  <2>2. tok.ptr \in Nat
    BY DEF Token
  <2>3. tok.ptr >= f.cur /\ h.cur > f.cur /\ h.open = f.open
    BY <1>2, <2>1, <2>2 DEF KeyShape
  <2> QED
    BY <2>1, <2>3 DEF KeyShape
<1> QED
  BY <1>1, <1>2

(* What is parsed at a symbol is a value, or the parser fails.             *)
LEMMA ValueAtShape ==
  ASSUME NEW S, NEW s \in Seq(S), NEW f \in Parser(s), NEW ch
  PROVE  /\ ValueAt(f, ch) \in Parser(s)
         /\ ValueAt(f, ch).code = 0 => ValueShape(f, ValueAt(f, ch))
<1>1. f.s = s /\ f.cur \in 1 .. Len(s) + 1
  BY DEF Parser
<1>2. CASE ch = QUOTE
  BY <1>2, ValueAtIs, StringShape
<1>3. CASE ch = LBRACE
  <2>1. ValueAt(f, ch) = Opened(f, LBRACE, "object")
    BY <1>3, ValueAtIs DEF ParseObject
  <2>2. "object" \in Nested /\ LBRACE # END
    BY Apart DEF Nested
  <2> QED
    BY <2>1, <2>2, OpenedShape
<1>4. CASE ch = "["
  <2>1. ValueAt(f, ch) = Opened(f, "[", "array")
    BY <1>4, ValueAtIs DEF ParseArray
  <2>2. "array" \in Nested /\ "[" # END
    BY Apart DEF Nested
  <2> QED
    BY <2>1, <2>2, OpenedShape
<1>5. CASE ch \in Word /\ Left(f) > 1
  <2>1. ValueAt(f, ch) = Leaf(f, f.cur + 1, ch)
    BY <1>5, ValueAtIs
  <2>2. f.cur + 1 \in Codes \cup (f.cur + 1 .. Len(s) + 1)
    BY <1>1, <1>5 DEF Left
  <2>3. ch \in Types \ (Nested \cup {"eof"})
    BY <1>5 DEF Types, Word, Nested
  <2> QED
    BY <2>1, <2>2, <2>3, LeafShape
<1>6. CASE NumberAhead(f, ch)
  <2>1. ValueAt(f, ch) = Leaf(f, NumberEnd(s, f.cur), "number")
    BY <1>1, <1>6, ValueAtIs DEF ParseNumber
  <2>2. NumberEnd(s, f.cur) \in Codes \cup (f.cur + 1 .. Len(s) + 1)
    BY <1>1, NumberEndType
  <2>3. "number" \in Types \ (Nested \cup {"eof"})
    BY DEF Types, Nested
  <2> QED
    BY <2>1, <2>2, <2>3, LeafShape
<1>7. CASE ch \notin {QUOTE, LBRACE, "["} /\ ~(ch \in Word /\ Left(f) > 1) /\ ~NumberAhead(f, ch)
  <2>1. ValueAt(f, ch) = Refusal(f)
    BY <1>7, ValueAtIs
  <2> QED
    BY <2>1, RefusalType, CodesNotZero
<1> QED
  BY <1>2, <1>3, <1>4, <1>5, <1>6, <1>7

(* A value that is parsed adds one token.                                  *)
LEMMA ParseValueShape ==
  ASSUME NEW S, NEW s \in Seq(S), NEW f \in Parser(s)
  PROVE  /\ ParseValue(f) \in Parser(s)
         /\ ParseValue(f).code = 0 => f.code = 0 /\ ValueShape(f, ParseValue(f))
<1>1. CASE f.code # 0
  BY <1>1 DEF ParseValue
<1>2. CASE f.code = 0
  <2> DEFINE g == Skip(f)
  <2>1. ParseValue(f) = ValueAt(g, Cur(f))
    BY <1>2 DEF ParseValue
  <2>2. /\ g \in Parser(s) /\ g.cur \in f.cur .. Len(s) + 1
        /\ g = [f EXCEPT !.cur = g.cur]
    BY SkipType
  <2>3. /\ f.cur \in Nat /\ g.cur \in Nat /\ f.cur <= g.cur
        /\ g.tokens = f.tokens /\ g.open = f.open
    BY <2>2 DEF Parser
  <2> HIDE DEF g
  <2>4. /\ ParseValue(f) \in Parser(s)
        /\ ParseValue(f).code = 0 => ValueShape(g, ParseValue(f))
    BY <2>1, <2>2, ValueAtShape
  <2>5. ParseValue(f).cur \in Nat
    BY <2>4 DEF Parser
  <2> QED
    BY <1>2, <2>3, <2>4, <2>5, EarlierShape
<1> QED
  BY <1>1, <1>2

(* What a key is parsed as, by its first symbol.                           *)
LEMMA ParseKeyIs ==
  ASSUME NEW f
  PROVE  /\ Cur(f) \in Alpha => ParseKey(f) = ParseIdentifier(Skip(f))
         /\ Cur(f) = QUOTE => ParseKey(f) = ParseString(f)
         /\ Cur(f) \notin Alpha \cup {QUOTE} => ParseKey(f) = Refusal(f)
<1>1. QUOTE \notin Alpha
  BY SymbolAssumption, Apart DEF Alpha, Other, Word
<1> QED
  BY <1>1, Zenon DEF ParseKey

(* A string token without descendants is a key.                            *)
LEMMA KeyShapeOfLeaf ==
  ASSUME NEW S, NEW s \in Seq(S), NEW f \in Parser(s), NEW p \in f.cur + 1 .. Len(s) + 1
  PROVE  KeyShape(f, Leaf(f, p, "string"))
<1> DEFINE g == Leaf(f, p, "string")
           tok == Plain("string", f.cur, p - f.cur)
<1>1. f.cur \in 1 .. Len(s) + 1
  BY DEF Parser
<1>2. p \in Nat /\ p \in Codes \cup (f.cur .. Len(s) + 1) /\ p \notin Codes /\ "string" \in Types
  BY <1>1, CodesNotZero DEF Types
<1>3. g.cur = p /\ g.tokens = Append(f.tokens, tok) /\ g.open = f.open /\ tok \in Token
  BY <1>2, LeafType
<1>4. tok.type = "string" /\ tok.ptr = f.cur /\ tok.len = p - f.cur /\ tok.num_desc = 0
  BY DEF Plain
<1> HIDE DEF g, tok
<1>5. KeyShape(f, g)
  BY <1>1, <1>2, <1>3, <1>4 DEF KeyShape
<1> QED
  BY <1>5 DEF g

(* A key that is parsed adds one string token.                             *)
LEMMA ParseKeyShape ==
  ASSUME NEW S, NEW s \in Seq(S), NEW f \in Parser(s)
  PROVE  /\ ParseKey(f) \in Parser(s)
         /\ ParseKey(f).code = 0 => KeyShape(f, ParseKey(f))
<1>1. CASE Cur(f) \in Alpha
  <2> DEFINE g == Skip(f)
             a == After(s, g.cur, Alpha \cup Digit \cup {"_"})
  <2>1. /\ g \in Parser(s) /\ g.cur \in f.cur .. Len(s) + 1
        /\ g = [f EXCEPT !.cur = g.cur]
    BY SkipType
  <2>2. /\ f.cur \in Nat /\ g.cur \in Nat /\ f.cur <= g.cur /\ f.s = s
        /\ g.tokens = f.tokens /\ g.open = f.open
    BY <2>1 DEF Parser
  <2>3. At(s, g.cur) \in Alpha
    BY <1>1, <2>2 DEF Cur
  <2> HIDE DEF g
  <2>4. a \in g.cur + 1 .. Len(s) + 1 /\ ParseIdentifier(g) = Leaf(g, a, "string")
    BY <2>1, <2>3, ParseIdentifierType
  <2> HIDE DEF a
  <2>5. "string" \in Types \ (Nested \cup {"eof"}) /\ a \in Codes \cup (g.cur + 1 .. Len(s) + 1)
    BY <2>4 DEF Types, Nested
  <2>6. ParseIdentifier(g) \in Parser(s) /\ KeyShape(g, ParseIdentifier(g))
    BY <2>1, <2>4, <2>5, LeafShape, KeyShapeOfLeaf
  <2>7. ParseIdentifier(g).cur \in Nat
    BY <2>6 DEF Parser
  <2>8. ParseKey(f) = ParseIdentifier(g)
    BY <1>1, ParseKeyIs DEF g
  <2> QED
    BY <2>2, <2>6, <2>7, <2>8, EarlierShape
<1>2. CASE Cur(f) = QUOTE
  BY <1>2, ParseKeyIs, StringShape
<1>3. CASE Cur(f) \notin Alpha \cup {QUOTE}
  BY <1>3, ParseKeyIs, RefusalType, CodesNotZero
<1> QED
  BY <1>1, <1>2, <1>3

(* A pair that is parsed adds a key and its value.                         *)
LEMMA ParsePairShape ==
  ASSUME NEW S, NEW s \in Seq(S), NEW f \in Parser(s)
  PROVE  /\ ParsePair(f) \in Parser(s)
         /\ ParsePair(f).code = 0 => PairShape(f, ParsePair(f))
<1> DEFINE key == ParseKey(f)
           h == TestAndSkip(key, ":")
           g == ParseValue(h)
<1>1. ":" # END
  BY Apart
<1>2. key \in Parser(s) /\ (key.code = 0 => KeyShape(f, key))
  BY ParseKeyShape
<1>3. /\ h \in Parser(s) /\ h.open = key.open
      /\ h.code = 0 => /\ key.code = 0
                       /\ h = [key EXCEPT !.cur = Skip(key).cur + 1]
                       /\ h.cur = Skip(key).cur + 1 /\ Skip(key).cur \in key.cur .. Len(s)
  <2> HIDE DEF key
  <2> QED
    BY <1>1, <1>2, TestAndSkipType
<1>4. g \in Parser(s) /\ (g.code = 0 => h.code = 0 /\ ValueShape(h, g))
  <2> HIDE DEF h
  <2> QED
    BY <1>3, ParseValueShape
<1>5. ParsePair(f) = g
  BY DEF ParsePair
<1> HIDE DEF key, h, g
<1>6. ASSUME g.code = 0
      PROVE  PairShape(f, g)
  <2>1. f.s = s /\ f.cur \in Nat /\ key.cur \in Nat /\ h.cur \in Nat /\ g.cur \in Nat
    BY <1>2, <1>3, <1>4 DEF Parser
  <2>2. h.cur >= key.cur /\ h.tokens = key.tokens /\ h.open = key.open
    <3>1. /\ h.code = 0 /\ h.open = key.open /\ h = [key EXCEPT !.cur = Skip(key).cur + 1]
          /\ h.cur = Skip(key).cur + 1 /\ Skip(key).cur \in key.cur .. Len(s)
      BY <1>3, <1>4, <1>6
    <3>2. h.cur >= key.cur
      BY <2>1, <3>1
    <3>3. h.tokens = key.tokens
      BY <1>2, <3>1 DEF Parser
    <3> QED
      BY <3>1, <3>2, <3>3
  <2>3. KeyShape(f, h)
    BY <1>2, <1>3, <1>4, <1>6, <2>1, <2>2, LaterShape
  <2>4. ValueShape(h, g)
    BY <1>4, <1>6
  <2>5. g.cur > f.cur
    BY <2>1, <2>3, <2>4 DEF KeyShape, ValueShape
  <2> QED
    BY <1>3, <2>1, <2>3, <2>4, <2>5 DEF PairShape
<1> QED
  BY <1>4, <1>5, <1>6

(* A comma is passed if there is one, and nothing else changes.            *)
LEMMA CommaType ==
  ASSUME NEW S, NEW s \in Seq(S), NEW f \in Parser(s)
  PROVE  /\ Comma(f) \in Parser(s) /\ Comma(f).cur >= f.cur /\ Comma(f).code = f.code
         /\ Comma(f).tokens = f.tokens /\ Comma(f).open = f.open
<1>1. CASE f.code = 0 /\ f.open # <<>> /\ Cur(f) = COMMA
  <2>1. Cur(f) # END
    BY <1>1, Apart
  <2>2. Skip(f).cur \in 1 .. Len(s) /\ Skip(f).cur \in f.cur .. Len(s) + 1
    BY <2>1, SkipType
  <2>3. Comma(f) = [f EXCEPT !.cur = Skip(f).cur + 1]
    BY <1>1 DEF Comma
  <2> DEFINE k == Skip(f).cur + 1
  <2>4. f.cur \in 1 .. Len(s) + 1 /\ k \in 1 .. Len(s) + 1 /\ k >= f.cur
    BY <2>2 DEF Parser
  <2>5. Comma(f) = [f EXCEPT !.cur = k]
    BY <2>3
  <2> HIDE DEF k
  <2> QED
    BY <2>4, <2>5 DEF Parser
<1>2. CASE ~(f.code = 0 /\ f.open # <<>> /\ Cur(f) = COMMA)
  <2>1. Comma(f) = f
    BY <1>2 DEF Comma
  <2> QED
    BY <2>1 DEF Parser
<1> QED
  BY <1>1, <1>2

(* What is innermost is closed at p.                                       *)
ClosedAt(f, i, p) == [f.tokens[i] EXCEPT !.len = p - f.tokens[i].ptr, !.num_desc = Len(f.tokens) - i]
ClosedShape(f, g) ==
  /\ g.cur > f.cur
  /\ g.open = Front(f.open)
  /\ \E p \in f.cur + 1 .. g.cur :
       g.tokens = [f.tokens EXCEPT ![Last(f.open)] = ClosedAt(f, Last(f.open), p)]

(* The last of a sequence, and what is before it.                          *)
LEMMA FrontType ==
  ASSUME NEW T, NEW q \in Seq(T), q # <<>>
  PROVE  /\ Front(q) \in Seq(T) /\ Len(Front(q)) = Len(q) - 1
         /\ \A i \in 1 .. Len(q) - 1 : Front(q)[i] = q[i]
         /\ Len(q) \in Nat \ {0} /\ Last(q) = q[Len(q)] /\ Last(q) \in T
<1>1. Len(q) \in Nat /\ Len(q) # 0
  BY EmptySeq
<1>2. Front(q) = [i \in 1 .. Len(q) - 1 |-> q[i]]
  BY <1>1, SMT DEF Front
<1>3. \A i \in 1 .. Len(q) - 1 : q[i] \in T
  BY <1>1
<1>4. Len(q) - 1 \in Nat
  BY <1>1
<1>5. Front(q) \in Seq(T) /\ Len(Front(q)) = Len(q) - 1
  BY <1>2, <1>3, <1>4
<1>6. Last(q) = q[Len(q)] /\ Last(q) \in T
  BY <1>1 DEF Last
<1> QED
  BY <1>1, <1>2, <1>5, <1>6

(* What closes an object or an array is a symbol.                          *)
LEMMA ClosingType ==
  ASSUME NEW f
  PROVE  Closing(f) # END
  BY Apart DEF Closing

(* To close is to settle the last open token.                              *)
LEMMA ClosedTypeShape ==
  ASSUME NEW S, NEW s \in Seq(S), NEW f \in Parser(s), f.code = 0, f.open # <<>>,
         Cur(f) = Closing(f)
  PROVE  /\ Closed(f) \in Parser(s) /\ Closed(f).code = 0
         /\ Closed(f).cur = Skip(f).cur + 1 /\ Closed(f).open = Front(f.open)
         /\ Closed(f).tokens
              = [f.tokens EXCEPT ![Last(f.open)] = ClosedAt(f, Last(f.open), Closed(f).cur)]
         /\ ClosedShape(f, Closed(f))
<1> DEFINE done == TestAndSkip(f, Closing(f))
           i == Last(f.open)
           p == done.cur
           g == Closed(f)
<1>1. done = [f EXCEPT !.cur = Skip(f).cur + 1]
  BY DEF TestAndSkip
<1>2. Cur(f) # END
  BY ClosingType
<1>3. Skip(f).cur \in 1 .. Len(s) /\ Skip(f).cur \in f.cur .. Len(s) + 1
  BY <1>2, SkipType
<1>4. f.cur \in 1 .. Len(s) + 1 /\ f.tokens \in Seq(Token) /\ f.open \in Seq(Nat)
  BY DEF Parser
<1>5. p = Skip(f).cur + 1 /\ done.tokens = f.tokens /\ done.open = f.open /\ done \in Parser(s) /\ done.code = 0
  <2> DEFINE k == Skip(f).cur + 1
  <2>1. k \in 1 .. Len(s) + 1
    BY <1>3
  <2>2. done = [f EXCEPT !.cur = k]
    BY <1>1
  <2> HIDE DEF k, done
  <2>3. done.cur = k /\ done.tokens = f.tokens /\ done.open = f.open /\ done \in Parser(s) /\ done.code = 0
    BY <2>1, <2>2 DEF Parser
  <2> QED
    BY <2>3 DEF k
<1> HIDE DEF done
<1>6. CaptureLen(done, i, p) =
        [done EXCEPT !.tokens = [f.tokens EXCEPT ![i] = ClosedAt(f, i, p)]]
  BY <1>5 DEF CaptureLen, ClosedAt
<1>7. g = [done EXCEPT !.tokens = [f.tokens EXCEPT ![i] = ClosedAt(f, i, p)],
                       !.open = Front(f.open)]
  <2>1. CaptureLen(done, i, p).open = f.open
    BY <1>5, <1>6 DEF Parser
  <2>2. g = [CaptureLen(done, i, p) EXCEPT !.open = Front(@)]
    BY DEF Closed, done
  <2> QED
    BY <1>6, <2>1, <2>2
<1>8. [f.tokens EXCEPT ![i] = ClosedAt(f, i, p)] \in Seq(Token)
  <2>1. i \in Nat
    BY <1>4, FrontType
  <2>2. CASE i \in 1 .. Len(f.tokens)
    <3>1. f.tokens[i] \in Token
      BY <1>4, <2>2
    <3>2. p \in Int /\ Len(f.tokens) - i \in Int
      BY <1>3, <1>4, <1>5, <2>1
    <3>3. ClosedAt(f, i, p) \in Token
      <4>1. ASSUME NEW tok \in Token, NEW m \in Int, NEW n \in Int
            PROVE  [tok EXCEPT !.len = m, !.num_desc = n] \in Token
        BY <4>1 DEF Token
      <4>2. p - f.tokens[i].ptr \in Int
        BY <3>1, <3>2 DEF Token
      <4> QED
        BY <3>1, <3>2, <4>1, <4>2 DEF ClosedAt
    <3> QED
      BY <1>4, <2>2, <3>3
  <2>3. CASE i \notin 1 .. Len(f.tokens)
    <3>1. [f.tokens EXCEPT ![i] = ClosedAt(f, i, p)] = f.tokens
      BY <1>4, <2>3
    <3> QED
      BY <1>4, <3>1
  <2> QED
    BY <2>2, <2>3
<1>9. Front(f.open) \in Seq(Nat)
  BY <1>4, FrontType
<1>10. /\ g \in Parser(s) /\ g.code = 0 /\ g.cur = p /\ g.open = Front(f.open)
       /\ g.tokens = [f.tokens EXCEPT ![i] = ClosedAt(f, i, p)]
  <2> HIDE DEF i, p, g
  <2>1. p = done.cur
    BY DEF p
  <2> QED
    BY <1>5, <1>7, <1>8, <1>9, <2>1 DEF Parser
<1>11. p \in f.cur + 1 .. g.cur /\ g.cur > f.cur
  <2> HIDE DEF g, p
  <2> QED
    BY <1>3, <1>4, <1>5, <1>10
<1>12. ClosedShape(f, g)
  <2> HIDE DEF g, p
  <2> QED
    BY <1>10, <1>11 DEF ClosedShape
<1>13. g.cur = Skip(f).cur + 1 /\ g.tokens = [f.tokens EXCEPT ![i] = ClosedAt(f, i, g.cur)]
  <2> HIDE DEF g, p
  <2> QED
    BY <1>5, <1>10
<1> HIDE DEF g
<1> QED
  BY <1>10, <1>12, <1>13 DEF g

(* One turn of the parser.                                                 *)
TurnShape(f, g) ==
  \/ ClosedShape(f, g)
  \/ Closing(f) = RBRACE /\ PairShape(f, g)
  \/ Closing(f) # RBRACE /\ ValueShape(f, g)

(* A turn opens, adds or closes, or the parser fails or is done.           *)
LEMMA TurnTypeShape ==
  ASSUME NEW S, NEW s \in Seq(S), NEW f \in Parser(s)
  PROVE  /\ Turn(f) \in Parser(s)
         /\ f.code # 0 \/ f.open = <<>> => Turn(f) = f
         /\ f.code = 0 /\ f.open # <<>> /\ Turn(f).code = 0 => TurnShape(f, Turn(f))
<1>1. CASE f.code # 0 \/ f.open = <<>>
  BY <1>1 DEF Turn
<1>2. CASE f.code = 0 /\ f.open # <<>> /\ Cur(f) = Closing(f)
  <2> DEFINE g == Closed(f)
  <2>1. Turn(f) = Comma(g)
    BY <1>2 DEF Turn
  <2>2. g \in Parser(s) /\ g.code = 0 /\ ClosedShape(f, g)
    BY <1>2, ClosedTypeShape
  <2> HIDE DEF g
  <2>3. /\ Comma(g) \in Parser(s) /\ Comma(g).cur >= g.cur
        /\ Comma(g).tokens = g.tokens /\ Comma(g).open = g.open
    BY <2>2, CommaType
  <2>4. g.cur \in Nat /\ f.cur \in Nat /\ Comma(g).cur \in Nat
    BY <2>2, <2>3 DEF Parser
  <2>5. ClosedShape(f, Comma(g))
    <3>1. PICK p \in f.cur + 1 .. g.cur :
            g.tokens = [f.tokens EXCEPT ![Last(f.open)] = ClosedAt(f, Last(f.open), p)]
      BY <2>2 DEF ClosedShape
    <3>2. g.cur > f.cur /\ g.open = Front(f.open)
      BY <2>2 DEF ClosedShape
    <3>3. Comma(g).cur > f.cur /\ p \in f.cur + 1 .. Comma(g).cur
      BY <2>3, <2>4, <3>2
    <3> QED
      BY <2>3, <3>1, <3>2, <3>3 DEF ClosedShape
  <2> QED
    BY <1>2, <2>1, <2>3, <2>5 DEF TurnShape
<1>3. CASE f.code = 0 /\ f.open # <<>> /\ Cur(f) # Closing(f)
  <2> DEFINE g == Member(f)
             h == Turn(f)
  <2>1. /\ g \in Parser(s)
        /\ g.code = 0 =>
             \/ Closing(f) = RBRACE /\ PairShape(f, g)
             \/ Closing(f) # RBRACE /\ ValueShape(f, g)
    BY ParsePairShape, ParseValueShape DEF Member
  <2>2. h \in {g, Comma(g)}
    BY <1>3 DEF Turn
  <2> HIDE DEF g, h
  <2>3. /\ h \in Parser(s) /\ h.cur >= g.cur /\ h.code = g.code
        /\ h.tokens = g.tokens /\ h.open = g.open
    <3>1. g.cur \in Nat
      BY <2>1 DEF Parser
    <3> QED
      BY <2>1, <2>2, <3>1, CommaType
  <2>4. g.cur \in Nat /\ f.cur \in Nat /\ h.cur \in Nat
    BY <2>1, <2>3 DEF Parser
  <2>5. h.code = 0 => TurnShape(f, h)
    BY <2>1, <2>3, <2>4, LaterShape DEF TurnShape
  <2> QED
    BY <1>3, <2>3, <2>5 DEF h
<1> QED
  BY <1>1, <1>2, <1>3

-----------------------------------------------------------------------------
(* A text and a prefix of it: the parse of the prefix follows the other.   *)

(* The parser g is where f is, in a text that is cut off further on.       *)
Behind(f, g, t) == f.cur <= Len(t) + 1 /\ g = [f EXCEPT !.s = t]

(* Two parsers side by side are alike in all but the text.                 *)
LEMMA BehindType ==
  ASSUME NEW S, NEW s \in Seq(S), NEW t \in Seq(S), NEW f \in Parser(s), NEW g, Behind(f, g, t)
  PROVE  /\ g \in Parser(t) /\ f.s = s /\ g.s = t /\ g.cur = f.cur /\ g.tokens = f.tokens
         /\ g.code = f.code /\ g.open = f.open
         /\ f.cur \in 1 .. Len(t) + 1
<1>1. f.cur \in 1 .. Len(s) + 1 /\ f.cur <= Len(t) + 1
  BY DEF Parser, Behind
<1>2. f.cur \in 1 .. Len(t) + 1
  BY <1>1
<1> QED
  BY <1>2 DEF Parser, Behind

(* Moved alike, they stay side by side.                                    *)
LEMMA BehindMoves ==
  ASSUME NEW S, NEW s \in Seq(S), NEW t \in Seq(S), NEW f \in Parser(s), NEW g, Behind(f, g, t),
         NEW k, k <= Len(t) + 1
  PROVE  Behind([f EXCEPT !.cur = k], [g EXCEPT !.cur = k], t)
  BY DEF Parser, Behind

(* At the end of its text a parser sees the end.                           *)
LEMMA AtEnd ==
  ASSUME NEW S, NEW t \in Seq(S), NEW g \in Parser(t), g.cur = Len(t) + 1
  PROVE  Cur(g) = END
<1>1. Skip(g).cur = Len(t) + 1
  BY SkipType
<1>2. g.s = t
  BY DEF Parser
<1> QED
  BY <1>1, <1>2 DEF Cur, At

(* Both skip the same white space, if the prefix goes on after it.         *)
LEMMA SkipBehind ==
  ASSUME NEW S, NEW s \in Seq(S), NEW t \in Seq(S), Prefix(t, s), NEW f \in Parser(s), NEW g,
         Behind(f, g, t), Cur(g) # END
  PROVE  /\ Behind(Skip(f), Skip(g), t) /\ Cur(f) = Cur(g)
         /\ Skip(f).cur = Skip(g).cur /\ Skip(g).cur \in 1 .. Len(t)
<1> DEFINE a == After(t, g.cur, Space)
<1>1. /\ g \in Parser(t) /\ g.s = t /\ f.s = s /\ g.cur = f.cur /\ f.cur \in 1 .. Len(t) + 1
  BY BehindType
<1>2. Skip(g).cur \in 1 .. Len(t) /\ Cur(g) = t[Skip(g).cur]
  BY <1>1, SkipType
<1>3. Skip(g) = [g EXCEPT !.cur = a] /\ Skip(f) = [f EXCEPT !.cur = After(s, g.cur, Space)]
  BY <1>1 DEF Skip
<1>4. Skip(g).cur = a
  BY <1>1, <1>3 DEF Parser
<1>5. a \in 1 .. Len(t) /\ a <= Len(t)
  BY <1>2, <1>4
<1>6. After(s, g.cur, Space) = a
  BY <1>1, <1>5, PrefixAfter
<1> HIDE DEF a
<1>7. Behind(Skip(f), Skip(g), t)
  <2>1. a <= Len(t) + 1
    BY <1>5
  <2> QED
    BY <1>3, <1>6, <2>1, BehindMoves
<1>8. Skip(f).cur = a
  BY <1>3, <1>6 DEF Parser
<1>9. Cur(f) = At(s, a) /\ Cur(g) = At(t, a)
  <2>1. Skip(f).s = s /\ f.s = s
    BY <1>3 DEF Parser
  <2> QED
    BY <1>1, <1>4, <1>8, <2>1 DEF Cur
<1>10. At(s, a) = At(t, a)
  BY <1>5, PrefixAt
<1> QED
  BY <1>4, <1>5, <1>7, <1>8, <1>9, <1>10

(* What is taken from the prefix is taken from the text.                   *)
LEMMA TestAndSkipBehind ==
  ASSUME NEW S, NEW s \in Seq(S), NEW t \in Seq(S), Prefix(t, s), NEW f \in Parser(s), NEW g,
         Behind(f, g, t), NEW x, x # END, TestAndSkip(g, x).code = 0
  PROVE  Behind(TestAndSkip(f, x), TestAndSkip(g, x), t)
<1>1. g \in Parser(t) /\ f.code = g.code
  BY BehindType
<1>2. /\ g.code = 0 /\ Cur(g) = x
      /\ TestAndSkip(g, x) = [g EXCEPT !.cur = Skip(g).cur + 1]
  BY <1>1, TestAndSkipType
<1>3. Cur(f) = x /\ Skip(f).cur = Skip(g).cur /\ Skip(g).cur \in 1 .. Len(t)
  BY <1>2, SkipBehind
<1>4. TestAndSkip(f, x) = [f EXCEPT !.cur = Skip(g).cur + 1]
  BY <1>1, <1>2, <1>3 DEF TestAndSkip
<1>5. Skip(g).cur + 1 <= Len(t) + 1
  BY <1>3
<1> QED
  BY <1>2, <1>4, <1>5, BehindMoves

(* Both add the same token.                                                *)
LEMMA LeafBehind ==
  ASSUME NEW S, NEW s \in Seq(S), NEW t \in Seq(S), NEW f \in Parser(s), NEW g, Behind(f, g, t),
         NEW p \in 1 .. Len(t) + 1, NEW type
  PROVE  Behind(Leaf(f, p, type), Leaf(g, p, type), t)
<1>1. g \in Parser(t) /\ g.cur = f.cur /\ g.tokens = f.tokens /\ p \in Nat /\ p <= Len(t) + 1
  BY BehindType
<1> DEFINE tokens == Append(f.tokens, Plain(type, f.cur, p - f.cur))
<1>2. /\ Leaf(f, p, type) = [f EXCEPT !.tokens = tokens, !.cur = p]
      /\ Leaf(g, p, type) = [g EXCEPT !.tokens = tokens, !.cur = p]
  <2>1. Leaf(f, p, type) = [f EXCEPT !.tokens = tokens, !.cur = p]
    BY <1>1, LeafIs
  <2>2. Leaf(g, p, type) =
          [g EXCEPT !.tokens = Append(g.tokens, Plain(type, g.cur, p - g.cur)), !.cur = p]
    BY <1>1, LeafIs
  <2> QED
    BY <1>1, <2>1, <2>2
<1> HIDE DEF tokens
<1> QED
  BY <1>1, <1>2 DEF Behind, Parser

(* A string that ends in the prefix is the same in the text.               *)
LEMMA ParseStringBehind ==
  ASSUME NEW S, NEW s \in Seq(S), NEW t \in Seq(S), Prefix(t, s), NEW f \in Parser(s), NEW g,
         Behind(f, g, t), ParseString(g).code = 0
  PROVE  Behind(ParseString(f), ParseString(g), t)
<1> DEFINE begunf == TestAndSkip(f, QUOTE)
           begun == TestAndSkip(g, QUOTE)
           end == StringEnd(t)[begun.cur]
<1>1. g \in Parser(t) /\ f.s = s /\ g.s = t /\ QUOTE # END
  BY BehindType, Apart
<1>2. begun.code = 0 /\ end \notin Codes /\ end \in begun.cur .. Len(t) - 1
  BY <1>1, ParseStringType
<1>3. Behind(begunf, begun, t)
  BY <1>1, <1>2, TestAndSkipBehind
<1>4. begunf \in Parser(s)
  BY <1>1, TestAndSkipType
<1>5. ParseString(g) = IF begun.code # 0 THEN begun
                       ELSE IF end < 0 THEN Failed(begun, end)
                       ELSE [Leaf(begun, end, "string") EXCEPT !.cur = end + 1]
  BY <1>1 DEF ParseString
<1>6. ParseString(f) = IF begunf.code # 0 THEN begunf
                       ELSE IF StringEnd(s)[begunf.cur] < 0 THEN Failed(begunf, StringEnd(s)[begunf.cur])
                       ELSE [Leaf(begunf, StringEnd(s)[begunf.cur], "string")
                               EXCEPT !.cur = StringEnd(s)[begunf.cur] + 1]
  BY <1>1 DEF ParseString
<1> HIDE DEF begunf, begun
<1>7. begunf.code = begun.code /\ begunf.cur = begun.cur /\ begun.cur \in 1 .. Len(t) + 1
  BY <1>3, <1>4, BehindType
<1>8. end \in 1 .. Len(t) - 1 /\ end > 0
  <2> HIDE DEF end
  <2> QED
    BY <1>2, <1>7
<1>9. StringEnd(s)[begunf.cur] = end
  BY <1>7, <1>8, PrefixStringEnd
<1> HIDE DEF end
<1>10. /\ ParseString(g) = [Leaf(begun, end, "string") EXCEPT !.cur = end + 1]
       /\ ParseString(f) = [Leaf(begunf, end, "string") EXCEPT !.cur = end + 1]
  BY <1>2, <1>5, <1>6, <1>7, <1>8, <1>9
<1>11. Behind(Leaf(begunf, end, "string"), Leaf(begun, end, "string"), t)
  <2>1. end \in 1 .. Len(t) + 1
    BY <1>8
  <2> QED
    BY <1>3, <1>4, <2>1, LeafBehind
<1>12. end + 1 <= Len(t) + 1
  BY <1>8
<1>13. Leaf(begunf, end, "string") \in Parser(s)
  <2>1. begunf.cur \in Nat /\ Len(t) <= Len(s) /\ Len(s) \in Nat /\ Len(t) \in Nat
    BY <1>4 DEF Parser, Prefix
  <2>2. end \in Codes \cup (begunf.cur .. Len(s) + 1) /\ "string" \in Types
    BY <1>2, <1>7, <1>8, <2>1 DEF Types
  <2> QED
    BY <1>4, <2>2, LeafType
<1> QED
  BY <1>10, <1>11, <1>12, <1>13, BehindMoves

(* Both open the same object or array.                                     *)
LEMMA OpenedBehind ==
  ASSUME NEW S, NEW s \in Seq(S), NEW t \in Seq(S), Prefix(t, s), NEW f \in Parser(s), NEW g,
         Behind(f, g, t), NEW x, x # END, NEW type, Opened(g, x, type).code = 0
  PROVE  Behind(Opened(f, x, type), Opened(g, x, type), t)
<1> DEFINE begunf == TestAndSkip(f, x)
           begun == TestAndSkip(g, x)
           tok == [type |-> type, ptr |-> begun.cur - 1, len |-> 0, num_desc |-> 0]
           tokens == Append(begun.tokens, tok)
           open == Append(begun.open, Len(g.tokens) + 1)
<1>1. begun.code = 0
  BY DEF Opened
<1>2. Behind(begunf, begun, t) /\ begunf \in Parser(s)
  BY <1>1, TestAndSkipBehind, TestAndSkipType
<1>3. g.tokens = f.tokens
  BY BehindType
<1>4. Opened(g, x, type) = [begun EXCEPT !.tokens = tokens, !.open = open]
  BY <1>1 DEF Opened, CapturePtr
<1>5. begunf.code = 0 /\ begunf.cur = begun.cur /\ begunf.tokens = begun.tokens /\ begunf.open = begun.open
  <2> HIDE DEF begun, begunf
  <2> QED
    BY <1>1, <1>2, BehindType
<1>6. Opened(f, x, type) = [begunf EXCEPT !.tokens = tokens, !.open = open]
  BY <1>3, <1>5 DEF Opened, CapturePtr
<1> HIDE DEF begun, begunf, tok, tokens, open
<1> QED
  BY <1>2, <1>4, <1>6 DEF Behind, Parser

(* At the end of the text nothing but a refusal is left.                   *)
LEMMA EndOfText ==
  ASSUME NEW S, NEW t \in Seq(S), NEW g \in Parser(t), Cur(g) = END
  PROVE  ParseKey(g).code # 0 /\ ParsePair(g).code # 0 /\ ParseValue(g).code # 0
<1>1. END \notin Alpha \cup {QUOTE} /\ END \notin {QUOTE, LBRACE, "["} \cup Word /\ END \notin Digit \cup {"-"}
  BY SymbolAssumption, Apart, EndApart DEF Alpha, Word, Other
<1>2. ParseKey(g).code # 0 /\ ParseKey(g) \in Parser(t)
  <2>1. ParseKey(g) = Refusal(g)
    BY <1>1, ParseKeyIs
  <2> QED
    BY <2>1, RefusalType, CodesNotZero
<1>3. ParsePair(g).code # 0
  <2>1. TestAndSkip(ParseKey(g), ":") = ParseKey(g)
    BY <1>2 DEF TestAndSkip
  <2>2. ParsePair(g) = ParseValue(ParseKey(g))
    BY <2>1 DEF ParsePair
  <2> QED
    BY <1>2, <2>2 DEF ParseValue
<1>4. ParseValue(g).code # 0
  <2>1. CASE g.code # 0
    BY <2>1 DEF ParseValue
  <2>2. CASE g.code = 0
    <3>1. ParseValue(g) = ValueAt(Skip(g), END)
      BY <2>2 DEF ParseValue
    <3>2. ~NumberAhead(Skip(g), END)
      BY <1>1 DEF NumberAhead
    <3>3. ValueAt(Skip(g), END) = Refusal(Skip(g))
      BY <1>1, <3>2, ValueAtIs
    <3>4. Skip(g) \in Parser(t)
      BY SkipType
    <3> QED
      BY <3>1, <3>3, <3>4, RefusalType, CodesNotZero
  <2> QED
    BY <2>1, <2>2
<1> QED
  BY <1>2, <1>3, <1>4

(* With something open, a turn at the end of the text fails.               *)
LEMMA TurnAtEnd ==
  ASSUME NEW S, NEW t \in Seq(S), NEW g \in Parser(t), g.open # <<>>, Cur(g) = END
  PROVE  Turn(g).code # 0
<1>1. CASE g.code # 0
  BY <1>1 DEF Turn
<1>2. CASE g.code = 0
  <2>1. Member(g).code # 0 /\ Member(g) \in Parser(t)
    BY EndOfText, ParsePairShape, ParseValueShape DEF Member
  <2>2. Cur(g) # Closing(g)
    BY ClosingType
  <2>3. Turn(g) \in {Member(g), Comma(Member(g))}
    BY <1>2, <2>2 DEF Turn
  <2> QED
    BY <2>1, <2>3, CommaType
<1> QED
  BY <1>1, <1>2

(* A value is read alike, or to the end of the text that is cut off.       *)
LEMMA LeafToEnd ==
  ASSUME NEW S, NEW s \in Seq(S), NEW t \in Seq(S), Prefix(t, s), NEW f \in Parser(s), NEW g,
         Behind(f, g, t), NEW type \in Types,
         NEW p \in Codes \cup (g.cur .. Len(t) + 1), NEW q, p \in 1 .. Len(t) => q = p,
         Leaf(g, p, type).code = 0
  PROVE  Behind(Leaf(f, q, type), Leaf(g, p, type), t) \/ Leaf(g, p, type).cur = Len(t) + 1
<1>1. g \in Parser(t) /\ g.cur \in 1 .. Len(t) + 1
  BY BehindType
<1>2. /\ p \in Codes => Leaf(g, p, type).code = p
      /\ p \notin Codes => Leaf(g, p, type).cur = p
  BY <1>1, LeafType
<1>3. p \notin Codes
  BY <1>2, CodesNotZero
<1>4. p \in 1 .. Len(t) + 1
  BY <1>1, <1>3
<1>5. CASE p \in 1 .. Len(t)
  BY <1>4, <1>5, LeafBehind
<1>6. CASE p = Len(t) + 1
  BY <1>2, <1>3, <1>6
<1> QED
  BY <1>4, <1>5, <1>6

(* A value is the same in both, unless the prefix ends with it.            *)
LEMMA ValueAtBehind ==
  ASSUME NEW S, NEW s \in Seq(S), NEW t \in Seq(S), Prefix(t, s), NEW f \in Parser(s), NEW g,
         Behind(f, g, t), NEW ch, ValueAt(g, ch).code = 0
  PROVE  Behind(ValueAt(f, ch), ValueAt(g, ch), t) \/ ValueAt(g, ch).cur = Len(t) + 1
<1>1. /\ g \in Parser(t) /\ f.s = s /\ g.s = t /\ g.cur = f.cur /\ f.cur \in 1 .. Len(t) + 1
  BY BehindType
<1>2. Len(t) \in Nat /\ Len(s) \in Nat /\ Len(t) <= Len(s)
  BY DEF Prefix
<1>3. CASE ch = QUOTE
  <2>1. ValueAt(g, ch) = ParseString(g) /\ ValueAt(f, ch) = ParseString(f)
    BY <1>3, ValueAtIs
  <2> QED
    BY <2>1, ParseStringBehind
<1>4. CASE ch = LBRACE
  <2>1. ValueAt(g, ch) = Opened(g, LBRACE, "object") /\ ValueAt(f, ch) = Opened(f, LBRACE, "object")
    BY <1>4, ValueAtIs DEF ParseObject
  <2> QED
    BY <2>1, Apart, OpenedBehind
<1>5. CASE ch = "["
  <2>1. ValueAt(g, ch) = Opened(g, "[", "array") /\ ValueAt(f, ch) = Opened(f, "[", "array")
    BY <1>5, ValueAtIs DEF ParseArray
  <2> QED
    BY <2>1, Apart, OpenedBehind
<1>6. CASE ch \in Word /\ Left(g) > 1
  <2>1. Left(f) > 1 /\ g.cur + 1 \in Codes \cup (g.cur .. Len(t) + 1)
    BY <1>1, <1>2, <1>6 DEF Left
  <2>2. ValueAt(g, ch) = Leaf(g, g.cur + 1, ch) /\ ValueAt(f, ch) = Leaf(f, g.cur + 1, ch)
    BY <1>1, <1>6, <2>1, ValueAtIs
  <2>3. ch \in Types
    BY <1>6 DEF Types
  <2> QED
    BY <2>1, <2>2, <2>3, LeafToEnd
<1>7. CASE NumberAhead(g, ch)
  <2>1. NumberAhead(f, ch)
    <3>1. CASE ch \in Digit
      BY <3>1 DEF NumberAhead
    <3>2. CASE ch = "-" /\ Left(g) > 1 /\ g.s[g.cur + 1] \in Digit
      <4>1. g.cur + 1 \in 1 .. Len(t) /\ Left(f) > 1
        BY <1>1, <1>2, <3>2 DEF Left
      <4>2. s[g.cur + 1] = t[g.cur + 1]
        BY <4>1 DEF Prefix
      <4> QED
        BY <1>1, <3>2, <4>1, <4>2 DEF NumberAhead
    <3> QED
      BY <1>7, <3>1, <3>2 DEF NumberAhead
  <2>2. /\ ValueAt(g, ch) = Leaf(g, NumberEnd(t, g.cur), "number")
        /\ ValueAt(f, ch) = Leaf(f, NumberEnd(s, g.cur), "number")
    BY <1>1, <1>7, <2>1, ValueAtIs DEF ParseNumber
  <2> DEFINE p == NumberEnd(t, g.cur)
  <2>3. p \in Codes \cup (g.cur + 1 .. Len(t) + 1)
    BY <1>1, NumberEndType
  <2>4. p \in 1 .. Len(t) => NumberEnd(s, g.cur) = p
    BY <1>1, PrefixNumberEnd
  <2>5. "number" \in Types
    BY DEF Types
  <2> HIDE DEF p
  <2>6. p \in Codes \cup (g.cur .. Len(t) + 1)
    BY <1>1, <2>3
  <2>7. ValueAt(g, ch) = Leaf(g, p, "number")
    BY <2>2 DEF p
  <2> QED
    BY <2>2, <2>4, <2>5, <2>6, <2>7, LeafToEnd
<1>8. CASE ch \notin {QUOTE, LBRACE, "["} /\ ~(ch \in Word /\ Left(g) > 1) /\ ~NumberAhead(g, ch)
  <2>1. ValueAt(g, ch) = Refusal(g)
    BY <1>8, ValueAtIs
  <2> QED
    BY <1>1, <2>1, RefusalType, CodesNotZero
<1> QED
  BY <1>3, <1>4, <1>5, <1>6, <1>7, <1>8

(* So is one after white space.                                            *)
LEMMA ParseValueBehind ==
  ASSUME NEW S, NEW s \in Seq(S), NEW t \in Seq(S), Prefix(t, s), NEW f \in Parser(s), NEW g,
         Behind(f, g, t), ParseValue(g).code = 0
  PROVE  Behind(ParseValue(f), ParseValue(g), t) \/ ParseValue(g).cur = Len(t) + 1
<1>1. g \in Parser(t) /\ g.code = f.code
  BY BehindType
<1>2. g.code = 0
  BY DEF ParseValue
<1>3. Cur(g) # END
  BY <1>1, EndOfText
<1>4. Behind(Skip(f), Skip(g), t) /\ Cur(f) = Cur(g) /\ Skip(f) \in Parser(s)
  BY <1>3, SkipBehind, SkipType
<1>5. ParseValue(g) = ValueAt(Skip(g), Cur(g)) /\ ParseValue(f) = ValueAt(Skip(f), Cur(g))
  BY <1>1, <1>2, <1>4 DEF ParseValue
<1> QED
  BY <1>4, <1>5, ValueAtBehind

(* So is a key.                                                            *)
LEMMA ParseKeyBehind ==
  ASSUME NEW S, NEW s \in Seq(S), NEW t \in Seq(S), Prefix(t, s), NEW f \in Parser(s), NEW g,
         Behind(f, g, t), ParseKey(g).code = 0
  PROVE  Behind(ParseKey(f), ParseKey(g), t) \/ ParseKey(g).cur = Len(t) + 1
<1>1. g \in Parser(t) /\ g.code = f.code
  BY BehindType
<1>2. Cur(g) # END
  BY <1>1, EndOfText
<1>3. /\ Behind(Skip(f), Skip(g), t) /\ Cur(f) = Cur(g) /\ Skip(f) \in Parser(s) /\ Skip(g) \in Parser(t)
      /\ Skip(f).cur = Skip(g).cur /\ Skip(g).cur \in 1 .. Len(t)
  BY <1>1, <1>2, SkipBehind, SkipType
<1>4. CASE Cur(g) \in Alpha
  <2> DEFINE C == Alpha \cup Digit \cup {"_"}
             k == Skip(g).cur
             p == After(t, k, C)
             q == After(s, k, C)
  <2>1. Skip(f).s = s /\ Skip(g).s = t /\ f.s = s /\ g.s = t
    BY <1>3, <1>1 DEF Parser
  <2>2. At(t, k) \in Alpha /\ At(s, k) \in Alpha
    BY <1>3, <1>4, <2>1 DEF Cur
  <2>3. /\ p \in k + 1 .. Len(t) + 1
        /\ ParseIdentifier(Skip(g)) = Leaf(Skip(g), p, "string")
        /\ ParseIdentifier(Skip(f)) = Leaf(Skip(f), q, "string")
    BY <1>3, <2>2, ParseIdentifierType
  <2>4. p \in 1 .. Len(t) => q = p
    <3>1. k \in 1 .. Len(t) + 1
      BY <1>3
    <3> HIDE DEF k, C
    <3> QED
      BY <3>1, PrefixAfter
  <2>5. ParseKey(g) = Leaf(Skip(g), p, "string") /\ ParseKey(f) = Leaf(Skip(f), q, "string")
    BY <1>3, <1>4, <2>3, ParseKeyIs
  <2>6. "string" \in Types
    BY DEF Types
  <2> HIDE DEF p, q
  <2>7. p \in Codes \cup (Skip(g).cur .. Len(t) + 1)
    BY <1>3, <2>3
  <2> QED
    BY <1>3, <2>4, <2>5, <2>6, <2>7, LeafToEnd
<1>5. CASE Cur(g) = QUOTE
  <2>1. ParseKey(g) = ParseString(g) /\ ParseKey(f) = ParseString(f)
    BY <1>3, <1>5, ParseKeyIs
  <2> QED
    BY <2>1, ParseStringBehind
<1>6. CASE Cur(g) \notin Alpha \cup {QUOTE}
  BY <1>1, <1>6, ParseKeyIs, RefusalType, CodesNotZero
<1> QED
  BY <1>4, <1>5, <1>6

(* So is a pair.                                                           *)
LEMMA ParsePairBehind ==
  ASSUME NEW S, NEW s \in Seq(S), NEW t \in Seq(S), Prefix(t, s), NEW f \in Parser(s), NEW g,
         Behind(f, g, t), ParsePair(g).code = 0
  PROVE  Behind(ParsePair(f), ParsePair(g), t) \/ ParsePair(g).cur = Len(t) + 1
<1> DEFINE keyf == ParseKey(f)
           key == ParseKey(g)
           hf == TestAndSkip(keyf, ":")
           h == TestAndSkip(key, ":")
<1>1. g \in Parser(t) /\ ":" # END
  BY BehindType, Apart
<1>2. key \in Parser(t) /\ keyf \in Parser(s)
  BY <1>1, ParseKeyShape
<1>3. ParsePair(g) = ParseValue(h) /\ ParsePair(f) = ParseValue(hf)
  BY DEF ParsePair
<1>4. h.code = 0
  BY <1>3 DEF ParseValue
<1> HIDE DEF key, keyf
<1>5. key.code = 0 /\ Cur(key) = ":"
  BY <1>1, <1>2, <1>4, TestAndSkipType
<1>6. key.cur # Len(t) + 1
  BY <1>1, <1>2, <1>5, AtEnd
<1>7. Behind(keyf, key, t)
  BY <1>5, <1>6, ParseKeyBehind DEF key, keyf
<1>8. Behind(hf, h, t) /\ hf \in Parser(s)
  BY <1>1, <1>2, <1>4, <1>7, TestAndSkipBehind, TestAndSkipType
<1> HIDE DEF h, hf
<1> QED
  BY <1>3, <1>8, ParseValueBehind

(* Both pass the same comma, unless the prefix ends before it.             *)
LEMMA CommaBehind ==
  ASSUME NEW S, NEW s \in Seq(S), NEW t \in Seq(S), Prefix(t, s), NEW f \in Parser(s), NEW g,
         Behind(f, g, t)
  PROVE  \/ Behind(Comma(f), Comma(g), t)
         \/ Comma(g) = g /\ Cur(g) = END /\ g.open # <<>>
<1>1. /\ g \in Parser(t) /\ g.code = f.code /\ g.open = f.open
  BY BehindType
<1>2. CASE g.open = <<>>
  BY <1>1, <1>2 DEF Comma
<1>3. CASE g.open # <<>> /\ Cur(g) = END
  BY <1>3, Apart DEF Comma
<1>4. CASE g.open # <<>> /\ Cur(g) # END
  <2>1. Cur(f) = Cur(g) /\ Skip(f).cur = Skip(g).cur /\ Skip(g).cur \in 1 .. Len(t)
    BY <1>4, SkipBehind
  <2>2. CASE g.code = 0 /\ Cur(g) = COMMA
    <3>1. /\ Comma(g) = [g EXCEPT !.cur = Skip(g).cur + 1]
          /\ Comma(f) = [f EXCEPT !.cur = Skip(g).cur + 1]
      BY <1>1, <1>4, <2>1, <2>2 DEF Comma
    <3> DEFINE k == Skip(g).cur + 1
    <3>2. k <= Len(t) + 1
      BY <2>1
    <3>3. Comma(g) = [g EXCEPT !.cur = k] /\ Comma(f) = [f EXCEPT !.cur = k]
      BY <3>1
    <3> HIDE DEF k
    <3>4. Behind([f EXCEPT !.cur = k], [g EXCEPT !.cur = k], t)
      BY <3>2, BehindMoves
    <3> QED
      BY <3>3, <3>4
  <2>3. CASE ~(g.code = 0 /\ Cur(g) = COMMA)
    BY <1>1, <2>1, <2>3 DEF Comma
  <2> QED
    BY <2>2, <2>3
<1> QED
  BY <1>2, <1>3, <1>4

(* Both close the same object or array.                                    *)
LEMMA ClosedBehind ==
  ASSUME NEW S, NEW s \in Seq(S), NEW t \in Seq(S), Prefix(t, s), NEW f \in Parser(s), NEW g,
         Behind(f, g, t), g.code = 0, g.open # <<>>, Cur(g) = Closing(g)
  PROVE  /\ Cur(f) = Closing(f)
         /\ Behind(Closed(f), Closed(g), t)
<1>1. g \in Parser(t) /\ g.tokens = f.tokens /\ g.open = f.open
  BY BehindType
<1>2. Closing(f) = Closing(g) /\ Closing(g) # END
  BY <1>1, ClosingType DEF Closing
<1>3. Cur(f) = Cur(g)
  BY <1>2, SkipBehind
<1> DEFINE donef == TestAndSkip(f, Closing(g))
           done == TestAndSkip(g, Closing(g))
           i == Last(g.open)
<1>4. done.code = 0
  <2>1. done = [g EXCEPT !.cur = Skip(g).cur + 1]
    BY DEF TestAndSkip
  <2> QED
    BY <1>1, <2>1 DEF Parser
<1>5. Behind(donef, done, t) /\ donef \in Parser(s) /\ donef.open = f.open
  BY <1>2, <1>4, TestAndSkipBehind, TestAndSkipType
<1>6. /\ Closed(g) = [CaptureLen(done, i, done.cur) EXCEPT !.open = Front(@)]
      /\ Closed(f) = [CaptureLen(donef, i, donef.cur) EXCEPT !.open = Front(@)]
  BY <1>1, <1>2 DEF Closed
<1> HIDE DEF done, donef, i
<1>7. done.cur = donef.cur /\ done.tokens = donef.tokens /\ done.open = donef.open
  BY <1>5, BehindType
<1> DEFINE tokens == [done.tokens EXCEPT ![i] = ClosedAt(done, i, done.cur)]
           open == Front(done.open)
<1>8. /\ CaptureLen(done, i, done.cur) = [done EXCEPT !.tokens = tokens]
      /\ CaptureLen(donef, i, done.cur) = [donef EXCEPT !.tokens = tokens]
  BY <1>7 DEF CaptureLen, ClosedAt
<1> HIDE DEF tokens
<1>9. /\ Closed(g) = [done EXCEPT !.tokens = tokens, !.open = open]
      /\ Closed(f) = [donef EXCEPT !.tokens = tokens, !.open = open]
  <2>1. done.open = [done EXCEPT !.tokens = tokens].open /\ donef.open = [donef EXCEPT !.tokens = tokens].open
    BY <1>5, BehindType DEF Parser
  <2>2. Closed(g) = [[done EXCEPT !.tokens = tokens] EXCEPT !.open = Front(@)]
    BY <1>6, <1>8
  <2>3. Closed(f) = [[donef EXCEPT !.tokens = tokens] EXCEPT !.open = Front(@)]
    BY <1>6, <1>7, <1>8
  <2> QED
    BY <1>7, <2>1, <2>2, <2>3
<1> HIDE DEF open
<1>10. Behind(Closed(f), Closed(g), t)
  BY <1>5, <1>9 DEF Behind, Parser
<1> QED
  BY <1>2, <1>3, <1>10

(* After a turn both are side by side, or the prefix has ended too early.  *)
LEMMA TurnBehind ==
  ASSUME NEW S, NEW s \in Seq(S), NEW t \in Seq(S), Prefix(t, s), NEW f \in Parser(s), NEW g,
         Behind(f, g, t), Turn(g).code = 0
  PROVE  \/ Behind(Turn(f), Turn(g), t)
         \/ Cur(Turn(g)) = END /\ Turn(g).open # <<>>
<1>1. /\ g \in Parser(t) /\ g.code = f.code /\ g.open = f.open /\ g.tokens = f.tokens
  BY BehindType
<1>2. g.code = 0
  BY DEF Turn
<1>3. CASE g.open = <<>>
  BY <1>1, <1>3 DEF Turn
<1>4. CASE g.open # <<>> /\ Cur(g) = Closing(g)
  <2> DEFINE h == Closed(g)
             hf == Closed(f)
  <2>1. Cur(f) = Closing(f) /\ Behind(hf, h, t)
    BY <1>2, <1>4, ClosedBehind
  <2>2. Turn(g) = Comma(h) /\ Turn(f) = Comma(hf)
    BY <1>1, <1>2, <1>4, <2>1 DEF Turn
  <2>3. hf \in Parser(s)
    BY <1>1, <1>2, <1>4, <2>1, ClosedTypeShape
  <2> HIDE DEF h, hf
  <2> QED
    BY <2>1, <2>2, <2>3, CommaBehind
<1>5. CASE g.open # <<>> /\ Cur(g) # Closing(g)
  <2> DEFINE h == Member(g)
             hf == Member(f)
  <2>1. Cur(g) # END
    BY <1>1, <1>5, TurnAtEnd
  <2>2. Closing(f) = Closing(g)
    BY <1>1 DEF Closing
  <2>3. Cur(f) # Closing(f)
    BY <1>5, <2>1, <2>2, SkipBehind
  <2>4. /\ Turn(g) = IF Len(h.open) > Len(g.open) THEN h ELSE Comma(h)
        /\ Turn(f) = IF Len(hf.open) > Len(g.open) THEN hf ELSE Comma(hf)
    BY <1>1, <1>2, <1>5, <2>3 DEF Turn
  <2>5. /\ h \in Parser(t) /\ hf \in Parser(s)
        /\ h.code = 0 =>
             \/ Closing(g) = RBRACE /\ PairShape(g, h)
             \/ Closing(g) # RBRACE /\ ValueShape(g, h)
    BY <1>1, ParsePairShape, ParseValueShape DEF Member
  <2>6. h.code = 0 => Behind(hf, h, t) \/ h.cur = Len(t) + 1
    BY <2>2, ParsePairBehind, ParseValueBehind DEF Member
  <2> HIDE DEF h, hf
  <2>7. h.code = 0
    BY <2>4, <2>5, CommaType
  <2>8. h.open # <<>>
    <3>1. ASSUME NEW e, ValueShape(e, h), e.open \in Seq(Nat), e.tokens \in Seq(Token),
                 e.open # <<>>
          PROVE  h.open # <<>>
      <4>1. h.open = e.open \/ \E n \in Nat : h.open = Append(e.open, n)
        <5>1. Len(e.tokens) + 1 \in Nat
          BY <3>1
        <5> QED
          BY <3>1, <5>1 DEF ValueShape, GrowsBy, IsLeaf, IsBegun
      <4>2. ASSUME NEW n \in Nat, h.open = Append(e.open, n) PROVE h.open # <<>>
        <5>1. h.open \in Seq(Nat) /\ Len(h.open) = Len(e.open) + 1 /\ Len(e.open) \in Nat
          BY <3>1, <4>2
        <5> QED
          BY <5>1, EmptySeq
      <4> QED
        BY <3>1, <4>1, <4>2
    <3>2. g.open \in Seq(Nat) /\ g.tokens \in Seq(Token)
      BY <1>1 DEF Parser
    <3>3. CASE ValueShape(g, h)
      BY <1>5, <3>1, <3>2, <3>3
    <3>4. CASE PairShape(g, h)
      <4>1. PICK e \in Parser(g.s) : KeyShape(g, e) /\ ValueShape(e, h)
        BY <3>4 DEF PairShape
      <4>2. e.open = g.open /\ e.tokens \in Seq(Token)
        BY <4>1 DEF KeyShape, Parser
      <4> QED
        BY <1>5, <3>1, <3>2, <4>1, <4>2
    <3> QED
      BY <2>5, <2>7, <3>3, <3>4
  <2>9. CASE h.cur = Len(t) + 1
    <3>1. Cur(h) = END
      BY <2>5, <2>9, AtEnd
    <3>2. Comma(h) = h
      BY <3>1, Apart DEF Comma
    <3> QED
      BY <2>4, <2>8, <3>1, <3>2
  <2>10. CASE Behind(hf, h, t)
    <3>1. h.open = hf.open
      BY <2>5, <2>10, BehindType
    <3> QED
      BY <2>4, <2>5, <2>10, <3>1, CommaBehind
  <2> QED
    BY <2>6, <2>7, <2>9, <2>10
<1> QED
  BY <1>3, <1>4, <1>5

(* One turn after the other.                                               *)
LEMMA TurnsUnfolds ==
  ASSUME NEW S, NEW s \in Seq(S)
  PROVE  /\ Turns(s)[0] = ParseObject(Frozen(s))
         /\ \A n \in 0 .. Len(s) - 1 : Turns(s)[n + 1] = Turn(Turns(s)[n])
<1> DEFINE N == Len(s)
           P == ParseObject(Frozen(s))
           Def(g, n) == IF n = 0 THEN P ELSE Turn(g[n - 1])
           Is(g) == g = [n \in 0 .. N |-> Def(g, n)]
           To(g, m) == DOMAIN g = 0 .. N /\ \A n \in 0 .. N : n <= m => g[n] = Def(g, n)
           T == {m \in Nat : m <= N => \E g : To(g, m)}
<1>1. N \in Nat
  OBVIOUS
<1> HIDE DEF N, P
<1>2. 0 \in T
  <2>1. To([n \in 0 .. N |-> P], 0)
    BY <1>1
  <2> QED
    BY <2>1
<1>3. ASSUME NEW m \in Nat, m \in T
      PROVE  m + 1 \in T
  <2> SUFFICES ASSUME m + 1 <= N
               PROVE  \E g : To(g, m + 1)
    OBVIOUS
  <2>1. PICK g : To(g, m)
    BY <1>1, <1>3
  <2> DEFINE h == [n \in 0 .. N |-> IF n = m + 1 THEN Def(g, n) ELSE g[n]]
  <2>2. ASSUME NEW n \in 0 .. N, n <= m + 1
        PROVE  h[n] = Def(h, n)
    <3>1. n # 0 => h[n - 1] = g[n - 1]
      BY <1>1, <2>2
    <3>2. Def(h, n) = Def(g, n)
      BY <3>1
    <3>3. n # m + 1 => g[n] = Def(g, n)
      BY <2>1, <2>2
    <3> HIDE DEF Def
    <3> QED
      BY <3>2, <3>3
  <2>3. To(h, m + 1)
    BY <2>2
  <2> QED
    BY <2>3
<1>4. N \in T
  <2> HIDE DEF T
  <2> QED
    BY <1>1, <1>2, <1>3, Induction
<1>5. PICK g : To(g, N)
  BY <1>1, <1>4
<1>6. \A n \in 0 .. N : g[n] = Def(g, n)
  BY <1>1, <1>5
<1>7. Is([n \in 0 .. N |-> g[n]])
  <2> DEFINE h == [n \in 0 .. N |-> g[n]]
  <2>1. ASSUME NEW n \in 0 .. N
        PROVE  h[n] = Def(h, n)
    <3>1. n # 0 => h[n - 1] = g[n - 1]
      BY <1>1
    <3>2. Def(h, n) = Def(g, n)
      BY <3>1
    <3> HIDE DEF Def
    <3> QED
      BY <1>6, <3>2
  <2>2. h = [n \in 0 .. N |-> Def(h, n)]
    <3> HIDE DEF Def
    <3> QED
      BY <2>1
  <2> QED
    BY <2>2
<1>8. Turns(s) = CHOOSE g_ : Is(g_)
  BY DEF Turns, N, P
<1>9. Is(Turns(s))
  <2> HIDE DEF Is
  <2> QED
    BY <1>7, <1>8
<1>10. \A n \in 0 .. N : Turns(s)[n] = Def(Turns(s), n)
  <2> HIDE DEF Def
  <2> QED
    BY <1>9
<1>11. Turns(s)[0] = P
  BY <1>1, <1>10
<1>12. ASSUME NEW n \in 0 .. N - 1
       PROVE  Turns(s)[n + 1] = Turn(Turns(s)[n])
  <2>1. n + 1 \in 0 .. N /\ n + 1 # 0 /\ (n + 1) - 1 = n
    BY <1>1
  <2> QED
    BY <1>10, <2>1
<1> QED
  BY <1>11, <1>12 DEF N, P

(* The parser before the first turn.                                       *)
LEMMA FrozenType ==
  ASSUME NEW S, NEW s \in Seq(S)
  PROVE  Frozen(s) \in Parser(s)
<1>1. Len(s) \in Nat
  OBVIOUS
<1>2. 1 \in 1 .. Len(s) + 1 /\ <<>> \in Seq(Token) /\ <<>> \in Seq(Nat)
  BY <1>1
<1> QED
  BY <1>2 DEF Frozen, Parser

(* Each turn moves on, so the last has nothing open any more.              *)
LEMMA TurnsType ==
  ASSUME NEW S, NEW s \in Seq(S)
  PROVE  /\ \A k \in 0 .. Len(s) : Turns(s)[k] \in Parser(s)
         /\ \A k \in 0 .. Len(s) :
              Turns(s)[k].code = 0 /\ Turns(s)[k].open # <<>> => Turns(s)[k].cur >= k + 2
         /\ Turns(s)[Len(s)].code = 0 => Turns(s)[Len(s)].open = <<>>
<1> DEFINE F == Turns(s)
           N == Len(s)
           T == {k \in Nat : k <= N =>
                   /\ F[k] \in Parser(s)
                   /\ F[k].code = 0 /\ F[k].open # <<>> => F[k].cur >= k + 2}
<1>1. N \in Nat
  OBVIOUS
<1>2. 0 \in T
  <2>1. F[0] = Opened(Frozen(s), LBRACE, "object")
    BY TurnsUnfolds DEF ParseObject
  <2>2. "object" \in Nested /\ LBRACE # END /\ Frozen(s) \in Parser(s) /\ Frozen(s).cur = 1
    BY Apart, FrozenType DEF Nested, Frozen
  <2>3. F[0] \in Parser(s) /\ (F[0].code = 0 => ValueShape(Frozen(s), F[0]))
    BY <2>1, <2>2, OpenedShape
  <2>4. F[0].code = 0 => F[0].cur > 1
    BY <2>2, <2>3 DEF ValueShape
  <2>5. F[0].cur \in Nat
    BY <2>3 DEF Parser
  <2> QED
    BY <2>3, <2>4, <2>5
<1>3. ASSUME NEW k \in Nat, k \in T
      PROVE  k + 1 \in T
  <2> SUFFICES ASSUME k + 1 <= N
               PROVE  /\ F[k + 1] \in Parser(s)
                      /\ F[k + 1].code = 0 /\ F[k + 1].open # <<>> => F[k + 1].cur >= (k + 1) + 2
    OBVIOUS
  <2>1. k \in 0 .. N - 1 /\ k <= N
    BY <1>1
  <2>2. F[k + 1] = Turn(F[k])
    BY <2>1, TurnsUnfolds
  <2>3. F[k] \in Parser(s) /\ (F[k].code = 0 /\ F[k].open # <<>> => F[k].cur >= k + 2)
    BY <1>3, <2>1
  <2> HIDE DEF F
  <2>4. /\ F[k + 1] \in Parser(s)
        /\ F[k].code # 0 \/ F[k].open = <<>> => F[k + 1] = F[k]
        /\ F[k].code = 0 /\ F[k].open # <<>> /\ F[k + 1].code = 0 => TurnShape(F[k], F[k + 1])
    BY <2>2, <2>3, TurnTypeShape
  <2>5. ASSUME F[k + 1].code = 0, F[k + 1].open # <<>>
        PROVE  F[k + 1].cur >= (k + 1) + 2
    <3>1. F[k].code = 0 /\ F[k].open # <<>>
      BY <2>4, <2>5
    <3>2. F[k + 1].cur > F[k].cur
      BY <2>4, <2>5, <3>1 DEF TurnShape, ClosedShape, PairShape, ValueShape
    <3>3. F[k + 1].cur \in Nat /\ F[k].cur \in Nat
      BY <2>3, <2>4 DEF Parser
    <3> QED
      BY <2>3, <3>1, <3>2, <3>3
  <2> QED
    BY <2>4, <2>5
<1>4. \A k \in Nat : k \in T
  <2> HIDE DEF T
  <2> QED
    BY <1>2, <1>3, Induction
<1>5. \A k \in 0 .. N : F[k] \in Parser(s) /\ (F[k].code = 0 /\ F[k].open # <<>> => F[k].cur >= k + 2)
  BY <1>1, <1>4
<1>6. F[N].code = 0 => F[N].open = <<>>
  <2>1. N \in 0 .. N
    BY <1>1
  <2>2. F[N].cur \in 1 .. N + 1
    BY <1>5, <2>1 DEF Parser
  <2> HIDE DEF F, N
  <2> QED
    BY <1>1, <1>5, <2>1, <2>2
<1> QED
  BY <1>5, <1>6

(* A parser that has nothing open any more stays as it is.                 *)
LEMMA TurnsStay ==
  ASSUME NEW S, NEW s \in Seq(S), NEW n \in 0 .. Len(s),
         Turns(s)[n].code # 0 \/ Turns(s)[n].open = <<>>
  PROVE  \A k \in n .. Len(s) : Turns(s)[k] = Turns(s)[n]
<1> DEFINE F == Turns(s)
           T == {m \in Nat : n + m <= Len(s) => F[n + m] = F[n]}
<1>1. Len(s) \in Nat /\ n \in Nat
  OBVIOUS
<1>2. 0 \in T
  BY <1>1
<1>3. ASSUME NEW m \in Nat, m \in T
      PROVE  m + 1 \in T
  <2> SUFFICES ASSUME n + (m + 1) <= Len(s) PROVE F[n + (m + 1)] = F[n]
    OBVIOUS
  <2>1. n + m \in 0 .. Len(s) - 1 /\ n + (m + 1) = (n + m) + 1 /\ n + m <= Len(s)
    BY <1>1
  <2>2. F[(n + m) + 1] = Turn(F[n + m])
    BY <2>1, TurnsUnfolds
  <2>3. F[n + m] = F[n]
    BY <1>3, <2>1
  <2> QED
    BY <2>1, <2>2, <2>3 DEF Turn
<1>4. \A m \in Nat : m \in T
  <2> HIDE DEF T
  <2> QED
    BY <1>2, <1>3, Induction
<1>5. ASSUME NEW k \in n .. Len(s)
      PROVE  F[k] = F[n]
  <2>1. k - n \in Nat /\ n + (k - n) = k /\ k <= Len(s)
    BY <1>1
  <2>2. k - n \in T
    BY <1>4, <2>1
  <2> QED
    BY <2>1, <2>2
<1> QED
  BY <1>5

(* A text that is cut off before its last brace is refused.                *)
LEMMA CutOff ==
  ASSUME NEW S, NEW s \in Seq(S), Doit(s).code = 0, NEW n \in 0 .. Doit(s).cur - 2
  PROVE  ~Accepted(SubSeq(s, 1, n))
<1> DEFINE t == SubSeq(s, 1, n)
           F == Turns(s)
           G == Turns(t)
<1>1. s # <<>> /\ Doit(s) = Ended(F[Len(s)]) /\ Len(s) \in Nat
  BY CodesNotZero DEF Doit, Failed, Frozen, Codes
<1>2. F[Len(s)] \in Parser(s) /\ F[Len(s)].code = 0 /\ Doit(s).cur = F[Len(s)].cur
  <2>1. F[Len(s)] \in Parser(s)
    BY <1>1, TurnsType
  <2>2. F[Len(s)].code = 0
    BY <1>1 DEF Ended
  <2> HIDE DEF F
  <2> QED
    BY <1>1, <2>1, <2>2 DEF Ended, CapturePtr, Parser
<1>3. n \in 0 .. Len(s) - 1 /\ F[Len(s)].cur > n + 1
  <2>1. F[Len(s)].cur \in 1 .. Len(s) + 1
    BY <1>2 DEF Parser
  <2> HIDE DEF F
  <2> QED
    BY <1>1, <1>2, <2>1
<1>4. t \in Seq(S) /\ Len(t) = n /\ Prefix(t, s)
  BY <1>1, <1>3 DEF Prefix
<1>5. CASE n = 0
  <2>1. t = <<>>
    BY <1>4, <1>5, EmptySeq
  <2>2. Doit(t).code = INCOMPLETE
    BY <2>1 DEF Doit, Failed, Frozen
  <2> QED
    BY <2>2 DEF Accepted, INCOMPLETE
<1>6. CASE n # 0
  <2>1. t # <<>> /\ Doit(t) = Ended(G[n])
    BY <1>4, <1>6, EmptySeq DEF Doit
  <2> SUFFICES ASSUME Doit(t).code = 0 PROVE FALSE
    BY DEF Accepted
  <2> HIDE DEF t
  <2>2. G[n].code = 0
    BY <2>1 DEF Ended
  <2> DEFINE T == {k \in Nat : k <= n =>
                     \/ G[k].code # 0
                     \/ Behind(F[k], G[k], t)
                     \/ Cur(G[k]) = END /\ G[k].open # <<>>}
  <2>3. 0 \in T
    <3>1. F[0] = Opened(Frozen(s), LBRACE, "object") /\ G[0] = Opened(Frozen(t), LBRACE, "object")
      BY <1>4, TurnsUnfolds DEF ParseObject
    <3>2. Frozen(s) \in Parser(s) /\ Behind(Frozen(s), Frozen(t), t)
      BY <1>4, <1>3, FrozenType DEF Behind, Frozen
    <3>3. G[0].code = 0 => Behind(F[0], G[0], t)
      BY <1>4, <3>1, <3>2, Apart, OpenedBehind
    <3> HIDE DEF F, G
    <3> QED
      BY <3>3
  <2>4. ASSUME NEW k \in Nat, k \in T
        PROVE  k + 1 \in T
    <3> SUFFICES ASSUME k + 1 <= n, G[k + 1].code = 0
                 PROVE  Behind(F[k + 1], G[k + 1], t) \/ (Cur(G[k + 1]) = END /\ G[k + 1].open # <<>>)
      OBVIOUS
    <3>1. k \in 0 .. n - 1 /\ k \in 0 .. Len(s) - 1 /\ k \in 0 .. Len(s) /\ k \in 0 .. n /\ k <= n
      BY <1>1, <1>3
    <3>2. F[k + 1] = Turn(F[k]) /\ G[k + 1] = Turn(G[k])
      BY <1>4, <3>1, TurnsUnfolds
    <3>3. F[k] \in Parser(s) /\ G[k] \in Parser(t)
      BY <1>4, <3>1, TurnsType
    <3> HIDE DEF F, G
    <3>4. G[k].code # 0 \/ Behind(F[k], G[k], t) \/ (Cur(G[k]) = END /\ G[k].open # <<>>)
      BY <2>4, <3>1
    <3>5. G[k].code = 0
      BY <3>2 DEF Turn
    <3>6. ~(Cur(G[k]) = END /\ G[k].open # <<>>)
      BY <1>4, <3>2, <3>3, TurnAtEnd
    <3>7. Behind(F[k], G[k], t)
      BY <3>4, <3>5, <3>6
    <3>8. Turn(G[k]).code = 0
      BY <3>2
    <3>9. Behind(Turn(F[k]), Turn(G[k]), t) \/ (Cur(Turn(G[k])) = END /\ Turn(G[k]).open # <<>>)
      BY <1>4, <3>3, <3>7, <3>8, TurnBehind
    <3> QED
      BY <3>2, <3>9
  <2>5. \A k \in Nat : k \in T
    <3> HIDE DEF T
    <3> QED
      BY <2>3, <2>4, Induction
  <2>6. G[n].open = <<>> /\ G[n] \in Parser(t)
    <3>1. n \in 0 .. Len(t)
      BY <1>4, <1>3
    <3> QED
      BY <1>4, <2>2, <3>1, TurnsType
  <2>7. Behind(F[n], G[n], t)
    <3>1. n \in T /\ n <= n
      BY <1>3, <2>5
    <3> HIDE DEF F, G
    <3> QED
      BY <2>2, <2>6, <3>1
  <2>8. F[n] \in Parser(s)
    BY <1>3, TurnsType
  <2>9. F[n].open = <<>> /\ F[n].cur \in 1 .. n + 1
    <3> HIDE DEF F, G
    <3> QED
      BY <1>4, <2>6, <2>7, <2>8, BehindType
  <2>10. F[Len(s)] = F[n]
    <3>1. n \in 0 .. Len(s) /\ Len(s) \in n .. Len(s)
      BY <1>1, <1>3
    <3> QED
      BY <2>9, <3>1, TurnsStay
  <2> HIDE DEF F, G
  <2> QED
    BY <1>3, <2>9, <2>10
<1> QED
  BY <1>5, <1>6 DEF t

-----------------------------------------------------------------------------
(* What is parsed, and that no text cut off is read.                       *)

(* A parse keeps the text.                                                 *)
LEMMA DoitText ==
  ASSUME NEW S, NEW s \in Seq(S)
  PROVE  Doit(s).s = s
<1>1. CASE s = <<>>
  BY <1>1 DEF Doit, Failed, Frozen
<1>2. CASE s # <<>>
  <2> DEFINE f == Turns(s)[Len(s)]
  <2>1. f \in Parser(s)
    BY TurnsType
  <2>2. Doit(s) = Ended(f)
    BY <1>2 DEF Doit
  <2> HIDE DEF f
  <2> QED
    BY <2>1, <2>2 DEF Ended, CapturePtr, Parser
<1> QED
  BY <1>1, <1>2

(* What is typed, and what is printed, is a text.                          *)
TextType == text \in Seq(Symbol)

(* What is typed is a text, whatever is typed and whatever runs.           *)
LEMMA TextTypeInvariant == TextSpec => []TextType
<1>1. TextInit => TextType
  BY DEF TextInit, TextType
<1>2. TextType /\ [Type \/ Retype \/ Runs]_textVars => TextType'
  <2> SUFFICES ASSUME TextType, [Type \/ Retype \/ Runs]_textVars PROVE TextType'
    OBVIOUS
  <2>1. CASE Type
    <3>1. PICK piece \in Pieces : text' = text \o piece
      BY <2>1 DEF Type
    <3>2. piece \in Seq(Symbol)
      BY TextAssumption
    <3> QED
      BY <3>1, <3>2 DEF TextType
  <2>2. CASE Retype
    BY <2>2 DEF Retype, TextType
  <2>3. CASE Runs
    BY <2>3 DEF Runs, TextType
  <2>4. CASE UNCHANGED textVars
    BY <2>4 DEF textVars, TextType
  <2> QED
    BY <2>1, <2>2, <2>3, <2>4
<1> QED
  BY <1>1, <1>2, PTL DEF TextSpec

(* A member that is printed is a text.                                     *)
LEMMA MemberTextType ==
  ASSUME NEW s, NEW value, NEW S,
         {QUOTE, ":", BLANK, COMMA, ".", "0", Name[s], value, ToString(value)} \subseteq S
  PROVE  MemberText(s, value) \in Seq(S)
<1> DEFINE printed == IF s \in {"demo", "order"} THEN Quoted(value) ELSE Value(s, value)
<1>1. QUOTE \in S /\ ":" \in S /\ BLANK \in S /\ COMMA \in S /\ "." \in S /\ "0" \in S
      /\ Name[s] \in S /\ value \in S /\ ToString(value) \in S
  OBVIOUS
<1>2. Quoted(value) \in Seq(S) /\ Quoted(Name[s]) \in Seq(S)
  BY <1>1 DEF Quoted
<1>3. Value(s, value) \in {<<ToString(value), ".", "0">>, <<value>>, <<ToString(value)>>}
  BY Zenon DEF Value
<1>4. Value(s, value) \in Seq(S)
  <2>1. <<ToString(value), ".", "0">> \in Seq(S) /\ <<value>> \in Seq(S) /\ <<ToString(value)>> \in Seq(S)
    BY <1>1
  <2> QED
    BY <1>3, <2>1
<1>5. printed \in Seq(S)
  BY <1>2, <1>4
<1>6. <<":", BLANK>> \in Seq(S) /\ <<COMMA, BLANK>> \in Seq(S)
  BY <1>1
<1>7. MemberText(s, value) = Quoted(Name[s]) \o <<":", BLANK>> \o printed \o <<COMMA, BLANK>>
  BY DEF MemberText
<1> HIDE DEF printed
<1> QED
  BY <1>2, <1>5, <1>6, <1>7

(* What is printed is a text.                                              *)
LEMMA PrintedType ==
  ASSUME NEW settings
  PROVE  \E S : Printed(settings) \in Seq(S)
<1> DEFINE Of(s) == IF s \in DOMAIN settings THEN MemberText(s, settings[s]) ELSE <<>>
           S == {QUOTE, ":", BLANK, COMMA, LBRACE, RBRACE, ".", "0", "1", "whitePoint", "red"}
                  \cup {Name[s] : s \in Settings} \cup {settings[s] : s \in Settings}
                  \cup {ToString(settings[s]) : s \in Settings}
<1>1. /\ QUOTE \in S /\ ":" \in S /\ BLANK \in S /\ COMMA \in S /\ LBRACE \in S /\ RBRACE \in S
      /\ "." \in S /\ "0" \in S /\ "1" \in S /\ "whitePoint" \in S /\ "red" \in S
      /\ \A s \in Settings : Name[s] \in S /\ settings[s] \in S /\ ToString(settings[s]) \in S
  OBVIOUS
<1> HIDE DEF S
<1>2. ASSUME NEW s \in Settings
      PROVE  Of(s) \in Seq(S)
  <2>1. CASE s \in DOMAIN settings
    <3>1. MemberText(s, settings[s]) \in Seq(S)
      <4>1. {QUOTE, ":", BLANK, COMMA, ".", "0", Name[s], settings[s], ToString(settings[s])} \subseteq S
        BY <1>1
      <4> QED
        BY <4>1, MemberTextType
    <3> QED
      BY <2>1, <3>1
  <2>2. CASE s \notin DOMAIN settings
    <3>1. Of(s) = <<>>
      BY <2>2
    <3>2. <<>> \in Seq(S)
      OBVIOUS
    <3> HIDE DEF Of
    <3> QED
      BY <3>1, <3>2
  <2> QED
    BY <2>1, <2>2
<1>3. /\ Of("demo") \in Seq(S) /\ Of("order") \in Seq(S) /\ Of("tcp") \in Seq(S)
      /\ Of("dithering") \in Seq(S) /\ Of("power") \in Seq(S)
  BY <1>2 DEF Settings
<1>4. /\ <<LBRACE, BLANK>> \in Seq(S) /\ <<":", BLANK, LBRACE>> \in Seq(S)
      /\ <<":", BLANK, "1", RBRACE>> \in Seq(S) /\ <<BLANK, RBRACE, BLANK>> \in Seq(S)
      /\ Quoted("whitePoint") \in Seq(S) /\ Quoted("red") \in Seq(S)
  BY <1>1 DEF Quoted
<1>5. Printed(settings) =
        <<LBRACE, BLANK>> \o Of("demo") \o Of("order") \o Of("tcp") \o Of("dithering") \o Of("power")
        \o Quoted("whitePoint") \o <<":", BLANK, LBRACE>> \o Quoted("red") \o <<":", BLANK, "1", RBRACE>>
        \o <<BLANK, RBRACE, BLANK>>
  BY DEF Printed
<1> HIDE DEF Of
<1>6. <<LBRACE, BLANK>> \o Of("demo") \o Of("order") \o Of("tcp") \o Of("dithering") \o Of("power") \in Seq(S)
  BY <1>3, <1>4
<1>7. \A a \in Seq(S) :
        a \o Quoted("whitePoint") \o <<":", BLANK, LBRACE>> \o Quoted("red") \o <<":", BLANK, "1", RBRACE>>
          \o <<BLANK, RBRACE, BLANK>> \in Seq(S)
  BY <1>4
<1>8. Printed(settings) \in Seq(S)
  BY <1>5, <1>6, <1>7
<1> QED
  BY <1>8

(* Every parse that is looked at is one of a text.                         *)
LEMMA ParsesAre ==
  ASSUME TextType, NEW f \in Parses
  PROVE  \E S : \E s \in Seq(S) : f = Doit(s)
<1>1. PICK s : f = Doit(s) /\ s \in {text, Printed(file.settings)}
  BY DEF Parses
<1>2. \E S : s \in Seq(S)
  BY <1>1, PrintedType DEF TextType
<1> QED
  BY <1>1, <1>2

(* No text that is cut off before its last brace is read: neither one that *)
(* was typed nor the file as a crash in the middle of writing leaves it.   *)
THEOREM CutOffIsRefused == TextSpec => []CutOffRefused
<1>1. TextType => CutOffRefused
  <2> SUFFICES ASSUME TextType, NEW f \in Parses, f.code = 0, NEW n \in 0 .. f.cur - 2
               PROVE  ~Accepted(SubSeq(f.s, 1, n))
    BY DEF CutOffRefused
  <2>1. PICK S, s : s \in Seq(S) /\ f = Doit(s)
    BY ParsesAre
  <2> QED
    BY <2>1, DoitText, CutOff
<1> QED
  BY <1>1, TextTypeInvariant, PTL

-----------------------------------------------------------------------------
(* The tokens are a tree: each spans its descendants.                      *)

(* The tokens as a tree: the last descendant of a token, and which tokens  *)
(* are being parsed.                                                       *)
Reach(tokens, i) == i + tokens[i].num_desc
IsOpen(f, i) == \E d \in 1 .. Len(f.open) : f.open[d] = i

Placed(f) ==
  \A i \in 1 .. Len(f.tokens) :
    /\ i <= f.tokens[i].ptr /\ f.tokens[i].ptr < f.cur
    /\ f.tokens[i].type # "eof"
    /\ f.tokens[i].num_desc >= 0 /\ Reach(f.tokens, i) <= Len(f.tokens)
    /\ f.tokens[i].type \notin Nested => f.tokens[i].num_desc = 0

Ordered(f) ==
  \A i, j \in 1 .. Len(f.tokens) : i < j => f.tokens[i].ptr < f.tokens[j].ptr

Stacked(f) ==
  /\ \A d \in 1 .. Len(f.open) :
       f.open[d] \in 1 .. Len(f.tokens) /\ f.tokens[f.open[d]].type \in Nested
  /\ \A d, e \in 1 .. Len(f.open) : d < e => f.open[d] < f.open[e]

(* A token that was closed has what its place spans for its descendants.   *)
Spans(f, i, j) ==
  IF j <= Reach(f.tokens, i)
  THEN /\ f.tokens[j].ptr < f.tokens[i].ptr + f.tokens[i].len
       /\ Reach(f.tokens, j) <= Reach(f.tokens, i)
       /\ ~IsOpen(f, j)
  ELSE f.tokens[j].ptr >= f.tokens[i].ptr + f.tokens[i].len

Whole(f) ==
  \A i \in 1 .. Len(f.tokens) : ~IsOpen(f, i) =>
    /\ f.tokens[i].len >= 0 /\ f.tokens[i].ptr + f.tokens[i].len <= f.cur
    /\ \A j \in i + 1 .. Len(f.tokens) : Spans(f, i, j)

Tree(f) == Placed(f) /\ Ordered(f) /\ Stacked(f) /\ Whole(f)

(* A sequence with one more.                                               *)
LEMMA AppendIs ==
  ASSUME NEW T, NEW q \in Seq(T), NEW x \in T
  PROVE  /\ Append(q, x) \in Seq(T) /\ Len(q) \in Nat /\ Len(Append(q, x)) = Len(q) + 1
         /\ Append(q, x)[Len(q) + 1] = x
         /\ \A i \in 1 .. Len(q) : Append(q, x)[i] = q[i]
  OBVIOUS

(* The fields of a token.                                                  *)
LEMMA TokenFields ==
  ASSUME NEW tok \in Token
  PROVE  tok.ptr \in Nat /\ tok.len \in Int /\ tok.num_desc \in Int /\ tok.type \in Types
  BY DEF Token

(* A key grows the tokens as a value does.                                 *)
LEMMA KeyIsValue ==
  ASSUME NEW f, NEW g, KeyShape(f, g)
  PROVE  ValueShape(f, g)
<1>1. "string" \notin Nested \cup {"eof"}
  BY DEF Nested
<1> QED
  BY <1>1 DEF KeyShape, ValueShape, GrowsBy, IsLeaf

(* A token more is a leaf of the tree, or a node that is still open.       *)
LEMMA TreeGrows ==
  ASSUME NEW s, NEW f \in Parser(s), NEW g \in Parser(s), Tree(f), ValueShape(f, g)
  PROVE  Tree(g)
<1> DEFINE n == Len(f.tokens)
<1>1. /\ f.tokens \in Seq(Token) /\ f.open \in Seq(Nat) /\ g.open \in Seq(Nat)
      /\ f.cur \in Nat /\ g.cur \in Nat /\ n \in Nat
  BY DEF Parser
<1>2. PICK tok \in Token : g.tokens = Append(f.tokens, tok) /\ GrowsBy(f, g, n + 1, tok)
  BY DEF ValueShape
<1>3. g.cur > f.cur
  BY DEF ValueShape
<1>4. /\ Len(g.tokens) = n + 1 /\ g.tokens[n + 1] = tok
      /\ \A i \in 1 .. n : g.tokens[i] = f.tokens[i] /\ f.tokens[i] \in Token
  BY <1>1, <1>2, AppendIs
<1>5. \A i \in 1 .. n : Reach(g.tokens, i) = Reach(f.tokens, i)
  BY <1>4 DEF Reach
<1>6. /\ tok.ptr \in Nat /\ tok.len \in Int /\ tok.num_desc = 0 /\ tok.type \in Types
      /\ tok.ptr >= f.cur /\ tok.ptr < g.cur /\ tok.type # "eof"
      /\ Reach(g.tokens, n + 1) = n + 1
  <2>1. "eof" \notin Nested
    BY DEF Nested
  <2> QED
    BY <1>1, <1>2, <1>4, <2>1, TokenFields DEF GrowsBy, IsLeaf, IsBegun, Reach
<1>7. \/ /\ g.open = f.open /\ tok.type \notin Nested /\ tok.len >= 0 /\ tok.ptr + tok.len <= g.cur
      \/ g.open = Append(f.open, n + 1) /\ tok.type \in Nested
  BY <1>2 DEF GrowsBy, IsLeaf, IsBegun
<1>8. \A i \in 1 .. n : IsOpen(g, i) <=> IsOpen(f, i)
  <2>1. CASE g.open = f.open
    BY <2>1 DEF IsOpen
  <2>2. CASE g.open = Append(f.open, n + 1)
    <3>1. /\ Len(f.open) \in Nat /\ Len(g.open) = Len(f.open) + 1 /\ g.open[Len(f.open) + 1] = n + 1
          /\ \A d \in 1 .. Len(f.open) : g.open[d] = f.open[d]
      BY <1>1, <2>2, AppendIs
    <3>2. ASSUME NEW i \in 1 .. n
          PROVE  IsOpen(g, i) <=> IsOpen(f, i)
      <4>1. i # n + 1
        BY <1>1
      <4>2. ASSUME IsOpen(g, i)
            PROVE  IsOpen(f, i)
        <5>1. PICK d \in 1 .. Len(g.open) : g.open[d] = i
          BY <4>2 DEF IsOpen
        <5>2. d \in 1 .. Len(f.open)
          BY <3>1, <4>1, <5>1
        <5> QED
          BY <3>1, <5>1, <5>2 DEF IsOpen
      <4>3. ASSUME IsOpen(f, i)
            PROVE  IsOpen(g, i)
        <5>1. PICK d \in 1 .. Len(f.open) : f.open[d] = i
          BY <4>3 DEF IsOpen
        <5>2. d \in 1 .. Len(g.open)
          BY <3>1, <5>1
        <5> QED
          BY <3>1, <5>1, <5>2 DEF IsOpen
      <4> QED
        BY <4>2, <4>3
    <3> QED
      BY <3>2
  <2> QED
    BY <1>7, <2>1, <2>2
<1>9. Placed(f) /\ Ordered(f) /\ Stacked(f) /\ Whole(f)
  BY DEF Tree
<1> HIDE DEF n
<1>10. \A i \in 1 .. n : /\ i <= f.tokens[i].ptr /\ f.tokens[i].ptr < f.cur
                         /\ f.tokens[i].ptr \in Nat /\ f.tokens[i].len \in Int /\ f.tokens[i].num_desc \in Nat
                         /\ Reach(f.tokens, i) <= n /\ Reach(f.tokens, i) \in Nat
  <2> TAKE i \in 1 .. n
  <2>1. f.tokens[i].ptr \in Nat /\ f.tokens[i].len \in Int /\ f.tokens[i].num_desc \in Int
    BY <1>4, TokenFields
  <2> QED
    BY <1>1, <1>9, <2>1 DEF Placed, Reach, n
<1>11. n + 1 <= tok.ptr
  <2>1. CASE n = 0
    <3>1. f.cur >= 1
      BY DEF Parser
    <3> QED
      BY <1>1, <1>6, <2>1, <3>1
  <2>2. CASE n # 0
    <3>1. n \in 1 .. n
      BY <1>1, <2>2
    <3>2. n <= f.tokens[n].ptr /\ f.tokens[n].ptr < f.cur /\ f.tokens[n].ptr \in Nat
      BY <1>10, <3>1
    <3> QED
      BY <1>1, <1>6, <3>2
  <2> QED
    BY <2>1, <2>2
<1>12. Placed(g)
  <2> SUFFICES ASSUME NEW i \in 1 .. n + 1
               PROVE  /\ i <= g.tokens[i].ptr /\ g.tokens[i].ptr < g.cur
                      /\ g.tokens[i].type # "eof"
                      /\ g.tokens[i].num_desc >= 0 /\ Reach(g.tokens, i) <= n + 1
                      /\ g.tokens[i].type \notin Nested => g.tokens[i].num_desc = 0
    BY <1>4 DEF Placed
  <2>1. CASE i = n + 1
    BY <1>1, <1>4, <1>6, <1>11, <2>1
  <2>2. CASE i \in 1 .. n
    <3>1. /\ i <= f.tokens[i].ptr /\ f.tokens[i].ptr < f.cur
          /\ f.tokens[i].type # "eof"
          /\ f.tokens[i].num_desc >= 0 /\ Reach(f.tokens, i) <= n
          /\ f.tokens[i].type \notin Nested => f.tokens[i].num_desc = 0
      BY <1>9, <2>2 DEF Placed, n
    <3>2. g.tokens[i] = f.tokens[i] /\ Reach(g.tokens, i) = Reach(f.tokens, i)
      BY <1>4, <1>5, <2>2
    <3>3. f.tokens[i].ptr \in Nat /\ Reach(f.tokens, i) \in Nat
      BY <1>10, <2>2
    <3>4. f.cur \in Nat /\ g.cur \in Nat /\ n \in Nat
      BY <1>1
    <3>5. f.tokens[i].ptr < g.cur /\ Reach(f.tokens, i) <= n + 1
      BY <1>3, <3>1, <3>3, <3>4
    <3> QED
      BY <3>1, <3>2, <3>5
  <2> QED
    BY <1>1, <2>1, <2>2
<1>13. Ordered(g)
  <2> SUFFICES ASSUME NEW i \in 1 .. n + 1, NEW j \in 1 .. n + 1, i < j
               PROVE  g.tokens[i].ptr < g.tokens[j].ptr
    BY <1>4 DEF Ordered
  <2>1. i \in 1 .. n
    BY <1>1
  <2>2. CASE j = n + 1
    <3>1. g.tokens[i] = f.tokens[i] /\ f.tokens[i].ptr \in Nat /\ f.tokens[i].ptr < f.cur
      BY <1>4, <1>10, <2>1
    <3>2. g.tokens[j].ptr = tok.ptr
      BY <1>4, <2>2
    <3>3. tok.ptr >= f.cur /\ tok.ptr \in Nat /\ f.cur \in Nat
      BY <1>1, <1>6
    <3>4. f.tokens[i].ptr < tok.ptr
      BY <3>1, <3>3
    <3> QED
      BY <3>1, <3>2, <3>4
  <2>3. CASE j \in 1 .. n
    <3>1. f.tokens[i].ptr < f.tokens[j].ptr
      BY <1>9, <2>1, <2>3 DEF Ordered, n
    <3>2. g.tokens[i] = f.tokens[i] /\ g.tokens[j] = f.tokens[j]
      BY <1>4, <2>1, <2>3
    <3> QED
      BY <3>1, <3>2
  <2>4. n \in Nat
    BY <1>1
  <2>5. j = n + 1 \/ j \in 1 .. n
    BY <2>4
  <2> QED
    BY <2>2, <2>3, <2>5
<1>14. Stacked(g)
  <2>1. CASE g.open = f.open
    <3>1. 1 .. n \subseteq 1 .. n + 1
      BY <1>1
    <3> QED
      BY <1>4, <1>9, <2>1, <3>1 DEF Stacked, n
  <2>2. CASE g.open = Append(f.open, n + 1) /\ tok.type \in Nested
    <3>1. /\ Len(f.open) \in Nat /\ Len(g.open) = Len(f.open) + 1 /\ g.open[Len(f.open) + 1] = n + 1
          /\ \A d \in 1 .. Len(f.open) : g.open[d] = f.open[d]
      BY <1>1, <2>2, AppendIs
    <3>2. \A d \in 1 .. Len(f.open) : f.open[d] \in 1 .. n /\ f.tokens[f.open[d]].type \in Nested
      BY <1>9 DEF Stacked, n
    <3>3. ASSUME NEW d \in 1 .. Len(g.open)
          PROVE  g.open[d] \in 1 .. n + 1 /\ g.tokens[g.open[d]].type \in Nested
      <4>1. CASE d = Len(f.open) + 1
        BY <1>1, <1>4, <2>2, <3>1, <4>1
      <4>2. CASE d \in 1 .. Len(f.open)
        <5>1. g.open[d] = f.open[d] /\ f.open[d] \in 1 .. n /\ f.tokens[f.open[d]].type \in Nested
          BY <3>1, <3>2, <4>2
        <5>2. g.tokens[f.open[d]] = f.tokens[f.open[d]] /\ f.open[d] \in 1 .. n + 1
          <6>1. \A k \in 1 .. n : g.tokens[k] = f.tokens[k]
            BY <1>4
          <6>2. \A k \in 1 .. n : k \in 1 .. n + 1
            BY <1>1
          <6> QED
            BY <5>1, <6>1, <6>2
        <5> QED
          BY <5>1, <5>2
      <4> QED
        BY <3>1, <4>1, <4>2
    <3>4. ASSUME NEW d \in 1 .. Len(g.open), NEW e \in 1 .. Len(g.open), d < e
          PROVE  g.open[d] < g.open[e]
      <4>1. d \in 1 .. Len(f.open)
        BY <3>1, <3>4
      <4>2. CASE e = Len(f.open) + 1
        <5>1. g.open[d] = f.open[d] /\ f.open[d] \in 1 .. n
          BY <3>1, <3>2, <4>1
        <5>2. g.open[e] = n + 1
          BY <3>1, <4>2
        <5>3. n \in Nat
          BY <1>1
        <5>4. f.open[d] < n + 1
          BY <5>1, <5>3
        <5> QED
          BY <5>1, <5>2, <5>4
      <4>3. CASE e \in 1 .. Len(f.open)
        BY <1>9, <3>1, <3>4, <4>1, <4>3 DEF Stacked
      <4> QED
        BY <3>1, <4>2, <4>3
    <3> QED
      BY <1>4, <3>3, <3>4 DEF Stacked
  <2> QED
    BY <1>7, <2>1, <2>2
<1>15. Whole(g)
  <2> SUFFICES ASSUME NEW i \in 1 .. n + 1, ~IsOpen(g, i)
               PROVE  /\ g.tokens[i].len >= 0 /\ g.tokens[i].ptr + g.tokens[i].len <= g.cur
                      /\ \A j \in i + 1 .. n + 1 : Spans(g, i, j)
    BY <1>4 DEF Whole
  <2>1. CASE i = n + 1
    <3>1. g.open # Append(f.open, n + 1)
      <4> SUFFICES ASSUME g.open = Append(f.open, n + 1) PROVE FALSE
        OBVIOUS
      <4>1. Len(g.open) = Len(f.open) + 1 /\ g.open[Len(f.open) + 1] = n + 1 /\ Len(f.open) \in Nat
        BY <1>1, AppendIs
      <4>2. Len(f.open) + 1 \in 1 .. Len(g.open)
        BY <4>1
      <4> QED
        BY <2>1, <4>1, <4>2 DEF IsOpen
    <3>2. i + 1 .. n + 1 = {}
      BY <1>1, <2>1
    <3> QED
      BY <1>4, <1>7, <2>1, <3>1, <3>2
  <2>2. CASE i \in 1 .. n
    <3>1. /\ f.tokens[i].len >= 0 /\ f.tokens[i].ptr + f.tokens[i].len <= f.cur
          /\ \A j \in i + 1 .. n : Spans(f, i, j)
      BY <1>8, <1>9, <2>2 DEF Whole, n
    <3>2. ASSUME NEW j \in i + 1 .. n + 1
          PROVE  Spans(g, i, j)
      <4>1. CASE j = n + 1
        <5>1. /\ g.tokens[i] = f.tokens[i] /\ g.tokens[j] = tok
              /\ Reach(g.tokens, i) = Reach(f.tokens, i)
          BY <1>4, <1>5, <2>2, <4>1
        <5>2. f.tokens[i].ptr \in Nat /\ f.tokens[i].len \in Int /\ Reach(f.tokens, i) \in Nat
              /\ Reach(f.tokens, i) <= n
          BY <1>10, <2>2
        <5>3. ~(j <= Reach(g.tokens, i))
          BY <1>1, <4>1, <5>1, <5>2
        <5>4. tok.ptr >= f.tokens[i].ptr + f.tokens[i].len
          <6>1. tok.ptr >= f.cur /\ f.tokens[i].ptr + f.tokens[i].len <= f.cur
            BY <1>6, <3>1
          <6>2. f.cur \in Int /\ tok.ptr \in Int /\ f.tokens[i].ptr + f.tokens[i].len \in Int
            <7>1. \A a, b \in Int : a + b \in Int
              OBVIOUS
            <7>2. f.tokens[i].ptr \in Int /\ f.tokens[i].len \in Int
              BY <5>2
            <7>3. f.cur \in Int /\ tok.ptr \in Int
              BY <1>1, <1>6
            <7> QED
              BY <7>1, <7>2, <7>3
          <6> QED
            BY <6>1, <6>2
        <5> QED
          BY <5>1, <5>3, <5>4 DEF Spans
      <4>2. CASE j \in i + 1 .. n
        <5>1. Spans(f, i, j) /\ j \in 1 .. n
          BY <1>1, <2>2, <3>1, <4>2
        <5> QED
          BY <1>4, <1>5, <1>8, <2>2, <5>1 DEF Spans
      <4> QED
        BY <1>1, <2>2, <4>1, <4>2
    <3>3. g.tokens[i] = f.tokens[i] /\ f.tokens[i].ptr \in Nat /\ f.tokens[i].len \in Int
      BY <1>4, <1>10, <2>2
    <3> QED
      BY <1>1, <1>3, <3>1, <3>2, <3>3
  <2> QED
    BY <1>1, <2>1, <2>2
<1> QED
  BY <1>12, <1>13, <1>14, <1>15 DEF Tree

(* Closing what is innermost.                                              *)
LEMMA ClosedTokens ==
  ASSUME NEW s, NEW f \in Parser(s), NEW g \in Parser(s), Tree(f), f.open # <<>>, ClosedShape(f, g)
  PROVE  LET c == Last(f.open)
             n == Len(f.tokens)
         IN  /\ c \in 1 .. n /\ c = f.open[Len(f.open)] /\ IsOpen(f, c)
             /\ Len(g.tokens) = n /\ n \in Nat
             /\ \A i \in 1 .. n : i # c => g.tokens[i] = f.tokens[i]
             /\ g.tokens[c].type = f.tokens[c].type /\ g.tokens[c].ptr = f.tokens[c].ptr
             /\ g.tokens[c].num_desc = n - c
             /\ g.tokens[c].ptr + g.tokens[c].len \in f.cur + 1 .. g.cur
             /\ \A i \in c + 1 .. n : ~IsOpen(f, i)
             /\ Len(f.open) \in Nat \ {0} /\ Len(g.open) = Len(f.open) - 1
             /\ \A d \in 1 .. Len(g.open) : g.open[d] = f.open[d]
             /\ \A i \in 1 .. n : IsOpen(g, i) <=> IsOpen(f, i) /\ i # c
<1> DEFINE c == Last(f.open)
           n == Len(f.tokens)
           m == Len(f.open)
<1>1. f.tokens \in Seq(Token) /\ f.open \in Seq(Nat) /\ n \in Nat /\ f.cur \in Nat /\ g.cur \in Nat
  BY DEF Parser
<1>2. /\ g.open = Front(f.open) /\ Len(g.open) = m - 1 /\ m \in Nat \ {0} /\ c = f.open[m]
      /\ \A d \in 1 .. m - 1 : g.open[d] = f.open[d]
  <2>1. g.open = Front(f.open)
    BY DEF ClosedShape
  <2>2. /\ Len(Front(f.open)) = Len(f.open) - 1
        /\ \A i \in 1 .. Len(f.open) - 1 : Front(f.open)[i] = f.open[i]
        /\ Len(f.open) \in Nat \ {0} /\ Last(f.open) = f.open[Len(f.open)]
    BY <1>1, FrontType
  <2> QED
    BY <2>1, <2>2
<1>3. PICK p \in f.cur + 1 .. g.cur : g.tokens = [f.tokens EXCEPT ![c] = ClosedAt(f, c, p)]
  BY DEF ClosedShape
<1>4. /\ \A d \in 1 .. m : f.open[d] \in 1 .. n /\ f.tokens[f.open[d]].type \in Nested
      /\ \A d, e \in 1 .. m : d < e => f.open[d] < f.open[e]
  BY DEF Tree, Stacked
<1> HIDE DEF c, n, m
<1>5. m \in 1 .. m /\ c \in 1 .. n
  BY <1>2, <1>4
<1>6. IsOpen(f, c)
  BY <1>2, <1>5 DEF IsOpen, m
<1>7. /\ Len(g.tokens) = n /\ g.tokens[c] = ClosedAt(f, c, p)
      /\ \A i \in 1 .. n : i # c => g.tokens[i] = f.tokens[i]
  <2>1. DOMAIN f.tokens = 1 .. n
    BY <1>1 DEF n
  <2>2. g.tokens \in Seq(Token) /\ DOMAIN g.tokens = 1 .. n
    BY <1>3, <2>1 DEF Parser
  <2>3. Len(g.tokens) = n
    BY <1>1, <2>2
  <2> QED
    BY <1>3, <1>5, <2>1, <2>3
<1>8. f.tokens[c] \in Token /\ f.tokens[c].ptr \in Nat
  BY <1>1, <1>5, TokenFields DEF n
<1>9. /\ g.tokens[c].type = f.tokens[c].type /\ g.tokens[c].ptr = f.tokens[c].ptr
      /\ g.tokens[c].num_desc = n - c /\ g.tokens[c].len = p - f.tokens[c].ptr
  <2>1. ASSUME NEW tok \in Token, NEW a, NEW b
        PROVE  /\ [tok EXCEPT !.len = a, !.num_desc = b].type = tok.type
               /\ [tok EXCEPT !.len = a, !.num_desc = b].ptr = tok.ptr
               /\ [tok EXCEPT !.len = a, !.num_desc = b].len = a
               /\ [tok EXCEPT !.len = a, !.num_desc = b].num_desc = b
    BY <2>1 DEF Token
  <2> QED
    BY <1>7, <1>8, <2>1 DEF ClosedAt, n
<1>10. g.tokens[c].ptr + g.tokens[c].len = p
  BY <1>1, <1>8, <1>9
<1>11. \A d \in 1 .. m : f.open[d] <= c /\ (f.open[d] = c => d = m)
  <2> TAKE d \in 1 .. m
  <2>1. d = m \/ d < m
    BY <1>2
  <2>2. f.open[d] \in Nat /\ c \in Nat
    BY <1>4, <1>5
  <2> QED
    BY <1>2, <1>4, <1>5, <2>1, <2>2
<1>12. \A i \in c + 1 .. n : ~IsOpen(f, i)
  BY <1>4, <1>5, <1>11 DEF IsOpen, m
<1>13. ASSUME NEW i \in 1 .. n
       PROVE  IsOpen(g, i) <=> IsOpen(f, i) /\ i # c
  <2>1. ASSUME IsOpen(g, i)
        PROVE  IsOpen(f, i) /\ i # c
    <3>1. PICK d \in 1 .. m - 1 : g.open[d] = i
      BY <1>2, <2>1 DEF IsOpen
    <3>2. d \in 1 .. m /\ f.open[d] = i /\ d # m
      BY <1>2, <3>1
    <3> QED
      BY <1>11, <3>2 DEF IsOpen, m
  <2>2. ASSUME IsOpen(f, i), i # c
        PROVE  IsOpen(g, i)
    <3>1. PICK d \in 1 .. m : f.open[d] = i
      BY <2>2 DEF IsOpen, m
    <3>2. d # m
      BY <1>2, <2>2, <3>1
    <3>3. d \in 1 .. m - 1
      BY <1>2, <3>2
    <3> QED
      BY <1>2, <3>1, <3>3 DEF IsOpen
  <2> QED
    BY <2>1, <2>2
<1> QED
  BY <1>1, <1>2, <1>3, <1>5, <1>6, <1>7, <1>9, <1>10, <1>12, <1>13 DEF c, n, m

(* The token that closes spans all that came after it.                     *)
LEMMA TreeCloses ==
  ASSUME NEW s, NEW f \in Parser(s), NEW g \in Parser(s), Tree(f), f.open # <<>>, ClosedShape(f, g)
  PROVE  Tree(g)
<1> DEFINE c == Last(f.open)
           n == Len(f.tokens)
<1>1. /\ c \in 1 .. n /\ c = f.open[Len(f.open)] /\ IsOpen(f, c)
      /\ Len(g.tokens) = n /\ n \in Nat
      /\ \A i \in 1 .. n : i # c => g.tokens[i] = f.tokens[i]
      /\ g.tokens[c].type = f.tokens[c].type /\ g.tokens[c].ptr = f.tokens[c].ptr
      /\ g.tokens[c].num_desc = n - c
      /\ g.tokens[c].ptr + g.tokens[c].len \in f.cur + 1 .. g.cur
      /\ \A i \in c + 1 .. n : ~IsOpen(f, i)
      /\ Len(f.open) \in Nat \ {0} /\ Len(g.open) = Len(f.open) - 1
      /\ \A d \in 1 .. Len(g.open) : g.open[d] = f.open[d]
      /\ \A i \in 1 .. n : IsOpen(g, i) <=> IsOpen(f, i) /\ i # c
  BY ClosedTokens
<1>2. Placed(f) /\ Ordered(f) /\ Stacked(f) /\ Whole(f)
  BY DEF Tree
<1>3. f.cur \in Nat /\ g.cur \in Nat /\ f.cur < g.cur
  BY DEF Parser, ClosedShape
<1>4. \A i \in 1 .. n :
        /\ f.tokens[i].ptr \in Nat /\ f.tokens[i].len \in Int /\ f.tokens[i].num_desc \in Int
        /\ g.tokens[i].ptr \in Nat /\ g.tokens[i].len \in Int /\ g.tokens[i].num_desc \in Int
  <2>0. f.tokens \in Seq(Token) /\ g.tokens \in Seq(Token)
    BY DEF Parser
  <2>1. \A i \in 1 .. n : f.tokens[i] \in Token /\ g.tokens[i] \in Token
    <3> HIDE DEF c
    <3> QED
      BY <1>1, <2>0
  <2> QED
    BY <2>1, TokenFields
<1> HIDE DEF c, n
<1>5. /\ f.cur + 1 <= g.tokens[c].ptr + g.tokens[c].len /\ g.tokens[c].ptr + g.tokens[c].len <= g.cur
      /\ n - c >= 0
  <2>1. n \in Nat /\ c \in 1 .. n /\ g.tokens[c].ptr + g.tokens[c].len \in f.cur + 1 .. g.cur
    BY <1>1
  <2>2. g.tokens[c].ptr \in Nat /\ g.tokens[c].len \in Int
    BY <1>4, <2>1
  <2>3. n - c >= 0
    BY <2>1
  <2> QED
    BY <1>3, <2>1, <2>2, <2>3
<1>6. \A i \in 1 .. n : g.tokens[i].ptr = f.tokens[i].ptr /\ g.tokens[i].type = f.tokens[i].type
  BY <1>1
<1>7. \A i \in 1 .. n : i # c => Reach(g.tokens, i) = Reach(f.tokens, i)
  BY <1>1 DEF Reach
<1>8. Reach(g.tokens, c) = n
  BY <1>1 DEF Reach
<1>9. f.tokens[c].type \in Nested
  <2>1. Len(f.open) \in 1 .. Len(f.open)
    BY <1>1
  <2> QED
    BY <1>1, <1>2, <2>1 DEF Stacked
<1>10. Placed(g)
  <2> SUFFICES ASSUME NEW i \in 1 .. n
               PROVE  /\ i <= g.tokens[i].ptr /\ g.tokens[i].ptr < g.cur
                      /\ g.tokens[i].type # "eof"
                      /\ g.tokens[i].num_desc >= 0 /\ Reach(g.tokens, i) <= n
                      /\ g.tokens[i].type \notin Nested => g.tokens[i].num_desc = 0
    BY <1>1 DEF Placed
  <2>1. /\ i <= f.tokens[i].ptr /\ f.tokens[i].ptr < f.cur
        /\ f.tokens[i].type # "eof"
        /\ f.tokens[i].num_desc >= 0 /\ Reach(f.tokens, i) <= n
        /\ f.tokens[i].type \notin Nested => f.tokens[i].num_desc = 0
    BY <1>2 DEF Placed, n
  <2>2. f.tokens[i].ptr \in Nat /\ g.tokens[i].ptr = f.tokens[i].ptr /\ g.tokens[i].type = f.tokens[i].type
    BY <1>4, <1>6
  <2>3. CASE i = c
    <3>1. g.tokens[i].num_desc = n - c /\ Reach(g.tokens, i) = n /\ g.tokens[i].type \in Nested
      BY <1>1, <1>8, <1>9, <2>2, <2>3
    <3>2. g.tokens[i].num_desc >= 0
      BY <1>5, <3>1
    <3>3. f.tokens[i].ptr < g.cur
      BY <1>3, <2>1, <2>2
    <3>4. g.tokens[i].type # "eof"
      BY <2>1, <2>2
    <3> QED
      BY <1>1, <2>1, <2>2, <3>1, <3>2, <3>3, <3>4
  <2>4. CASE i # c
    <3>1. g.tokens[i] = f.tokens[i] /\ Reach(g.tokens, i) = Reach(f.tokens, i)
      BY <1>1, <1>7, <2>4
    <3> QED
      BY <1>3, <2>1, <2>2, <3>1
  <2> QED
    BY <2>3, <2>4
<1>11. Ordered(g)
  BY <1>1, <1>2, <1>6 DEF Ordered, n
<1>12. Stacked(g)
  <2>1. 1 .. Len(g.open) \subseteq 1 .. Len(f.open)
    BY <1>1
  <2>2. \A d \in 1 .. Len(g.open) : g.open[d] \in 1 .. n /\ g.tokens[g.open[d]].type \in Nested
    <3> TAKE d \in 1 .. Len(g.open)
    <3>1. d \in 1 .. Len(f.open)
      BY <2>1
    <3>2. f.open[d] \in 1 .. n /\ f.tokens[f.open[d]].type \in Nested
      BY <1>2, <3>1 DEF Stacked, n
    <3>3. g.open[d] = f.open[d]
      BY <1>1
    <3>4. g.tokens[f.open[d]].type = f.tokens[f.open[d]].type
      BY <1>6, <3>2
    <3> QED
      BY <3>2, <3>3, <3>4
  <2>3. \A d, e \in 1 .. Len(g.open) : d < e => g.open[d] < g.open[e]
    BY <1>1, <1>2, <2>1 DEF Stacked
  <2> QED
    BY <1>1, <2>2, <2>3 DEF Stacked
<1>13. Whole(g)
  <2> SUFFICES ASSUME NEW i \in 1 .. n, ~IsOpen(g, i)
               PROVE  /\ g.tokens[i].len >= 0 /\ g.tokens[i].ptr + g.tokens[i].len <= g.cur
                      /\ \A j \in i + 1 .. n : Spans(g, i, j)
    BY <1>1 DEF Whole
  <2>0. \A j \in 1 .. n : f.tokens[j].ptr < f.cur /\ Reach(f.tokens, j) <= n
    BY <1>2 DEF Placed, n
  <2>1. CASE i = c
    <3>1. g.tokens[c].len >= 0 /\ g.tokens[c].ptr + g.tokens[c].len <= g.cur
      <4>1. /\ f.tokens[c].ptr < f.cur /\ f.tokens[c].ptr \in Nat /\ g.tokens[c].len \in Int
            /\ g.tokens[c].ptr = f.tokens[c].ptr
        BY <1>1, <1>4, <2>0
      <4> QED
        BY <1>5, <1>3, <4>1
    <3>2. ASSUME NEW j \in c + 1 .. n
          PROVE  Spans(g, c, j)
      <4>1. j \in 1 .. n /\ j # c /\ j <= n
        BY <1>1
      <4>2. g.tokens[j].ptr < g.tokens[c].ptr + g.tokens[c].len
        <5>1. g.tokens[j].ptr = f.tokens[j].ptr /\ f.tokens[j].ptr < f.cur /\ f.tokens[j].ptr \in Nat
          BY <1>4, <1>6, <2>0, <4>1
        <5> QED
          <6>1. g.tokens[c].ptr + g.tokens[c].len \in Int
            BY <1>1, <1>3
          <6> QED
            BY <1>5, <1>3, <5>1, <6>1
      <4>3. Reach(g.tokens, j) <= Reach(g.tokens, c)
        BY <1>7, <1>8, <2>0, <4>1
      <4>4. ~IsOpen(g, j)
        BY <1>1, <4>1
      <4> QED
        BY <1>8, <4>1, <4>2, <4>3, <4>4 DEF Spans
    <3> QED
      BY <2>1, <3>1, <3>2
  <2>2. CASE i # c
    <3>1. ~IsOpen(f, i)
      BY <1>1, <2>2
    <3>2. /\ f.tokens[i].len >= 0 /\ f.tokens[i].ptr + f.tokens[i].len <= f.cur
          /\ \A j \in i + 1 .. n : Spans(f, i, j)
      BY <1>2, <3>1 DEF Whole, n
    <3>3. g.tokens[i] = f.tokens[i] /\ Reach(g.tokens, i) = Reach(f.tokens, i)
      BY <1>1, <1>7, <2>2
    <3>4. ASSUME NEW j \in i + 1 .. n
          PROVE  Spans(g, i, j)
      <4>1. Spans(f, i, j) /\ j \in 1 .. n
        BY <1>1, <3>2
      <4>2. CASE j <= Reach(f.tokens, i)
        <5>1. ~IsOpen(f, j) /\ f.tokens[j].ptr < f.tokens[i].ptr + f.tokens[i].len
              /\ Reach(f.tokens, j) <= Reach(f.tokens, i)
          BY <4>1, <4>2 DEF Spans
        <5>2. j # c
          BY <1>1, <5>1
        <5> QED
          BY <1>1, <1>6, <1>7, <3>3, <4>1, <4>2, <5>1, <5>2 DEF Spans
      <4>3. CASE ~(j <= Reach(f.tokens, i))
        BY <1>6, <3>3, <4>1, <4>3 DEF Spans
      <4> QED
        BY <4>2, <4>3
    <3> QED
      BY <1>3, <1>4, <3>2, <3>3, <3>4
  <2> QED
    BY <2>1, <2>2
<1> QED
  BY <1>10, <1>11, <1>12, <1>13 DEF Tree

-----------------------------------------------------------------------------
(* The members of an object are a chain of keys.                           *)

(* The keys K of an object whose tokens are first .. last: each is         *)
(* followed, after its value and what is inside it, by the next.           *)
Following(tokens, i) == i + 2 + tokens[i + 1].num_desc

Chain(tokens, first, last, K) ==
  /\ K \subseteq first .. last
  /\ first \in K \cup {last + 1}
  /\ \A i \in K :
       /\ tokens[i].type = "string" /\ tokens[i].num_desc = 0 /\ i + 1 <= last
       /\ Following(tokens, i) \in K \cup {last + 1}
       /\ \A k \in K : i < k => Following(tokens, i) <= k
  /\ \A j \in first .. last : \E i \in K : i <= j /\ j < Following(tokens, i)

Keyed(tokens, o, last) == \E K : Chain(tokens, o + 1, last, K)

(* An object in which one is open has that one for the value of its last   *)
(* key.                                                                    *)
Pending(tokens, o, c) ==
  /\ c - 1 > o
  /\ tokens[c - 1].type = "string" /\ tokens[c - 1].num_desc = 0
  /\ Keyed(tokens, o, c - 2)

Objects(f) ==
  /\ Len(f.tokens) >= 1 /\ f.tokens[1].type = "object"
  /\ \A o \in 1 .. Len(f.tokens) :
       f.tokens[o].type = "object" /\ ~IsOpen(f, o) => Keyed(f.tokens, o, Reach(f.tokens, o))
  /\ \A d \in 1 .. Len(f.open) : f.tokens[f.open[d]].type = "object" =>
       /\ d = Len(f.open) => Keyed(f.tokens, f.open[d], Len(f.tokens))
       /\ d # Len(f.open) => Pending(f.tokens, f.open[d], f.open[d + 1])

(* An object without tokens has no keys.                                   *)
LEMMA NoKeys ==
  ASSUME NEW tokens, NEW o \in Nat
  PROVE  Keyed(tokens, o, o)
<1>1. o + 1 .. o = {}
  OBVIOUS
<1>2. Chain(tokens, o + 1, o, {})
  BY <1>1 DEF Chain
<1> QED
  BY <1>2 DEF Keyed

(* The chain depends on no token beyond it.                                *)
LEMMA SameChain ==
  ASSUME NEW tokens, NEW tokens2, NEW o \in Nat, NEW last \in Nat,
         \A i \in o + 1 .. last : tokens2[i] = tokens[i],
         Keyed(tokens, o, last)
  PROVE  Keyed(tokens2, o, last)
<1>1. PICK K : Chain(tokens, o + 1, last, K)
  BY DEF Keyed
<1>2. K \subseteq o + 1 .. last
  BY <1>1 DEF Chain
<1>3. ASSUME NEW i \in K
      PROVE  /\ tokens2[i] = tokens[i] /\ Following(tokens2, i) = Following(tokens, i)
  <2>1. i \in o + 1 .. last /\ i + 1 <= last
    BY <1>1, <1>2 DEF Chain
  <2>2. i + 1 \in o + 1 .. last
    BY <2>1
  <2> QED
    BY <2>1, <2>2 DEF Following
<1>4. Chain(tokens2, o + 1, last, K)
  BY <1>1, <1>3 DEF Chain
<1> QED
  BY <1>4 DEF Keyed

(* A key and its value make the chain longer.                              *)
LEMMA LongerChain ==
  ASSUME NEW tokens, NEW tokens2, NEW o \in Nat, NEW last \in Nat, o <= last,
         \A i \in o + 1 .. last : tokens2[i] = tokens[i],
         tokens2[last + 1].type = "string", tokens2[last + 1].num_desc = 0,
         tokens2[last + 2].num_desc \in Nat,
         Keyed(tokens, o, last)
  PROVE  Keyed(tokens2, o, last + 2 + tokens2[last + 2].num_desc)
<1> DEFINE end == last + 2 + tokens2[last + 2].num_desc
<1>a. end \in Nat /\ end = last + 2 + tokens2[last + 2].num_desc
  OBVIOUS
<1> HIDE DEF end
<1>1. Keyed(tokens2, o, last)
  BY SameChain
<1>2. PICK K : Chain(tokens2, o + 1, last, K)
  BY <1>1 DEF Keyed
<1> DEFINE L == K \cup {last + 1}
<1>3. K \subseteq o + 1 .. last /\ \A i \in K : i \in Nat /\ i < last + 1
  BY <1>2 DEF Chain
<1>4. (last + 1) + 1 = last + 2
  OBVIOUS
<1>5. Following(tokens2, last + 1) = end + 1 /\ last + 2 <= end
  BY <1>a, <1>4 DEF Following
<1>6. L \subseteq o + 1 .. end
  BY <1>a, <1>3, <1>5
<1>7. o + 1 \in L \cup {end + 1}
  BY <1>2 DEF Chain
<1>8. ASSUME NEW i \in L
      PROVE  /\ tokens2[i].type = "string" /\ tokens2[i].num_desc = 0 /\ i + 1 <= end
             /\ Following(tokens2, i) \in L \cup {end + 1}
             /\ \A k \in L : i < k => Following(tokens2, i) <= k
  <2>1. CASE i = last + 1
    <3>1. \A k \in L : ~(last + 1 < k)
      <4>1. \A k \in K : ~(last + 1 < k)
        BY <1>3
      <4> QED
        BY <4>1
    <3> QED
      BY <1>a, <1>4, <1>5, <2>1, <3>1
  <2>2. CASE i \in K
    <3>1. /\ tokens2[i].type = "string" /\ tokens2[i].num_desc = 0 /\ i + 1 <= last
          /\ Following(tokens2, i) \in K \cup {last + 1}
          /\ \A k \in K : i < k => Following(tokens2, i) <= k
      BY <1>2, <2>2 DEF Chain
    <3>2. Following(tokens2, i) <= last + 1
      <4>1. CASE Following(tokens2, i) \in K
        <5>1. Following(tokens2, i) \in Nat /\ Following(tokens2, i) < last + 1
          BY <1>3, <4>1
        <5> QED
          BY <5>1
      <4>2. CASE Following(tokens2, i) = last + 1
        BY <4>2
      <4> QED
        BY <3>1, <4>1, <4>2
    <3>3. i + 1 <= end
      BY <1>a, <1>3, <1>5, <2>2, <3>1
    <3> QED
      BY <3>1, <3>2, <3>3
  <2> QED
    BY <2>1, <2>2
<1>9. ASSUME NEW j \in o + 1 .. end
      PROVE  \E i \in L : i <= j /\ j < Following(tokens2, i)
  <2>1. CASE j <= last
    <3>1. j \in o + 1 .. last
      BY <2>1
    <3> QED
      BY <1>2, <3>1 DEF Chain
  <2>2. CASE ~(j <= last)
    BY <1>a, <1>5, <2>2
  <2> QED
    BY <2>1, <2>2
<1>10. Chain(tokens2, o + 1, end, L)
  <2> HIDE DEF L
  <2> QED
    BY <1>6, <1>7, <1>8, <1>9 DEF Chain
<1> QED
  BY <1>10 DEF Keyed, end

(* So do a key and a value without descendants.                            *)
LEMMA LongerByLeaf ==
  ASSUME NEW tokens, NEW tokens2, NEW o \in Nat, NEW last \in Nat, o <= last,
         \A i \in o + 1 .. last : tokens2[i] = tokens[i],
         tokens2[last + 1].type = "string", tokens2[last + 1].num_desc = 0,
         tokens2[last + 2].num_desc = 0,
         Keyed(tokens, o, last)
  PROVE  Keyed(tokens2, o, last + 2)
<1>1. tokens2[last + 2].num_desc \in Nat /\ last + 2 + tokens2[last + 2].num_desc = last + 2
  OBVIOUS
<1>2. Keyed(tokens2, o, last + 2 + tokens2[last + 2].num_desc)
  BY <1>1, LongerChain
<1> QED
  BY <1>1, <1>2

(* One more value, after a key where the innermost is an object.           *)
LEMMA ObjectsGrow ==
  ASSUME NEW s, NEW f \in Parser(s), NEW g \in Parser(s), Tree(f), Objects(f), f.open # <<>>,
         NEW m \in {Len(f.tokens), Len(f.tokens) + 1}, NEW tok,
         Len(g.tokens) = m + 1, g.tokens[m + 1] = tok, tok.num_desc = 0,
         \A i \in 1 .. Len(f.tokens) : g.tokens[i] = f.tokens[i],
         f.tokens[Last(f.open)].type = "object" => m = Len(f.tokens) + 1,
         m = Len(f.tokens) + 1 =>
           g.tokens[Len(f.tokens) + 1].type = "string" /\ g.tokens[Len(f.tokens) + 1].num_desc = 0,
         \/ g.open = f.open /\ tok.type \notin Nested
         \/ g.open = Append(f.open, m + 1) /\ tok.type \in Nested
  PROVE  Objects(g)
<1> DEFINE n == Len(f.tokens)
           top == Last(f.open)
           e == Len(f.open)
<1>1. f.tokens \in Seq(Token) /\ f.open \in Seq(Nat) /\ n \in Nat /\ m \in Nat
  BY DEF Parser
<1>2. e \in Nat \ {0} /\ top = f.open[e] /\ e \in 1 .. e
  <2>1. Len(f.open) \in Nat \ {0} /\ Last(f.open) = f.open[Len(f.open)]
    BY <1>1, FrontType
  <2> QED
    BY <2>1
<1>3. /\ n >= 1 /\ f.tokens[1].type = "object"
      /\ \A o \in 1 .. n :
           f.tokens[o].type = "object" /\ ~IsOpen(f, o) => Keyed(f.tokens, o, Reach(f.tokens, o))
      /\ \A d \in 1 .. e : f.tokens[f.open[d]].type = "object" =>
           /\ d = e => Keyed(f.tokens, f.open[d], n)
           /\ d # e => Pending(f.tokens, f.open[d], f.open[d + 1])
  BY DEF Objects
<1>4. /\ \A d \in 1 .. e : f.open[d] \in 1 .. n
      /\ \A c, d \in 1 .. e : c < d => f.open[c] < f.open[d]
  BY DEF Tree, Stacked
<1>5. \A i \in 1 .. n : f.tokens[i].num_desc \in Nat /\ Reach(f.tokens, i) <= n
  <2> TAKE i \in 1 .. n
  <2>1. f.tokens[i] \in Token
    BY <1>1
  <2>2. f.tokens[i].num_desc \in Int
    BY <2>1, TokenFields
  <2> QED
    BY <2>2 DEF Tree, Placed
<1>6. \A i \in 1 .. n : g.tokens[i] = f.tokens[i]
  OBVIOUS
<1> HIDE DEF n, top, e
<1>7. \A d \in 1 .. e : g.open[d] = f.open[d]
  <2>1. CASE g.open = f.open
    BY <2>1
  <2>2. CASE g.open = Append(f.open, m + 1)
    BY <1>1, <2>2, AppendIs DEF e
  <2> QED
    BY <2>1, <2>2
<1>8. \/ g.open = f.open /\ Len(g.open) = e /\ tok.type \notin Nested
      \/ Len(g.open) = e + 1 /\ g.open[e + 1] = m + 1 /\ tok.type \in Nested
  <2>1. CASE g.open = f.open /\ tok.type \notin Nested
    BY <2>1 DEF e
  <2>2. CASE g.open = Append(f.open, m + 1) /\ tok.type \in Nested
    BY <1>1, <2>2, AppendIs DEF e
  <2> QED
    BY <2>1, <2>2
<1>9. g.tokens[1].type = "object" /\ Len(g.tokens) >= 1
  <2>1. 1 \in 1 .. n
    BY <1>1, <1>3
  <2> QED
    BY <1>1, <1>3, <1>6, <2>1
<1>10. ASSUME NEW o \in 1 .. m + 1, g.tokens[o].type = "object", ~IsOpen(g, o)
       PROVE  Keyed(g.tokens, o, Reach(g.tokens, o))
  <2>1. o # m + 1
    <3> SUFFICES ASSUME o = m + 1 PROVE FALSE
      OBVIOUS
    <3>1. tok.type \in Nested
      BY <1>10 DEF Nested
    <3>2. Len(g.open) = e + 1 /\ g.open[e + 1] = o
      BY <1>8, <3>1
    <3>3. e + 1 \in 1 .. Len(g.open)
      BY <1>2, <3>2
    <3> QED
      BY <1>10, <3>2, <3>3 DEF IsOpen
  <2>2. ~(m = n + 1 /\ o = n + 1)
    BY <1>10 DEF n
  <2>3. o \in 1 .. n
    <3>1. m = n \/ m = n + 1
      BY DEF n
    <3> QED
      BY <1>1, <2>1, <2>2, <3>1
  <2>4. ~IsOpen(f, o)
    <3>1. ASSUME NEW d \in 1 .. e, f.open[d] = o PROVE FALSE
      <4>1. d \in 1 .. Len(g.open)
        BY <1>2, <1>8
      <4> QED
        BY <1>7, <1>10, <3>1, <4>1 DEF IsOpen
    <3> QED
      BY <3>1 DEF IsOpen, e
  <2>5. g.tokens[o] = f.tokens[o] /\ Reach(g.tokens, o) = Reach(f.tokens, o)
    BY <1>6, <2>3 DEF Reach
  <2>6. Keyed(f.tokens, o, Reach(f.tokens, o))
    BY <1>3, <1>10, <2>3, <2>4, <2>5
  <2>7. o \in Nat /\ Reach(f.tokens, o) \in Nat /\ \A i \in o + 1 .. Reach(f.tokens, o) : i \in 1 .. n
    <3>1. f.tokens[o].num_desc \in Nat /\ Reach(f.tokens, o) <= n /\ o \in Nat
      BY <1>1, <1>5, <2>3
    <3>2. Reach(f.tokens, o) \in Nat
      <4>1. \A a, b \in Nat : a + b \in Nat
        OBVIOUS
      <4> QED
        BY <3>1, <4>1 DEF Reach
    <3> QED
      BY <1>1, <3>1, <3>2
  <2>8. \A i \in o + 1 .. Reach(f.tokens, o) : g.tokens[i] = f.tokens[i]
    BY <1>6, <2>7
  <2>9. Keyed(g.tokens, o, Reach(f.tokens, o))
    BY <2>6, <2>7, <2>8, SameChain
  <2> QED
    BY <2>5, <2>9
<1>11. ASSUME NEW d \in 1 .. Len(g.open), g.tokens[g.open[d]].type = "object"
       PROVE  /\ d = Len(g.open) => Keyed(g.tokens, g.open[d], m + 1)
              /\ d # Len(g.open) => Pending(g.tokens, g.open[d], g.open[d + 1])
  <2>1. ASSUME NEW c \in 1 .. e
        PROVE  /\ f.open[c] \in 1 .. n /\ f.open[c] \in Nat /\ f.open[c] <= n
               /\ g.open[c] = f.open[c] /\ g.tokens[g.open[c]] = f.tokens[f.open[c]]
    <3>1. f.open[c] \in 1 .. n /\ g.open[c] = f.open[c]
      BY <1>4, <1>7
    <3>2. g.tokens[f.open[c]] = f.tokens[f.open[c]]
      BY <1>6, <3>1
    <3> QED
      BY <1>1, <3>1, <3>2
  <2>2. CASE d \in 1 .. e /\ d # e
    <3>1. d + 1 \in 1 .. e /\ d # Len(g.open)
      BY <1>2, <1>8, <2>2
    <3>2. Pending(f.tokens, f.open[d], f.open[d + 1])
      BY <1>3, <1>11, <2>1, <2>2
    <3> DEFINE o == f.open[d]
               k == f.open[d + 1]
    <3>3. o \in Nat /\ k \in 1 .. n /\ g.open[d] = o /\ g.open[d + 1] = k
      BY <2>1, <2>2, <3>1
    <3> HIDE DEF o, k
    <3>4. k - 1 > o /\ f.tokens[k - 1].type = "string" /\ f.tokens[k - 1].num_desc = 0
          /\ Keyed(f.tokens, o, k - 2)
      BY <3>2 DEF Pending, o, k
    <3>5. k - 2 \in Nat /\ k - 1 \in 1 .. n /\ \A i \in o + 1 .. k - 2 : i \in 1 .. n
      <4>1. n \in Nat /\ o \in Nat /\ k \in 1 .. n /\ k - 1 > o
        BY <1>1, <3>3, <3>4
      <4> QED
        BY <4>1
    <3>6. \A i \in o + 1 .. k - 2 : g.tokens[i] = f.tokens[i]
      BY <1>6, <3>5
    <3>7. Keyed(g.tokens, o, k - 2)
      BY <3>3, <3>4, <3>5, <3>6, SameChain
    <3>8. Pending(g.tokens, o, k)
      BY <1>6, <3>4, <3>5, <3>7 DEF Pending
    <3> QED
      BY <3>1, <3>3, <3>8
  <2>3. CASE d = e
    <3>1. g.open[e] = top /\ top \in 1 .. n /\ top \in Nat /\ top <= n /\ f.tokens[top].type = "object"
      BY <1>2, <1>11, <2>1, <2>3
    <3>2. m = n + 1 /\ g.tokens[n + 1].type = "string" /\ g.tokens[n + 1].num_desc = 0
      BY <3>1 DEF n, top
    <3>3. Keyed(f.tokens, top, n)
      BY <1>2, <1>3, <3>1
    <3>4. \A i \in top + 1 .. n : g.tokens[i] = f.tokens[i]
      <4>1. \A i \in top + 1 .. n : i \in 1 .. n
        BY <1>1, <3>1
      <4> QED
        BY <1>6, <4>1
    <3>5. CASE Len(g.open) = e
      <4>1. m + 1 = n + 2 /\ g.tokens[n + 2].num_desc = 0 /\ m + 1 = n + 2 + 0 /\ m + 1 \in Nat
        BY <1>1, <3>2
      <4>2. Keyed(g.tokens, top, m + 1)
        <5>1. top \in Nat /\ n \in Nat /\ top <= n
          BY <1>1, <3>1
        <5>2. Keyed(g.tokens, top, n + 2)
          BY <3>2, <3>3, <3>4, <4>1, <5>1, LongerByLeaf
        <5>3. m + 1 = n + 2
          BY <4>1
        <5> QED
          BY <5>2, <5>3
      <4> QED
        BY <2>3, <3>1, <3>5, <4>2
    <3>6. CASE Len(g.open) = e + 1 /\ g.open[e + 1] = m + 1
      <4>1. (m + 1) - 1 = n + 1 /\ (m + 1) - 2 = n
        BY <1>1, <3>2
      <4>2. Keyed(g.tokens, top, n)
        BY <1>1, <3>1, <3>3, <3>4, SameChain
      <4>3. Pending(g.tokens, top, m + 1)
        <5>1. n + 1 > top
          BY <1>1, <3>1
        <5> QED
          BY <3>2, <4>1, <4>2, <5>1 DEF Pending
      <4>4. d # Len(g.open)
        BY <1>2, <2>3, <3>6
      <4> QED
        BY <2>3, <3>1, <3>6, <4>3, <4>4
    <3> QED
      BY <1>8, <3>5, <3>6
  <2>4. CASE d \notin 1 .. e
    <3>1. Len(g.open) = e + 1 /\ g.open[e + 1] = m + 1 /\ d = e + 1
      BY <1>2, <1>8, <2>4
    <3>2. Keyed(g.tokens, m + 1, m + 1)
      BY <1>1, NoKeys
    <3> QED
      BY <3>1, <3>2
  <2> QED
    BY <2>2, <2>3, <2>4
<1> QED
  BY <1>9, <1>10, <1>11 DEF Objects

(* Closing keeps the chains, and ends that of the token closed.            *)
LEMMA ObjectsClose ==
  ASSUME NEW s, NEW f \in Parser(s), NEW g \in Parser(s), Tree(f), Objects(f), f.open # <<>>,
         ClosedShape(f, g)
  PROVE  Objects(g)
<1> DEFINE c == Last(f.open)
           n == Len(f.tokens)
           e == Len(f.open)
<1>1. /\ c \in 1 .. n /\ c = f.open[e] /\ IsOpen(f, c)
      /\ Len(g.tokens) = n /\ n \in Nat
      /\ \A i \in 1 .. n : i # c => g.tokens[i] = f.tokens[i]
      /\ g.tokens[c].type = f.tokens[c].type
      /\ g.tokens[c].num_desc = n - c
      /\ e \in Nat \ {0} /\ Len(g.open) = e - 1
      /\ \A d \in 1 .. Len(g.open) : g.open[d] = f.open[d]
      /\ \A i \in 1 .. n : IsOpen(g, i) <=> IsOpen(f, i) /\ i # c
  BY ClosedTokens
<1>2. /\ n >= 1 /\ f.tokens[1].type = "object"
      /\ \A o \in 1 .. n :
           f.tokens[o].type = "object" /\ ~IsOpen(f, o) => Keyed(f.tokens, o, Reach(f.tokens, o))
      /\ \A d \in 1 .. e : f.tokens[f.open[d]].type = "object" =>
           /\ d = e => Keyed(f.tokens, f.open[d], n)
           /\ d # e => Pending(f.tokens, f.open[d], f.open[d + 1])
  BY DEF Objects
<1>3. /\ \A d \in 1 .. e : f.open[d] \in 1 .. n
      /\ \A b, d \in 1 .. e : b < d => f.open[b] < f.open[d]
      /\ \A i \in 1 .. n : ~IsOpen(f, i) => \A j \in i + 1 .. n : Spans(f, i, j)
  BY DEF Tree, Stacked, Whole
<1>4. \A i \in 1 .. n : f.tokens[i].num_desc \in Nat /\ Reach(f.tokens, i) <= n
  <2> TAKE i \in 1 .. n
  <2>1. f.tokens[i] \in Token
    BY DEF Parser
  <2>2. f.tokens[i].num_desc \in Int
    BY <2>1, TokenFields
  <2> QED
    BY <2>2 DEF Tree, Placed
<1> HIDE DEF c, n, e
<1>5. \A i \in 1 .. n : g.tokens[i].type = f.tokens[i].type
  BY <1>1
<1>6. g.tokens[1].type = "object"
  <2>1. 1 \in 1 .. n
    BY <1>1, <1>2
  <2> QED
    BY <1>2, <1>5, <2>1
<1>7. ASSUME NEW o \in 1 .. n, g.tokens[o].type = "object", ~IsOpen(g, o)
      PROVE  Keyed(g.tokens, o, Reach(g.tokens, o))
  <2>1. CASE o = c
    <3>1. Reach(g.tokens, o) = n /\ o \in Nat
      BY <1>1, <2>1 DEF Reach
    <3>2. f.tokens[f.open[e]].type = "object" /\ e \in 1 .. e
      BY <1>1, <1>5, <1>7, <2>1
    <3>3. Keyed(f.tokens, o, n)
      BY <1>1, <1>2, <2>1, <3>2
    <3>4. \A i \in o + 1 .. n : g.tokens[i] = f.tokens[i]
      <4>1. \A i \in o + 1 .. n : i \in 1 .. n /\ i # c
        BY <1>1, <2>1
      <4> QED
        BY <1>1, <4>1
    <3> QED
      BY <1>1, <3>1, <3>3, <3>4, SameChain
  <2>2. CASE o # c
    <3>1. ~IsOpen(f, o) /\ f.tokens[o].type = "object" /\ g.tokens[o] = f.tokens[o]
      BY <1>1, <1>7, <2>2
    <3>2. Keyed(f.tokens, o, Reach(f.tokens, o)) /\ Reach(g.tokens, o) = Reach(f.tokens, o)
      BY <1>2, <3>1 DEF Reach
    <3>3. o \in Nat /\ Reach(f.tokens, o) \in Nat /\ \A i \in o + 1 .. Reach(f.tokens, o) : i \in o + 1 .. n
      <4>1. n \in Nat /\ o \in Nat /\ f.tokens[o].num_desc \in Nat /\ Reach(f.tokens, o) <= n
        BY <1>1, <1>4
      <4>2. Reach(f.tokens, o) \in Nat
        BY <4>1 DEF Reach
      <4> QED
        BY <4>1, <4>2
    <3>4. ASSUME NEW i \in o + 1 .. Reach(f.tokens, o)
          PROVE  g.tokens[i] = f.tokens[i]
      <4>1. i \in o + 1 .. n /\ i <= Reach(f.tokens, o)
        BY <3>3
      <4>2. Spans(f, o, i)
        BY <1>3, <3>1, <4>1
      <4>3. ~IsOpen(f, i)
        BY <4>1, <4>2 DEF Spans
      <4>4. i \in 1 .. n /\ i # c
        BY <1>1, <4>1, <4>3
      <4> QED
        BY <1>1, <4>4
    <3> QED
      BY <3>2, <3>3, <3>4, SameChain
  <2> QED
    BY <2>1, <2>2
<1>8. ASSUME NEW d \in 1 .. e - 1, g.tokens[g.open[d]].type = "object"
      PROVE  /\ d = e - 1 => Keyed(g.tokens, g.open[d], n)
             /\ d # e - 1 => Pending(g.tokens, g.open[d], g.open[d + 1])
  <2> DEFINE o == f.open[d]
             k == f.open[d + 1]
  <2>1. d \in 1 .. e /\ d + 1 \in 1 .. e /\ d # e
    BY <1>1
  <2>2. g.open[d] = o /\ o \in 1 .. n /\ k \in 1 .. n /\ (d # e - 1 => g.open[d + 1] = k)
    BY <1>1, <1>3, <2>1
  <2>3. k <= c /\ (d # e - 1 => k < c) /\ (d = e - 1 => k = c)
    <3>1. d = e - 1 => d + 1 = e
      BY <1>1
    <3>2. d # e - 1 => d + 1 < e
      BY <1>1
    <3>3. e \in 1 .. e /\ c \in Nat /\ k \in Nat
      BY <1>1, <2>2
    <3> QED
      BY <1>1, <1>3, <2>1, <3>1, <3>2, <3>3
  <2>4. Pending(f.tokens, o, k)
    BY <1>2, <1>5, <1>8, <2>1, <2>2
  <2> HIDE DEF o, k
  <2>5. k - 1 > o /\ f.tokens[k - 1].type = "string" /\ f.tokens[k - 1].num_desc = 0
        /\ Keyed(f.tokens, o, k - 2)
    BY <2>4 DEF Pending
  <2>6. o \in Nat /\ k - 2 \in Nat /\ k - 1 \in 1 .. n /\ k - 1 # c /\ c \in Nat /\ k \in Nat
        /\ \A i \in o + 1 .. k - 2 : i \in 1 .. n /\ i # c
    <3>1. o \in 1 .. n /\ k \in 1 .. n /\ c \in 1 .. n /\ n \in Nat
      BY <1>1, <2>2
    <3>2. k <= c /\ k - 1 > o
      BY <2>3, <2>5
    <3>3. o \in Nat /\ k - 2 \in Nat /\ k - 1 \in 1 .. n /\ k - 1 # c /\ c \in Nat /\ k \in Nat
      BY <3>1, <3>2
    <3>4. \A i \in o + 1 .. k - 2 : i \in 1 .. n /\ i # c
      BY <3>1, <3>2
    <3> QED
      BY <3>3, <3>4
  <2>7. \A i \in o + 1 .. k - 2 : g.tokens[i] = f.tokens[i]
    BY <1>1, <2>6
  <2>8. g.tokens[k - 1] = f.tokens[k - 1]
    BY <1>1, <2>6
  <2>9. CASE d = e - 1
    <3> DEFINE last == k - 2
    <3>1. last + 1 = k - 1 /\ last + 2 = c /\ last \in Nat /\ o <= last
      BY <2>3, <2>5, <2>6, <2>9
    <3>2. /\ \A i \in o + 1 .. last : g.tokens[i] = f.tokens[i]
          /\ Keyed(f.tokens, o, last)
      BY <2>5, <2>7
    <3> HIDE DEF last
    <3>3. /\ g.tokens[last + 1].type = "string" /\ g.tokens[last + 1].num_desc = 0
          /\ g.tokens[last + 2].num_desc = n - c
      BY <1>1, <2>5, <2>8, <3>1
    <3>4. n = last + 2 + g.tokens[last + 2].num_desc /\ g.tokens[last + 2].num_desc \in Nat
      <4>1. n - c \in Nat
        BY <1>1
      <4>2. n = (last + 2) + (n - c)
        BY <1>1, <3>1
      <4> QED
        BY <3>3, <4>1, <4>2
    <3>5. Keyed(g.tokens, o, last + 2 + g.tokens[last + 2].num_desc)
      BY <2>6, <3>1, <3>2, <3>3, <3>4, LongerChain
    <3> QED
      BY <2>2, <2>9, <3>4, <3>5
  <2>10. CASE d # e - 1
    <3>1. Keyed(g.tokens, o, k - 2)
      BY <2>5, <2>6, <2>7, SameChain
    <3>2. Pending(g.tokens, o, k)
      BY <2>5, <2>8, <3>1 DEF Pending
    <3> QED
      BY <2>2, <2>10, <3>2
  <2> QED
    BY <2>9, <2>10
<1> QED
  BY <1>1, <1>2, <1>6, <1>7, <1>8 DEF Objects

(* A turn keeps the tree.                                                  *)
LEMMA PairTree ==
  ASSUME NEW s, NEW f \in Parser(s), NEW g \in Parser(s), Tree(f), Objects(f), f.open # <<>>,
         PairShape(f, g)
  PROVE  Tree(g) /\ Objects(g)
<1>1. f.s = s /\ f.tokens \in Seq(Token)
  BY DEF Parser
<1>2. PICK h \in Parser(s) : KeyShape(f, h) /\ ValueShape(h, g)
  BY <1>1 DEF PairShape
<1>3. Tree(h)
  BY <1>2, KeyIsValue, TreeGrows
<1>4. Tree(g)
  BY <1>2, <1>3, TreeGrows
<1>5. PICK key \in Token :
        h.tokens = Append(f.tokens, key) /\ key.type = "string" /\ key.num_desc = 0 /\ h.open = f.open
  BY <1>2 DEF KeyShape
<1>6. PICK tok \in Token : g.tokens = Append(h.tokens, tok) /\ GrowsBy(h, g, Len(h.tokens) + 1, tok)
  BY <1>2 DEF ValueShape
<1> DEFINE n == Len(f.tokens)
<1>7. /\ n \in Nat /\ Len(h.tokens) = n + 1 /\ h.tokens[n + 1] = key
      /\ \A i \in 1 .. n : h.tokens[i] = f.tokens[i]
  BY <1>1, <1>5, AppendIs
<1>8. h.tokens \in Seq(Token)
  BY DEF Parser
<1> DEFINE m == n + 1
<1>9. /\ Len(g.tokens) = m + 1 /\ g.tokens[m + 1] = tok
      /\ \A i \in 1 .. m : g.tokens[i] = h.tokens[i]
  BY <1>6, <1>7, <1>8, AppendIs
<1>10. /\ \A i \in 1 .. n : g.tokens[i] = f.tokens[i]
      /\ g.tokens[n + 1].type = "string" /\ g.tokens[n + 1].num_desc = 0
  <2> HIDE DEF n
  <2>1. n + 1 \in 1 .. m /\ \A i \in 1 .. n : i \in 1 .. m
    BY <1>7
  <2> QED
    BY <1>5, <1>7, <1>9, <2>1
<1>11. /\ tok.num_desc = 0
       /\ \/ g.open = f.open /\ tok.type \notin Nested
          \/ g.open = Append(f.open, m + 1) /\ tok.type \in Nested
  BY <1>5, <1>6, <1>7 DEF GrowsBy, IsLeaf, IsBegun
<1>12. m \in {Len(f.tokens), Len(f.tokens) + 1} /\ m = Len(f.tokens) + 1
  OBVIOUS
<1> HIDE DEF m
<1>13. Objects(g)
  BY <1>9, <1>10, <1>11, <1>12, ObjectsGrow
<1> QED
  BY <1>4, <1>13

(* A value in an array keeps the tree and the chains.                      *)
LEMMA ValueTree ==
  ASSUME NEW s, NEW f \in Parser(s), NEW g \in Parser(s), Tree(f), Objects(f), f.open # <<>>,
         f.tokens[Last(f.open)].type # "object", ValueShape(f, g)
  PROVE  Tree(g) /\ Objects(g)
<1>1. f.tokens \in Seq(Token)
  BY DEF Parser
<1>2. Tree(g)
  BY TreeGrows
<1>3. PICK tok \in Token : g.tokens = Append(f.tokens, tok) /\ GrowsBy(f, g, Len(f.tokens) + 1, tok)
  BY DEF ValueShape
<1> DEFINE m == Len(f.tokens)
<1>4. /\ m \in Nat /\ Len(g.tokens) = m + 1 /\ g.tokens[m + 1] = tok
      /\ \A i \in 1 .. m : g.tokens[i] = f.tokens[i]
  BY <1>1, <1>3, AppendIs
<1>5. /\ tok.num_desc = 0
      /\ \/ g.open = f.open /\ tok.type \notin Nested
         \/ g.open = Append(f.open, m + 1) /\ tok.type \in Nested
  BY <1>3 DEF GrowsBy, IsLeaf, IsBegun
<1>6. m \in {Len(f.tokens), Len(f.tokens) + 1} /\ ~(m = Len(f.tokens) + 1)
      /\ \A i \in 1 .. Len(f.tokens) : g.tokens[i] = f.tokens[i]
  BY <1>4
<1> HIDE DEF m
<1>7. Objects(g)
  BY <1>4, <1>5, <1>6, ObjectsGrow
<1> QED
  BY <1>2, <1>7

(* A turn keeps the tree and the chains.                                   *)
LEMMA TurnTree ==
  ASSUME NEW S, NEW s \in Seq(S), NEW f \in Parser(s), f.code = 0, f.open # <<>>,
         Turn(f).code = 0, Tree(f), Objects(f)
  PROVE  Tree(Turn(f)) /\ Objects(Turn(f))
<1>1. Turn(f) \in Parser(s) /\ TurnShape(f, Turn(f))
  BY TurnTypeShape
<1>2. Closing(f) # RBRACE => f.tokens[Last(f.open)].type # "object"
  BY DEF Closing
<1> QED
  BY <1>1, <1>2, TreeCloses, ObjectsClose, PairTree, ValueTree DEF TurnShape

(* It begins with the outermost object.                                    *)
LEMMA FirstTree ==
  ASSUME NEW S, NEW s \in Seq(S), ParseObject(Frozen(s)).code = 0
  PROVE  Tree(ParseObject(Frozen(s))) /\ Objects(ParseObject(Frozen(s)))
<1> DEFINE f == Frozen(s)
           begun == TestAndSkip(f, LBRACE)
           g == ParseObject(f)
           tok == [type |-> "object", ptr |-> begun.cur - 1, len |-> 0, num_desc |-> 0]
<1>1. f \in Parser(s) /\ f.tokens = <<>> /\ f.open = <<>> /\ LBRACE # END /\ "object" \in Nested
  BY FrozenType, Apart DEF Frozen, Nested
<1>2. g = Opened(f, LBRACE, "object")
  BY DEF ParseObject
<1>3. g \in Parser(s) /\ ValueShape(f, g)
  BY <1>1, <1>2, OpenedShape
<1>4. Tree(f)
  BY <1>1 DEF Tree, Placed, Ordered, Stacked, Whole
<1>5. Tree(g)
  BY <1>1, <1>3, <1>4, TreeGrows
<1>6. /\ begun \in Parser(s) /\ begun.open = f.open
      /\ begun.code = 0 => begun = [f EXCEPT !.cur = Skip(f).cur + 1]
  BY <1>1, TestAndSkipType
<1>7. begun.code = 0
  BY <1>2 DEF Opened
<1>8. begun.tokens = <<>> /\ begun.open = <<>>
  BY <1>1, <1>6, <1>7 DEF Parser
<1>9. g = [begun EXCEPT !.tokens = Append(begun.tokens, tok),
                        !.open = Append(begun.open, Len(f.tokens) + 1)]
  BY <1>2, <1>7 DEF Opened, CapturePtr
<1>10. g.tokens = <<tok>> /\ g.open = <<1>>
  <2> HIDE DEF begun, f, tok, g
  <2>1. Append(begun.tokens, tok) = <<tok>> /\ Append(begun.open, Len(f.tokens) + 1) = <<1>>
    BY <1>1, <1>8
  <2> QED
    BY <1>6, <1>9, <2>1 DEF Parser
<1>11. tok.type = "object"
  OBVIOUS
<1>12. IsOpen(g, 1)
  BY <1>10 DEF IsOpen
<1>13. Keyed(g.tokens, 1, 1)
  BY NoKeys
<1> HIDE DEF begun, f, tok, g
<1>14. Len(g.tokens) = 1 /\ Len(g.open) = 1 /\ g.tokens[1] = tok /\ g.open[1] = 1
  BY <1>10
<1>15. Objects(g)
  BY <1>11, <1>12, <1>13, <1>14 DEF Objects
<1> QED
  BY <1>5, <1>15 DEF f, g

(* So they hold after all turns.                                           *)
LEMMA TurnsTree ==
  ASSUME NEW S, NEW s \in Seq(S), Turns(s)[Len(s)].code = 0
  PROVE  Tree(Turns(s)[Len(s)]) /\ Objects(Turns(s)[Len(s)])
<1> DEFINE F == Turns(s)
           N == Len(s)
           T == {k \in Nat : k <= N /\ F[k].code = 0 => Tree(F[k]) /\ Objects(F[k])}
<1>1. N \in Nat
  OBVIOUS
<1>2. 0 \in T
  BY TurnsUnfolds, FirstTree
<1>3. ASSUME NEW k \in Nat, k \in T
      PROVE  k + 1 \in T
  <2> SUFFICES ASSUME k + 1 <= N, F[k + 1].code = 0 PROVE Tree(F[k + 1]) /\ Objects(F[k + 1])
    OBVIOUS
  <2>1. k \in 0 .. N - 1 /\ k \in 0 .. N /\ k <= N
    BY <1>1
  <2>2. F[k + 1] = Turn(F[k]) /\ F[k] \in Parser(s)
    BY <2>1, TurnsUnfolds, TurnsType
  <2>3. F[k].code = 0 => Tree(F[k]) /\ Objects(F[k])
    BY <1>3, <2>1
  <2> HIDE DEF F
  <2>4. F[k].code # 0 \/ F[k].open = <<>> => F[k + 1] = F[k]
    BY <2>2, TurnTypeShape
  <2> QED
    BY <2>2, <2>3, <2>4, TurnTree
<1>4. \A k \in Nat : k \in T
  <2> HIDE DEF T
  <2> QED
    BY <1>2, <1>3, Induction
<1> QED
  BY <1>1, <1>4

(* The tokens of a text that is accepted, with the end marker.             *)
SettledAt(f, n) ==
  /\ Len(f.tokens) = n + 1 /\ n <= Len(f.s) /\ Len(f.s) \in Nat
  /\ f.tokens[1].type = "object" /\ f.tokens[n + 1].num_desc = 0
  /\ \A i \in 1 .. n :
       /\ f.tokens[i].ptr \in Nat /\ f.tokens[i].len \in Int /\ f.tokens[i].num_desc \in Nat
       /\ f.tokens[i].type \notin Nested => f.tokens[i].num_desc = 0
       /\ Reach(f.tokens, i) <= n
       /\ f.tokens[i].type = "object" => Keyed(f.tokens, i, Reach(f.tokens, i))
  /\ \A i, j \in 1 .. n : i < j =>
       /\ f.tokens[i].ptr < f.tokens[j].ptr
       /\ j <= Reach(f.tokens, i) <=> f.tokens[j].ptr < f.tokens[i].ptr + f.tokens[i].len
       /\ j <= Reach(f.tokens, i) => Reach(f.tokens, j) <= Reach(f.tokens, i)

Settled(f) == \E n \in Nat \ {0} : SettledAt(f, n)

(* So it is after every parse that succeeds.                               *)
LEMMA Settles ==
  ASSUME NEW S, NEW s \in Seq(S), Doit(s).code = 0
  PROVE  Settled(Doit(s))
<1> DEFINE f == Turns(s)[Len(s)]
           g == Doit(s)
           n == Len(f.tokens)
           eof == [type |-> "eof", ptr |-> f.cur, len |-> 0, num_desc |-> 0]
<1>1. s # <<>> /\ g = Ended(f)
  BY CodesNotZero DEF Doit, Failed, Frozen, Codes
<1>2. f \in Parser(s) /\ f.code = 0 /\ f.open = <<>>
  <2>1. f.code = 0
    BY <1>1 DEF Ended
  <2> QED
    BY <2>1, TurnsType
<1>3. Tree(f) /\ Objects(f)
  BY <1>2, TurnsTree
<1>4. g = [f EXCEPT !.tokens = Append(f.tokens, eof)]
  BY <1>1, <1>2 DEF Ended, CapturePtr
<1> HIDE DEF f, g
<1>5. f.tokens \in Seq(Token) /\ f.cur \in Nat /\ f.cur <= Len(s) + 1 /\ Len(s) \in Nat /\ n \in Nat
  BY <1>2 DEF Parser
<1>6. eof \in Token /\ eof.num_desc = 0
  BY <1>5 DEF Token, Types
<1> HIDE DEF eof
<1>7. g.tokens = Append(f.tokens, eof) /\ g.s = s
  BY <1>2, <1>4 DEF Parser
<1>8. /\ Len(g.tokens) = n + 1 /\ g.tokens[n + 1] = eof
      /\ \A i \in 1 .. n : g.tokens[i] = f.tokens[i] /\ f.tokens[i] \in Token
  BY <1>5, <1>6, <1>7, AppendIs
<1>9. n >= 1 /\ f.tokens[1].type = "object"
  BY <1>3 DEF Objects
<1>10. \A i \in 1 .. n : ~IsOpen(f, i)
  BY <1>2 DEF IsOpen
<1>11. ASSUME NEW i \in 1 .. n
       PROVE  /\ f.tokens[i].ptr \in Nat /\ f.tokens[i].len \in Int /\ f.tokens[i].num_desc \in Nat
              /\ f.tokens[i].type \notin Nested => f.tokens[i].num_desc = 0
              /\ Reach(f.tokens, i) <= n /\ i <= f.tokens[i].ptr /\ f.tokens[i].ptr < f.cur
              /\ f.tokens[i].type = "object" => Keyed(f.tokens, i, Reach(f.tokens, i))
              /\ \A j \in i + 1 .. n : Spans(f, i, j)
  <2>1. f.tokens[i].ptr \in Nat /\ f.tokens[i].len \in Int /\ f.tokens[i].num_desc \in Int
    BY <1>8, TokenFields
  <2>2. /\ i <= f.tokens[i].ptr /\ f.tokens[i].ptr < f.cur
        /\ f.tokens[i].num_desc >= 0 /\ Reach(f.tokens, i) <= n
        /\ f.tokens[i].type \notin Nested => f.tokens[i].num_desc = 0
    BY <1>3 DEF Tree, Placed
  <2>3. f.tokens[i].type = "object" => Keyed(f.tokens, i, Reach(f.tokens, i))
    BY <1>3, <1>10 DEF Objects
  <2>4. \A j \in i + 1 .. n : Spans(f, i, j)
    BY <1>3, <1>10 DEF Tree, Whole
  <2> QED
    BY <2>1, <2>2, <2>3, <2>4
<1>12. \A i, j \in 1 .. n : i < j => f.tokens[i].ptr < f.tokens[j].ptr
  BY <1>3 DEF Tree, Ordered
<1> HIDE DEF n
<1>13. n <= Len(s)
  <2>1. n \in 1 .. n
    BY <1>5, <1>9
  <2>2. n <= f.tokens[n].ptr /\ f.tokens[n].ptr < f.cur /\ f.tokens[n].ptr \in Nat
    BY <1>11, <2>1
  <2> QED
    BY <1>5, <2>2
<1>14. ASSUME NEW i \in 1 .. n
       PROVE  /\ g.tokens[i].ptr \in Nat /\ g.tokens[i].len \in Int /\ g.tokens[i].num_desc \in Nat
              /\ g.tokens[i].type \notin Nested => g.tokens[i].num_desc = 0
              /\ Reach(g.tokens, i) <= n
              /\ g.tokens[i].type = "object" => Keyed(g.tokens, i, Reach(g.tokens, i))
  <2>1. g.tokens[i] = f.tokens[i] /\ Reach(g.tokens, i) = Reach(f.tokens, i)
    BY <1>8 DEF Reach
  <2>2. ASSUME f.tokens[i].type = "object"
        PROVE  Keyed(g.tokens, i, Reach(f.tokens, i))
    <3> DEFINE last == Reach(f.tokens, i)
    <3>0. f.tokens[i].num_desc \in Nat /\ i \in Nat
      BY <1>5, <1>11
    <3>1. last \in Nat /\ last <= n /\ Keyed(f.tokens, i, last)
      <4>1. last \in Nat
        BY <3>0 DEF Reach
      <4> QED
        BY <1>11, <2>2, <4>1
    <3> HIDE DEF last
    <3>2. \A k \in i + 1 .. last : k \in 1 .. n
      BY <1>5, <3>0, <3>1
    <3>3. \A k \in i + 1 .. last : g.tokens[k] = f.tokens[k]
      BY <1>8, <3>2
    <3>4. Keyed(g.tokens, i, last)
      BY <3>0, <3>1, <3>3, SameChain
    <3> QED
      BY <3>4 DEF last
  <2> QED
    BY <1>11, <2>1, <2>2
<1>15. ASSUME NEW i \in 1 .. n, NEW j \in 1 .. n, i < j
       PROVE  /\ g.tokens[i].ptr < g.tokens[j].ptr
              /\ j <= Reach(g.tokens, i) <=> g.tokens[j].ptr < g.tokens[i].ptr + g.tokens[i].len
              /\ j <= Reach(g.tokens, i) => Reach(g.tokens, j) <= Reach(g.tokens, i)
  <2>1. /\ g.tokens[i] = f.tokens[i] /\ Reach(g.tokens, i) = Reach(f.tokens, i)
        /\ g.tokens[j] = f.tokens[j] /\ Reach(g.tokens, j) = Reach(f.tokens, j)
    BY <1>8 DEF Reach
  <2>2. j \in i + 1 .. n
    BY <1>5, <1>15
  <2>3. Spans(f, i, j) /\ f.tokens[i].ptr \in Nat /\ f.tokens[i].len \in Int /\ f.tokens[j].ptr \in Nat
    BY <1>11, <2>2
  <2>4. f.tokens[i].ptr < f.tokens[j].ptr
    BY <1>12, <1>15
  <2> QED
    BY <2>1, <2>3, <2>4 DEF Spans
<1>16. g.tokens[1].type = "object" /\ g.tokens[n + 1].num_desc = 0
  <2>1. 1 \in 1 .. n
    BY <1>5, <1>9
  <2> QED
    BY <1>6, <1>8, <1>9, <2>1
<1>17. n \in Nat \ {0} /\ Len(g.tokens) = n + 1 /\ n <= Len(g.s) /\ Len(g.s) \in Nat
  BY <1>5, <1>7, <1>8, <1>9, <1>13
<1>18. Settled(g)
  BY <1>14, <1>15, <1>16, <1>17 DEF Settled, SettledAt
<1> QED
  BY <1>18 DEF g

-----------------------------------------------------------------------------
(* The search for a member follows the chain.                              *)

(* How FindMember and FindJsonToken unfold.                                *)
FindStep(f, last, key, find, i) ==
  IF i > last \/ f.tokens[i].type # "string" THEN 0
  ELSE IF KeyOf(f, i) = key THEN i + 1
  ELSE find[NextKey(f, i)]

(* One step of the search for a member.                                    *)
LEMMA FindMemberUnfolds ==
  ASSUME NEW f, NEW last \in Nat, NEW key,
         \A i \in 0 .. last : NextKey(f, i) \in Nat /\ NextKey(f, i) > i
  PROVE  \A i \in Nat : FindMember(f, last, key)[i]
                          = FindStep(f, last, key, FindMember(f, last, key), i)
<1> DEFINE Is(g) == g = [i \in Nat |-> FindStep(f, last, key, g, i)]
           Goes(i) == f.tokens[i].type = "string" /\ KeyOf(f, i) # key
           next == [i \in 0 .. last |-> IF Goes(i) THEN NextKey(f, i) ELSE 0]
           value == [i \in 0 .. last |-> IF Goes(i) THEN 0 ELSE FindStep(f, last, key, <<>>, i)]
<1>1. PICK g : Chases(g, last, next, value)
  BY Chase
<1> DEFINE h == [i \in Nat |-> IF i \in 0 .. last THEN g[i] ELSE 0]
<1>2. ASSUME NEW i \in Nat
      PROVE  h[i] = FindStep(f, last, key, h, i)
  <2>1. CASE i > last
    BY <2>1 DEF FindStep
  <2>2. CASE ~(i > last)
    <3>1. i \in 0 .. last
      BY <2>2
    <3>2. g[i] = IF next[i] \in i + 1 .. last THEN g[next[i]] ELSE value[i]
      BY <1>1, <3>1 DEF Chases
    <3>3. h[i] = g[i]
      BY <3>1
    <3>4. CASE ~Goes(i)
      <4>1. next[i] = 0 /\ value[i] = FindStep(f, last, key, <<>>, i)
        BY <3>1, <3>4
      <4>2. FindStep(f, last, key, <<>>, i) = FindStep(f, last, key, h, i)
        BY <3>4 DEF FindStep
      <4>3. 0 \notin i + 1 .. last
        OBVIOUS
      <4> HIDE DEF next, value, h
      <4> QED
        BY <3>2, <3>3, <4>1, <4>2, <4>3
    <3>5. CASE Goes(i)
      <4>1. next[i] = NextKey(f, i) /\ value[i] = 0
        BY <3>1, <3>5
      <4>2. FindStep(f, last, key, h, i) = h[NextKey(f, i)]
        BY <2>2, <3>5 DEF FindStep
      <4>3. NextKey(f, i) \in Nat /\ NextKey(f, i) > i
        BY <3>1
      <4>4. CASE NextKey(f, i) \in i + 1 .. last
        <5>1. h[NextKey(f, i)] = g[NextKey(f, i)]
          BY <4>3, <4>4
        <5> HIDE DEF next, value, h
        <5> QED
          BY <3>2, <3>3, <4>1, <4>2, <4>4, <5>1
      <4>5. CASE NextKey(f, i) \notin i + 1 .. last
        <5>1. h[NextKey(f, i)] = 0
          BY <4>3, <4>5
        <5> HIDE DEF next, value, h
        <5> QED
          BY <3>2, <3>3, <4>1, <4>2, <4>5, <5>1
      <4> QED
        BY <4>4, <4>5
    <3> QED
      BY <3>4, <3>5
  <2> QED
    BY <2>1, <2>2
<1>3. Is(h)
  <2>1. h = [i \in Nat |-> FindStep(f, last, key, h, i)]
    <3>1. h = [i \in Nat |-> h[i]]
      OBVIOUS
    <3> HIDE DEF h
    <3> QED
      BY <1>2, <3>1
  <2> QED
    BY <2>1
<1>4. FindMember(f, last, key) = CHOOSE g_ : Is(g_)
  BY DEF FindMember, FindStep
<1>5. Is(FindMember(f, last, key))
  <2> HIDE DEF Is, h
  <2> QED
    BY <1>3, <1>4
<1> DEFINE F == FindMember(f, last, key)
<1>6. F = [i \in Nat |-> FindStep(f, last, key, F, i)]
  BY <1>5
<1> HIDE DEF F
<1>7. \A i \in Nat : F[i] = FindStep(f, last, key, F, i)
  BY <1>6
<1> QED
  BY <1>7 DEF F

StepInto(f, object, key) ==
  IF object = 0 \/ f.tokens[object].type # "object" THEN 0
  ELSE FindMember(f, object + f.tokens[object].num_desc, key)[object + 1]

(* The search goes into one object after the other.                        *)
LEMMA FindJsonTokenUnfolds ==
  ASSUME NEW f, NEW key, NEW inner
  PROVE  /\ FindJsonToken(f, <<key>>) = StepInto(f, 1, key)
         /\ FindJsonToken(f, <<key, inner>>) = StepInto(f, StepInto(f, 1, key), inner)
<1>1. FindJsonToken(f, <<key>>) = StepInto(f, 1, key)
  <2> DEFINE path == <<key>>
             Is(g) == g = [n \in 0 .. Len(path) |->
                             IF n = 0 THEN 1 ELSE StepInto(f, g[n - 1], path[n])]
             h == [n \in 0 .. 1 |-> IF n = 0 THEN 1 ELSE StepInto(f, 1, key)]
  <2>1. Len(path) = 1 /\ path[1] = key
    OBVIOUS
  <2> HIDE DEF path
  <2>2. Is(h)
    <3>1. \A n \in 0 .. 1 : n # 0 => n = 1 /\ n - 1 = 0
      OBVIOUS
    <3>2. h[0] = 1
      OBVIOUS
    <3>3. \A n \in 0 .. 1 : h[n] = IF n = 0 THEN 1 ELSE StepInto(f, h[n - 1], path[n])
      BY <2>1, <3>1, <3>2
    <3>4. h = [n \in 0 .. 1 |-> h[n]]
      OBVIOUS
    <3>5. h = [n \in 0 .. 1 |-> IF n = 0 THEN 1 ELSE StepInto(f, h[n - 1], path[n])]
      <4> HIDE DEF h
      <4> QED
        BY <3>3, <3>4
    <3> HIDE DEF h
    <3> QED
      BY <2>1, <3>5
  <2> DEFINE G == CHOOSE g_ : Is(g_)
  <2>3. FindJsonToken(f, path) = G[Len(path)]
    BY DEF FindJsonToken, StepInto
  <2>4. Is(G)
    <3> HIDE DEF Is, h
    <3> QED
      BY <2>2
  <2>5. G[0] = 1 /\ G[1] = StepInto(f, G[0], path[1])
    <3>1. G = [n \in 0 .. 1 |-> IF n = 0 THEN 1 ELSE StepInto(f, G[n - 1], path[n])]
      BY <2>1, <2>4
    <3> HIDE DEF G
    <3> QED
      BY <3>1
  <2> HIDE DEF G
  <2>6. FindJsonToken(f, path) = StepInto(f, 1, key)
    BY <2>1, <2>3, <2>5
  <2> QED
    BY <2>6 DEF path
<1>2. FindJsonToken(f, <<key, inner>>) = StepInto(f, StepInto(f, 1, key), inner)
  <2> DEFINE path == <<key, inner>>
             Is(g) == g = [n \in 0 .. Len(path) |->
                             IF n = 0 THEN 1 ELSE StepInto(f, g[n - 1], path[n])]
             a == StepInto(f, 1, key)
             h == [n \in 0 .. 2 |-> IF n = 0 THEN 1 ELSE IF n = 1 THEN a
                                    ELSE StepInto(f, a, inner)]
  <2>1. Len(path) = 2 /\ path[1] = key /\ path[2] = inner
    OBVIOUS
  <2>a. a = StepInto(f, 1, key)
    OBVIOUS
  <2> HIDE DEF path, a
  <2>2. Is(h)
    <3>1. \A n \in 0 .. 2 : n = 0 \/ n = 1 \/ n = 2
      OBVIOUS
    <3>2. h[0] = 1 /\ h[1] = a
      OBVIOUS
    <3>3. \A n \in 0 .. 2 : h[n] = IF n = 0 THEN 1 ELSE StepInto(f, h[n - 1], path[n])
      <4> TAKE n \in 0 .. 2
      <4>1. CASE n = 0
        BY <4>1
      <4>2. CASE n = 1
        BY <2>1, <2>a, <3>2, <4>2
      <4>3. CASE n = 2
        <5>1. h[2] = StepInto(f, a, inner)
          OBVIOUS
        <5> HIDE DEF h
        <5> QED
          BY <2>1, <3>2, <4>3, <5>1
      <4> QED
        BY <3>1, <4>1, <4>2, <4>3
    <3>4. h = [n \in 0 .. 2 |-> h[n]]
      OBVIOUS
    <3>5. h = [n \in 0 .. 2 |-> IF n = 0 THEN 1 ELSE StepInto(f, h[n - 1], path[n])]
      <4> HIDE DEF h
      <4> QED
        BY <3>3, <3>4
    <3> HIDE DEF h
    <3> QED
      BY <2>1, <3>5
  <2> DEFINE G == CHOOSE g_ : Is(g_)
  <2>3. FindJsonToken(f, path) = G[Len(path)]
    BY DEF FindJsonToken, StepInto
  <2>4. Is(G)
    <3> HIDE DEF Is, h
    <3> QED
      BY <2>2
  <2>5. G[0] = 1 /\ G[1] = StepInto(f, G[0], path[1]) /\ G[2] = StepInto(f, G[1], path[2])
    <3>1. G = [n \in 0 .. 2 |-> IF n = 0 THEN 1 ELSE StepInto(f, G[n - 1], path[n])]
      BY <2>1, <2>4
    <3> HIDE DEF G
    <3> QED
      BY <3>1
  <2> HIDE DEF G
  <2>6. FindJsonToken(f, path) = StepInto(f, a, inner)
    BY <2>1, <2>3, <2>5, <2>a
  <2> QED
    BY <2>6 DEF path, a
<1> QED
  BY <1>1, <1>2

(* After the parse every token spans its descendants.                      *)
LEMMA SettledTokens ==
  ASSUME NEW f, NEW n \in Nat \ {0}, SettledAt(f, n)
  PROVE  \A i \in 1 .. n + 1 :
           /\ f.tokens[i].num_desc \in Nat
           /\ f.tokens[i].type \notin Nested => f.tokens[i].num_desc = 0
<1> TAKE i \in 1 .. n + 1
<1>1. CASE i = n + 1
  BY <1>1 DEF SettledAt
<1>2. CASE i \in 1 .. n
  BY <1>2 DEF SettledAt
<1> QED
  BY <1>1, <1>2

(* The search steps over a key and the descendants of its value.           *)
LEMMA NextKeyIs ==
  ASSUME NEW f, NEW n \in Nat \ {0}, SettledAt(f, n)
  PROVE  \A i \in 0 .. n : /\ NextKey(f, i) = Following(f.tokens, i)
                           /\ NextKey(f, i) \in Nat /\ NextKey(f, i) > i
<1> TAKE i \in 0 .. n
<1> DEFINE value == f.tokens[i + 1]
<1>1. i + 1 \in 1 .. n + 1
  OBVIOUS
<1>2. value.num_desc \in Nat /\ (value.type \notin {"array", "object"} => value.num_desc = 0)
  BY <1>1, SettledTokens DEF Nested
<1>3. /\ NextKey(f, i) = i + 2 + (IF value.type \in {"array", "object"} THEN value.num_desc ELSE 0)
      /\ Following(f.tokens, i) = i + 2 + value.num_desc
  BY DEF NextKey, Following
<1> HIDE DEF value
<1>4. NextKey(f, i) = i + 2 + value.num_desc
  BY <1>2, <1>3
<1> QED
  BY <1>2, <1>3, <1>4

(* The tokens have their numbers of descendants.                           *)
Counted(tokens, first, last) == \A i \in first .. last + 1 : tokens[i].num_desc \in Nat

(* What the keys of an object are to each other.                           *)
Succession(tokens, first, last, K) ==
  /\ K \subseteq Nat
  /\ \A i \in K : /\ i >= first /\ i + 1 <= last
                  /\ Following(tokens, i) \in Nat /\ Following(tokens, i) >= i + 2
                  /\ Following(tokens, i) <= last + 1
                  /\ Following(tokens, i) \in K \cup {last + 1}
                  /\ \A k \in K : i < k => Following(tokens, i) <= k
  /\ \A i \in first .. last : i # first /\ i \in K =>
       \E k \in K : k < i /\ Following(tokens, k) = i

(* The keys of an object, one after the other.                             *)
LEMMA ChainStep ==
  ASSUME NEW tokens, NEW first \in Nat, NEW last \in Nat, NEW K, Chain(tokens, first, last, K),
         Counted(tokens, first, last)
  PROVE  Succession(tokens, first, last, K)
<1>1. K \subseteq first .. last
  BY DEF Chain
<1>2. ASSUME NEW i \in K
      PROVE  /\ i >= first /\ i + 1 <= last
             /\ Following(tokens, i) \in Nat /\ Following(tokens, i) >= i + 2
             /\ Following(tokens, i) <= last + 1
             /\ Following(tokens, i) \in K \cup {last + 1}
             /\ \A k \in K : i < k => Following(tokens, i) <= k
  <2>1. i \in first .. last /\ i + 1 <= last
    BY <1>1 DEF Chain
  <2>2. i + 1 \in first .. last + 1
    BY <2>1
  <2>3. tokens[i + 1].num_desc \in Nat
    BY <2>2 DEF Counted
  <2>4. Following(tokens, i) \in Nat /\ Following(tokens, i) >= i + 2
    BY <2>1, <2>3 DEF Following
  <2>5. /\ Following(tokens, i) \in K \cup {last + 1}
        /\ \A k \in K : i < k => Following(tokens, i) <= k
    BY DEF Chain
  <2>6. Following(tokens, i) <= last + 1
    <3>1. CASE Following(tokens, i) \in K
      <4>1. Following(tokens, i) \in first .. last
        BY <1>1, <3>1
      <4> QED
        BY <4>1
    <3>2. CASE Following(tokens, i) = last + 1
      BY <3>2
    <3> QED
      BY <2>5, <3>1, <3>2
  <2> QED
    BY <2>1, <2>4, <2>5, <2>6
<1>3. ASSUME NEW i \in first .. last, i # first, i \in K
      PROVE  \E k \in K : k < i /\ Following(tokens, k) = i
  <2>1. i - 1 \in first .. last
    BY <1>3
  <2>2. PICK k \in K : k <= i - 1 /\ i - 1 < Following(tokens, k)
    BY <2>1 DEF Chain
  <2>3. k \in Nat /\ Following(tokens, k) \in Nat
    BY <1>1, <1>2
  <2>4. k < i
    BY <2>2, <2>3
  <2>5. Following(tokens, k) <= i
    BY <1>2, <1>3, <2>4
  <2> QED
    BY <2>2, <2>3, <2>4, <2>5
<1> QED
  BY <1>1, <1>2, <1>3 DEF Succession

(* FindMember returns the value of the first of the keys from i on that is *)
(* the one asked for.                                                      *)
Sought(f, K, i, key) == {j \in K : j >= i /\ KeyOf(f, j) = key}
Firstly(x, M) == IF M = {} THEN x = 0 ELSE x \in {j + 1 : j \in M} /\ \A j \in M : x <= j + 1

(* Along a chain the search finds the first key that matches.              *)
LEMMA FindsAmong ==
  ASSUME NEW f, NEW first \in Nat, NEW last \in Nat, NEW K, Chain(f.tokens, first, last, K), NEW key,
         \A i \in first .. last + 1 : f.tokens[i].num_desc \in Nat,
         \A i \in 0 .. last : /\ NextKey(f, i) = Following(f.tokens, i)
                              /\ NextKey(f, i) \in Nat /\ NextKey(f, i) > i,
         NEW k0 \in K \cup {last + 1}
  PROVE  Firstly(FindMember(f, last, key)[k0], Sought(f, K, k0, key))
<1> DEFINE F == FindMember(f, last, key)
           M(i) == {j \in K : j >= i /\ KeyOf(f, j) = key}
           T == {i \in Nat : i \in K \cup {last + 1} => Firstly(F[i], M(i))}
<1>1. \A i \in Nat : F[i] = FindStep(f, last, key, F, i)
  BY FindMemberUnfolds
<1> HIDE DEF F
<1>2. /\ K \subseteq Nat
      /\ \A i \in K : /\ i >= first /\ i + 1 <= last
                      /\ Following(f.tokens, i) \in Nat /\ Following(f.tokens, i) >= i + 2
                      /\ Following(f.tokens, i) <= last + 1
                      /\ Following(f.tokens, i) \in K \cup {last + 1}
                      /\ \A k \in K : i < k => Following(f.tokens, i) <= k
  <2>1. Counted(f.tokens, first, last)
    BY DEF Counted
  <2>2. Succession(f.tokens, first, last, K)
    BY <2>1, ChainStep
  <2> QED
    BY <2>2 DEF Succession
<1>3. ASSUME NEW i \in 0 .. last + 1, \A j \in 0 .. last + 1 : i < j => j \in T
      PROVE  i \in T
  <2> SUFFICES ASSUME i \in K \cup {last + 1}
               PROVE  Firstly(F[i], M(i))
    OBVIOUS
  <2>0. i \in Nat /\ F[i] = FindStep(f, last, key, F, i)
    BY <1>1
  <2>1. CASE i \notin K
    <3>1. F[i] = 0
      BY <2>0, <2>1 DEF FindStep
    <3>2. M(i) = {}
      <4>1. \A j \in K : ~(j >= last + 1)
        BY <1>2
      <4>2. i = last + 1
        BY <2>1
      <4> QED
        BY <4>1, <4>2
    <3> HIDE DEF M
    <3> QED
      BY <3>1, <3>2 DEF Firstly
  <2>2. CASE i \in K
    <3>1. i <= last /\ f.tokens[i].type = "string"
      BY <1>2, <2>2 DEF Chain
    <3>2. CASE KeyOf(f, i) = key
      <4>1. F[i] = i + 1
        BY <2>0, <3>1, <3>2 DEF FindStep
      <4>2. i \in M(i) /\ \A j \in M(i) : j \in Nat /\ i <= j
        BY <1>2, <2>0, <2>2, <3>2
      <4>3. M(i) # {}
        BY <4>2
      <4> HIDE DEF M
      <4>4. \A j \in M(i) : i + 1 <= j + 1
        BY <2>0, <4>2
      <4>5. i + 1 \in {j + 1 : j \in M(i)}
        BY <4>2
      <4> QED
        BY <4>1, <4>3, <4>4, <4>5 DEF Firstly
    <3>3. CASE KeyOf(f, i) # key
      <4> DEFINE k == Following(f.tokens, i)
      <4>1. k = NextKey(f, i) /\ k \in Nat /\ k > i /\ k <= last + 1 /\ k \in K \cup {last + 1}
        <5>1. i \in 0 .. last
          BY <3>1
        <5> QED
          BY <1>2, <2>2, <5>1
      <4>2. F[i] = F[k]
        BY <2>0, <3>1, <3>3, <4>1 DEF FindStep
      <4>3. M(i) = M(k)
        <5>1. \A j \in K : j >= i /\ KeyOf(f, j) = key => j >= k
          <6> TAKE j \in K
          <6>1. j \in Nat /\ (i < j => k <= j)
            BY <1>2, <2>2
          <6>2. j >= i /\ KeyOf(f, j) = key => i < j
            BY <2>0, <3>3, <6>1
          <6> QED
            BY <4>1, <6>1, <6>2
        <5>2. \A j \in K : j >= k => j >= i
          BY <1>2, <2>0, <4>1
        <5> QED
          BY <5>1, <5>2
      <4> HIDE DEF k
      <4>4. k \in T
        BY <1>3, <4>1
      <4>5. Firstly(F[k], M(k))
        BY <4>1, <4>4
      <4> HIDE DEF M
      <4> QED
        BY <4>2, <4>3, <4>5
    <3> QED
      BY <3>2, <3>3
  <2> QED
    BY <2>1, <2>2
<1> HIDE DEF T
<1>4. \A i \in 0 .. last + 1 : i \in T
  <2>1. last + 1 \in Nat
    OBVIOUS
  <2>2. \A i \in 0 .. last + 1 : (\A j \in 0 .. last + 1 : i < j => j \in T) => i \in T
    BY <1>3
  <2> QED
    BY <2>1, <2>2, DownInduction
<1>5. ASSUME NEW i \in K \cup {last + 1}
      PROVE  Firstly(F[i], M(i))
  <2>1. i \in 0 .. last + 1
    BY <1>2
  <2>2. i \in T
    BY <1>4, <2>1
  <2> QED
    BY <2>2 DEF T
<1> QED
  BY <1>5 DEF F, Sought

-----------------------------------------------------------------------------
(* The keys are every other child, and the search finds the first.         *)

(* The keys of an object and their values.                                 *)
Pairs(K) == K \cup {k + 1 : k \in K}

(* The descendants by nesting are those that num_desc counts.              *)
LEMMA DescendantsAre ==
  ASSUME NEW f, NEW n \in Nat \ {0}, SettledAt(f, n), NEW i \in 1 .. n
  PROVE  Descendants(f, i) = i + 1 .. Reach(f.tokens, i)
<1>1. Proper(f) = 1 .. n
  BY DEF SettledAt, Proper
<1>2. f.tokens[i].ptr \in Nat /\ f.tokens[i].len \in Int /\ f.tokens[i].num_desc \in Nat
  BY DEF SettledAt
<1>3. Reach(f.tokens, i) \in Nat /\ Reach(f.tokens, i) <= n /\ Reach(f.tokens, i) >= i
  <2>1. Reach(f.tokens, i) <= n
    BY DEF SettledAt
  <2> QED
    BY <1>2, <2>1 DEF Reach
<1>4. ASSUME NEW j \in 1 .. n
      PROVE  j \in Descendants(f, i) <=> j \in i + 1 .. Reach(f.tokens, i)
  <2>0. f.tokens[j].ptr \in Nat
    BY DEF SettledAt
  <2>1. j \in Descendants(f, i) <=>
          j # i /\ f.tokens[j].ptr \in f.tokens[i].ptr .. f.tokens[i].ptr + f.tokens[i].len - 1
    BY <1>1 DEF Descendants, Span
  <2>2. CASE j = i
    BY <2>1, <2>2
  <2>3. CASE i < j
    <3>1. /\ f.tokens[i].ptr < f.tokens[j].ptr
          /\ j <= Reach(f.tokens, i) <=> f.tokens[j].ptr < f.tokens[i].ptr + f.tokens[i].len
      BY <2>3 DEF SettledAt
    <3> QED
      BY <1>2, <1>3, <2>0, <2>1, <2>3, <3>1
  <2>4. CASE j < i
    <3>1. f.tokens[j].ptr < f.tokens[i].ptr
      BY <2>4 DEF SettledAt
    <3> QED
      BY <1>2, <2>0, <2>1, <2>4, <3>1
  <2> QED
    BY <2>2, <2>3, <2>4
<1>5. Descendants(f, i) \subseteq 1 .. n /\ i + 1 .. Reach(f.tokens, i) \subseteq 1 .. n
  BY <1>1, <1>3 DEF Descendants
<1> QED
  BY <1>4, <1>5

(* No token before a key or its value reaches it.                          *)
LEMMA NotReached ==
  ASSUME NEW f, NEW n \in Nat \ {0}, SettledAt(f, n), NEW o \in 1 .. n, NEW last \in Nat, last <= n,
         NEW K, Chain(f.tokens, o + 1, last, K), NEW i \in K, NEW k \in o + 1 .. last
  PROVE  /\ k < i => Reach(f.tokens, k) < i
         /\ k < i + 1 => Reach(f.tokens, k) < i + 1
         /\ i + 1 < k /\ k < Following(f.tokens, i) => k \in i + 2 .. Reach(f.tokens, i + 1)
<1> DEFINE t == f.tokens
<1>1. \A j \in o + 1 .. last + 1 : t[j].num_desc \in Nat
  BY SettledTokens
<1>2. /\ K \subseteq Nat
      /\ \A j \in K : /\ j >= o + 1 /\ j + 1 <= last
                      /\ Following(t, j) \in Nat /\ Following(t, j) >= j + 2
                      /\ Following(t, j) <= last + 1
                      /\ Following(t, j) \in K \cup {last + 1}
                      /\ \A m \in K : j < m => Following(t, j) <= m
  <2>1. o + 1 \in Nat /\ Counted(t, o + 1, last)
    BY <1>1 DEF Counted
  <2>2. Succession(t, o + 1, last, K)
    BY <2>1, ChainStep
  <2> QED
    BY <2>2 DEF Succession
<1>3. \A j \in K : Reach(t, j) = j /\ Reach(t, j + 1) = Following(t, j) - 1
  <2> TAKE j \in K
  <2>1. j \in Nat /\ t[j].num_desc = 0 /\ j >= o + 1 /\ j + 1 <= last
    BY <1>2 DEF Chain
  <2>2. j + 1 \in o + 1 .. last + 1
    BY <2>1
  <2>3. t[j + 1].num_desc \in Nat
    BY <1>1, <2>2
  <2> QED
    BY <2>1, <2>3 DEF Reach, Following
<1>4. k < i => Reach(t, k) < i
  <2> SUFFICES ASSUME k < i PROVE Reach(t, k) < i
    OBVIOUS
  <2>1. PICK j \in K : j <= k /\ k < Following(t, j)
    BY DEF Chain
  <2>2. j \in Nat /\ j < i
    BY <1>2, <2>1
  <2>3. Following(t, j) \in Nat /\ Following(t, j) <= i /\ j + 1 <= last /\ j >= o + 1
    BY <1>2, <2>2
  <2>4. CASE k = j
    BY <1>2, <1>3, <2>2, <2>4
  <2>5. CASE k = j + 1
    <3>1. Reach(t, k) = Following(t, j) - 1
      BY <1>3, <2>5
    <3>2. i \in Nat
      BY <1>2
    <3> QED
      BY <2>3, <3>1, <3>2
  <2>6. CASE k # j /\ k # j + 1
    <3>1. j + 1 < k /\ k <= Reach(t, j + 1)
      BY <1>3, <2>1, <2>2, <2>3, <2>6
    <3>2. j + 1 \in 1 .. n /\ k \in 1 .. n
      BY <2>2, <2>3
    <3>3. Reach(t, k) <= Reach(t, j + 1)
      BY <3>1, <3>2 DEF SettledAt
    <3>4. Reach(t, k) \in Nat
      BY <1>1 DEF Reach
    <3> QED
      BY <1>2, <1>3, <2>3, <3>3, <3>4
  <2> QED
    BY <2>4, <2>5, <2>6
<1>5. i \in Nat /\ Reach(t, i) = i /\ Reach(t, i + 1) = Following(t, i) - 1
      /\ Following(t, i) \in Nat
  BY <1>2, <1>3
<1>6. Reach(t, k) \in Nat
  BY <1>1 DEF Reach
<1> HIDE DEF t
<1>7. k < i + 1 => Reach(t, k) < i + 1
  <2>1. k < i + 1 => k < i \/ k = i
    BY <1>5
  <2> QED
    BY <1>4, <1>5, <1>6, <2>1
<1>8. i + 1 < k /\ k < Following(t, i) => k \in i + 2 .. Reach(t, i + 1)
  BY <1>5
<1> QED
  BY <1>4, <1>7, <1>8 DEF t

(* The children of an object are its keys and their values.                *)
LEMMA ChildrenAre ==
  ASSUME NEW f, NEW n \in Nat \ {0}, SettledAt(f, n), NEW o \in 1 .. n,
         NEW K, Chain(f.tokens, o + 1, Reach(f.tokens, o), K)
  PROVE  Children(f, o) = Pairs(K)
<1> DEFINE t == f.tokens
           r == Reach(f.tokens, o)
           D == o + 1 .. r
<1>1. r \in Nat /\ r <= n
  <2>1. t[o].num_desc \in Nat /\ r <= n
    BY DEF SettledAt
  <2> QED
    BY <2>1 DEF Reach
<1>2. Descendants(f, o) = D
  BY DescendantsAre
<1>3. \A k \in D : Descendants(f, k) = k + 1 .. Reach(t, k)
  <2> TAKE k \in D
  <2>1. k \in 1 .. n
    BY <1>1
  <2> QED
    BY <2>1, DescendantsAre
<1>4. \A k \in D : Reach(t, k) \in Nat
  <2> TAKE k \in D
  <2>1. k \in 1 .. n
    BY <1>1
  <2>2. t[k].num_desc \in Nat
    BY <2>1 DEF SettledAt
  <2> QED
    BY <2>1, <2>2 DEF Reach
<1>5. Children(f, o) = {j \in D : \A k \in D : j \notin Descendants(f, k)}
  BY <1>2 DEF Children
<1>6. /\ K \subseteq D
      /\ \A i \in K : i \in Nat /\ i >= o + 1 /\ i + 1 <= r
  <2>1. K \subseteq D
    BY DEF Chain
  <2>2. \A i \in K : i + 1 <= r
    BY DEF Chain
  <2> QED
    BY <2>1, <2>2
<1>7. \A i \in K, k \in D :
        /\ k < i => Reach(t, k) < i
        /\ k < i + 1 => Reach(t, k) < i + 1
        /\ i + 1 < k /\ k < Following(t, i) => k \in i + 2 .. Reach(t, i + 1)
  BY <1>1, NotReached
<1>8. \A j \in D : \E i \in K : i <= j /\ j < Following(t, i)
  BY DEF Chain
<1> HIDE DEF t, r
<1>9. ASSUME NEW j \in K
      PROVE  j \in Children(f, o) /\ j + 1 \in Children(f, o)
  <2>1. j \in D /\ j + 1 \in D
    BY <1>1, <1>6
  <2>2. ASSUME NEW k \in D
        PROVE  j \notin Descendants(f, k) /\ j + 1 \notin Descendants(f, k)
    <3>1. Descendants(f, k) = k + 1 .. Reach(t, k) /\ Reach(t, k) \in Nat
      BY <1>3, <1>4
    <3>2. /\ k < j => Reach(t, k) < j
          /\ k < j + 1 => Reach(t, k) < j + 1
      BY <1>7
    <3> QED
      BY <2>1, <3>1, <3>2
  <2> QED
    BY <1>5, <2>1, <2>2
<1>10. ASSUME NEW j \in Children(f, o)
       PROVE  j \in Pairs(K)
  <2>1. j \in D /\ \A k \in D : j \notin Descendants(f, k)
    BY <1>5
  <2>2. PICK i \in K : i <= j /\ j < Following(t, i)
    BY <1>8, <2>1
  <2>3. i \in Nat /\ i + 1 \in D
    BY <1>1, <1>6
  <2>4. ~(i + 1 < j)
    <3> SUFFICES ASSUME i + 1 < j PROVE FALSE
      OBVIOUS
    <3>1. j \in i + 2 .. Reach(t, i + 1)
      BY <1>7, <2>1, <2>2
    <3>2. Descendants(f, i + 1) = (i + 1) + 1 .. Reach(t, i + 1)
      BY <1>3, <2>3
    <3>3. (i + 1) + 1 = i + 2
      BY <2>3
    <3> QED
      BY <2>1, <2>3, <3>1, <3>2, <3>3
  <2>5. j = i \/ j = i + 1
    BY <2>1, <2>2, <2>3, <2>4
  <2> QED
    BY <2>5 DEF Pairs
<1> QED
  BY <1>9, <1>10 DEF Pairs

(* Before a key there are keys and values in pairs.                        *)
Before(K, i) == Cardinality({l \in Pairs(K) : l < i}) % 2

(* It is even before a key and odd before its value.                       *)
Alternate(K, k) == Before(K, k) = 0 /\ Before(K, k + 1) = 1

(* Before a key there is an even number of children, before a value odd.   *)
LEMMA KeysAreEven ==
  ASSUME NEW tokens, NEW first \in Nat, NEW last \in Nat, NEW K, Chain(tokens, first, last, K),
         Counted(tokens, first, last), NEW k \in K
  PROVE  Alternate(K, k)
<1> DEFINE B(i) == {l \in Pairs(K) : l < i}
           Even(i) == IsFiniteSet(B(i)) /\ Cardinality(B(i)) \in Nat /\ Cardinality(B(i)) % 2 = 0
           Odd(i) == IsFiniteSet(B(i)) /\ Cardinality(B(i)) \in Nat /\ Cardinality(B(i)) % 2 = 1
           T == {m \in Nat : \A i \in K : i <= m => Even(i)}
<1>1. /\ K \subseteq Nat
      /\ \A i \in K : /\ i >= first /\ i + 1 <= last
                      /\ Following(tokens, i) \in Nat /\ Following(tokens, i) >= i + 2
                      /\ Following(tokens, i) <= last + 1
                      /\ Following(tokens, i) \in K \cup {last + 1}
                      /\ \A j \in K : i < j => Following(tokens, i) <= j
      /\ \A i \in first .. last : i # first /\ i \in K =>
           \E j \in K : j < i /\ Following(tokens, j) = i
  <2>1. Succession(tokens, first, last, K)
    BY ChainStep
  <2> QED
    BY <2>1 DEF Succession
<1>2. ASSUME NEW i \in K
      PROVE  B(i + 1) = B(i) \cup {i} /\ i \notin B(i)
  <2>1. i \in Nat /\ \A l \in Pairs(K) : l \in Nat
    <3>1. K \subseteq Nat
      BY <1>1
    <3>2. ASSUME NEW l \in Pairs(K)
          PROVE  l \in Nat
      <4>1. CASE l \in K
        BY <3>1, <4>1
      <4>2. CASE l \notin K
        <5>1. PICK j \in K : l = j + 1
          BY <4>2 DEF Pairs
        <5> QED
          BY <3>1, <5>1
      <4> QED
        BY <4>1, <4>2
    <3> QED
      BY <3>1, <3>2
  <2>2. i \in Pairs(K)
    BY DEF Pairs
  <2>3. \A l \in Pairs(K) : l < i + 1 <=> (l < i \/ l = i)
    <3> TAKE l \in Pairs(K)
    <3>1. l \in Nat
      BY <2>1
    <3> QED
      BY <2>1, <3>1
  <2>4. ~(i < i)
    BY <2>1
  <2> QED
    BY <2>2, <2>3, <2>4
<1>3. ASSUME NEW i \in K
      PROVE  B(Following(tokens, i)) = B(i + 1) \cup {i + 1} /\ i + 1 \notin B(i + 1)
  <2>1. i \in Nat /\ Following(tokens, i) \in Nat /\ Following(tokens, i) >= i + 2
    BY <1>1
  <2>2. i + 1 \in Pairs(K)
    BY DEF Pairs
  <2>3. ASSUME NEW l \in Pairs(K), l < Following(tokens, i)
        PROVE  l <= i + 1
    <3>1. CASE l \in K
      <4>1. l \in Nat /\ ~(i < l)
        BY <1>1, <2>1, <2>3, <3>1
      <4> QED
        BY <2>1, <4>1
    <3>2. CASE l \notin K
      <4>1. PICK j \in K : l = j + 1
        BY <3>2 DEF Pairs
      <4>2. j \in Nat
        BY <1>1
      <4>3. ~(i < j)
        <5> SUFFICES ASSUME i < j PROVE FALSE
          OBVIOUS
        <5>1. Following(tokens, i) <= j
          BY <1>1
        <5> QED
          BY <2>1, <2>3, <4>1, <4>2, <5>1
      <4> QED
        BY <2>1, <4>1, <4>2, <4>3
    <3> QED
      BY <3>1, <3>2
  <2>4. \A l \in Pairs(K) : l \in Nat
    BY <1>1 DEF Pairs
  <2>5. \A l \in Pairs(K) : l < Following(tokens, i) <=> (l < i + 1 \/ l = i + 1)
    <3> TAKE l \in Pairs(K)
    <3>1. l \in Nat /\ (l < Following(tokens, i) => l <= i + 1)
      BY <2>3, <2>4
    <3> QED
      BY <2>1, <3>1
  <2> QED
    BY <2>1, <2>2, <2>5
<1>4. ASSUME NEW i \in K, Even(i)
      PROVE  Odd(i + 1) /\ Even(Following(tokens, i))
  <2>1. IsFiniteSet(B(i + 1)) /\ Cardinality(B(i + 1)) = Cardinality(B(i)) + 1
    <3>1. IsFiniteSet(B(i)) /\ i \notin B(i) /\ B(i + 1) = B(i) \cup {i}
      BY <1>2, <1>4
    <3> HIDE DEF B
    <3> QED
      BY <3>1, FS_AddElement
  <2>2. /\ IsFiniteSet(B(Following(tokens, i)))
        /\ Cardinality(B(Following(tokens, i))) = Cardinality(B(i + 1)) + 1
    <3>1. /\ i + 1 \notin B(i + 1)
          /\ B(Following(tokens, i)) = B(i + 1) \cup {i + 1}
      BY <1>3
    <3> HIDE DEF B
    <3> QED
      BY <2>1, <3>1, FS_AddElement
  <2> HIDE DEF B
  <2> QED
    BY <1>4, <2>1, <2>2
<1>5. first \in K => Even(first)
  <2>1. \A l \in Pairs(K) : ~(l < first)
    BY <1>1 DEF Pairs
  <2>2. B(first) = {}
    BY <2>1
  <2> HIDE DEF B
  <2> QED
    BY <2>2, FS_EmptySet
<1>6. 0 \in T
  <2>1. ASSUME NEW i \in K, i <= 0
        PROVE  Even(i)
    <3>0. i \in Nat /\ i >= first
      BY <1>1
    <3>1. i = first
      BY <2>1, <3>0
    <3> HIDE DEF Even
    <3> QED
      BY <1>5, <3>1
  <2> HIDE DEF Even
  <2> QED
    BY <2>1
<1>7. ASSUME NEW m \in Nat, m \in T
      PROVE  m + 1 \in T
  <2>1. ASSUME NEW i \in K, i <= m + 1
        PROVE  Even(i)
    <3>1. CASE i = first
      <4> HIDE DEF Even
      <4> QED
        BY <1>5, <3>1
    <3>2. CASE i # first
      <4>1. i \in first .. last /\ i \in Nat
        BY <1>1
      <4>2. PICK j \in K : j < i /\ Following(tokens, j) = i
        BY <1>1, <3>2, <4>1
      <4>3. j <= m
        BY <1>1, <2>1, <4>1, <4>2
      <4>4. Even(j)
        <5> HIDE DEF Even
        <5> QED
          BY <1>7, <4>3
      <4>5. Even(Following(tokens, j))
        <5> HIDE DEF Even, Odd
        <5> QED
          BY <1>4, <4>4
      <4> HIDE DEF Even
      <4> QED
        BY <4>2, <4>5
    <3> QED
      BY <3>1, <3>2
  <2> HIDE DEF Even
  <2> QED
    BY <2>1
<1>8. \A m \in Nat : m \in T
  <2> HIDE DEF T
  <2> QED
    BY <1>6, <1>7, Induction
<1>9. ASSUME NEW i \in K
      PROVE  Even(i) /\ Odd(i + 1)
  <2>1. i \in Nat /\ i <= i
    BY <1>1
  <2>2. Even(i)
    <3> HIDE DEF Even
    <3> QED
      BY <1>8, <2>1
  <2>3. Odd(i + 1)
    <3> HIDE DEF Even, Odd
    <3> QED
      BY <1>4, <2>2
  <2> HIDE DEF Even, Odd
  <2> QED
    BY <2>2, <2>3
<1> QED
  BY <1>9 DEF Alternate, Before

(* The members of a key are the values after the keys that match.          *)
LEMMA MembersAre ==
  ASSUME NEW f, NEW n \in Nat \ {0}, SettledAt(f, n), NEW o \in 1 .. n, NEW key,
         NEW K, Chain(f.tokens, o + 1, Reach(f.tokens, o), K)
  PROVE  MembersWith(f, o, key) = {j + 1 : j \in {k \in K : KeyOf(f, k) = key}}
<1> DEFINE r == Reach(f.tokens, o)
           Even(k) == Cardinality({l \in Pairs(K) : l < k}) % 2 = 0
<1>1. r \in Nat /\ r <= n
  <2>1. f.tokens[o].num_desc \in Nat /\ r <= n
    BY DEF SettledAt
  <2> QED
    BY <2>1 DEF Reach
<1>2. Children(f, o) = Pairs(K)
  BY ChildrenAre
<1>3. \A i \in K : Even(i) /\ ~Even(i + 1)
  <2>1. o + 1 \in Nat /\ \A i \in o + 1 .. Reach(f.tokens, o) + 1 : f.tokens[i].num_desc \in Nat
    BY <1>1, SettledTokens
  <2>2. \A i \in K : Before(K, i) = 0 /\ Before(K, i + 1) = 1
    <3> DEFINE first == o + 1
               last == Reach(f.tokens, o)
    <3>1. first \in Nat /\ last \in Nat /\ Chain(f.tokens, first, last, K)
      BY <1>1
    <3>2. Counted(f.tokens, first, last)
      BY <2>1 DEF Counted
    <3> HIDE DEF first, last
    <3>3. ASSUME NEW i \in K
          PROVE  Alternate(K, i)
      BY <3>1, <3>2, KeysAreEven
    <3> QED
      BY <3>3 DEF Alternate
  <2>3. \A k : Even(k) <=> Before(K, k) = 0
    BY DEF Before
  <2> HIDE DEF Even
  <2> QED
    BY <2>2, <2>3
<1>4. MembersWith(f, o, key) = {j + 1 : j \in {k \in Pairs(K) : Even(k) /\ KeyOf(f, k) = key}}
  BY <1>2 DEF MembersWith
<1> HIDE DEF Even
<1>5. {k \in Pairs(K) : Even(k) /\ KeyOf(f, k) = key} = {k \in K : KeyOf(f, k) = key}
  BY <1>3 DEF Pairs
<1> QED
  BY <1>4, <1>5

FirstIn(S) == IF S = {} THEN 0 ELSE Min(S)

(* The first of the keys that match gives the first of the members.        *)
LEMMA FirstlyIs ==
  ASSUME NEW M \in SUBSET Nat, NEW x, Firstly(x, M)
  PROVE  x = FirstIn({j + 1 : j \in M})
<1> DEFINE S == {j + 1 : j \in M}
<1>1. CASE M = {}
  <2>1. S = {}
    BY <1>1
  <2> HIDE DEF S
  <2>2. FirstIn(S) = 0 /\ x = 0
    BY <1>1, <2>1 DEF FirstIn, Firstly
  <2> QED
    BY <2>2 DEF S
<1>2. CASE M # {}
  <2>1. x \in S /\ \A j \in M : x <= j + 1
    BY <1>2 DEF Firstly
  <2>2. S \subseteq Nat /\ \A y \in S : x <= y
    BY <2>1
  <2> HIDE DEF S
  <2>3. S # {}
    BY <2>1
  <2>4. Min(S) \in S /\ \A y \in S : Min(S) <= y
    BY <2>2, <2>3, MinOf
  <2>5. Min(S) \in Nat /\ x \in Nat /\ x <= Min(S) /\ Min(S) <= x
    BY <2>1, <2>2, <2>4
  <2>6. x = Min(S)
    BY <2>5
  <2>7. x = FirstIn(S)
    BY <2>3, <2>6 DEF FirstIn
  <2> QED
    BY <2>7 DEF S
<1> QED
  BY <1>1, <1>2

(* One step of a path goes to the first member with that key.              *)
LEMMA StepsIntoFirst ==
  ASSUME NEW f, NEW n \in Nat \ {0}, SettledAt(f, n), NEW o \in 1 .. n,
         f.tokens[o].type = "object", NEW key
  PROVE  /\ StepInto(f, o, key) = FirstIn(MembersWith(f, o, key))
         /\ StepInto(f, o, key) \in 0 .. n
<1> DEFINE r == Reach(f.tokens, o)
           first == o + 1
           x == FindMember(f, r, key)[first]
<1>1. r \in Nat /\ o <= r /\ r <= n /\ r = o + f.tokens[o].num_desc
  <2>1. f.tokens[o].num_desc \in Nat /\ r <= n
    BY DEF SettledAt
  <2> QED
    BY <2>1 DEF Reach
<1>2. PICK K : Chain(f.tokens, first, r, K)
  <2>1. Keyed(f.tokens, o, r)
    BY DEF SettledAt
  <2> QED
    BY <2>1 DEF Keyed
<1>3. StepInto(f, o, key) = x
  BY <1>1 DEF StepInto
<1> DEFINE M == {k \in K : KeyOf(f, k) = key}
<1>4. MembersWith(f, o, key) = {j + 1 : j \in M}
  BY <1>2, MembersAre
<1>5. /\ \A i \in first .. r + 1 : f.tokens[i].num_desc \in Nat
      /\ \A i \in 0 .. r : /\ NextKey(f, i) = Following(f.tokens, i)
                           /\ NextKey(f, i) \in Nat /\ NextKey(f, i) > i
  <2>1. first .. r + 1 \subseteq 1 .. n + 1 /\ 0 .. r \subseteq 0 .. n
    BY <1>1
  <2> QED
    BY <2>1, SettledTokens, NextKeyIs
<1>6. first \in Nat
  OBVIOUS
<1> HIDE DEF r, first
<1>7. K \subseteq first .. r /\ first \in K \cup {r + 1} /\ \A i \in K : i + 1 <= r
  BY <1>2 DEF Chain
<1>8. Firstly(x, Sought(f, K, first, key))
  BY <1>1, <1>2, <1>5, <1>6, <1>7, FindsAmong
<1>9. Sought(f, K, first, key) = M
  <2>1. \A j \in K : j >= first
    BY <1>1, <1>6, <1>7
  <2> QED
    BY <2>1 DEF Sought
<1>10. M \in SUBSET Nat /\ \A j \in M : j + 1 \in 0 .. n
  <2>1. \A j \in K : j \in Nat /\ j + 1 \in 0 .. n
    BY <1>1, <1>6, <1>7
  <2> QED
    BY <2>1
<1> HIDE DEF M, x
<1>11. Firstly(x, M)
  BY <1>8, <1>9
<1>12. x = FirstIn({j + 1 : j \in M})
  BY <1>10, <1>11, FirstlyIs
<1>13. x \in 0 .. n
  BY <1>10, <1>11 DEF Firstly
<1> QED
  BY <1>3, <1>4, <1>12, <1>13

(* The search finds the first member, and the first inside that.           *)
LEMMA FindsIn ==
  ASSUME NEW f, Settled(f), NEW key, NEW inner
  PROVE  LET outer == FindJsonToken(f, <<key>>)
         IN  /\ outer = FirstIn(MembersWith(f, 1, key))
             /\ FindJsonToken(f, <<key, inner>>)
                  = FirstIn(IF outer # 0 /\ f.tokens[outer].type = "object"
                            THEN MembersWith(f, outer, inner) ELSE {})
<1> DEFINE outer == FindJsonToken(f, <<key>>)
<1>1. PICK n \in Nat \ {0} : SettledAt(f, n)
  BY DEF Settled
<1>2. outer = StepInto(f, 1, key) /\ FindJsonToken(f, <<key, inner>>) = StepInto(f, outer, inner)
  BY FindJsonTokenUnfolds
<1>3. 1 \in 1 .. n /\ f.tokens[1].type = "object"
  BY <1>1 DEF SettledAt
<1> HIDE DEF outer
<1>4. outer = FirstIn(MembersWith(f, 1, key)) /\ outer \in 0 .. n
  BY <1>1, <1>2, <1>3, StepsIntoFirst
<1>5. CASE outer # 0 /\ f.tokens[outer].type = "object"
  <2>1. outer \in 1 .. n
    BY <1>4, <1>5
  <2>2. StepInto(f, outer, inner) = FirstIn(MembersWith(f, outer, inner))
    BY <1>1, <1>5, <2>1, StepsIntoFirst
  <2> QED
    BY <1>2, <1>4, <1>5, <2>2 DEF outer
<1>6. CASE ~(outer # 0 /\ f.tokens[outer].type = "object")
  <2>1. StepInto(f, outer, inner) = 0
    BY <1>6 DEF StepInto
  <2>2. FirstIn({}) = 0
    BY DEF FirstIn
  <2> QED
    BY <1>2, <1>4, <1>6, <2>1, <2>2 DEF outer
<1> QED
  BY <1>5, <1>6

(* find_json_token, which steps over tokens by counting descendants, finds *)
(* the first member of that key of that object, and none that is deeper    *)
(* inside or in a value: whatever was typed, and whatever the server has   *)
(* written.                                                                *)
THEOREM FindsFirstMember == TextSpec => []FindsFirst
<1>1. TextType => FindsFirst
  <2> SUFFICES ASSUME TextType PROVE FindsFirst
    OBVIOUS
  <2>1. ASSUME NEW f \in Parses, f.code = 0
        PROVE  Settled(f)
    <3>1. PICK S, s : s \in Seq(S) /\ f = Doit(s)
      BY ParsesAre
    <3> QED
      BY <2>1, <3>1, Settles
  <2> DEFINE FirstOf(S) == IF S = {} THEN 0 ELSE Min(S)
             DeepIn(f, i, key) ==
               IF i # 0 /\ f.tokens[i].type = "object" THEN MembersWith(f, i, key) ELSE {}
             Keys(f) == {KeyOf(f, i) : i \in Proper(f)}
  <2>2. ASSUME NEW f \in Parses, f.code = 0, NEW key
        PROVE  LET outer == FindJsonToken(f, <<key>>)
               IN  /\ outer = FirstOf(MembersWith(f, 1, key))
                   /\ \A inner : FindJsonToken(f, <<key, inner>>) = FirstOf(DeepIn(f, outer, inner))
    <3>1. Settled(f)
      BY <2>1, <2>2
    <3>2. \A S : FirstOf(S) = FirstIn(S)
      BY DEF FirstIn
    <3> HIDE DEF FirstOf
    <3> QED
      BY <3>1, <3>2, FindsIn
  <2>3. ASSUME NEW f \in Parses, f.code = 0, NEW key \in Keys(f)
        PROVE  \E outer \in {FindJsonToken(f, <<key>>)} :
                 /\ outer = FirstOf(MembersWith(f, 1, key))
                 /\ \A inner \in Keys(f) :
                      FindJsonToken(f, <<key, inner>>) = FirstOf(DeepIn(f, outer, inner))
    <3> HIDE DEF FirstOf, DeepIn, Keys
    <3> QED
      BY <2>2, <2>3
  <2>4. \A f \in Parses : f.code = 0 =>
          \A key \in Keys(f) : \E outer \in {FindJsonToken(f, <<key>>)} :
            /\ outer = FirstOf(MembersWith(f, 1, key))
            /\ \A inner \in Keys(f) :
                 FindJsonToken(f, <<key, inner>>) = FirstOf(DeepIn(f, outer, inner))
    <3> HIDE DEF FirstOf, DeepIn, Keys
    <3> QED
      BY <2>3
  <2> QED
    BY <2>4 DEF FindsFirst
<1> QED
  BY <1>1, TextTypeInvariant, PTL

-----------------------------------------------------------------------------
(* Turns on a text of which some is known.                                 *)

(* The parser at the place p, and what it has ahead of it there: a symbol, *)
(* perhaps after a blank.                                                  *)
St(s, p, tokens, open) == [s |-> s, cur |-> p, tokens |-> tokens, code |-> 0, open |-> open]

Ahead(s, p, k) ==
  /\ p \in 1 .. Len(s) /\ k \in 1 .. Len(s)
  /\ k = p \/ (k = p + 1 /\ s[p] = BLANK)
  /\ s[k] # BLANK

(* What of the symbols of a text that was printed is told apart.           *)
LEMMA SymbolsApart ==
  /\ BLANK \notin {QUOTE, LBRACE, RBRACE, COMMA, ":", "true", "false"} \cup Digit
  /\ QUOTE \notin {RBRACE, LBRACE, COMMA} /\ LBRACE # RBRACE /\ COMMA # RBRACE
  /\ COMMA \notin {".", "e"} \cup Digit /\ RBRACE \notin {".", "e"} \cup Digit
  /\ "." \notin Digit /\ "-" \notin Digit
  /\ \A symbol \in Letter : symbol \notin Control \cup {QUOTE, "\\"}
  /\ \A symbol \in Digit : symbol \notin {QUOTE, LBRACE, "[", COMMA, RBRACE} \cup Word
<1>1. /\ BLANK \notin {QUOTE, LBRACE, RBRACE, COMMA, ":", "true", "false"}
      /\ QUOTE \notin {RBRACE, LBRACE, COMMA} /\ LBRACE # RBRACE /\ COMMA # RBRACE
      /\ COMMA \notin {".", "e"} /\ RBRACE \notin {".", "e"}
  BY DEF BLANK, QUOTE, LBRACE, RBRACE, COMMA
<1>2. /\ {BLANK, QUOTE, LBRACE, RBRACE, COMMA, ".", "-", "[", "\\"} \subseteq Other
      /\ Control \subseteq Other /\ Word \subseteq Other
  BY DEF Other, Space
<1>3. \A symbol \in Letter \cup Digit : symbol \notin Other
  BY SymbolAssumption
<1> QED
  BY <1>1, <1>2, <1>3

(* White space is skipped up to what is ahead.                             *)
LEMMA StSkip ==
  ASSUME NEW S, NEW s \in Seq(S), NEW p, NEW k, Ahead(s, p, k), NEW tokens, NEW open
  PROVE  Skip(St(s, p, tokens, open)) = St(s, k, tokens, open) /\ Cur(St(s, p, tokens, open)) = s[k]
<1>1. p \in 1 .. Len(s) /\ k \in 1 .. Len(s) /\ Len(s) \in Nat /\ k \in p .. Len(s) + 1
  BY DEF Ahead
<1>2. \A i \in p .. k - 1 : s[i] \in Space
  BY <1>1 DEF Ahead, Space
<1>3. s[k] \notin Space
  BY DEF Ahead, Space
<1>4. After(s, p, Space) = k
  BY <1>1, <1>2, <1>3, AfterIs
<1>5. Skip(St(s, p, tokens, open)) = St(s, k, tokens, open)
  BY <1>4 DEF Skip, St
<1>6. St(s, k, tokens, open).cur = k /\ St(s, p, tokens, open).s = s
  BY DEF St
<1>7. Cur(St(s, p, tokens, open)) = At(s, k)
  BY <1>5, <1>6 DEF Cur
<1> QED
  BY <1>1, <1>5, <1>7 DEF At

(* What is ahead is taken.                                                 *)
LEMMA StTest ==
  ASSUME NEW S, NEW s \in Seq(S), NEW p, NEW k, Ahead(s, p, k), NEW tokens, NEW open
  PROVE  TestAndSkip(St(s, p, tokens, open), s[k]) = St(s, k + 1, tokens, open)
<1> DEFINE f == St(s, p, tokens, open)
<1>1. Skip(f) = St(s, k, tokens, open) /\ Cur(f) = s[k]
  BY StSkip
<1>2. f.code = 0 /\ Skip(f).cur = k
  BY <1>1 DEF St
<1>3. TestAndSkip(f, s[k]) = [f EXCEPT !.cur = k + 1]
  BY <1>1, <1>2 DEF TestAndSkip
<1> QED
  BY <1>3 DEF St

(* A token is added.                                                       *)
LEMMA StLeaf ==
  ASSUME NEW s, NEW p, NEW tokens, NEW open, NEW e \in Nat, NEW type
  PROVE  Leaf(St(s, p, tokens, open), e, type) = St(s, e, Append(tokens, Plain(type, p, e - p)), open)
<1> DEFINE f == St(s, p, tokens, open)
           token == [type |-> type, ptr |-> p, len |-> e - p, num_desc |-> 0]
           longer == Append(tokens, token)
<1>1. ~(e < 0) /\ f.cur = p /\ f.tokens = tokens
  BY DEF St
<1>2. Leaf(f, e, type) = [f EXCEPT !.tokens = longer, !.cur = e]
  <2> HIDE DEF f
  <2> QED
    BY <1>1 DEF Leaf
<1>3. token = Plain(type, p, e - p)
  BY DEF Plain
<1> HIDE DEF token
<1>4. longer = Append(tokens, Plain(type, p, e - p))
  BY <1>3
<1> HIDE DEF longer
<1>5. [f EXCEPT !.tokens = longer, !.cur = e] = St(s, e, longer, open)
  <2> DEFINE h == [f EXCEPT !.tokens = longer]
  <2>1. h = St(s, p, longer, open)
    BY DEF St
  <2>2. [f EXCEPT !.tokens = longer, !.cur = e] = [h EXCEPT !.cur = e]
    OBVIOUS
  <2> HIDE DEF h, f
  <2> QED
    BY <2>1, <2>2 DEF St
<1> QED
  BY <1>2, <1>4, <1>5

(* A string of one symbol is parsed.                                       *)
LEMMA StString ==
  ASSUME NEW S, NEW s \in Seq(S), NEW p, NEW k, Ahead(s, p, k), NEW tokens, NEW open,
         s[k] = QUOTE, s[k + 1] \in Letter, s[k + 2] = QUOTE, k + 2 < Len(s)
  PROVE  ParseString(St(s, p, tokens, open))
           = St(s, k + 3, Append(tokens, Plain("string", k + 1, 1)), open)
<1> DEFINE f == St(s, p, tokens, open)
           begun == St(s, k + 1, tokens, open)
<1>1. k \in 1 .. Len(s) /\ Len(s) \in Nat
  BY DEF Ahead
<1>2. TestAndSkip(f, QUOTE) = begun
  BY StTest
<1>3. StringEnd(s)[k + 1] = k + 2
  <2>1. k + 1 \in 1 .. Len(s) + 1 /\ k + 2 \in 1 .. Len(s) + 1 /\ (k + 1) + 1 = k + 2
    BY <1>1
  <2>2. StringEnd(s)[k + 2] = k + 2
    <3>1. QUOTE \notin Control
      BY DEF QUOTE, Control
    <3>2. StringEnd(s)[k + 2] = EndStep(s, StringEnd(s), k + 2)
      BY <2>1, StringEndUnfolds
    <3>3. ~(k + 2 > Len(s)) /\ k + 2 # Len(s)
      BY <1>1
    <3> QED
      BY <3>1, <3>2, <3>3 DEF EndStep
  <2>3. StringEnd(s)[k + 1] = EndStep(s, StringEnd(s), k + 1)
    BY <2>1, StringEndUnfolds
  <2>4. s[k + 1] \notin Control /\ s[k + 1] # QUOTE /\ s[k + 1] # "\\"
    BY SymbolsApart
  <2>5. ~(k + 1 > Len(s)) /\ k + 1 # Len(s)
    BY <1>1
  <2> QED
    BY <2>1, <2>2, <2>3, <2>4, <2>5 DEF EndStep
<1>4. f.s = s /\ begun.cur = k + 1 /\ begun.code = 0 /\ ~(k + 2 < 0) /\ k + 2 \in Nat
  BY <1>1 DEF St
<1>5. ParseString(f) = [Leaf(begun, k + 2, "string") EXCEPT !.cur = (k + 2) + 1]
  <2> HIDE DEF f, begun
  <2> QED
    BY <1>2, <1>3, <1>4 DEF ParseString
<1>6. Leaf(begun, k + 2, "string") = St(s, k + 2, Append(tokens, Plain("string", k + 1, (k + 2) - (k + 1))), open)
  BY <1>4, StLeaf
<1>7. (k + 2) - (k + 1) = 1 /\ (k + 2) + 1 = k + 3
  BY <1>1
<1> DEFINE longer == Append(tokens, Plain("string", k + 1, 1))
<1>8. Leaf(begun, k + 2, "string") = St(s, k + 2, longer, open)
  BY <1>6, <1>7
<1> HIDE DEF longer, f, begun
<1>9. ParseString(f) = [St(s, k + 2, longer, open) EXCEPT !.cur = k + 3]
  BY <1>5, <1>7, <1>8
<1>10. ParseString(f) = St(s, k + 3, longer, open)
  BY <1>9 DEF St
<1> QED
  BY <1>10 DEF f, longer

(* The value at the place v, which ends before the place e.                *)
ValueHere(s, v, token, e) ==
  \/ /\ s[v] = QUOTE /\ s[v + 1] \in Letter /\ s[v + 2] = QUOTE /\ v + 2 < Len(s)
     /\ token = Plain("string", v + 1, 1) /\ e = v + 3
  \/ /\ s[v] \in {"true", "false"} /\ v < Len(s)
     /\ token = Plain(s[v], v, 1) /\ e = v + 1
  \/ /\ s[v] \in Digit /\ v < Len(s) /\ s[v + 1] \in {COMMA, RBRACE}
     /\ token = Plain("number", v, 1) /\ e = v + 1
  \/ /\ s[v] \in Digit /\ s[v + 1] = "." /\ s[v + 2] \in Digit /\ v + 2 < Len(s)
     /\ s[v + 3] \in {COMMA, RBRACE}
     /\ token = Plain("number", v, 3) /\ e = v + 3

(* Where a number ends that has one digit, or one before the point and one *)
(* after.                                                                  *)
LEMMA NumberHere ==
  ASSUME NEW S, NEW s \in Seq(S), NEW v \in 1 .. Len(s), s[v] \in Digit, v < Len(s)
  PROVE  /\ s[v + 1] \in {COMMA, RBRACE} => NumberEnd(s, v) = v + 1
         /\ s[v + 1] = "." /\ s[v + 2] \in Digit /\ v + 2 < Len(s) /\ s[v + 3] \in {COMMA, RBRACE}
              => NumberEnd(s, v) = v + 3
<1>1. Len(s) \in Nat /\ v \in Nat /\ v > 0
  OBVIOUS
<1>2. At(s, v) = s[v] /\ Past(s, v, {"-"}) = v
  BY <1>1, SymbolsApart DEF At, Past
<1>3. ASSUME NEW j \in v + 1 .. Len(s), s[j] \in {COMMA, RBRACE}
      PROVE  s[j] \notin Digit /\ At(s, j) \notin {".", "e"}
  BY <1>1, <1>3, SymbolsApart DEF At
<1>4. ASSUME NEW j \in 1 .. Len(s), s[j] \in Digit, j + 1 <= Len(s), s[j + 1] \notin Digit
      PROVE  Digits(s, j) = j + 1
  <2>1. After(s, j, Digit) = j + 1
    <3>1. /\ j \in 1 .. Len(s) + 1 /\ j + 1 \in j .. Len(s) + 1
          /\ \A k \in j .. (j + 1) - 1 : k = j
      BY <1>1
    <3>2. \A k \in j .. (j + 1) - 1 : s[k] \in Digit
      BY <1>4, <3>1
    <3> QED
      BY <1>4, <3>1, <3>2, AfterIs
  <2>2. ~(j < 0) /\ At(s, j) \in Digit
    BY <1>1, <1>4 DEF At
  <2> QED
    BY <2>1, <2>2 DEF Digits
<1>5. ASSUME s[v + 1] \in {COMMA, RBRACE}
      PROVE  NumberEnd(s, v) = v + 1
  <2>0. v + 1 \in v + 1 .. Len(s) /\ v + 1 > 0
    BY <1>1
  <2>1. s[v + 1] \notin Digit /\ At(s, v + 1) \notin {".", "e"}
    BY <1>3, <1>5, <2>0
  <2>2. Digits(s, v) = v + 1
    BY <1>4, <2>0, <2>1
  <2>3. Fraction(s, v + 1) = v + 1
    BY <2>1 DEF Fraction
  <2>4. Exponent(s, v + 1) = v + 1
    BY <2>1 DEF Exponent
  <2> QED
    BY <1>2, <2>2, <2>3, <2>4 DEF NumberEnd
<1>6. ASSUME s[v + 1] = ".", s[v + 2] \in Digit, v + 2 < Len(s), s[v + 3] \in {COMMA, RBRACE}
      PROVE  NumberEnd(s, v) = v + 3
  <2>0. v + 1 \in 1 .. Len(s) /\ v + 2 \in 1 .. Len(s) /\ v + 3 \in v + 1 .. Len(s)
        /\ (v + 1) + 1 = v + 2 /\ (v + 2) + 1 = v + 3 /\ v + 1 > 0
    BY <1>1, <1>6
  <2>1. s[v + 3] \notin Digit /\ At(s, v + 3) \notin {".", "e"}
    BY <1>3, <1>6, <2>0
  <2>2. Digits(s, v) = v + 1
    BY <1>4, <1>6, <2>0, SymbolsApart
  <2>3. Digits(s, v + 2) = v + 3
    BY <1>4, <1>6, <2>0, <2>1
  <2>4. At(s, v + 1) = "."
    BY <1>6, <2>0 DEF At
  <2>5. Fraction(s, v + 1) = v + 3
    BY <2>0, <2>3, <2>4 DEF Fraction
  <2>6. Exponent(s, v + 3) = v + 3
    BY <2>1 DEF Exponent
  <2> QED
    BY <1>2, <2>2, <2>5, <2>6 DEF NumberEnd
<1> QED
  BY <1>5, <1>6

(* A value is parsed.                                                      *)
LEMMA StValue ==
  ASSUME NEW S, NEW s \in Seq(S), NEW p, NEW v, Ahead(s, p, v), NEW tokens, NEW open,
         NEW token, NEW e, ValueHere(s, v, token, e)
  PROVE  /\ ParseValue(St(s, p, tokens, open)) = St(s, e, Append(tokens, token), open)
         /\ e \in Nat
<1> DEFINE f == St(s, p, tokens, open)
           g == St(s, v, tokens, open)
<1>1. v \in 1 .. Len(s) /\ Len(s) \in Nat
  BY DEF Ahead
<1>2. Skip(f) = g /\ Cur(f) = s[v]
  BY StSkip
<1>3. f.code = 0 /\ g.s = s /\ g.cur = v /\ Left(g) = Len(s) + 1 - v
  BY DEF St, Left
<1>4. ParseValue(f) = ValueAt(g, s[v])
  BY <1>2, <1>3 DEF ParseValue
<1> HIDE DEF f
<1>5. CASE /\ s[v] = QUOTE /\ s[v + 1] \in Letter /\ s[v + 2] = QUOTE /\ v + 2 < Len(s)
           /\ token = Plain("string", v + 1, 1) /\ e = v + 3
  <2>1. ValueAt(g, s[v]) = ParseString(g)
    BY <1>5, ValueAtIs
  <2>2. Ahead(s, v, v)
    BY DEF Ahead
  <2>3. ParseString(g) = St(s, v + 3, Append(tokens, Plain("string", v + 1, 1)), open)
    BY <1>5, <2>2, StString
  <2> QED
    BY <1>1, <1>4, <1>5, <2>1, <2>3 DEF f
<1>6. CASE /\ s[v] \in {"true", "false"} /\ v < Len(s)
           /\ token = Plain(s[v], v, 1) /\ e = v + 1
  <2>1. s[v] \in Word /\ Left(g) > 1
    BY <1>1, <1>3, <1>6 DEF Word
  <2>2. ValueAt(g, s[v]) = Leaf(g, v + 1, s[v])
    BY <1>3, <2>1, ValueAtIs
  <2>3. v + 1 \in Nat /\ (v + 1) - v = 1
    BY <1>1
  <2>4. Leaf(g, v + 1, s[v]) = St(s, v + 1, Append(tokens, Plain(s[v], v, (v + 1) - v)), open)
    BY <2>3, StLeaf
  <2> QED
    BY <1>4, <1>6, <2>2, <2>3, <2>4 DEF f
<1>7. ASSUME s[v] \in Digit, NEW len \in Nat, token = Plain("number", v, len), e = v + len,
             NumberEnd(s, v) = v + len
      PROVE  ParseValue(f) = St(s, e, Append(tokens, token), open) /\ e \in Nat
  <2>1. ValueAt(g, s[v]) = ParseNumber(g)
    BY <1>7, ValueAtIs DEF NumberAhead
  <2>2. v + len \in Nat /\ (v + len) - v = len
    BY <1>1
  <2>3. ParseNumber(g) = Leaf(g, v + len, "number")
    BY <1>3, <1>7 DEF ParseNumber
  <2>4. Leaf(g, v + len, "number") = St(s, v + len, Append(tokens, Plain("number", v, (v + len) - v)), open)
    BY <2>2, StLeaf
  <2> QED
    BY <1>4, <1>7, <2>1, <2>2, <2>3, <2>4
<1>8. CASE /\ s[v] \in Digit /\ v < Len(s) /\ s[v + 1] \in {COMMA, RBRACE}
           /\ token = Plain("number", v, 1) /\ e = v + 1
  BY <1>1, <1>7, <1>8, NumberHere DEF f
<1>9. CASE /\ s[v] \in Digit /\ s[v + 1] = "." /\ s[v + 2] \in Digit /\ v + 2 < Len(s)
           /\ s[v + 3] \in {COMMA, RBRACE}
           /\ token = Plain("number", v, 3) /\ e = v + 3
  <2>1. v < Len(s)
    BY <1>1, <1>9
  <2> QED
    BY <1>1, <1>7, <1>9, <2>1, NumberHere DEF f
<1> QED
  BY <1>5, <1>6, <1>8, <1>9 DEF ValueHere, f

(* The key at the place k, with its colon and a blank.                     *)
KeyHere(s, k) ==
  /\ s[k] = QUOTE /\ s[k + 1] \in Letter /\ s[k + 2] = QUOTE
  /\ s[k + 3] = ":" /\ s[k + 4] = BLANK /\ s[k + 5] # BLANK
  /\ k + 5 <= Len(s)

KeyToken(k) == Plain("string", k + 1, 1)

(* A key and its colon are parsed.                                         *)
LEMMA StKey ==
  ASSUME NEW S, NEW s \in Seq(S), NEW p, NEW k, Ahead(s, p, k), KeyHere(s, k), NEW tokens, NEW open
  PROVE  /\ TestAndSkip(ParseKey(St(s, p, tokens, open)), ":")
              = St(s, k + 4, Append(tokens, KeyToken(k)), open)
         /\ Ahead(s, k + 4, k + 5)
<1>1. k \in 1 .. Len(s) /\ Len(s) \in Nat
  BY DEF Ahead
<1>2. ParseKey(St(s, p, tokens, open)) = ParseString(St(s, p, tokens, open))
  <2>1. Cur(St(s, p, tokens, open)) = QUOTE
    BY StSkip DEF KeyHere
  <2> QED
    BY <2>1, ParseKeyIs
<1>3. ParseString(St(s, p, tokens, open)) = St(s, k + 3, Append(tokens, KeyToken(k)), open)
  <2>1. /\ s[k] = QUOTE /\ s[k + 1] \in Letter /\ s[k + 2] = QUOTE /\ k + 2 < Len(s)
    BY <1>1 DEF KeyHere
  <2> QED
    BY <2>1, StString DEF KeyToken
<1>4. Ahead(s, k + 3, k + 3) /\ s[k + 3] = ":"
  BY <1>1, SymbolsApart DEF KeyHere, Ahead
<1>5. TestAndSkip(St(s, k + 3, Append(tokens, KeyToken(k)), open), s[k + 3])
        = St(s, (k + 3) + 1, Append(tokens, KeyToken(k)), open)
  BY <1>4, StTest
<1>6. Ahead(s, k + 4, k + 5)
  BY <1>1 DEF KeyHere, Ahead
<1>7. (k + 3) + 1 = k + 4
  BY <1>1
<1> QED
  BY <1>2, <1>3, <1>4, <1>5, <1>6, <1>7

(* A turn of the loop when an object is innermost.                         *)
InObject(tokens, open) ==
  open \in Seq(Nat) /\ open # <<>> /\ tokens[Last(open)].type = "object"

(* What a turn in an object does, by what is ahead.                        *)
LEMMA StTurn ==
  ASSUME NEW S, NEW s \in Seq(S), NEW p, NEW k, Ahead(s, p, k), NEW tokens, NEW open,
         InObject(tokens, open)
  PROVE  LET f == St(s, p, tokens, open)
         IN  /\ Closing(f) = RBRACE
             /\ s[k] = RBRACE => Turn(f) = Comma(Closed(f))
             /\ s[k] # RBRACE =>
                  Turn(f) = IF Len(ParsePair(f).open) > Len(open) THEN ParsePair(f)
                            ELSE Comma(ParsePair(f))
<1> DEFINE f == St(s, p, tokens, open)
<1>1. f.code = 0 /\ f.open = open /\ f.tokens = tokens
  BY DEF St
<1>2. Cur(f) = s[k]
  BY StSkip
<1> HIDE DEF f
<1>3. Closing(f) = RBRACE /\ open # <<>>
  BY <1>1 DEF Closing, InObject
<1>4. Member(f) = ParsePair(f)
  BY <1>3 DEF Member
<1>5. /\ s[k] = RBRACE => Turn(f) = Comma(Closed(f))
      /\ s[k] # RBRACE =>
           Turn(f) = IF Len(ParsePair(f).open) > Len(open) THEN ParsePair(f) ELSE Comma(ParsePair(f))
  BY <1>1, <1>2, <1>3, <1>4 DEF Turn
<1> QED
  BY <1>3, <1>5 DEF f

(* A comma is passed if it is ahead.                                       *)
LEMMA StComma ==
  ASSUME NEW S, NEW s \in Seq(S), NEW p, NEW k, Ahead(s, p, k), NEW tokens, NEW open, open # <<>>
  PROVE  /\ s[k] = COMMA => Comma(St(s, p, tokens, open)) = St(s, k + 1, tokens, open)
         /\ s[k] # COMMA => Comma(St(s, p, tokens, open)) = St(s, p, tokens, open)
<1> DEFINE f == St(s, p, tokens, open)
<1>1. f.code = 0 /\ f.open = open
  BY DEF St
<1>2. Cur(f) = s[k] /\ Skip(f).cur = k
  <2>1. Cur(f) = s[k] /\ Skip(f) = St(s, k, tokens, open)
    BY StSkip
  <2> HIDE DEF f
  <2> QED
    BY <2>1 DEF St
<1>3. [f EXCEPT !.cur = k + 1] = St(s, k + 1, tokens, open)
  BY DEF St
<1> HIDE DEF f
<1>4. /\ s[k] = COMMA => Comma(f) = [f EXCEPT !.cur = k + 1]
      /\ s[k] # COMMA => Comma(f) = f
  BY <1>1, <1>2 DEF Comma
<1> QED
  BY <1>3, <1>4 DEF f

(* The turn has one more member.                                           *)
LEMMA StMember ==
  ASSUME NEW S, NEW s \in Seq(S), NEW p, NEW k, Ahead(s, p, k), KeyHere(s, k),
         NEW tokens, NEW open, InObject(tokens, open),
         NEW token, NEW e, ValueHere(s, k + 5, token, e), e <= Len(s), s[e] \in {COMMA, RBRACE}
  PROVE  Turn(St(s, p, tokens, open))
           = St(s, IF s[e] = COMMA THEN e + 1 ELSE e, Append(Append(tokens, KeyToken(k)), token), open)
<1> DEFINE f == St(s, p, tokens, open)
           longer == Append(tokens, KeyToken(k))
           longest == Append(longer, token)
           g == St(s, e, longest, open)
<1>1. TestAndSkip(ParseKey(f), ":") = St(s, k + 4, longer, open) /\ Ahead(s, k + 4, k + 5)
  BY StKey
<1>2. ParseValue(St(s, k + 4, longer, open)) = g /\ e \in Nat
  <2> DEFINE q == k + 4
             v == k + 5
  <2>1. Ahead(s, q, v) /\ ValueHere(s, v, token, e)
    BY <1>1
  <2> HIDE DEF longer, q, v
  <2>2. ParseValue(St(s, q, longer, open)) = St(s, e, Append(longer, token), open) /\ e \in Nat
    BY <2>1, StValue
  <2> QED
    BY <2>2 DEF q
<1>3. ParsePair(f) = g
  BY <1>1, <1>2 DEF ParsePair
<1>4. g.open = open /\ ~(Len(open) > Len(open)) /\ open # <<>>
  BY DEF St, InObject
<1>5. s[k] # RBRACE
  BY SymbolsApart DEF KeyHere
<1>6. Turn(f) = IF Len(ParsePair(f).open) > Len(open) THEN ParsePair(f) ELSE Comma(ParsePair(f))
  BY <1>5, StTurn
<1>7. Ahead(s, e, e)
  <2>1. e > 0
    BY <1>1, <1>2 DEF ValueHere, Ahead
  <2>2. s[e] # BLANK
    BY SymbolsApart
  <2> QED
    BY <1>2, <2>1, <2>2 DEF Ahead
<1> HIDE DEF longest, f
<1>8. Comma(g) = St(s, IF s[e] = COMMA THEN e + 1 ELSE e, longest, open)
  BY <1>4, <1>7, StComma
<1> HIDE DEF g
<1>9. Turn(f) = Comma(g)
  BY <1>3, <1>4, <1>6
<1> QED
  BY <1>8, <1>9 DEF longest, f

(* The turn has one more member, which is an object.                       *)
ObjectToken(p) == [type |-> "object", ptr |-> p, len |-> 0, num_desc |-> 0]

(* An object is begun.                                                     *)
LEMMA StOpened ==
  ASSUME NEW S, NEW s \in Seq(S), NEW p, NEW v, Ahead(s, p, v), s[v] = LBRACE,
         NEW tokens \in Seq(Token), NEW open
  PROVE  Opened(St(s, p, tokens, open), LBRACE, "object")
           = St(s, v + 1, Append(tokens, ObjectToken(v)), Append(open, Len(tokens) + 1))
<1> DEFINE f == St(s, p, tokens, open)
           begun == St(s, v + 1, tokens, open)
           longer == Append(tokens, ObjectToken(v))
           more == Append(open, Len(tokens) + 1)
<1>1. TestAndSkip(f, LBRACE) = begun
  BY StTest
<1>2. f.tokens = tokens /\ begun.code = 0 /\ begun.cur - 1 = v
  BY DEF St, Ahead
<1>3. CapturePtr(begun, v, "object") = St(s, v + 1, longer, open)
  <2>1. begun.tokens = tokens
    BY DEF St
  <2>2. CapturePtr(begun, v, "object") = [begun EXCEPT !.tokens = longer]
    <3> HIDE DEF begun
    <3> QED
      BY <2>1 DEF CapturePtr, ObjectToken
  <2> HIDE DEF longer
  <2>3. [begun EXCEPT !.tokens = longer] = St(s, v + 1, longer, open)
    BY DEF St
  <2> QED
    BY <2>2, <2>3
<1>4. [St(s, v + 1, longer, open) EXCEPT !.open = Append(@, Len(tokens) + 1)]
        = St(s, v + 1, longer, more)
  <2> DEFINE h == St(s, v + 1, longer, open)
  <2> HIDE DEF longer
  <2>1. h.open = open
    BY DEF St
  <2>2. [h EXCEPT !.open = Append(@, Len(tokens) + 1)] = [h EXCEPT !.open = more]
    <3> HIDE DEF h
    <3> QED
      BY <2>1
  <2> HIDE DEF more
  <2>3. [h EXCEPT !.open = more] = St(s, v + 1, longer, more)
    BY DEF St
  <2> QED
    BY <2>2, <2>3
<1> HIDE DEF f, begun, longer, more
<1>5. Opened(f, LBRACE, "object")
        = [CapturePtr(begun, begun.cur - 1, "object") EXCEPT !.open = Append(@, Len(f.tokens) + 1)]
  BY <1>1, <1>2 DEF Opened
<1> QED
  BY <1>2, <1>3, <1>4, <1>5 DEF f, longer, more

(* A member that is an object is begun.                                    *)
LEMMA StOpens ==
  ASSUME NEW S, NEW s \in Seq(S), NEW p, NEW k, Ahead(s, p, k), KeyHere(s, k), s[k + 5] = LBRACE,
         NEW tokens \in Seq(Token), NEW open, InObject(tokens, open)
  PROVE  Turn(St(s, p, tokens, open))
           = St(s, k + 6, Append(Append(tokens, KeyToken(k)), ObjectToken(k + 5)),
                Append(open, Len(tokens) + 2))
<1> DEFINE f == St(s, p, tokens, open)
           longer == Append(tokens, KeyToken(k))
           longest == Append(longer, ObjectToken(k + 5))
           h == St(s, k + 4, longer, open)
           g == St(s, k + 6, longest, Append(open, Len(tokens) + 2))
<1>1. k \in 1 .. Len(s) /\ Len(s) \in Nat
  BY DEF Ahead
<1>2. TestAndSkip(ParseKey(f), ":") = h /\ Ahead(s, k + 4, k + 5)
  BY StKey
<1>3. longer \in Seq(Token) /\ Len(longer) + 1 = Len(tokens) + 2
  <2>1. KeyToken(k) \in Token
    BY <1>1 DEF KeyToken, Plain, Token, Types
  <2> QED
    BY <2>1
<1> HIDE DEF longer
<1>4. ParseValue(h) = Opened(St(s, k + 5, longer, open), LBRACE, "object")
  <2>1. h.code = 0 /\ Skip(h) = St(s, k + 5, longer, open) /\ Cur(h) = LBRACE
    BY <1>2, StSkip DEF St
  <2> HIDE DEF h
  <2> QED
    BY <2>1, ValueAtIs DEF ParseValue, ParseObject
<1>5. Opened(St(s, k + 5, longer, open), LBRACE, "object") = g
  <2>1. Ahead(s, k + 5, k + 5)
    BY <1>2 DEF Ahead
  <2>2. (k + 5) + 1 = k + 6
    BY <1>1
  <2>3. Opened(St(s, k + 5, longer, open), LBRACE, "object")
          = St(s, (k + 5) + 1, longest, Append(open, Len(longer) + 1))
    BY <1>3, <2>1, StOpened
  <2> QED
    BY <1>3, <2>2, <2>3
<1>6. ParsePair(f) = g
  BY <1>2, <1>4, <1>5 DEF ParsePair
<1>7. s[k] # RBRACE
  BY SymbolsApart DEF KeyHere
<1>8. Turn(f) = IF Len(ParsePair(f).open) > Len(open) THEN ParsePair(f) ELSE Comma(ParsePair(f))
  BY <1>7, StTurn
<1>9. Len(g.open) > Len(open)
  <2>1. g.open = Append(open, Len(tokens) + 2) /\ Len(tokens) + 2 \in Nat
    BY DEF St
  <2> QED
    BY <2>1 DEF InObject
<1> HIDE DEF g, f
<1>10. Turn(f) = g
  BY <1>6, <1>8, <1>9
<1> QED
  BY <1>10 DEF g, f, longer

(* A parser that is described is one.                                      *)
LEMMA StType ==
  ASSUME NEW S, NEW s \in Seq(S), NEW p \in 1 .. Len(s) + 1,
         NEW tokens \in Seq(Token), NEW open \in Seq(Nat)
  PROVE  /\ St(s, p, tokens, open) \in Parser(s)
         /\ St(s, p, tokens, open).code = 0 /\ St(s, p, tokens, open).tokens = tokens
         /\ St(s, p, tokens, open).open = open /\ St(s, p, tokens, open).cur = p
  BY DEF St, Parser

(* Every parser that has not failed can be described so.                   *)
LEMMA ParserIsSt ==
  ASSUME NEW s, NEW f \in Parser(s), f.code = 0
  PROVE  f = St(s, f.cur, f.tokens, f.open)
  BY DEF St, Parser

(* The turn closes the object.                                             *)
DoneToken(tokens, i, p) ==
  [tokens[i] EXCEPT !.len = p - tokens[i].ptr, !.num_desc = Len(tokens) - i]

Done(tokens, i, p) == [tokens EXCEPT ![i] = DoneToken(tokens, i, p)]

(* An object is closed.                                                    *)
LEMMA StCloses ==
  ASSUME NEW S, NEW s \in Seq(S), NEW p, NEW k, Ahead(s, p, k), s[k] = RBRACE,
         NEW tokens \in Seq(Token), NEW open, InObject(tokens, open),
         Front(open) = <<>> \/ \E m : Ahead(s, k + 1, m) /\ s[m] # COMMA
  PROVE  Turn(St(s, p, tokens, open))
           = St(s, k + 1, Done(tokens, Last(open), k + 1), Front(open))
<1> DEFINE f == St(s, p, tokens, open)
           g == Closed(f)
           done == Done(tokens, Last(open), k + 1)
<1>1. p \in 1 .. Len(s) + 1 /\ open \in Seq(Nat) /\ open # <<>>
  BY DEF Ahead, InObject
<1>2. f \in Parser(s) /\ f.code = 0 /\ f.tokens = tokens /\ f.open = open
  BY <1>1, StType
<1>3. Skip(f).cur = k /\ Cur(f) = RBRACE
  <2>1. Skip(f) = St(s, k, tokens, open) /\ Cur(f) = s[k]
    BY StSkip
  <2> HIDE DEF f
  <2> QED
    BY <2>1 DEF St
<1>4. Closing(f) = RBRACE /\ Turn(f) = Comma(g)
  BY StTurn
<1> HIDE DEF f
<1>5. /\ g \in Parser(s) /\ g.code = 0 /\ g.cur = k + 1 /\ g.open = Front(open)
      /\ g.tokens = [tokens EXCEPT ![Last(open)] = ClosedAt(f, Last(open), k + 1)]
  <2>1. Cur(f) = Closing(f) /\ f.open # <<>>
    BY <1>1, <1>2, <1>3, <1>4
  <2>2. /\ g \in Parser(s) /\ g.code = 0 /\ g.cur = Skip(f).cur + 1 /\ g.open = Front(f.open)
        /\ g.tokens = [f.tokens EXCEPT ![Last(f.open)] = ClosedAt(f, Last(f.open), g.cur)]
    BY <1>2, <2>1, ClosedTypeShape
  <2> HIDE DEF g
  <2> QED
    BY <1>2, <1>3, <2>2
<1>6. ClosedAt(f, Last(open), k + 1) = DoneToken(tokens, Last(open), k + 1)
  BY <1>2 DEF ClosedAt, DoneToken
<1> HIDE DEF g
<1>7. g = St(s, k + 1, done, Front(open))
  <2>1. g.tokens = done
    BY <1>5, <1>6 DEF Done
  <2> HIDE DEF done
  <2> QED
    BY <1>5, <2>1, ParserIsSt
<1> HIDE DEF done
<1>8. Comma(g) = g
  <2>1. CASE Front(open) = <<>>
    BY <1>5, <2>1 DEF Comma
  <2>2. CASE Front(open) # <<>>
    <3>1. PICK m : Ahead(s, k + 1, m) /\ s[m] # COMMA
      BY <2>2
    <3> DEFINE q == k + 1
    <3>2. Ahead(s, q, m) /\ g = St(s, q, done, Front(open))
      BY <1>7, <3>1
    <3> HIDE DEF q
    <3> QED
      BY <2>2, <3>1, <3>2, StComma
  <2> QED
    BY <2>1, <2>2
<1> QED
  BY <1>4, <1>7, <1>8 DEF f, done

(* A prefix of a prefix is one.                                            *)
LEMMA PrefixChain ==
  ASSUME NEW T, NEW a \in Seq(T), NEW b \in Seq(T), NEW c \in Seq(T), Prefix(a, b), Prefix(b, c)
  PROVE  Prefix(a, c)
<1>1. Len(a) \in Nat /\ Len(b) \in Nat /\ Len(c) \in Nat /\ Len(a) <= Len(b) /\ Len(b) <= Len(c)
  BY DEF Prefix
<1>2. \A k \in 1 .. Len(a) : a[k] = c[k]
  <2> TAKE k \in 1 .. Len(a)
  <2>1. k \in 1 .. Len(b)
    BY <1>1
  <2> QED
    BY <2>1 DEF Prefix
<1> QED
  BY <1>1, <1>2 DEF Prefix

(* A sequence with two more.                                               *)
LEMMA TwoMore ==
  ASSUME NEW T, NEW q \in Seq(T), NEW x \in T, NEW y \in T
  PROVE  LET longer == Append(Append(q, x), y)
         IN  /\ longer \in Seq(T) /\ Len(longer) = Len(q) + 2
             /\ Prefix(q, longer) /\ longer[Len(q) + 1] = x /\ longer[Len(q) + 2] = y
<1> DEFINE long == Append(q, x)
           longer == Append(long, y)
<1>1. /\ long \in Seq(T) /\ Len(q) \in Nat /\ Len(long) = Len(q) + 1 /\ long[Len(q) + 1] = x
      /\ \A i \in 1 .. Len(q) : long[i] = q[i]
  BY AppendIs
<1> HIDE DEF long
<1>2. /\ longer \in Seq(T) /\ Len(longer) = Len(long) + 1 /\ longer[Len(long) + 1] = y
      /\ \A i \in 1 .. Len(long) : longer[i] = long[i]
  BY <1>1, AppendIs
<1> HIDE DEF longer
<1>3. \A i \in 1 .. Len(q) : q[i] = longer[i]
  <2> TAKE i \in 1 .. Len(q)
  <2>1. i \in 1 .. Len(long)
    BY <1>1
  <2> QED
    BY <1>1, <1>2, <2>1
<1>4. Prefix(q, longer)
  BY <1>1, <1>2, <1>3 DEF Prefix
<1>5. longer[Len(q) + 1] = x
  <2>1. Len(q) + 1 \in 1 .. Len(long)
    BY <1>1
  <2> QED
    BY <1>1, <1>2, <2>1
<1>6. Len(longer) = Len(q) + 2 /\ longer[Len(q) + 2] = y
  BY <1>1, <1>2
<1> QED
  BY <1>2, <1>4, <1>5, <1>6 DEF longer, long

-----------------------------------------------------------------------------
(* The parse of the text that is printed, turn by turn.                    *)

(* What is printed, place by place: five settings, and the object of the   *)
(* white point, of which there is one part.                                *)
MemberHere(s, k, token, e) ==
  KeyHere(s, k) /\ ValueHere(s, k + 5, token, e) /\ s[e] = COMMA /\ s[e + 1] = BLANK

Layout(s) ==
  /\ Len(s) = 64 /\ s[1] = LBRACE /\ s[2] = BLANK
  /\ MemberHere(s, 3, Plain("string", 9, 1), 11)
  /\ MemberHere(s, 13, Plain("string", 19, 1), 21)
  /\ MemberHere(s, 23, Plain("number", 28, 1), 29)
  /\ MemberHere(s, 31, Plain(s[36], 36, 1), 37) /\ s[36] \in {"true", "false"}
  /\ MemberHere(s, 39, Plain("number", 44, 3), 47)
  /\ KeyHere(s, 49) /\ s[54] = LBRACE
  /\ KeyHere(s, 55) /\ ValueHere(s, 60, Plain("number", 60, 1), 61) /\ s[61] = RBRACE
  /\ s[62] = BLANK /\ s[63] = RBRACE /\ s[64] = BLANK

(* A token without descendants is a token.                                 *)
LEMMA PlainType ==
  ASSUME NEW type \in Types, NEW p \in Nat, NEW len \in Nat
  PROVE  Plain(type, p, len) \in Token
  BY DEF Plain, Token

(* One and one more are two.                                               *)
LEMMA PairIs ==
  ASSUME NEW T, NEW q \in Seq(T), Len(q) = 1, NEW x \in T
  PROVE  Append(q, x) = <<q[1], x>>
<1> DEFINE r == Append(q, x)
<1>0. /\ Append(q, x) \in Seq(T) /\ Len(Append(q, x)) = Len(q) + 1
      /\ Append(q, x)[Len(q) + 1] = x
      /\ \A i \in 1 .. Len(q) : Append(q, x)[i] = q[i]
  OBVIOUS
<1>1. r \in Seq(T) /\ Len(r) = Len(q) + 1
  BY <1>0
<1>2. r[Len(q) + 1] = x
  BY <1>0
<1>3. \A i \in 1 .. Len(q) : r[i] = q[i]
  BY <1>0
<1> HIDE DEF r
<1>4. Len(r) = 2 /\ r[2] = x /\ r[1] = q[1]
  BY <1>1, <1>2, <1>3
<1>5. r = <<q[1], x>>
  BY <1>1, <1>4
<1> QED
  BY <1>5 DEF r

(* One open token, and two.                                                *)
LEMMA OneOpen ==
  ASSUME NEW i \in Nat, NEW j \in Nat
  PROVE  /\ <<i>> \in Seq(Nat) /\ <<i>> # <<>> /\ Last(<<i>>) = i /\ Front(<<i>>) = <<>>
         /\ <<i, j>> \in Seq(Nat) /\ <<i, j>> # <<>> /\ Last(<<i, j>>) = j /\ Front(<<i, j>>) = <<i>>
         /\ Append(<<i>>, j) = <<i, j>> /\ Append(<<>>, i) = <<i>>
<1>1. /\ <<i>> \in Seq(Nat) /\ <<i>> # <<>> /\ Len(<<i>>) = 1
      /\ <<i, j>> \in Seq(Nat) /\ <<i, j>> # <<>> /\ Len(<<i, j>>) = 2
      /\ Append(<<i>>, j) = <<i, j>> /\ Append(<<>>, i) = <<i>>
  <2>1. <<i>> \in Seq(Nat) /\ <<i>> # <<>> /\ Len(<<i>>) = 1
    OBVIOUS
  <2>2. <<i, j>> \in Seq(Nat) /\ <<i, j>> # <<>> /\ Len(<<i, j>>) = 2
    OBVIOUS
  <2>3. Append(<<i>>, j) = <<i, j>>
    <3> DEFINE q == <<i>>
    <3>1. q \in Seq(Nat) /\ Len(q) = 1 /\ q[1] = i
      OBVIOUS
    <3> HIDE DEF q
    <3>2. Append(q, j) = <<i, j>>
      BY <3>1, PairIs
    <3> QED
      BY <3>2 DEF q
  <2>4. Append(<<>>, i) = <<i>>
    OBVIOUS
  <2> QED
    BY <2>1, <2>2, <2>3, <2>4
<1>2. Last(<<i>>) = i /\ Last(<<i, j>>) = j
  BY <1>1 DEF Last
<1>3. Front(<<i>>) = <<>>
  <2> DEFINE q == <<i>>
  <2>1. q \in Seq(Nat) /\ q # <<>> /\ Len(q) = 1
    BY <1>1
  <2> HIDE DEF q
  <2>2. Front(q) \in Seq(Nat) /\ Len(Front(q)) = 0
    BY <2>1, FrontType
  <2>3. Front(q) = <<>>
    BY <2>2, EmptySeq
  <2> QED
    BY <2>3 DEF q
<1>4. Front(<<i, j>>) = <<i>>
  <2> DEFINE q == <<i, j>>
  <2>1. q \in Seq(Nat) /\ q # <<>> /\ Len(q) = 2 /\ q[1] = i
    BY <1>1
  <2> HIDE DEF q
  <2>2. Front(q) \in Seq(Nat) /\ Len(Front(q)) = 1 /\ Front(q)[1] = i
    <3>1. /\ Front(q) \in Seq(Nat) /\ Len(Front(q)) = Len(q) - 1
          /\ \A k \in 1 .. Len(q) - 1 : Front(q)[k] = q[k]
      BY <2>1, FrontType
    <3> QED
      BY <2>1, <3>1
  <2>3. Front(q) = <<i>>
    BY <2>2
  <2> QED
    BY <2>3 DEF q
<1> QED
  BY <1>1, <1>2, <1>3, <1>4

(* The turn that parses a member.                                          *)
LEMMA MemberTurn ==
  ASSUME NEW S, NEW s \in Seq(S), NEW p, NEW k, Ahead(s, p, k), NEW open,
         NEW token \in Token, NEW e \in Nat, KeyHere(s, k), ValueHere(s, k + 5, token, e),
         e <= Len(s), s[e] \in {COMMA, RBRACE},
         NEW tokens \in Seq(Token), InObject(tokens, open)
  PROVE  \E longer \in Seq(Token) :
           /\ Turn(St(s, p, tokens, open)) = St(s, IF s[e] = COMMA THEN e + 1 ELSE e, longer, open)
           /\ Len(longer) = Len(tokens) + 2 /\ Prefix(tokens, longer)
           /\ longer[Len(tokens) + 1] = KeyToken(k) /\ longer[Len(tokens) + 2] = token
<1> DEFINE longer == Append(Append(tokens, KeyToken(k)), token)
<1>1. Turn(St(s, p, tokens, open)) = St(s, IF s[e] = COMMA THEN e + 1 ELSE e, longer, open)
  BY StMember
<1>2. KeyToken(k) \in Token
  <2>1. k + 1 \in Nat /\ 1 \in Nat /\ "string" \in Types
    BY DEF Ahead, Types
  <2> QED
    BY <2>1, PlainType DEF KeyToken
<1>3. /\ longer \in Seq(Token) /\ Len(longer) = Len(tokens) + 2
      /\ Prefix(tokens, longer) /\ longer[Len(tokens) + 1] = KeyToken(k)
      /\ longer[Len(tokens) + 2] = token
  BY <1>2, TwoMore
<1> HIDE DEF longer
<1> QED
  BY <1>1, <1>3

(* The turn that begins a member that is an object.                        *)
LEMMA OpeningTurn ==
  ASSUME NEW S, NEW s \in Seq(S), NEW p, NEW k, Ahead(s, p, k), NEW open,
         KeyHere(s, k), s[k + 5] = LBRACE,
         NEW tokens \in Seq(Token), InObject(tokens, open)
  PROVE  \E longer \in Seq(Token) :
           /\ Turn(St(s, p, tokens, open)) = St(s, k + 6, longer, Append(open, Len(tokens) + 2))
           /\ Len(longer) = Len(tokens) + 2 /\ Prefix(tokens, longer)
           /\ longer[Len(tokens) + 1] = KeyToken(k)
           /\ longer[Len(tokens) + 2] = ObjectToken(k + 5)
<1> DEFINE longer == Append(Append(tokens, KeyToken(k)), ObjectToken(k + 5))
<1>1. Turn(St(s, p, tokens, open)) = St(s, k + 6, longer, Append(open, Len(tokens) + 2))
  BY StOpens
<1>2. KeyToken(k) \in Token /\ ObjectToken(k + 5) \in Token
  <2>1. k + 1 \in Nat /\ k + 5 \in Nat /\ 1 \in Nat /\ 0 \in Int /\ "string" \in Types /\ "object" \in Types
    BY DEF Ahead, Types
  <2>2. KeyToken(k) \in Token
    BY <2>1, PlainType DEF KeyToken
  <2>3. ObjectToken(k + 5) \in Token
    BY <2>1 DEF ObjectToken, Token
  <2> QED
    BY <2>2, <2>3
<1>3. /\ longer \in Seq(Token) /\ Len(longer) = Len(tokens) + 2
      /\ Prefix(tokens, longer) /\ longer[Len(tokens) + 1] = KeyToken(k)
      /\ longer[Len(tokens) + 2] = ObjectToken(k + 5)
  BY <1>2, TwoMore
<1> HIDE DEF longer
<1> QED
  BY <1>1, <1>3

(* The first n tokens, which are all there are, are those of w.            *)
Has(tokens, w, n) == tokens \in Seq(Token) /\ Len(tokens) = n /\ \A i \in 1 .. n : tokens[i] = w[i]

(* Two more of the tokens that are expected.                               *)
LEMMA HasTwoMore ==
  ASSUME NEW w, NEW n \in Nat, NEW tokens, Has(tokens, w, n), NEW longer \in Seq(Token),
         Len(longer) = Len(tokens) + 2, Prefix(tokens, longer),
         longer[Len(tokens) + 1] = w[n + 1], longer[Len(tokens) + 2] = w[n + 2]
  PROVE  Has(longer, w, n + 2)
<1>1. Len(tokens) = n /\ tokens \in Seq(Token) /\ Len(longer) = n + 2
  BY DEF Has
<1>2. ASSUME NEW i \in 1 .. n + 2 PROVE longer[i] = w[i]
  <2>1. i \in 1 .. n \/ i = n + 1 \/ i = n + 2
    OBVIOUS
  <2>2. CASE i \in 1 .. n
    BY <1>1, <2>2 DEF Has, Prefix
  <2>3. CASE i = n + 1
    BY <1>1, <2>3
  <2>4. CASE i = n + 2
    BY <1>1, <2>4
  <2> QED
    BY <2>1, <2>2, <2>3, <2>4
<1> QED
  BY <1>1, <1>2 DEF Has

(* The tokens of what is printed, as they are until the objects end.       *)
Expected(s) ==
  <<ObjectToken(1), KeyToken(3), Plain("string", 9, 1), KeyToken(13), Plain("string", 19, 1),
    KeyToken(23), Plain("number", 28, 1), KeyToken(31), Plain(s[36], 36, 1),
    KeyToken(39), Plain("number", 44, 3), KeyToken(49), ObjectToken(54),
    KeyToken(55), Plain("number", 60, 1)>>

(* The tokens that are expected.                                           *)
LEMMA ExpectedIs ==
  ASSUME NEW s, s[36] \in {"true", "false"}, NEW w, w = Expected(s)
  PROVE  /\ w[1] = ObjectToken(1) /\ w[2] = KeyToken(3) /\ w[3] = Plain("string", 9, 1)
         /\ w[4] = KeyToken(13) /\ w[5] = Plain("string", 19, 1)
         /\ w[6] = KeyToken(23) /\ w[7] = Plain("number", 28, 1)
         /\ w[8] = KeyToken(31) /\ w[9] = Plain(s[36], 36, 1)
         /\ w[10] = KeyToken(39) /\ w[11] = Plain("number", 44, 3)
         /\ w[12] = KeyToken(49) /\ w[13] = ObjectToken(54)
         /\ w[14] = KeyToken(55) /\ w[15] = Plain("number", 60, 1)
         /\ w[3] \in Token /\ w[5] \in Token /\ w[7] \in Token /\ w[9] \in Token
         /\ w[11] \in Token /\ w[15] \in Token
<1>1. /\ w[1] = ObjectToken(1) /\ w[2] = KeyToken(3) /\ w[3] = Plain("string", 9, 1)
      /\ w[4] = KeyToken(13) /\ w[5] = Plain("string", 19, 1)
      /\ w[6] = KeyToken(23) /\ w[7] = Plain("number", 28, 1)
      /\ w[8] = KeyToken(31) /\ w[9] = Plain(s[36], 36, 1)
      /\ w[10] = KeyToken(39) /\ w[11] = Plain("number", 44, 3)
      /\ w[12] = KeyToken(49) /\ w[13] = ObjectToken(54)
      /\ w[14] = KeyToken(55) /\ w[15] = Plain("number", 60, 1)
  BY DEF Expected
<1>2. "string" \in Types /\ "number" \in Types /\ s[36] \in Types
  BY DEF Types, Word
<1>3. /\ Plain("string", 9, 1) \in Token /\ Plain("string", 19, 1) \in Token
      /\ Plain("number", 28, 1) \in Token /\ Plain(s[36], 36, 1) \in Token
      /\ Plain("number", 44, 3) \in Token /\ Plain("number", 60, 1) \in Token
  BY <1>2, PlainType
<1> QED
  BY <1>1, <1>3

(* The first and the thirteenth are objects.                               *)
LEMMA HasObjects ==
  ASSUME NEW w, w[1] = ObjectToken(1), w[13] = ObjectToken(54), NEW n \in Nat,
         NEW tokens, Has(tokens, w, n)
  PROVE  /\ n >= 1 => InObject(tokens, <<1>>)
         /\ n >= 13 => InObject(tokens, <<1, 13>>)
<1>1. /\ <<1>> \in Seq(Nat) /\ <<1>> # <<>> /\ Last(<<1>>) = 1
      /\ <<1, 13>> \in Seq(Nat) /\ <<1, 13>> # <<>> /\ Last(<<1, 13>>) = 13
  BY OneOpen
<1>2. ObjectToken(1).type = "object" /\ ObjectToken(54).type = "object"
  BY DEF ObjectToken
<1>3. n >= 1 => tokens[1] = w[1]
  BY DEF Has
<1>4. n >= 13 => tokens[13] = w[13]
  BY DEF Has
<1> QED
  BY <1>1, <1>2, <1>3, <1>4 DEF InObject

(* A key is ahead, of white space or at once.                              *)
LEMMA KeyAhead ==
  ASSUME NEW S, NEW s \in Seq(S), Len(s) = 64, NEW k \in 1 .. 59, KeyHere(s, k),
         NEW p \in 1 .. 64, p = k \/ (p + 1 = k /\ s[p] = BLANK)
  PROVE  Ahead(s, p, k)
<1>1. s[k] # BLANK
  BY SymbolsApart DEF KeyHere
<1> QED
  BY <1>1 DEF Ahead

(* What the parser comes upon, one turn after another.                     *)
LEMMA LayoutAhead ==
  ASSUME NEW S, NEW s \in Seq(S), Layout(s)
  PROVE  /\ Ahead(s, 1, 1) /\ s[1] = LBRACE
         /\ Ahead(s, 2, 3) /\ KeyHere(s, 3) /\ s[11] = COMMA
         /\ Ahead(s, 12, 13) /\ KeyHere(s, 13) /\ s[21] = COMMA
         /\ Ahead(s, 22, 23) /\ KeyHere(s, 23) /\ s[29] = COMMA
         /\ Ahead(s, 30, 31) /\ KeyHere(s, 31) /\ s[37] = COMMA
         /\ Ahead(s, 38, 39) /\ KeyHere(s, 39) /\ s[47] = COMMA
         /\ Ahead(s, 48, 49) /\ KeyHere(s, 49) /\ s[54] = LBRACE
         /\ Ahead(s, 55, 55) /\ KeyHere(s, 55) /\ s[61] = RBRACE
         /\ Ahead(s, 61, 61) /\ Ahead(s, 62, 63) /\ s[63] = RBRACE
<1>1. Len(s) = 64
  BY DEF Layout
<1>2. /\ KeyHere(s, 3) /\ KeyHere(s, 13) /\ KeyHere(s, 23) /\ KeyHere(s, 31)
      /\ KeyHere(s, 39) /\ KeyHere(s, 49) /\ KeyHere(s, 55)
  BY DEF Layout, MemberHere
<1>3. /\ s[2] = BLANK /\ s[12] = BLANK /\ s[22] = BLANK /\ s[30] = BLANK /\ s[38] = BLANK
      /\ s[48] = BLANK /\ s[62] = BLANK
      /\ s[11] = COMMA /\ s[21] = COMMA /\ s[29] = COMMA /\ s[37] = COMMA /\ s[47] = COMMA
  <2>1. /\ s[11 + 1] = BLANK /\ s[21 + 1] = BLANK /\ s[29 + 1] = BLANK /\ s[37 + 1] = BLANK
        /\ s[47 + 1] = BLANK /\ s[2] = BLANK /\ s[62] = BLANK
        /\ s[11] = COMMA /\ s[21] = COMMA /\ s[29] = COMMA /\ s[37] = COMMA /\ s[47] = COMMA
    BY DEF Layout, MemberHere
  <2> QED
    BY <2>1
<1>4. s[1] = LBRACE /\ s[54] = LBRACE /\ s[61] = RBRACE /\ s[63] = RBRACE
  BY DEF Layout
<1>5. Ahead(s, 2, 3)
  <2>1. 3 \in 1 .. 59 /\ 2 \in 1 .. 64 /\ KeyHere(s, 3) /\ 2 + 1 = 3 /\ s[2] = BLANK
    BY <1>2, <1>3
  <2> QED
    BY <1>1, <2>1, KeyAhead
<1>6. Ahead(s, 12, 13)
  <2>1. 13 \in 1 .. 59 /\ 12 \in 1 .. 64 /\ KeyHere(s, 13) /\ 12 + 1 = 13 /\ s[12] = BLANK
    BY <1>2, <1>3
  <2> QED
    BY <1>1, <2>1, KeyAhead
<1>7. Ahead(s, 22, 23)
  <2>1. 23 \in 1 .. 59 /\ 22 \in 1 .. 64 /\ KeyHere(s, 23) /\ 22 + 1 = 23 /\ s[22] = BLANK
    BY <1>2, <1>3
  <2> QED
    BY <1>1, <2>1, KeyAhead
<1>8. Ahead(s, 30, 31)
  <2>1. 31 \in 1 .. 59 /\ 30 \in 1 .. 64 /\ KeyHere(s, 31) /\ 30 + 1 = 31 /\ s[30] = BLANK
    BY <1>2, <1>3
  <2> QED
    BY <1>1, <2>1, KeyAhead
<1>9. Ahead(s, 38, 39)
  <2>1. 39 \in 1 .. 59 /\ 38 \in 1 .. 64 /\ KeyHere(s, 39) /\ 38 + 1 = 39 /\ s[38] = BLANK
    BY <1>2, <1>3
  <2> QED
    BY <1>1, <2>1, KeyAhead
<1>10. Ahead(s, 48, 49)
  <2>1. 49 \in 1 .. 59 /\ 48 \in 1 .. 64 /\ KeyHere(s, 49) /\ 48 + 1 = 49 /\ s[48] = BLANK
    BY <1>2, <1>3
  <2> QED
    BY <1>1, <2>1, KeyAhead
<1>11. Ahead(s, 55, 55)
  <2>1. 55 \in 1 .. 59 /\ 55 \in 1 .. 64 /\ KeyHere(s, 55)
    BY <1>2
  <2> QED
    BY <1>1, <2>1, KeyAhead
<1>12. Ahead(s, 1, 1) /\ Ahead(s, 61, 61) /\ Ahead(s, 62, 63)
  BY <1>1, <1>3, <1>4, SymbolsApart DEF Ahead
<1> QED
  BY <1>2, <1>3, <1>4, <1>5, <1>6, <1>7, <1>8, <1>9, <1>10, <1>11, <1>12

(* The values and where they are.                                          *)
LEMMA LayoutValues ==
  ASSUME NEW s, Layout(s)
  PROVE  /\ ValueHere(s, 8, Plain("string", 9, 1), 11) /\ ValueHere(s, 18, Plain("string", 19, 1), 21)
         /\ ValueHere(s, 28, Plain("number", 28, 1), 29) /\ ValueHere(s, 36, Plain(s[36], 36, 1), 37)
         /\ ValueHere(s, 44, Plain("number", 44, 3), 47) /\ ValueHere(s, 60, Plain("number", 60, 1), 61)
         /\ s[36] \in {"true", "false"}
<1>1. 3 + 5 = 8 /\ 13 + 5 = 18 /\ 23 + 5 = 28 /\ 31 + 5 = 36 /\ 39 + 5 = 44
  OBVIOUS
<1>2. /\ ValueHere(s, 3 + 5, Plain("string", 9, 1), 11) /\ ValueHere(s, 13 + 5, Plain("string", 19, 1), 21)
      /\ ValueHere(s, 23 + 5, Plain("number", 28, 1), 29) /\ ValueHere(s, 31 + 5, Plain(s[36], 36, 1), 37)
      /\ ValueHere(s, 39 + 5, Plain("number", 44, 3), 47) /\ ValueHere(s, 60, Plain("number", 60, 1), 61)
      /\ s[36] \in {"true", "false"}
  BY DEF Layout, MemberHere
<1> QED
  BY <1>1, <1>2

(* Past a member and the comma after it, if there is one.                  *)
Beyond(s, e) == IF s[e] = COMMA THEN e + 1 ELSE e

(* The tokens that are expected are those that are found.                 *)
Expects(s, w) ==
  /\ w[1] = ObjectToken(1) /\ w[12] = KeyToken(49) /\ w[13] = ObjectToken(54)
  /\ w[2] = KeyToken(3) /\ w[3] \in Token /\ ValueHere(s, 8, w[3], 11)
  /\ w[4] = KeyToken(13) /\ w[5] \in Token /\ ValueHere(s, 18, w[5], 21)
  /\ w[6] = KeyToken(23) /\ w[7] \in Token /\ ValueHere(s, 28, w[7], 29)
  /\ w[8] = KeyToken(31) /\ w[9] \in Token /\ ValueHere(s, 36, w[9], 37)
  /\ w[10] = KeyToken(39) /\ w[11] \in Token /\ ValueHere(s, 44, w[11], 47)
  /\ w[14] = KeyToken(55) /\ w[15] \in Token /\ ValueHere(s, 60, w[15], 61)

(* The tokens that are expected are those of the keys and values.          *)
LEMMA LayoutExpects ==
  ASSUME NEW s, Layout(s), NEW w, w = Expected(s)
  PROVE  Expects(s, w)
<1>1. s[36] \in {"true", "false"}
  BY LayoutValues
<1>2. /\ w[1] = ObjectToken(1) /\ w[2] = KeyToken(3) /\ w[3] = Plain("string", 9, 1)
      /\ w[4] = KeyToken(13) /\ w[5] = Plain("string", 19, 1)
      /\ w[6] = KeyToken(23) /\ w[7] = Plain("number", 28, 1)
      /\ w[8] = KeyToken(31) /\ w[9] = Plain(s[36], 36, 1)
      /\ w[10] = KeyToken(39) /\ w[11] = Plain("number", 44, 3)
      /\ w[12] = KeyToken(49) /\ w[13] = ObjectToken(54)
      /\ w[14] = KeyToken(55) /\ w[15] = Plain("number", 60, 1)
      /\ w[3] \in Token /\ w[5] \in Token /\ w[7] \in Token /\ w[9] \in Token
      /\ w[11] \in Token /\ w[15] \in Token
  BY <1>1, ExpectedIs
<1> QED
  BY <1>2, LayoutValues DEF Expects

(* The same turn, with its places as they are counted.                     *)
LEMMA CountedMember ==
  ASSUME NEW S, NEW s \in Seq(S), NEW p, NEW k, Ahead(s, p, k), NEW open,
         NEW v \in Nat, v = k + 5, NEW w, NEW n \in Nat,
         NEW key \in Nat, NEW value \in Nat, key = n + 1, value = n + 2,
         NEW tokens, Has(tokens, w, n), InObject(tokens, open),
         w[key] = KeyToken(k), w[value] \in Token, NEW e \in Nat, e <= Len(s),
         KeyHere(s, k), ValueHere(s, v, w[value], e), s[e] \in {COMMA, RBRACE}
  PROVE  \E longer : /\ Turn(St(s, p, tokens, open)) = St(s, Beyond(s, e), longer, open)
                     /\ Has(longer, w, value)
<1>1. tokens \in Seq(Token) /\ Len(tokens) = n
  BY DEF Has
<1> DEFINE token == w[value]
<1>2. token \in Token /\ ValueHere(s, k + 5, token, e)
  OBVIOUS
<1>3. w[n + 1] = KeyToken(k) /\ w[n + 2] = token
  OBVIOUS
<1> HIDE DEF token
<1>4. PICK longer \in Seq(Token) :
        /\ Turn(St(s, p, tokens, open)) = St(s, IF s[e] = COMMA THEN e + 1 ELSE e, longer, open)
        /\ Len(longer) = Len(tokens) + 2 /\ Prefix(tokens, longer)
        /\ longer[Len(tokens) + 1] = KeyToken(k) /\ longer[Len(tokens) + 2] = token
  BY <1>1, <1>2, MemberTurn
<1>5. Has(longer, w, n + 2)
  BY <1>3, <1>4, HasTwoMore
<1> QED
  BY <1>4, <1>5 DEF Beyond

(* Before the first turn the outer object is begun.                        *)
LEMMA TurnsBegin ==
  ASSUME NEW S, NEW s \in Seq(S), Layout(s), NEW w, w = Expected(s)
  PROVE  \E tokens : Turns(s)[0] = St(s, 2, tokens, <<1>>) /\ Has(tokens, w, 1)
<1>1. w[1] = ObjectToken(1)
  BY DEF Expected
<1>2. Frozen(s) = St(s, 1, <<>>, <<>>)
  BY DEF Frozen, St
<1> DEFINE tokens == Append(<<>>, ObjectToken(1))
           empty == <<>>
<1>3. ObjectToken(1) \in Token
  BY DEF ObjectToken, Token, Types
<1>4. empty \in Seq(Token) /\ Len(empty) = 0
  OBVIOUS
<1>5. Opened(St(s, 1, empty, <<>>), LBRACE, "object")
        = St(s, 1 + 1, Append(empty, ObjectToken(1)), Append(<<>>, Len(empty) + 1))
  <2> DEFINE none == <<>>
             v == 1
  <2>1. Ahead(s, v, v) /\ s[v] = LBRACE
    BY LayoutAhead
  <2> HIDE DEF empty, none, v
  <2>2. Opened(St(s, v, empty, none), LBRACE, "object")
          = St(s, v + 1, Append(empty, ObjectToken(v)), Append(none, Len(empty) + 1))
    <3>1. empty \in Seq(Token)
      BY <1>4
    <3> QED
      BY <2>1, <3>1, StOpened
  <2> QED
    BY <2>2 DEF none, v
<1>6. Append(<<>>, Len(empty) + 1) = <<1>>
  BY <1>4
<1>7. Turns(s)[0] = St(s, 2, tokens, <<1>>)
  BY <1>2, <1>5, <1>6, TurnsUnfolds DEF ParseObject
<1>8. Has(tokens, w, 1)
  <2> HIDE DEF empty
  <2> DEFINE longer == Append(empty, ObjectToken(1))
  <2>1. longer \in Seq(Token) /\ Len(longer) = 1 /\ longer[1] = ObjectToken(1)
    BY <1>3, <1>4, AppendIs
  <2> HIDE DEF longer
  <2>2. Has(longer, w, 1)
    BY <1>1, <2>1 DEF Has
  <2> QED
    BY <2>2 DEF longer, empty
<1> QED
  BY <1>7, <1>8

(* The same for the member that is an object.                              *)
LEMMA CountedObject ==
  ASSUME NEW S, NEW s \in Seq(S), NEW p, NEW k, Ahead(s, p, k), NEW open,
         NEW v \in Nat, v = k + 5, NEW q \in Nat, q = k + 6, NEW w, NEW n \in Nat,
         NEW key \in Nat, NEW value \in Nat, key = n + 1, value = n + 2,
         NEW tokens, Has(tokens, w, n), InObject(tokens, open),
         w[key] = KeyToken(k), w[value] = ObjectToken(v), KeyHere(s, k), s[v] = LBRACE
  PROVE  \E longer : /\ Turn(St(s, p, tokens, open)) = St(s, q, longer, Append(open, value))
                     /\ Has(longer, w, value)
<1>1. w[n + 1] = KeyToken(k) /\ w[n + 2] = ObjectToken(k + 5) /\ s[k + 5] = LBRACE
  OBVIOUS
<1>2. tokens \in Seq(Token) /\ Len(tokens) = n
  BY DEF Has
<1>3. PICK longer \in Seq(Token) :
        /\ Turn(St(s, p, tokens, open)) = St(s, k + 6, longer, Append(open, Len(tokens) + 2))
        /\ Len(longer) = Len(tokens) + 2 /\ Prefix(tokens, longer)
        /\ longer[Len(tokens) + 1] = KeyToken(k)
        /\ longer[Len(tokens) + 2] = ObjectToken(k + 5)
  BY <1>1, <1>2, OpeningTurn
<1>4. Has(longer, w, n + 2)
  BY <1>1, <1>3, HasTwoMore
<1> QED
  BY <1>2, <1>3, <1>4

(* What comes out of the first seven turns.                               *)
LEMMA TurnsOn ==
  ASSUME NEW S, NEW s \in Seq(S), Layout(s), NEW w, w = Expected(s)
  PROVE  \E tokens : Turns(s)[7] = St(s, 61, tokens, <<1, 13>>) /\ Has(tokens, w, 15)
<1> DEFINE F == Turns(s)
<1>1. /\ F[1] = Turn(F[0]) /\ F[2] = Turn(F[1]) /\ F[3] = Turn(F[2]) /\ F[4] = Turn(F[3])
      /\ F[5] = Turn(F[4]) /\ F[6] = Turn(F[5]) /\ F[7] = Turn(F[6])
  <2>1. Len(s) = 64 /\ \A n \in 0 .. Len(s) - 1 : F[n + 1] = Turn(F[n])
    BY TurnsUnfolds DEF Layout
  <2> HIDE DEF F
  <2> QED
    BY <2>1
<1>2. Len(s) = 64
  BY DEF Layout
<1>3. Expects(s, w)
  BY LayoutExpects
<1>4. w[1] = ObjectToken(1) /\ w[13] = ObjectToken(54)
  BY <1>3 DEF Expects
<1> DEFINE open == <<1>>
<1>5. PICK t0 : F[0] = St(s, 2, t0, open) /\ Has(t0, w, 1)
  BY TurnsBegin
<1> HIDE DEF F, open
<1>6. PICK t1 : F[1] = St(s, 12, t1, open) /\ Has(t1, w, 3)
  <2>1. Has(t0, w, 1) /\ InObject(t0, open)
    BY <1>4, <1>5, HasObjects DEF open
  <2>2. w[2] = KeyToken(3) /\ w[3] \in Token /\ ValueHere(s, 8, w[3], 11)
    BY <1>3 DEF Expects
  <2>3. Ahead(s, 2, 3) /\ KeyHere(s, 3) /\ s[11] = COMMA /\ Beyond(s, 11) = 12
    <3>1. Ahead(s, 2, 3) /\ KeyHere(s, 3) /\ s[11] = COMMA
      BY LayoutAhead
    <3>2. Beyond(s, 11) = 11 + 1
      BY <3>1 DEF Beyond
    <3> QED
      BY <3>1, <3>2
  <2>4. \E longer : Turn(St(s, 2, t0, open)) = St(s, Beyond(s, 11), longer, open) /\ Has(longer, w, 3)
    BY <1>2, <2>1, <2>2, <2>3, CountedMember
  <2> QED
    BY <1>1, <1>5, <2>3, <2>4
<1>7. PICK t2 : F[2] = St(s, 22, t2, open) /\ Has(t2, w, 5)
  <2>1. Has(t1, w, 3) /\ InObject(t1, open)
    BY <1>6, <1>4, HasObjects DEF open
  <2>2. w[4] = KeyToken(13) /\ w[5] \in Token /\ ValueHere(s, 18, w[5], 21)
    BY <1>3 DEF Expects
  <2>3. Ahead(s, 12, 13) /\ KeyHere(s, 13) /\ s[21] = COMMA /\ Beyond(s, 21) = 22
    <3>1. Ahead(s, 12, 13) /\ KeyHere(s, 13) /\ s[21] = COMMA
      BY LayoutAhead
    <3>2. Beyond(s, 21) = 21 + 1
      BY <3>1 DEF Beyond
    <3> QED
      BY <3>1, <3>2
  <2>4. \E longer : Turn(St(s, 12, t1, open)) = St(s, Beyond(s, 21), longer, open) /\ Has(longer, w, 5)
    BY <1>2, <2>1, <2>2, <2>3, CountedMember
  <2> QED
    BY <1>1, <1>6, <2>3, <2>4
<1>8. PICK t3 : F[3] = St(s, 30, t3, open) /\ Has(t3, w, 7)
  <2>1. Has(t2, w, 5) /\ InObject(t2, open)
    BY <1>7, <1>4, HasObjects DEF open
  <2>2. w[6] = KeyToken(23) /\ w[7] \in Token /\ ValueHere(s, 28, w[7], 29)
    BY <1>3 DEF Expects
  <2>3. Ahead(s, 22, 23) /\ KeyHere(s, 23) /\ s[29] = COMMA /\ Beyond(s, 29) = 30
    <3>1. Ahead(s, 22, 23) /\ KeyHere(s, 23) /\ s[29] = COMMA
      BY LayoutAhead
    <3>2. Beyond(s, 29) = 29 + 1
      BY <3>1 DEF Beyond
    <3> QED
      BY <3>1, <3>2
  <2>4. \E longer : Turn(St(s, 22, t2, open)) = St(s, Beyond(s, 29), longer, open) /\ Has(longer, w, 7)
    BY <1>2, <2>1, <2>2, <2>3, CountedMember
  <2> QED
    BY <1>1, <1>7, <2>3, <2>4
<1>9. PICK t4 : F[4] = St(s, 38, t4, open) /\ Has(t4, w, 9)
  <2>1. Has(t3, w, 7) /\ InObject(t3, open)
    BY <1>8, <1>4, HasObjects DEF open
  <2>2. w[8] = KeyToken(31) /\ w[9] \in Token /\ ValueHere(s, 36, w[9], 37)
    BY <1>3 DEF Expects
  <2>3. Ahead(s, 30, 31) /\ KeyHere(s, 31) /\ s[37] = COMMA /\ Beyond(s, 37) = 38
    <3>1. Ahead(s, 30, 31) /\ KeyHere(s, 31) /\ s[37] = COMMA
      BY LayoutAhead
    <3>2. Beyond(s, 37) = 37 + 1
      BY <3>1 DEF Beyond
    <3> QED
      BY <3>1, <3>2
  <2>4. \E longer : Turn(St(s, 30, t3, open)) = St(s, Beyond(s, 37), longer, open) /\ Has(longer, w, 9)
    BY <1>2, <2>1, <2>2, <2>3, CountedMember
  <2> QED
    BY <1>1, <1>8, <2>3, <2>4
<1>10. PICK t5 : F[5] = St(s, 48, t5, open) /\ Has(t5, w, 11)
  <2>1. Has(t4, w, 9) /\ InObject(t4, open)
    BY <1>9, <1>4, HasObjects DEF open
  <2>2. w[10] = KeyToken(39) /\ w[11] \in Token /\ ValueHere(s, 44, w[11], 47)
    BY <1>3 DEF Expects
  <2>3. Ahead(s, 38, 39) /\ KeyHere(s, 39) /\ s[47] = COMMA /\ Beyond(s, 47) = 48
    <3>1. Ahead(s, 38, 39) /\ KeyHere(s, 39) /\ s[47] = COMMA
      BY LayoutAhead
    <3>2. Beyond(s, 47) = 47 + 1
      BY <3>1 DEF Beyond
    <3> QED
      BY <3>1, <3>2
  <2>4. \E longer : Turn(St(s, 38, t4, open)) = St(s, Beyond(s, 47), longer, open) /\ Has(longer, w, 11)
    BY <1>2, <2>1, <2>2, <2>3, CountedMember
  <2> QED
    BY <1>1, <1>9, <2>3, <2>4
<1> DEFINE deeper == <<1, 13>>
<1>11. PICK t6 : F[6] = St(s, 55, t6, deeper) /\ Has(t6, w, 13)
  <2>1. Has(t5, w, 11) /\ InObject(t5, open)
    BY <1>4, <1>10, HasObjects DEF open
  <2>2. w[12] = KeyToken(49) /\ w[13] = ObjectToken(54)
    BY <1>3 DEF Expects
  <2>3. Ahead(s, 48, 49) /\ KeyHere(s, 49) /\ s[54] = LBRACE
    BY LayoutAhead
  <2>4. \E longer : Turn(St(s, 48, t5, open)) = St(s, 55, longer, Append(open, 13)) /\ Has(longer, w, 13)
    BY <2>1, <2>2, <2>3, CountedObject
  <2>5. Append(open, 13) = deeper
    BY OneOpen DEF open
  <2> QED
    BY <1>1, <1>10, <2>4, <2>5
<1> HIDE DEF deeper
<1>12. PICK t7 : F[7] = St(s, 61, t7, deeper) /\ Has(t7, w, 15)
  <2>1. Has(t6, w, 13) /\ InObject(t6, deeper)
    BY <1>4, <1>11, HasObjects DEF deeper
  <2>2. w[14] = KeyToken(55) /\ w[15] \in Token /\ ValueHere(s, 60, w[15], 61)
    BY <1>3 DEF Expects
  <2>3. Ahead(s, 55, 55) /\ KeyHere(s, 55) /\ s[61] = RBRACE /\ Beyond(s, 61) = 61
    <3>1. Ahead(s, 55, 55) /\ KeyHere(s, 55) /\ s[61] = RBRACE
      BY LayoutAhead
    <3>2. RBRACE # COMMA
      BY SymbolsApart
    <3> QED
      BY <3>1, <3>2 DEF Beyond
  <2>4. \E longer : Turn(St(s, 55, t6, deeper)) = St(s, Beyond(s, 61), longer, deeper) /\ Has(longer, w, 15)
    BY <1>2, <2>1, <2>2, <2>3, CountedMember
  <2> QED
    BY <1>1, <1>11, <2>3, <2>4
<1> QED
  BY <1>12 DEF F, deeper

(* A token that is closed, among the others.                               *)
LEMMA DoneIs ==
  ASSUME NEW tokens \in Seq(Token), NEW i \in 1 .. Len(tokens), NEW p \in Nat
  PROVE  /\ Done(tokens, i, p) \in Seq(Token) /\ Len(Done(tokens, i, p)) = Len(tokens)
         /\ Done(tokens, i, p)[i].type = tokens[i].type
         /\ Done(tokens, i, p)[i].num_desc = Len(tokens) - i
         /\ \A j \in 1 .. Len(tokens) : j # i => Done(tokens, i, p)[j] = tokens[j]
<1> DEFINE tok == tokens[i]
           n == Len(tokens) - i
           len == p - tok.ptr
           new == DoneToken(tokens, i, p)
           done == [tokens EXCEPT ![i] = new]
           h == [tok EXCEPT !.len = len]
<1>1. tok \in Token /\ n \in Int
  OBVIOUS
<1>2. new = [h EXCEPT !.num_desc = n]
  BY DEF DoneToken
<1>3. len \in Int
  <2> HIDE DEF tok
  <2> QED
    BY <1>1, TokenFields
<1> HIDE DEF new, tok, n, len
<1>4. h \in Token /\ h.type = tok.type
  BY <1>1, <1>3 DEF Token
<1> HIDE DEF h
<1>5. new \in Token
  BY <1>1, <1>2, <1>4 DEF Token
<1>6. new.type = tok.type /\ new.num_desc = n
  BY <1>1, <1>2, <1>4 DEF Token
<1>7. /\ done \in Seq(Token) /\ Len(done) = Len(tokens) /\ done[i] = new
      /\ \A j \in 1 .. Len(tokens) : j # i => done[j] = tokens[j]
  BY <1>5
<1>8. done = Done(tokens, i, p)
  BY DEF Done, new
<1> HIDE DEF done
<1> QED
  BY <1>6, <1>7, <1>8 DEF tok, n

(* The objects are those that begin at 1 and 13, of so many tokens.        *)
Read(s, tokens) ==
  /\ Len(tokens) >= 15 /\ tokens \in Seq(Token)
  /\ tokens[1].type = "object" /\ tokens[1].num_desc = 14
  /\ tokens[13].type = "object" /\ tokens[13].num_desc = 2
  /\ \A i \in 2 .. 15 : i # 13 => tokens[i] = Expected(s)[i]

(* After nine turns both objects are closed.                               *)
LEMMA TurnsEnd ==
  ASSUME NEW S, NEW s \in Seq(S), Layout(s)
  PROVE  \E tokens : Turns(s)[9] = St(s, 64, tokens, <<>>) /\ Len(tokens) = 15 /\ Read(s, tokens)
<1> DEFINE F == Turns(s)
           w == Expected(s)
           none == <<>>
           open == <<1>>
           deeper == <<1, 13>>
<1>1. F[8] = Turn(F[7]) /\ F[9] = Turn(F[8])
  <2>1. Len(s) = 64 /\ \A n \in 0 .. Len(s) - 1 : F[n + 1] = Turn(F[n])
    BY TurnsUnfolds DEF Layout
  <2> HIDE DEF F
  <2> QED
    BY <2>1
<1>2. Expects(s, w)
  BY LayoutExpects
<1>3. PICK t : F[7] = St(s, 61, t, deeper) /\ Has(t, w, 15)
  BY TurnsOn
<1>4. /\ Front(deeper) = open /\ Last(deeper) = 13 /\ Front(open) = none /\ Last(open) = 1
      /\ open # none
  BY OneOpen
<1>5. w[1] = ObjectToken(1) /\ w[13] = ObjectToken(54)
  BY <1>2 DEF Expects
<1>6. InObject(t, deeper)
  BY <1>3, <1>5, HasObjects
<1>7. t \in Seq(Token) /\ Len(t) = 15 /\ \A i \in 1 .. 15 : t[i] = w[i]
  BY <1>3 DEF Has
<1>8. t[1].type = "object" /\ t[13].type = "object"
  <2>1. t[1] = ObjectToken(1) /\ t[13] = ObjectToken(54)
    BY <1>5, <1>7
  <2> QED
    BY <2>1 DEF ObjectToken
<1>9. open \in Seq(Nat)
  BY OneOpen
<1> HIDE DEF F, w, none, open, deeper
<1> DEFINE u == Done(t, 13, 62)
<1>10. /\ u \in Seq(Token) /\ Len(u) = 15 /\ u[13].type = "object" /\ u[13].num_desc = 2
       /\ \A j \in 1 .. 15 : j # 13 => u[j] = t[j]
  <2> DEFINE i == 13
             p == 62
  <2>1. i \in 1 .. Len(t) /\ p \in Nat /\ Len(t) - i = 2 /\ t[i].type = "object"
    BY <1>7, <1>8
  <2> HIDE DEF i, p
  <2>2. /\ Done(t, i, p) \in Seq(Token) /\ Len(Done(t, i, p)) = Len(t)
        /\ Done(t, i, p)[i].type = t[i].type /\ Done(t, i, p)[i].num_desc = Len(t) - i
        /\ \A j \in 1 .. Len(t) : j # i => Done(t, i, p)[j] = t[j]
    <3>1. t \in Seq(Token)
      BY <1>7
    <3>2. i \in 1 .. Len(t) /\ p \in Nat
      BY <2>1
    <3> QED
      BY <3>1, <3>2, DoneIs
  <2> QED
    BY <1>7, <2>1, <2>2 DEF i, p
<1>11. F[8] = St(s, 62, u, open)
  <2> DEFINE k == 61
             q == 62
  <2>1. Ahead(s, k, k) /\ s[k] = RBRACE /\ q = k + 1
    BY LayoutAhead
  <2>2. Ahead(s, q, 63) /\ s[63] # COMMA
    <3>1. Ahead(s, q, 63) /\ s[63] = RBRACE
      BY LayoutAhead
    <3>2. RBRACE # COMMA
      BY SymbolsApart
    <3> QED
      BY <3>1, <3>2
  <2> HIDE DEF k, q
  <2>3. \E m : Ahead(s, k + 1, m) /\ s[m] # COMMA
    BY <2>1, <2>2
  <2>4. Turn(St(s, k, t, deeper))
          = St(s, k + 1, Done(t, Last(deeper), k + 1), Front(deeper))
    BY <1>6, <1>7, <2>1, <2>3, StCloses
  <2>5. Turn(St(s, k, t, deeper)) = St(s, q, Done(t, 13, q), open)
    BY <1>4, <2>1, <2>4
  <2> QED
    BY <1>1, <1>3, <2>5 DEF k, q
<1>12. InObject(u, open)
  <2>1. u[1].type = "object"
    BY <1>7, <1>8, <1>10
  <2> QED
    BY <1>4, <1>9, <2>1 DEF InObject, none
<1> HIDE DEF u
<1> DEFINE v == Done(u, 1, 64)
<1>13. /\ v \in Seq(Token) /\ Len(v) = 15 /\ v[1].type = "object" /\ v[1].num_desc = 14
       /\ \A j \in 1 .. 15 : j # 1 => v[j] = u[j]
  <2>1. u[1].type = "object" /\ 1 \in 1 .. Len(u) /\ 14 = Len(u) - 1
    BY <1>7, <1>8, <1>10
  <2> DEFINE i == 1
             p == 64
  <2>2. i \in 1 .. Len(u) /\ p \in Nat /\ Len(u) - i = 14 /\ u[i].type = "object"
    BY <1>10, <2>1
  <2> HIDE DEF i, p
  <2>3. /\ Done(u, i, p) \in Seq(Token) /\ Len(Done(u, i, p)) = Len(u)
        /\ Done(u, i, p)[i].type = u[i].type /\ Done(u, i, p)[i].num_desc = Len(u) - i
        /\ \A j \in 1 .. Len(u) : j # i => Done(u, i, p)[j] = u[j]
    BY <1>10, <2>2, DoneIs
  <2> QED
    BY <1>10, <2>2, <2>3 DEF i, p
<1>14. F[9] = St(s, 64, v, none)
  <2> DEFINE p == 62
             k == 63
             q == 64
  <2>1. Ahead(s, p, k) /\ s[k] = RBRACE /\ q = k + 1
    BY LayoutAhead
  <2> HIDE DEF p, k, q
  <2>2. Turn(St(s, p, u, open))
          = St(s, k + 1, Done(u, Last(open), k + 1), Front(open))
    BY <1>4, <1>10, <1>12, <2>1, StCloses DEF none
  <2>3. Turn(St(s, p, u, open)) = St(s, q, Done(u, 1, q), none)
    BY <1>4, <2>1, <2>2
  <2> QED
    BY <1>1, <1>11, <2>3 DEF p, q
<1> HIDE DEF v
<1>15. Read(s, v)
  <2>1. v[13].type = "object" /\ v[13].num_desc = 2
    BY <1>10, <1>13
  <2>2. \A i \in 2 .. 15 : i # 13 => v[i] = w[i]
    BY <1>7, <1>10, <1>13
  <2> QED
    BY <1>13, <2>1, <2>2 DEF Read, w
<1> QED
  BY <1>13, <1>14, <1>15 DEF F, none

(* What is printed is read, into these tokens and an end marker.           *)
LEMMA LayoutRead ==
  ASSUME NEW S, NEW s \in Seq(S), Layout(s)
  PROVE  /\ Doit(s).code = 0 /\ Doit(s).s = s
         /\ Read(s, Doit(s).tokens) /\ Len(Doit(s).tokens) = 16 /\ Doit(s).tokens[16].type = "eof"
<1> DEFINE F == Turns(s)
           none == <<>>
<1>1. Len(s) = 64 /\ s # <<>>
  <2>1. Len(s) = 64 /\ Len(<<>>) = 0 /\ 64 # 0
    BY DEF Layout
  <2> QED
    BY <2>1, Zenon
<1>2. PICK t : F[9] = St(s, 64, t, none) /\ Len(t) = 15 /\ Read(s, t)
  BY TurnsEnd
<1>3. F[64] = F[9]
  <2>1. F[9].open = <<>>
    BY <1>2 DEF St
  <2>2. 9 \in 0 .. Len(s) /\ 64 \in 9 .. Len(s)
    BY <1>1
  <2> QED
    BY <2>1, <2>2, TurnsStay
<1> HIDE DEF F, none
<1> DEFINE f == St(s, 64, t, none)
           eof == [type |-> "eof", ptr |-> 64, len |-> 0, num_desc |-> 0]
           longer == Append(t, eof)
<1>4. Doit(s) = Ended(f)
  <2>1. F[Len(s)] = f
    BY <1>1, <1>2, <1>3
  <2> HIDE DEF f
  <2> QED
    BY <1>1, <2>1 DEF Doit, F
<1>5. f.code = 0 /\ f.cur = 64 /\ f.tokens = t /\ f.s = s
  BY DEF St
<1>6. Ended(f) = [f EXCEPT !.tokens = longer]
  <2> HIDE DEF f
  <2> QED
    BY <1>5 DEF Ended, CapturePtr
<1>7. eof \in Token /\ eof.type = "eof"
  BY DEF Token, Types
<1>8. t \in Seq(Token)
  BY <1>2 DEF Read
<1> HIDE DEF eof
<1>9. /\ longer \in Seq(Token) /\ Len(longer) = Len(t) + 1 /\ longer[Len(t) + 1] = eof
      /\ \A i \in 1 .. Len(t) : longer[i] = t[i]
  BY <1>7, <1>8, AppendIs
<1> HIDE DEF longer
<1>10. Len(longer) = 16 /\ longer[16] = eof /\ \A i \in 1 .. 15 : longer[i] = t[i]
  BY <1>2, <1>9
<1>11. Read(s, longer)
  <2>1. longer[1] = t[1] /\ longer[13] = t[13] /\ \A i \in 2 .. 15 : longer[i] = t[i]
    BY <1>10
  <2> QED
    BY <1>2, <1>9, <1>10, <2>1 DEF Read
<1>12. Doit(s).code = 0 /\ Doit(s).s = s /\ Doit(s).tokens = longer
  BY <1>4, <1>6 DEF St
<1> QED
  BY <1>7, <1>10, <1>11, <1>12

-----------------------------------------------------------------------------
(* The tokens of it, and what is found there.                              *)

(* A text of one symbol.                                                   *)
LEMMA OneSymbol ==
  ASSUME NEW S, NEW s \in Seq(S), NEW p \in 1 .. Len(s)
  PROVE  SubSeq(s, p, p) = <<s[p]>>
<1> DEFINE q == SubSeq(s, p, p)
<1>1. \A i \in p .. p : s[i] \in S
  OBVIOUS
<1>2. q \in Seq(S) /\ Len(q) = 1 /\ q[1] = s[p]
  <2>1. p \in Int /\ p - p + 1 = 1 /\ p <= p /\ p + 1 - 1 = p
    OBVIOUS
  <2> QED
    BY <1>1, <2>1, SubSeqProperties
<1> HIDE DEF q
<1>3. q = <<s[p]>>
  BY <1>2
<1> QED
  BY <1>3 DEF q

(* A text of three.                                                        *)
LEMMA ThreeSymbols ==
  ASSUME NEW S, NEW s \in Seq(S), NEW p \in 1 .. Len(s), p + 2 <= Len(s)
  PROVE  SubSeq(s, p, p + 2) = <<s[p], s[p + 1], s[p + 2]>>
<1> DEFINE r == p + 2
           q == SubSeq(s, p, r)
<1>1. \A i \in p .. r : s[i] \in S
  OBVIOUS
<1>2. p \in Int /\ r \in Int /\ p <= r /\ r - p + 1 = 3
  OBVIOUS
<1>3. q \in Seq(S) /\ Len(q) = 3 /\ q[1] = s[p] /\ q[2] = s[p + 1] /\ q[3] = s[p + 2]
  <2> HIDE DEF r
  <2>1. /\ q \in Seq(S) /\ Len(q) = IF p <= r THEN r - p + 1 ELSE 0
        /\ \A i \in 1 .. r - p + 1 : q[i] = s[p + i - 1]
    BY <1>1, <1>2, SubSeqProperties
  <2> HIDE DEF q
  <2>2. Len(q) = 3 /\ q[1] = s[p + 1 - 1] /\ q[2] = s[p + 2 - 1] /\ q[3] = s[p + 3 - 1]
    BY <1>2, <2>1
  <2> QED
    BY <1>2, <2>1, <2>2
<1> HIDE DEF q
<1>4. q = <<s[p], s[p + 1], s[p + 2]>>
  BY <1>3
<1> QED
  BY <1>4 DEF q, r

(* The lesser of two.                                                      *)
LEMMA ShorterMin ==
  ASSUME NEW a \in Nat, NEW b \in Nat, b <= a
  PROVE  Min({a, b}) = b
<1> DEFINE S == {a, b}
<1>1. S \subseteq Nat /\ S # {} /\ b \in S /\ \A x \in S : x = a \/ x = b
  OBVIOUS
<1> HIDE DEF S
<1>2. Min(S) \in S /\ \A x \in S : Min(S) <= x
  BY <1>1, MinOf
<1>3. (Min(S) = a \/ Min(S) = b) /\ Min(S) <= b
  BY <1>1, <1>2
<1>4. Min(S) = b
  BY <1>3
<1> QED
  BY <1>4 DEF S

(* What is copied for a token is the text of the token.                    *)
LEMMA TokenValueIs ==
  ASSUME NEW S, NEW f, f.s \in Seq(S), NEW i, NEW type,
         NEW p \in 1 .. Len(f.s), NEW len \in Nat \ {0}, p + len - 1 <= Len(f.s),
         f.tokens[i] = Plain(type, p, len)
  PROVE  /\ TokenValue(f, i) = SubSeq(f.s, p, p + len - 1)
         /\ KeyOf(f, i) = SubSeq(f.s, p, p + len - 1)
<1> DEFINE s == f.s
           N == Len(s)
           last == p + len - 1
           q == SubSeq(s, p, N)
<1>1. s \in Seq(S) /\ f.s = s /\ p + len - 1 <= Len(s) /\ p \in 1 .. Len(s)
  OBVIOUS
<1> HIDE DEF s
<1>2. N \in Nat /\ p \in 1 .. N /\ p <= N /\ N - p + 1 \in Nat /\ len <= N - p + 1
  BY <1>1
<1>3. \A k \in p .. N : s[k] \in S
  BY <1>1
<1>4. f.tokens[i].ptr = p /\ f.tokens[i].len = len
  BY DEF Plain
<1>5. KeyOf(f, i) = SubSeq(s, p, last)
  BY <1>1, <1>4 DEF KeyOf
<1>6. TokenValue(f, i) = strlcpy(q, len + 1)
  BY <1>1, <1>4 DEF TokenValue
<1>7. Len(q) = N - p + 1
  <2> HIDE DEF N
  <2>1. p \in Int /\ N \in Int
    BY <1>2
  <2> QED
    BY <1>2, <1>3, <2>1, SubSeqProperties
<1>8. strlcpy(q, len + 1) = SubSeq(q, 1, len)
  <2> HIDE DEF q, N
  <2>1. Min({Len(q), len}) = len
    BY <1>2, <1>7, ShorterMin
  <2>2. (len + 1) - 1 = len
    OBVIOUS
  <2> QED
    BY <2>1, <2>2 DEF strlcpy
<1>9. SubSeq(q, 1, len) = SubSeq(s, p, last)
  <2>1. p \in 1 .. Len(s) /\ N \in 1 .. Len(s) /\ 1 \in 1 .. N - p + 1 /\ len \in 1 .. N - p + 1
    BY <1>1, <1>2
  <2>2. p + 1 - 1 = p /\ p + len - 1 = last
    BY <1>2
  <2> HIDE DEF N
  <2>3. SubSeq(SubSeq(s, p, N), 1, len) = SubSeq(s, p + 1 - 1, p + len - 1)
    BY <1>1, <2>1, SubSeqOfSubSeq
  <2> QED
    BY <2>2, <2>3
<1> QED
  BY <1>1, <1>5, <1>6, <1>8, <1>9

(* The value of a token of one symbol.                                     *)
LEMMA ShortValue ==
  ASSUME NEW S, NEW f, f.s \in Seq(S), NEW i, NEW type, NEW p \in 1 .. Len(f.s),
         f.tokens[i] = Plain(type, p, 1)
  PROVE  TokenValue(f, i) = <<f.s[p]>> /\ KeyOf(f, i) = <<f.s[p]>>
<1> DEFINE len == 1
<1>1. len \in Nat \ {0} /\ p + len - 1 = p /\ p + len - 1 <= Len(f.s) /\ f.tokens[i] = Plain(type, p, len)
  OBVIOUS
<1> HIDE DEF len
<1>2. /\ TokenValue(f, i) = SubSeq(f.s, p, p + len - 1)
      /\ KeyOf(f, i) = SubSeq(f.s, p, p + len - 1)
  <2>1. len \in Nat \ {0}
    BY <1>1
  <2>2. p + len - 1 <= Len(f.s)
    BY <1>1
  <2>3. f.tokens[i] = Plain(type, p, len)
    BY <1>1
  <2> QED
    BY <2>1, <2>2, <2>3, TokenValueIs
<1>3. SubSeq(f.s, p, p) = <<f.s[p]>>
  BY OneSymbol
<1> QED
  BY <1>1, <1>2, <1>3

(* The value of a token of three.                                          *)
LEMMA LongValue ==
  ASSUME NEW S, NEW f, f.s \in Seq(S), NEW i, NEW type, NEW p \in 1 .. Len(f.s), p + 2 <= Len(f.s),
         f.tokens[i] = Plain(type, p, 3)
  PROVE  TokenValue(f, i) = <<f.s[p], f.s[p + 1], f.s[p + 2]>>
<1> DEFINE len == 3
<1>1. len \in Nat \ {0} /\ p + len - 1 = p + 2 /\ p + len - 1 <= Len(f.s) /\ f.tokens[i] = Plain(type, p, len)
  OBVIOUS
<1> HIDE DEF len
<1>2. TokenValue(f, i) = SubSeq(f.s, p, p + len - 1)
  BY <1>1, TokenValueIs
<1>3. SubSeq(f.s, p, p + 2) = <<f.s[p], f.s[p + 1], f.s[p + 2]>>
  BY ThreeSymbols
<1> QED
  BY <1>1, <1>2, <1>3

(* The keys of what is printed, and how many tokens their values have.     *)
KeyAt(f, i, symbol) == f.tokens[i].type = "string" /\ KeyOf(f, i) = <<symbol>>
Simple(f, i, value) ==
  /\ f.tokens[i].type # "object" /\ f.tokens[i].num_desc = 0 /\ TokenValue(f, i) = value

(* A token of one symbol stands at p.                                      *)
PlainAt(f, i, type, p) ==
  type # "object" /\ p \in 1 .. Len(f.s) /\ f.tokens[i] = Plain(type, p, 1)
OneAt(f, i, p) == \E type : PlainAt(f, i, type, p)

(* A string of one symbol is a key.                                        *)
LEMMA KeyAtIs ==
  ASSUME NEW S, NEW f, f.s \in Seq(S), NEW i, NEW p, PlainAt(f, i, "string", p)
  PROVE  KeyAt(f, i, f.s[p])
<1>0. p \in 1 .. Len(f.s) /\ f.tokens[i] = Plain("string", p, 1)
  BY DEF PlainAt
<1>1. KeyOf(f, i) = <<f.s[p]>>
  BY <1>0, ShortValue
<1>2. f.tokens[i].type = "string"
  BY <1>0 DEF Plain
<1> QED
  BY <1>1, <1>2 DEF KeyAt

(* The symbol at p is the value of a token.                                *)
SimpleAt(f, i, p) == Simple(f, i, <<f.s[p]>>)

(* A token of one symbol is a value.                                       *)
LEMMA SimpleIs ==
  ASSUME NEW S, NEW f, f.s \in Seq(S), NEW i, NEW p, OneAt(f, i, p)
  PROVE  SimpleAt(f, i, p)
<1>0. PICK type : type # "object" /\ p \in 1 .. Len(f.s) /\ f.tokens[i] = Plain(type, p, 1)
  BY DEF OneAt, PlainAt
<1>1. Plain(type, p, 1).type = type /\ Plain(type, p, 1).num_desc = 0
  BY DEF Plain
<1>2. TokenValue(f, i) = <<f.s[p]>>
  BY <1>0, ShortValue
<1> QED
  BY <1>0, <1>1, <1>2 DEF Simple, SimpleAt

(* A number of three is a value.                                           *)
LEMMA PowerIs ==
  ASSUME NEW S, NEW f, f.s \in Seq(S), NEW i, NEW p \in 1 .. Len(f.s), p + 2 <= Len(f.s),
         f.tokens[i] = Plain("number", p, 3)
  PROVE  Simple(f, i, <<f.s[p], f.s[p + 1], f.s[p + 2]>>)
<1>1. Plain("number", p, 3).type = "number" /\ Plain("number", p, 3).num_desc = 0
  BY DEF Plain
<1>2. TokenValue(f, i) = <<f.s[p], f.s[p + 1], f.s[p + 2]>>
  BY LongValue
<1> QED
  BY <1>1, <1>2 DEF Simple

(* What the settings are looked up in.                                     *)
LaidOut(f) ==
  /\ KeyAt(f, 2, f.s[4]) /\ KeyAt(f, 4, f.s[14]) /\ KeyAt(f, 6, f.s[24]) /\ KeyAt(f, 8, f.s[32])
  /\ KeyAt(f, 10, f.s[40]) /\ KeyAt(f, 12, f.s[50]) /\ KeyAt(f, 14, f.s[56])
  /\ Simple(f, 3, <<f.s[9]>>) /\ Simple(f, 5, <<f.s[19]>>) /\ Simple(f, 7, <<f.s[28]>>)
  /\ Simple(f, 9, <<f.s[36]>>) /\ Simple(f, 11, <<f.s[44], f.s[45], f.s[46]>>)
  /\ Simple(f, 15, <<f.s[60]>>)
  /\ f.tokens[1].type = "object" /\ f.tokens[1].num_desc = 14
  /\ f.tokens[13].type = "object" /\ f.tokens[13].num_desc = 2

Truth(symbol) == symbol \in {"true", "false"}

(* The tokens of what is printed are its keys and values.                  *)
LEMMA TokensLaidOut ==
  ASSUME NEW S, NEW f, f.s \in Seq(S), Len(f.s) = 64, Truth(f.s[36]),
         Read(f.s, f.tokens)
  PROVE  LaidOut(f)
<1> DEFINE w == Expected(f.s)
<1>1. /\ f.tokens[1].type = "object" /\ f.tokens[1].num_desc = 14
      /\ f.tokens[13].type = "object" /\ f.tokens[13].num_desc = 2
      /\ \A i \in 2 .. 15 : i # 13 => f.tokens[i] = w[i]
  BY DEF Read
<1>2. f.s[36] \in {"true", "false"}
  BY DEF Truth
<1>3. /\ w[2] = KeyToken(3) /\ w[4] = KeyToken(13) /\ w[6] = KeyToken(23) /\ w[8] = KeyToken(31)
      /\ w[10] = KeyToken(39) /\ w[12] = KeyToken(49) /\ w[14] = KeyToken(55)
      /\ w[3] = Plain("string", 9, 1) /\ w[5] = Plain("string", 19, 1)
      /\ w[7] = Plain("number", 28, 1) /\ w[9] = Plain(f.s[36], 36, 1)
      /\ w[11] = Plain("number", 44, 3) /\ w[15] = Plain("number", 60, 1)
  BY <1>2, ExpectedIs
<1> HIDE DEF w
<1>4. /\ f.tokens[2] = w[2] /\ f.tokens[3] = w[3] /\ f.tokens[4] = w[4] /\ f.tokens[5] = w[5]
      /\ f.tokens[6] = w[6] /\ f.tokens[7] = w[7] /\ f.tokens[8] = w[8] /\ f.tokens[9] = w[9]
      /\ f.tokens[10] = w[10] /\ f.tokens[11] = w[11] /\ f.tokens[12] = w[12]
      /\ f.tokens[14] = w[14] /\ f.tokens[15] = w[15]
  BY <1>1
<1>5. /\ f.tokens[2] = Plain("string", 4, 1) /\ f.tokens[4] = Plain("string", 14, 1)
      /\ f.tokens[6] = Plain("string", 24, 1) /\ f.tokens[8] = Plain("string", 32, 1)
      /\ f.tokens[10] = Plain("string", 40, 1) /\ f.tokens[12] = Plain("string", 50, 1)
      /\ f.tokens[14] = Plain("string", 56, 1)
  <2>1. /\ KeyToken(3) = Plain("string", 4, 1) /\ KeyToken(13) = Plain("string", 14, 1)
        /\ KeyToken(23) = Plain("string", 24, 1) /\ KeyToken(31) = Plain("string", 32, 1)
        /\ KeyToken(39) = Plain("string", 40, 1) /\ KeyToken(49) = Plain("string", 50, 1)
        /\ KeyToken(55) = Plain("string", 56, 1)
    BY DEF KeyToken
  <2> QED
    BY <1>3, <1>4, <2>1
<1>6. /\ f.tokens[3] = Plain("string", 9, 1) /\ f.tokens[5] = Plain("string", 19, 1)
      /\ f.tokens[7] = Plain("number", 28, 1) /\ f.tokens[9] = Plain(f.s[36], 36, 1)
      /\ f.tokens[11] = Plain("number", 44, 3) /\ f.tokens[15] = Plain("number", 60, 1)
  BY <1>3, <1>4
<1>7. f.s \in Seq(S) /\ Len(f.s) = 64
  OBVIOUS
<1>8. f.s \in Seq(S)
  OBVIOUS
<1>9. /\ KeyAt(f, 2, f.s[4]) /\ KeyAt(f, 4, f.s[14]) /\ KeyAt(f, 6, f.s[24]) /\ KeyAt(f, 8, f.s[32])
      /\ KeyAt(f, 10, f.s[40]) /\ KeyAt(f, 12, f.s[50]) /\ KeyAt(f, 14, f.s[56])
  <2>1. KeyAt(f, 2, f.s[4])
    <3>1. PlainAt(f, 2, "string", 4)
      BY <1>5, <1>7 DEF PlainAt
    <3> QED
      BY <1>8, <3>1, KeyAtIs
  <2>2. KeyAt(f, 4, f.s[14])
    <3>1. PlainAt(f, 4, "string", 14)
      BY <1>5, <1>7 DEF PlainAt
    <3> QED
      BY <1>8, <3>1, KeyAtIs
  <2>3. KeyAt(f, 6, f.s[24])
    <3>1. PlainAt(f, 6, "string", 24)
      BY <1>5, <1>7 DEF PlainAt
    <3> QED
      BY <1>8, <3>1, KeyAtIs
  <2>4. KeyAt(f, 8, f.s[32])
    <3>1. PlainAt(f, 8, "string", 32)
      BY <1>5, <1>7 DEF PlainAt
    <3> QED
      BY <1>8, <3>1, KeyAtIs
  <2>5. KeyAt(f, 10, f.s[40])
    <3>1. PlainAt(f, 10, "string", 40)
      BY <1>5, <1>7 DEF PlainAt
    <3> QED
      BY <1>8, <3>1, KeyAtIs
  <2>6. KeyAt(f, 12, f.s[50])
    <3>1. PlainAt(f, 12, "string", 50)
      BY <1>5, <1>7 DEF PlainAt
    <3> QED
      BY <1>8, <3>1, KeyAtIs
  <2>7. KeyAt(f, 14, f.s[56])
    <3>1. PlainAt(f, 14, "string", 56)
      BY <1>5, <1>7 DEF PlainAt
    <3> QED
      BY <1>8, <3>1, KeyAtIs
  <2> QED
    BY <2>1, <2>2, <2>3, <2>4, <2>5, <2>6, <2>7
<1>10. /\ Simple(f, 3, <<f.s[9]>>) /\ Simple(f, 5, <<f.s[19]>>) /\ Simple(f, 7, <<f.s[28]>>)
       /\ Simple(f, 9, <<f.s[36]>>) /\ Simple(f, 15, <<f.s[60]>>)
  <2>0. f.s[36] # "object" /\ "string" # "object" /\ "number" # "object"
    BY <1>2
  <2>1. SimpleAt(f, 3, 9)
    <3>1. PlainAt(f, 3, "string", 9)
      BY <1>6, <1>7, <2>0 DEF PlainAt
    <3>2. OneAt(f, 3, 9)
      BY <3>1 DEF OneAt
    <3> QED
      BY <1>8, <3>2, SimpleIs
  <2>2. SimpleAt(f, 5, 19)
    <3>1. PlainAt(f, 5, "string", 19)
      BY <1>6, <1>7, <2>0 DEF PlainAt
    <3>2. OneAt(f, 5, 19)
      BY <3>1 DEF OneAt
    <3> QED
      BY <1>8, <3>2, SimpleIs
  <2>3. SimpleAt(f, 7, 28)
    <3>1. PlainAt(f, 7, "number", 28)
      BY <1>6, <1>7, <2>0 DEF PlainAt
    <3>2. OneAt(f, 7, 28)
      BY <3>1 DEF OneAt
    <3> QED
      BY <1>8, <3>2, SimpleIs
  <2>4. SimpleAt(f, 9, 36)
    <3>1. PlainAt(f, 9, f.s[36], 36)
      BY <1>6, <1>7, <2>0 DEF PlainAt
    <3>2. OneAt(f, 9, 36)
      BY <3>1 DEF OneAt
    <3> QED
      BY <1>8, <3>2, SimpleIs
  <2>5. SimpleAt(f, 15, 60)
    <3>1. PlainAt(f, 15, "number", 60)
      BY <1>6, <1>7, <2>0 DEF PlainAt
    <3>2. OneAt(f, 15, 60)
      BY <3>1 DEF OneAt
    <3> QED
      BY <1>8, <3>2, SimpleIs
  <2> QED
    BY <2>1, <2>2, <2>3, <2>4, <2>5 DEF SimpleAt
<1>11. Simple(f, 11, <<f.s[44], f.s[45], f.s[46]>>)
  <2> DEFINE p == 44
  <2>1. p \in 1 .. Len(f.s) /\ p + 2 <= Len(f.s) /\ f.tokens[11] = Plain("number", p, 3)
        /\ p + 1 = 45 /\ p + 2 = 46
    BY <1>6, <1>7
  <2> HIDE DEF p
  <2>2. Simple(f, 11, <<f.s[p], f.s[p + 1], f.s[p + 2]>>)
    BY <1>7, <2>1, PowerIs
  <2>3. Simple(f, 11, <<f.s[p], f.s[45], f.s[46]>>)
    BY <2>1, <2>2
  <2> QED
    BY <2>3 DEF p
<1> QED
  BY <1>1, <1>9, <1>10, <1>11 DEF LaidOut

(* What is printed is parsed, and these are its tokens.                    *)
LEMMA LayoutLaidOut ==
  ASSUME NEW S, NEW s \in Seq(S), Layout(s)
  PROVE  /\ LaidOut(Doit(s)) /\ Doit(s).code = 0 /\ Doit(s).s = s /\ SettledAt(Doit(s), 15)
<1> DEFINE f == Doit(s)
<1>1. f.s = s /\ Read(s, f.tokens) /\ f.code = 0 /\ Len(f.tokens) = 16
  BY LayoutRead
<1>2. Len(s) = 64
  BY DEF Layout
<1>3. Truth(s[36])
  BY LayoutValues DEF Truth
<1>4. Settled(f)
  BY <1>1, Settles
<1> HIDE DEF f
<1>5. LaidOut(f)
  BY <1>1, <1>2, <1>3, TokensLaidOut
<1>6. PICK n \in Nat \ {0} : SettledAt(f, n)
  BY <1>4 DEF Settled
<1>7. n = 15
  <2>1. Len(f.tokens) = n + 1
    BY <1>6 DEF SettledAt
  <2>2. n + 1 = 16
    BY <1>1, <2>1
  <2> QED
    BY <2>2
<1> QED
  BY <1>1, <1>5, <1>6, <1>7 DEF f

(* At a key the search ends, or goes on to what follows.                   *)
LEMMA SeekAt ==
  ASSUME NEW f, SettledAt(f, 15), NEW x, NEW i \in 0 .. 15, NEW symbol, KeyAt(f, i, symbol)
  PROVE  LET F == FindMember(f, 15, <<x>>)
         IN  /\ symbol = x => F[i] = i + 1
             /\ symbol # x => F[i] = F[Following(f.tokens, i)]
<1> DEFINE key == <<x>>
           F == FindMember(f, 15, key)
<1>1. 15 \in Nat \ {0} /\ i \in Nat /\ ~(i > 15)
  OBVIOUS
<1>2. \A k \in 0 .. 15 : /\ NextKey(f, k) = Following(f.tokens, k)
                         /\ NextKey(f, k) \in Nat /\ NextKey(f, k) > k
  BY <1>1, NextKeyIs
<1>3. \A k \in Nat : F[k] = FindStep(f, 15, key, F, k)
  BY <1>2, FindMemberUnfolds
<1>4. KeyOf(f, i) = <<symbol>> /\ f.tokens[i].type = "string"
  BY DEF KeyAt
<1>5. KeyOf(f, i) = key <=> symbol = x
  BY <1>4
<1> HIDE DEF key, F
<1>6. F[i] = FindStep(f, 15, key, F, i)
  BY <1>1, <1>3
<1>7. F[i] = IF KeyOf(f, i) = key THEN i + 1 ELSE F[NextKey(f, i)]
  BY <1>1, <1>4, <1>6 DEF FindStep
<1>8. NextKey(f, i) = Following(f.tokens, i)
  BY <1>2
<1> QED
  BY <1>5, <1>7, <1>8 DEF key, F

(* Beyond the last token nothing is found.                                 *)
LEMMA SeekPast ==
  ASSUME NEW f, SettledAt(f, 15), NEW key
  PROVE  FindMember(f, 15, key)[16] = 0
<1>1. 15 \in Nat \ {0} /\ 16 \in Nat /\ 16 > 15
  OBVIOUS
<1>2. \A k \in 0 .. 15 : NextKey(f, k) \in Nat /\ NextKey(f, k) > k
  BY <1>1, NextKeyIs
<1>3. FindMember(f, 15, key)[16] = FindStep(f, 15, key, FindMember(f, 15, key), 16)
  BY <1>1, <1>2, FindMemberUnfolds
<1> QED
  BY <1>1, <1>3 DEF FindStep

(* The places the search goes to.                                          *)
LEMMA FollowingKeys ==
  ASSUME NEW f, LaidOut(f)
  PROVE  /\ Following(f.tokens, 2) = 4 /\ Following(f.tokens, 4) = 6 /\ Following(f.tokens, 6) = 8
         /\ Following(f.tokens, 8) = 10 /\ Following(f.tokens, 10) = 12
         /\ Following(f.tokens, 12) = 16 /\ Following(f.tokens, 14) = 16
<1>1. /\ f.tokens[3].num_desc = 0 /\ f.tokens[5].num_desc = 0 /\ f.tokens[7].num_desc = 0
      /\ f.tokens[9].num_desc = 0 /\ f.tokens[11].num_desc = 0 /\ f.tokens[13].num_desc = 2
      /\ f.tokens[15].num_desc = 0
  BY DEF LaidOut, Simple
<1> QED
  BY <1>1 DEF Following

(* Which token is found for a name.                                        *)
LEMMA Sought6 ==
  ASSUME NEW f, SettledAt(f, 15), LaidOut(f), NEW x
  PROVE  LET i == FindJsonToken(f, <<<<x>>>>)
         IN  IF x = f.s[4] THEN i = 3
             ELSE IF x = f.s[14] THEN i = 5
             ELSE IF x = f.s[24] THEN i = 7
             ELSE IF x = f.s[32] THEN i = 9
             ELSE IF x = f.s[40] THEN i = 11
             ELSE IF x = f.s[50] THEN i = 13
             ELSE i = 0
<1> DEFINE F == FindMember(f, 15, <<x>>)
           key == <<x>>
<1>1. FindJsonToken(f, <<key>>) = StepInto(f, 1, key)
  BY FindJsonTokenUnfolds
<1>2. f.tokens[1].type = "object" /\ f.tokens[1].num_desc = 14
  BY DEF LaidOut
<1>3. StepInto(f, 1, key) = F[2]
  <2>1. 1 + f.tokens[1].num_desc = 15 /\ 1 + 1 = 2 /\ 1 # 0
    BY <1>2
  <2>2. StepInto(f, 1, key) = FindMember(f, 1 + f.tokens[1].num_desc, key)[1 + 1]
    BY <1>2 DEF StepInto
  <2> QED
    BY <2>1, <2>2
<1>4. /\ KeyAt(f, 2, f.s[4]) /\ KeyAt(f, 4, f.s[14]) /\ KeyAt(f, 6, f.s[24])
      /\ KeyAt(f, 8, f.s[32]) /\ KeyAt(f, 10, f.s[40]) /\ KeyAt(f, 12, f.s[50])
  BY DEF LaidOut
<1>5. \A i \in 0 .. 15 : \A symbol : KeyAt(f, i, symbol) =>
        /\ symbol = x => F[i] = i + 1
        /\ symbol # x => F[i] = F[Following(f.tokens, i)]
  BY SeekAt
<1>6. F[16] = 0
  BY SeekPast
<1> HIDE DEF F, key
<1>7. /\ (f.s[4] = x => F[2] = 3) /\ (f.s[4] # x => F[2] = F[Following(f.tokens, 2)])
      /\ (f.s[14] = x => F[4] = 5) /\ (f.s[14] # x => F[4] = F[Following(f.tokens, 4)])
      /\ (f.s[24] = x => F[6] = 7) /\ (f.s[24] # x => F[6] = F[Following(f.tokens, 6)])
      /\ (f.s[32] = x => F[8] = 9) /\ (f.s[32] # x => F[8] = F[Following(f.tokens, 8)])
      /\ (f.s[40] = x => F[10] = 11) /\ (f.s[40] # x => F[10] = F[Following(f.tokens, 10)])
      /\ (f.s[50] = x => F[12] = 13) /\ (f.s[50] # x => F[12] = F[Following(f.tokens, 12)])
  BY <1>4, <1>5
<1>8. IF x = f.s[4] THEN F[2] = 3
      ELSE IF x = f.s[14] THEN F[2] = 5
      ELSE IF x = f.s[24] THEN F[2] = 7
      ELSE IF x = f.s[32] THEN F[2] = 9
      ELSE IF x = f.s[40] THEN F[2] = 11
      ELSE IF x = f.s[50] THEN F[2] = 13
      ELSE F[2] = 0
  BY <1>6, <1>7, FollowingKeys
<1> QED
  BY <1>1, <1>3, <1>8 DEF key

(* What is found inside the white point.                                   *)
LEMMA SoughtInside ==
  ASSUME NEW f, SettledAt(f, 15), LaidOut(f), NEW x,
         FindJsonToken(f, <<<<x>>>>) = 13
  PROVE  FindJsonToken(f, <<<<x>>, <<f.s[56]>>>>) = 15
<1> DEFINE y == f.s[56]
           key == <<x>>
           inner == <<y>>
           F == FindMember(f, 15, inner)
<1>1. FindJsonToken(f, <<key>>) = StepInto(f, 1, key)
      /\ FindJsonToken(f, <<key, inner>>) = StepInto(f, StepInto(f, 1, key), inner)
  BY FindJsonTokenUnfolds
<1>2. f.tokens[13].type = "object" /\ f.tokens[13].num_desc = 2
  BY DEF LaidOut
<1>3. StepInto(f, 13, inner) = F[14]
  <2>1. 13 + f.tokens[13].num_desc = 15 /\ 13 + 1 = 14 /\ 13 # 0
    BY <1>2
  <2>2. StepInto(f, 13, inner) = FindMember(f, 13 + f.tokens[13].num_desc, inner)[13 + 1]
    BY <1>2 DEF StepInto
  <2> QED
    BY <2>1, <2>2
<1>4. KeyAt(f, 14, f.s[56])
  BY DEF LaidOut
<1>5. F[14] = 15
  <2>1. y = f.s[56]
    OBVIOUS
  <2> HIDE DEF y
  <2>2. \A i \in 0 .. 15 : \A symbol : KeyAt(f, i, symbol) =>
          /\ symbol = y => F[i] = i + 1
          /\ symbol # y => F[i] = F[Following(f.tokens, i)]
    BY SeekAt
  <2> HIDE DEF F
  <2> QED
    BY <1>4, <2>1, <2>2
<1> HIDE DEF F
<1> QED
  BY <1>1, <1>3, <1>5

-----------------------------------------------------------------------------
(* The text that is printed, piece by piece.                               *)

(* The piece m is in s after n symbols.                                    *)
Laid(s, n, m) == \A i \in 1 .. Len(m) : s[n + i] = m[i]

(* The last piece of a prefix is where it was put.                         *)
LEMMA PieceLaid ==
  ASSUME NEW T, NEW a \in Seq(T), NEW m \in Seq(T), NEW s \in Seq(T), Prefix(a \o m, s)
  PROVE  Laid(s, Len(a), m) /\ Prefix(a, s)
<1> DEFINE b == a \o m
<1>1. /\ b \in Seq(T) /\ Len(b) = Len(a) + Len(m) /\ Len(a) \in Nat /\ Len(m) \in Nat
      /\ \A i \in 1 .. Len(a) + Len(m) : b[i] = IF i <= Len(a) THEN a[i] ELSE m[i - Len(a)]
  BY ConcatProperties
<1>2. Prefix(b, s)
  OBVIOUS
<1> HIDE DEF b
<1>3. Len(b) <= Len(s) /\ \A k \in 1 .. Len(b) : b[k] = s[k]
  BY <1>2 DEF Prefix
<1>4. ASSUME NEW i \in 1 .. Len(m) PROVE s[Len(a) + i] = m[i]
  <2> DEFINE k == Len(a) + i
  <2>1. k \in 1 .. Len(b) /\ k \in 1 .. Len(a) + Len(m) /\ ~(k <= Len(a)) /\ k - Len(a) = i
    BY <1>1
  <2> HIDE DEF k
  <2>2. b[k] = s[k] /\ b[k] = m[k - Len(a)]
    BY <1>1, <1>3, <2>1
  <2> QED
    BY <2>1, <2>2 DEF k
<1>5. ASSUME NEW i \in 1 .. Len(a) PROVE a[i] = s[i]
  <2>1. i \in 1 .. Len(b) /\ i \in 1 .. Len(a) + Len(m) /\ i <= Len(a)
    BY <1>1
  <2> QED
    BY <1>1, <1>3, <2>1
<1>6. Len(a) <= Len(s) /\ Len(s) \in Nat
  BY <1>1, <1>3
<1> QED
  BY <1>4, <1>5, <1>6 DEF Laid, Prefix

(* One piece after the other.                                              *)
LEMMA Concat ==
  ASSUME NEW T, NEW a \in Seq(T), NEW b \in Seq(T)
  PROVE  a \o b \in Seq(T) /\ Len(a \o b) = Len(a) + Len(b)
  BY ConcatProperties

(* A member as it is printed.                                              *)
NamedMember(m, name) ==
  m[1] = QUOTE /\ m[2] = name /\ m[3] = QUOTE /\ m[4] = ":" /\ m[5] = BLANK
StringMember(m, name, x) ==
  /\ Len(m) = 10 /\ NamedMember(m, name)
  /\ m[6] = QUOTE /\ m[7] = x /\ m[8] = QUOTE /\ m[9] = COMMA /\ m[10] = BLANK
PlainMember(m, name, x) ==
  Len(m) = 8 /\ NamedMember(m, name) /\ m[6] = x /\ m[7] = COMMA /\ m[8] = BLANK
PowerMember(m, name, x) ==
  /\ Len(m) = 10 /\ NamedMember(m, name)
  /\ m[6] = x /\ m[7] = "." /\ m[8] = "0" /\ m[9] = COMMA /\ m[10] = BLANK

(* Pieces of a few symbols.                                                *)
LEMMA TupleTypes ==
  ASSUME NEW T, NEW a \in T, NEW b \in T, NEW c \in T, NEW d \in T
  PROVE  /\ <<a>> \in Seq(T) /\ Len(<<a>>) = 1
         /\ <<a, b>> \in Seq(T) /\ Len(<<a, b>>) = 2
         /\ <<a, b, c>> \in Seq(T) /\ Len(<<a, b, c>>) = 3
         /\ <<a, b, c, d>> \in Seq(T) /\ Len(<<a, b, c, d>>) = 4
  OBVIOUS

(* What is printed is symbols.                                             *)
LEMMA PrintedSymbols ==
  /\ QUOTE \in Symbol /\ BLANK \in Symbol /\ COMMA \in Symbol /\ ":" \in Symbol /\ "." \in Symbol
  /\ LBRACE \in Symbol /\ RBRACE \in Symbol /\ "true" \in Symbol /\ "false" \in Symbol
  /\ Letter \subseteq Symbol /\ Digit \subseteq Symbol
  BY DEF Symbol, Other, Space, Word

(* The names and the digits of what is printed.                            *)
LEMMA NamesAreLetters ==
  /\ \A s \in Settings : Name[s] \in Letter
  /\ "whitePoint" \in Letter /\ "red" \in Letter
  /\ "none" \in Letter /\ "fade" \in Letter /\ "id" \in Letter /\ "black" \in Letter
  /\ "RGB" \in Letter /\ "RBG" \in Letter /\ "GRB" \in Letter /\ "GBR" \in Letter
  /\ "BGR" \in Letter /\ "BRG" \in Letter
  BY TextAssumption

(* A number that is printed is a run of digits.                            *)
LEMMA NumbersAreDigits ==
  /\ "0" \in Digit /\ "1" \in Digit
  /\ \A n \in (0 .. PortMod - 1) \cup (0 .. MaxPower) : ToString(n) \in Digit
  BY TextAssumption

(* The values as they are printed.                                         *)
LEMMA ValueTexts ==
  ASSUME NEW x
  PROVE  /\ Value("power", x) = <<ToString(x), ".", "0">>
         /\ Value("demo", x) = <<x>> /\ Value("order", x) = <<x>> /\ Value("dithering", x) = <<x>>
         /\ Value("tcp", x) = <<ToString(x)>>
<1>1. Value("power", x) = <<ToString(x), ".", "0">>
  <2>1. "power" \notin {"demo", "dithering", "order"}
    OBVIOUS
  <2> QED
    BY <2>1, Zenon DEF Value
<1>2. ASSUME NEW s \in {"demo", "dithering", "order"} PROVE Value(s, x) = <<x>>
  <2>1. s # "power"
    BY <1>2
  <2> QED
    BY <1>2, <2>1, Zenon DEF Value
<1>3. Value("tcp", x) = <<ToString(x)>>
  <2>1. "tcp" # "power" /\ "tcp" \notin {"demo", "dithering", "order"}
    OBVIOUS
  <2> QED
    BY <2>1, Zenon DEF Value
<1> QED
  BY <1>1, <1>2, <1>3

(* The parts of a member, put together.                                    *)
Joined(name, v) == Quoted(name) \o <<":", BLANK>> \o v \o <<COMMA, BLANK>>

(* Where the parts of a member are.                                        *)
LEMMA Together ==
  ASSUME NEW name \in Symbol, NEW v \in Seq(Symbol)
  PROVE  /\ Joined(name, v) \in Seq(Symbol) /\ Len(Joined(name, v)) = Len(v) + 7
         /\ NamedMember(Joined(name, v), name)
         /\ \A i \in 1 .. Len(v) : Joined(name, v)[5 + i] = v[i]
         /\ Joined(name, v)[Len(v) + 6] = COMMA /\ Joined(name, v)[Len(v) + 7] = BLANK
<1> DEFINE T == Symbol
           q == QUOTE
           blank == BLANK
           comma == COMMA
           colon == ":"
           a == <<q, name, q>>
           b == <<colon, blank>>
           c == <<comma, blank>>
           ab == a \o b
           abv == ab \o v
           m == abv \o c
<1>1. /\ q \in T /\ blank \in T /\ comma \in T /\ colon \in T /\ name \in T /\ v \in Seq(T)
  BY PrintedSymbols
<1>2. Joined(name, v) = m
  BY DEF Joined, Quoted
<1> HIDE DEF T, q, blank, comma, colon
<1>3. a \in Seq(T) /\ Len(a) = 3 /\ a[1] = q /\ a[2] = name /\ a[3] = q
  BY <1>1, TupleTypes
<1>4. b \in Seq(T) /\ Len(b) = 2 /\ b[1] = colon /\ b[2] = blank
  BY <1>1, TupleTypes
<1>5. c \in Seq(T) /\ Len(c) = 2 /\ c[1] = comma /\ c[2] = blank
  BY <1>1, TupleTypes
<1> HIDE DEF a, b, c
<1>6. ab \in Seq(T) /\ Len(ab) = 5
  <2>1. a \o b \in Seq(T) /\ Len(a \o b) = Len(a) + Len(b)
    BY <1>3, <1>4, Concat
  <2> QED
    BY <1>3, <1>4, <2>1
<1> HIDE DEF ab
<1>7. abv \in Seq(T) /\ Len(abv) = 5 + Len(v) /\ Len(v) \in Nat
  <2>1. v \in Seq(T) /\ Len(v) \in Nat
    BY <1>1
  <2>2. ab \o v \in Seq(T) /\ Len(ab \o v) = Len(ab) + Len(v)
    BY <1>6, <2>1, Concat
  <2> QED
    BY <1>6, <2>1, <2>2
<1> HIDE DEF abv
<1>8. m \in Seq(T) /\ Len(m) = 5 + Len(v) + 2
  <2>1. abv \o c \in Seq(T) /\ Len(abv \o c) = Len(abv) + Len(c)
    BY <1>5, <1>7, Concat
  <2> QED
    BY <1>5, <1>7, <2>1
<1>9. Laid(m, Len(abv), c) /\ Prefix(abv, m)
  <2>1. Prefix(abv \o c, m)
    BY <1>8 DEF Prefix
  <2> HIDE DEF m
  <2> QED
    BY <1>5, <1>7, <1>8, <2>1, PieceLaid
<1> HIDE DEF m
<1>10. Laid(m, Len(ab), v) /\ Prefix(ab, m)
  BY <1>1, <1>6, <1>8, <1>9, PieceLaid DEF abv
<1>11. Laid(m, Len(a), b) /\ Prefix(a, m)
  BY <1>3, <1>4, <1>8, <1>10, PieceLaid DEF ab
<1>12. m[1] = q /\ m[2] = name /\ m[3] = q
  BY <1>3, <1>11 DEF Prefix
<1>13. m[4] = colon /\ m[5] = blank
  <2>1. m[3 + 1] = b[1] /\ m[3 + 2] = b[2]
    BY <1>3, <1>4, <1>11 DEF Laid
  <2> QED
    BY <1>4, <2>1
<1>14. \A i \in 1 .. Len(v) : m[5 + i] = v[i]
  BY <1>6, <1>10 DEF Laid
<1>15. m[Len(v) + 6] = comma /\ m[Len(v) + 7] = blank
  <2>1. m[Len(abv) + 1] = c[1] /\ m[Len(abv) + 2] = c[2]
    BY <1>5, <1>9 DEF Laid
  <2>2. Len(abv) + 1 = Len(v) + 6 /\ Len(abv) + 2 = Len(v) + 7
    BY <1>7
  <2> QED
    BY <1>5, <2>1, <2>2
<1>16. Len(m) = Len(v) + 7
  BY <1>7, <1>8
<1>17. NamedMember(m, name)
  BY <1>12, <1>13 DEF NamedMember, q, blank, colon
<1>18. Joined(name, v) = m
  BY <1>2 DEF m, abv, ab, a, b, c
<1> QED
  BY <1>8, <1>14, <1>15, <1>16, <1>17, <1>18 DEF T, comma, blank

(* A member whose value is a string.                                       *)
LEMMA StringMemberIs ==
  ASSUME NEW s \in {"demo", "order"}, NEW x \in Symbol
  PROVE  MemberText(s, x) \in Seq(Symbol) /\ StringMember(MemberText(s, x), Name[s], x)
<1> DEFINE v == Quoted(x)
           m == Joined(Name[s], v)
<1>1. Name[s] \in Symbol
  <2>1. s \in Settings
    BY DEF Settings
  <2> QED
    BY <2>1, NamesAreLetters, PrintedSymbols
<1>2. v \in Seq(Symbol) /\ Len(v) = 3 /\ v[1] = QUOTE /\ v[2] = x /\ v[3] = QUOTE
  BY PrintedSymbols, TupleTypes DEF Quoted
<1>3. MemberText(s, x) = m
  BY DEF MemberText, Joined
<1> HIDE DEF v
<1>4. /\ m \in Seq(Symbol) /\ Len(m) = Len(v) + 7 /\ NamedMember(m, Name[s])
      /\ \A i \in 1 .. Len(v) : m[5 + i] = v[i]
      /\ m[Len(v) + 6] = COMMA /\ m[Len(v) + 7] = BLANK
  BY <1>1, <1>2, Together
<1> HIDE DEF m
<1>5. /\ Len(m) = 10 /\ m[6] = QUOTE /\ m[7] = x /\ m[8] = QUOTE /\ m[9] = COMMA /\ m[10] = BLANK
  <2>1. m[5 + 1] = v[1] /\ m[5 + 2] = v[2] /\ m[5 + 3] = v[3]
    BY <1>2, <1>4
  <2> QED
    BY <1>2, <1>4, <2>1
<1> QED
  BY <1>3, <1>4, <1>5 DEF StringMember

(* A member whose value is one symbol.                                     *)
LEMMA PlainMemberIs ==
  ASSUME NEW s \in {"tcp", "dithering"}, NEW x, NEW symbol \in Symbol, Value(s, x) = <<symbol>>
  PROVE  MemberText(s, x) \in Seq(Symbol) /\ PlainMember(MemberText(s, x), Name[s], symbol)
<1> DEFINE v == Value(s, x)
           m == Joined(Name[s], v)
<1>1. Name[s] \in Symbol
  <2>1. s \in Settings
    BY DEF Settings
  <2> QED
    BY <2>1, NamesAreLetters, PrintedSymbols
<1>2. v \in Seq(Symbol) /\ Len(v) = 1 /\ v[1] = symbol
  BY TupleTypes
<1>3. MemberText(s, x) = m
  BY DEF MemberText, Joined
<1> HIDE DEF v
<1>4. /\ m \in Seq(Symbol) /\ Len(m) = Len(v) + 7 /\ NamedMember(m, Name[s])
      /\ \A i \in 1 .. Len(v) : m[5 + i] = v[i]
      /\ m[Len(v) + 6] = COMMA /\ m[Len(v) + 7] = BLANK
  BY <1>1, <1>2, Together
<1> HIDE DEF m
<1>5. Len(m) = 8 /\ m[6] = symbol /\ m[7] = COMMA /\ m[8] = BLANK
  <2>1. m[5 + 1] = v[1]
    BY <1>2, <1>4
  <2> QED
    BY <1>2, <1>4, <2>1
<1> QED
  BY <1>3, <1>4, <1>5 DEF PlainMember

(* The power, which has decimals.                                          *)
LEMMA PowerMemberIs ==
  ASSUME NEW x, ToString(x) \in Digit
  PROVE  /\ MemberText("power", x) \in Seq(Symbol)
         /\ PowerMember(MemberText("power", x), Name["power"], ToString(x))
<1> DEFINE v == Value("power", x)
           symbol == ToString(x)
           point == "."
           zero == "0"
           m == Joined(Name["power"], v)
<1>1. Name["power"] \in Symbol
  BY NamesAreLetters, PrintedSymbols DEF Settings
<1>2. v \in Seq(Symbol) /\ Len(v) = 3 /\ v[1] = symbol /\ v[2] = point /\ v[3] = zero
  <2>1. v = <<symbol, point, zero>>
    BY ValueTexts
  <2>2. symbol \in Symbol /\ point \in Symbol /\ zero \in Symbol
    BY PrintedSymbols, NumbersAreDigits
  <2> HIDE DEF v, symbol, point, zero
  <2> QED
    BY <2>1, <2>2, TupleTypes
<1>3. MemberText("power", x) = m
  BY DEF MemberText, Joined
<1> HIDE DEF v
<1>4. /\ m \in Seq(Symbol) /\ Len(m) = Len(v) + 7 /\ NamedMember(m, Name["power"])
      /\ \A i \in 1 .. Len(v) : m[5 + i] = v[i]
      /\ m[Len(v) + 6] = COMMA /\ m[Len(v) + 7] = BLANK
  BY <1>1, <1>2, Together
<1> HIDE DEF m, symbol, point, zero
<1>5. /\ Len(m) = 10 /\ m[6] = symbol /\ m[7] = point /\ m[8] = zero
      /\ m[9] = COMMA /\ m[10] = BLANK
  <2>1. m[5 + 1] = v[1] /\ m[5 + 2] = v[2] /\ m[5 + 3] = v[3]
    BY <1>2, <1>4
  <2> QED
    BY <1>2, <1>4, <2>1
<1> QED
  BY <1>3, <1>4, <1>5 DEF PowerMember, symbol, point, zero

(* The pieces of what is printed, where they are.                          *)
PiecesLaid(s, settings) ==
  /\ s \in Seq(Symbol) /\ Len(s) = 64
  /\ Laid(s, 0, <<LBRACE, BLANK>>)
  /\ Laid(s, 2, MemberText("demo", settings["demo"]))
  /\ Laid(s, 12, MemberText("order", settings["order"]))
  /\ Laid(s, 22, MemberText("tcp", settings["tcp"]))
  /\ Laid(s, 30, MemberText("dithering", settings["dithering"]))
  /\ Laid(s, 38, MemberText("power", settings["power"]))
  /\ Laid(s, 48, Quoted("whitePoint")) /\ Laid(s, 51, <<":", BLANK, LBRACE>>)
  /\ Laid(s, 54, Quoted("red")) /\ Laid(s, 57, <<":", BLANK, "1", RBRACE>>)
  /\ Laid(s, 61, <<BLANK, RBRACE, BLANK>>)

(* Eleven pieces, one after the other.                                     *)
Sized(m, T, n) == m \in Seq(T) /\ Len(m) = n
InTurn(T, m0, m1, m2, m3, m4, m5, m6, m7, m8, m9, m10) ==
  LET s == m0 \o m1 \o m2 \o m3 \o m4 \o m5 \o m6 \o m7 \o m8 \o m9 \o m10
  IN  /\ s \in Seq(T) /\ Len(s) = 64
      /\ Laid(s, 0, m0) /\ Laid(s, 2, m1) /\ Laid(s, 12, m2) /\ Laid(s, 22, m3)
      /\ Laid(s, 30, m4) /\ Laid(s, 38, m5) /\ Laid(s, 48, m6) /\ Laid(s, 51, m7)
      /\ Laid(s, 54, m8) /\ Laid(s, 57, m9) /\ Laid(s, 61, m10)

(* Where each of eleven pieces is.                                         *)
LEMMA PiecesInTurn ==
  ASSUME NEW T, NEW m0, NEW m1, NEW m2, NEW m3, NEW m4, NEW m5, NEW m6, NEW m7, NEW m8, NEW m9,
         NEW m10,
         Sized(m0, T, 2), Sized(m1, T, 10), Sized(m2, T, 10), Sized(m3, T, 8), Sized(m4, T, 8),
         Sized(m5, T, 10), Sized(m6, T, 3), Sized(m7, T, 3), Sized(m8, T, 3), Sized(m9, T, 4),
         Sized(m10, T, 3)
  PROVE  InTurn(T, m0, m1, m2, m3, m4, m5, m6, m7, m8, m9, m10)
<1> DEFINE a1 == m0 \o m1
           a2 == a1 \o m2
           a3 == a2 \o m3
           a4 == a3 \o m4
           a5 == a4 \o m5
           a6 == a5 \o m6
           a7 == a6 \o m7
           a8 == a7 \o m8
           a9 == a8 \o m9
           s == a9 \o m10
<1>1. /\ m0 \in Seq(T) /\ m1 \in Seq(T) /\ m2 \in Seq(T) /\ m3 \in Seq(T) /\ m4 \in Seq(T)
      /\ m5 \in Seq(T) /\ m6 \in Seq(T) /\ m7 \in Seq(T) /\ m8 \in Seq(T) /\ m9 \in Seq(T)
      /\ m10 \in Seq(T)
      /\ Len(m0) = 2 /\ Len(m1) = 10 /\ Len(m2) = 10 /\ Len(m3) = 8 /\ Len(m4) = 8
      /\ Len(m5) = 10 /\ Len(m6) = 3 /\ Len(m7) = 3 /\ Len(m8) = 3 /\ Len(m9) = 4 /\ Len(m10) = 3
  BY DEF Sized
<1>2. a1 \in Seq(T) /\ Len(a1) = 12
  <2>0. m0 \in Seq(T) /\ m1 \in Seq(T)
    BY <1>1
  <2>1. m0 \o m1 \in Seq(T) /\ Len(m0 \o m1) = Len(m0) + Len(m1)
    BY <2>0, Concat
  <2> QED
    BY <1>1, <2>1
<1> HIDE DEF a1
<1>3. a2 \in Seq(T) /\ Len(a2) = 22
  <2>0. a1 \in Seq(T) /\ m2 \in Seq(T)
    BY <1>1, <1>2
  <2>1. a1 \o m2 \in Seq(T) /\ Len(a1 \o m2) = Len(a1) + Len(m2)
    BY <2>0, Concat
  <2> QED
    BY <1>1, <1>2, <2>1
<1> HIDE DEF a2
<1>4. a3 \in Seq(T) /\ Len(a3) = 30
  <2>0. a2 \in Seq(T) /\ m3 \in Seq(T)
    BY <1>1, <1>3
  <2>1. a2 \o m3 \in Seq(T) /\ Len(a2 \o m3) = Len(a2) + Len(m3)
    BY <2>0, Concat
  <2> QED
    BY <1>1, <1>3, <2>1
<1> HIDE DEF a3
<1>5. a4 \in Seq(T) /\ Len(a4) = 38
  <2>0. a3 \in Seq(T) /\ m4 \in Seq(T)
    BY <1>1, <1>4
  <2>1. a3 \o m4 \in Seq(T) /\ Len(a3 \o m4) = Len(a3) + Len(m4)
    BY <2>0, Concat
  <2> QED
    BY <1>1, <1>4, <2>1
<1> HIDE DEF a4
<1>6. a5 \in Seq(T) /\ Len(a5) = 48
  <2>0. a4 \in Seq(T) /\ m5 \in Seq(T)
    BY <1>1, <1>5
  <2>1. a4 \o m5 \in Seq(T) /\ Len(a4 \o m5) = Len(a4) + Len(m5)
    BY <2>0, Concat
  <2> QED
    BY <1>1, <1>5, <2>1
<1> HIDE DEF a5
<1>7. a6 \in Seq(T) /\ Len(a6) = 51
  <2>0. a5 \in Seq(T) /\ m6 \in Seq(T)
    BY <1>1, <1>6
  <2>1. a5 \o m6 \in Seq(T) /\ Len(a5 \o m6) = Len(a5) + Len(m6)
    BY <2>0, Concat
  <2> QED
    BY <1>1, <1>6, <2>1
<1> HIDE DEF a6
<1>8. a7 \in Seq(T) /\ Len(a7) = 54
  <2>0. a6 \in Seq(T) /\ m7 \in Seq(T)
    BY <1>1, <1>7
  <2>1. a6 \o m7 \in Seq(T) /\ Len(a6 \o m7) = Len(a6) + Len(m7)
    BY <2>0, Concat
  <2> QED
    BY <1>1, <1>7, <2>1
<1> HIDE DEF a7
<1>9. a8 \in Seq(T) /\ Len(a8) = 57
  <2>0. a7 \in Seq(T) /\ m8 \in Seq(T)
    BY <1>1, <1>8
  <2>1. a7 \o m8 \in Seq(T) /\ Len(a7 \o m8) = Len(a7) + Len(m8)
    BY <2>0, Concat
  <2> QED
    BY <1>1, <1>8, <2>1
<1> HIDE DEF a8
<1>10. a9 \in Seq(T) /\ Len(a9) = 61
  <2>0. a8 \in Seq(T) /\ m9 \in Seq(T)
    BY <1>1, <1>9
  <2>1. a8 \o m9 \in Seq(T) /\ Len(a8 \o m9) = Len(a8) + Len(m9)
    BY <2>0, Concat
  <2> QED
    BY <1>1, <1>9, <2>1
<1> HIDE DEF a9
<1>11. s \in Seq(T) /\ Len(s) = 64
  <2>0. a9 \in Seq(T) /\ m10 \in Seq(T)
    BY <1>1, <1>10
  <2>1. a9 \o m10 \in Seq(T) /\ Len(a9 \o m10) = Len(a9) + Len(m10)
    BY <2>0, Concat
  <2> QED
    BY <1>1, <1>10, <2>1
<1> HIDE DEF s
<1>12. Prefix(s, s)
  BY <1>11 DEF Prefix
<1>13. Laid(s, 61, m10) /\ Prefix(a9, s)
  <2>1. Laid(s, Len(a9), m10) /\ Prefix(a9, s)
    BY <1>1, <1>10, <1>11, <1>12, PieceLaid DEF s
  <2> QED
    BY <1>1, <1>10, <2>1
<1>14. Laid(s, 57, m9) /\ Prefix(a8, s)
  <2>1. Laid(s, Len(a8), m9) /\ Prefix(a8, s)
    BY <1>1, <1>9, <1>11, <1>13, PieceLaid DEF a9
  <2> QED
    BY <1>1, <1>9, <2>1
<1>15. Laid(s, 54, m8) /\ Prefix(a7, s)
  <2>1. Laid(s, Len(a7), m8) /\ Prefix(a7, s)
    BY <1>1, <1>8, <1>11, <1>14, PieceLaid DEF a8
  <2> QED
    BY <1>1, <1>8, <2>1
<1>16. Laid(s, 51, m7) /\ Prefix(a6, s)
  <2>1. Laid(s, Len(a6), m7) /\ Prefix(a6, s)
    BY <1>1, <1>7, <1>11, <1>15, PieceLaid DEF a7
  <2> QED
    BY <1>1, <1>7, <2>1
<1>17. Laid(s, 48, m6) /\ Prefix(a5, s)
  <2>1. Laid(s, Len(a5), m6) /\ Prefix(a5, s)
    BY <1>1, <1>6, <1>11, <1>16, PieceLaid DEF a6
  <2> QED
    BY <1>1, <1>6, <2>1
<1>18. Laid(s, 38, m5) /\ Prefix(a4, s)
  <2>1. Laid(s, Len(a4), m5) /\ Prefix(a4, s)
    BY <1>1, <1>5, <1>11, <1>17, PieceLaid DEF a5
  <2> QED
    BY <1>1, <1>5, <2>1
<1>19. Laid(s, 30, m4) /\ Prefix(a3, s)
  <2>1. Laid(s, Len(a3), m4) /\ Prefix(a3, s)
    BY <1>1, <1>4, <1>11, <1>18, PieceLaid DEF a4
  <2> QED
    BY <1>1, <1>4, <2>1
<1>20. Laid(s, 22, m3) /\ Prefix(a2, s)
  <2>1. Laid(s, Len(a2), m3) /\ Prefix(a2, s)
    BY <1>1, <1>3, <1>11, <1>19, PieceLaid DEF a3
  <2> QED
    BY <1>1, <1>3, <2>1
<1>21. Laid(s, 12, m2) /\ Prefix(a1, s)
  <2>1. Laid(s, Len(a1), m2) /\ Prefix(a1, s)
    BY <1>1, <1>2, <1>11, <1>20, PieceLaid DEF a2
  <2> QED
    BY <1>1, <1>2, <2>1
<1>22. Laid(s, 2, m1) /\ Prefix(m0, s)
  <2>1. Laid(s, Len(m0), m1) /\ Prefix(m0, s)
    BY <1>1, <1>11, <1>21, PieceLaid DEF a1
  <2> QED
    BY <1>1, <2>1
<1>23. Laid(s, 0, m0)
  BY <1>1, <1>22 DEF Laid, Prefix
<1> QED
  BY <1>11, <1>13, <1>14, <1>15, <1>16, <1>17, <1>18, <1>19, <1>20, <1>21, <1>22, <1>23
  DEF InTurn, s, a9, a8, a7, a6, a5, a4, a3, a2, a1

(* The settings as they are in the file that was saved.                    *)
Printable(settings) ==
  /\ DOMAIN settings = Saved
  /\ settings["demo"] \in Letter /\ settings["order"] \in Letter
  /\ settings["dithering"] \in {"true", "false"}
  /\ ToString(settings["tcp"]) \in Digit /\ ToString(settings["power"]) \in Digit

(* The pieces of what is printed are where they are expected.              *)
LEMMA PrintedPieces ==
  ASSUME NEW settings, Printable(settings)
  PROVE  PiecesLaid(Printed(settings), settings)
<1> DEFINE T == Symbol
           m0 == <<LBRACE, BLANK>>
           m1 == MemberText("demo", settings["demo"])
           m2 == MemberText("order", settings["order"])
           m3 == MemberText("tcp", settings["tcp"])
           m4 == MemberText("dithering", settings["dithering"])
           m5 == MemberText("power", settings["power"])
           m6 == Quoted("whitePoint")
           m7 == <<":", BLANK, LBRACE>>
           m8 == Quoted("red")
           m9 == <<":", BLANK, "1", RBRACE>>
           m10 == <<BLANK, RBRACE, BLANK>>
<1>1. m1 \in Seq(T) /\ Len(m1) = 10
  <2>1. settings["demo"] \in Symbol
    BY PrintedSymbols DEF Printable
  <2> QED
    BY <2>1, StringMemberIs DEF StringMember
<1>2. m2 \in Seq(T) /\ Len(m2) = 10
  <2>1. settings["order"] \in Symbol
    BY PrintedSymbols DEF Printable
  <2> QED
    BY <2>1, StringMemberIs DEF StringMember
<1>3. m3 \in Seq(T) /\ Len(m3) = 8
  <2>1. ToString(settings["tcp"]) \in Symbol
    BY PrintedSymbols DEF Printable
  <2> QED
    BY <2>1, ValueTexts, PlainMemberIs DEF PlainMember
<1>4. m4 \in Seq(T) /\ Len(m4) = 8
  <2>1. settings["dithering"] \in Symbol
    BY PrintedSymbols DEF Printable
  <2> QED
    BY <2>1, ValueTexts, PlainMemberIs DEF PlainMember
<1>5. m5 \in Seq(T) /\ Len(m5) = 10
  <2>1. ToString(settings["power"]) \in Digit
    BY DEF Printable
  <2> QED
    BY <2>1, PowerMemberIs DEF PowerMember
<1>6. /\ m6 \in Seq(T) /\ Len(m6) = 3 /\ m8 \in Seq(T) /\ Len(m8) = 3
  <2> DEFINE white == "whitePoint"
             red == "red"
  <2>1. white \in T /\ red \in T /\ QUOTE \in T
    BY NamesAreLetters, PrintedSymbols
  <2> HIDE DEF white, red, T
  <2>2. /\ <<QUOTE, white, QUOTE>> \in Seq(T) /\ Len(<<QUOTE, white, QUOTE>>) = 3
        /\ <<QUOTE, red, QUOTE>> \in Seq(T) /\ Len(<<QUOTE, red, QUOTE>>) = 3
    BY <2>1, TupleTypes
  <2> QED
    BY <2>2 DEF Quoted, white, red
<1>7. /\ m0 \in Seq(T) /\ Len(m0) = 2 /\ m7 \in Seq(T) /\ Len(m7) = 3
      /\ m9 \in Seq(T) /\ Len(m9) = 4 /\ m10 \in Seq(T) /\ Len(m10) = 3
  <2> DEFINE colon == ":"
             one == "1"
  <2>1. /\ colon \in T /\ one \in T /\ BLANK \in T /\ LBRACE \in T /\ RBRACE \in T
    BY NumbersAreDigits, PrintedSymbols
  <2> HIDE DEF colon, one, T
  <2>2. /\ <<LBRACE, BLANK>> \in Seq(T) /\ Len(<<LBRACE, BLANK>>) = 2
        /\ <<colon, BLANK, LBRACE>> \in Seq(T) /\ Len(<<colon, BLANK, LBRACE>>) = 3
        /\ <<colon, BLANK, one, RBRACE>> \in Seq(T) /\ Len(<<colon, BLANK, one, RBRACE>>) = 4
        /\ <<BLANK, RBRACE, BLANK>> \in Seq(T) /\ Len(<<BLANK, RBRACE, BLANK>>) = 3
    BY <2>1, TupleTypes
  <2> QED
    BY <2>2 DEF colon, one
<1>8. Printed(settings) = m0 \o m1 \o m2 \o m3 \o m4 \o m5 \o m6 \o m7 \o m8 \o m9 \o m10
  <2>1. /\ "demo" \in DOMAIN settings /\ "order" \in DOMAIN settings /\ "tcp" \in DOMAIN settings
        /\ "dithering" \in DOMAIN settings /\ "power" \in DOMAIN settings
    BY DEF Printable, Saved, Settings
  <2> DEFINE Of(s) == IF s \in DOMAIN settings THEN MemberText(s, settings[s]) ELSE <<>>
  <2>2. /\ Of("demo") = m1 /\ Of("order") = m2 /\ Of("tcp") = m3
        /\ Of("dithering") = m4 /\ Of("power") = m5
    BY <2>1
  <2> HIDE DEF m1, m2, m3, m4, m5, m6, m8
  <2>3. Printed(settings)
          = m0 \o Of("demo") \o Of("order") \o Of("tcp") \o Of("dithering") \o Of("power")
              \o m6 \o m7 \o m8 \o m9 \o m10
    BY DEF Printed, m6, m8
  <2> HIDE DEF Of, m0, m7, m9, m10
  <2> QED
    BY <2>2, <2>3
<1> HIDE DEF T, m0, m1, m2, m3, m4, m5, m6, m7, m8, m9, m10
<1>9. InTurn(T, m0, m1, m2, m3, m4, m5, m6, m7, m8, m9, m10)
  <2>1. /\ Sized(m0, T, 2) /\ Sized(m1, T, 10) /\ Sized(m2, T, 10) /\ Sized(m3, T, 8)
        /\ Sized(m4, T, 8) /\ Sized(m5, T, 10) /\ Sized(m6, T, 3) /\ Sized(m7, T, 3)
        /\ Sized(m8, T, 3) /\ Sized(m9, T, 4) /\ Sized(m10, T, 3)
    BY <1>1, <1>2, <1>3, <1>4, <1>5, <1>6, <1>7 DEF Sized
  <2> QED
    BY <2>1, PiecesInTurn, ZenonT(30)
<1> QED
  <2> DEFINE s == m0 \o m1 \o m2 \o m3 \o m4 \o m5 \o m6 \o m7 \o m8 \o m9 \o m10
  <2>1. /\ s \in Seq(T) /\ Len(s) = 64
        /\ Laid(s, 0, m0) /\ Laid(s, 2, m1) /\ Laid(s, 12, m2) /\ Laid(s, 22, m3)
        /\ Laid(s, 30, m4) /\ Laid(s, 38, m5) /\ Laid(s, 48, m6) /\ Laid(s, 51, m7)
        /\ Laid(s, 54, m8) /\ Laid(s, 57, m9) /\ Laid(s, 61, m10)
    BY <1>9 DEF InTurn
  <2>2. Printed(settings) = s
    BY <1>8
  <2> HIDE DEF s
  <2> QED
    BY <2>1, <2>2 DEF PiecesLaid, T, m0, m1, m2, m3, m4, m5, m6, m7, m8, m9, m10

(* A piece, symbol by symbol.                                              *)
LEMMA NamedLaid ==
  ASSUME NEW s, NEW n \in Nat, NEW m, Laid(s, n, m), Len(m) \in Nat, Len(m) >= 5,
         NEW name, NamedMember(m, name)
  PROVE  /\ s[n + 1] = QUOTE /\ s[n + 2] = name /\ s[n + 3] = QUOTE
         /\ s[n + 4] = ":" /\ s[n + 5] = BLANK
<1>1. /\ 1 \in 1 .. Len(m) /\ 2 \in 1 .. Len(m) /\ 3 \in 1 .. Len(m) /\ 4 \in 1 .. Len(m)
      /\ 5 \in 1 .. Len(m)
  OBVIOUS
<1>2. /\ s[n + 1] = m[1] /\ s[n + 2] = m[2] /\ s[n + 3] = m[3] /\ s[n + 4] = m[4]
      /\ s[n + 5] = m[5]
  BY <1>1 DEF Laid
<1> QED
  BY <1>2 DEF NamedMember

(* Five of the pieces are members.                                         *)
LEMMA MembersLaid ==
  ASSUME NEW settings, Printable(settings), NEW s, PiecesLaid(s, settings)
  PROVE  /\ StringMember(MemberText("demo", settings["demo"]), Name["demo"], settings["demo"])
         /\ StringMember(MemberText("order", settings["order"]), Name["order"], settings["order"])
         /\ PlainMember(MemberText("tcp", settings["tcp"]), Name["tcp"], ToString(settings["tcp"]))
         /\ PlainMember(MemberText("dithering", settings["dithering"]), Name["dithering"],
                        settings["dithering"])
         /\ PowerMember(MemberText("power", settings["power"]), Name["power"],
                        ToString(settings["power"]))
<1>1. /\ settings["demo"] \in Symbol /\ settings["order"] \in Symbol
      /\ ToString(settings["tcp"]) \in Symbol /\ settings["dithering"] \in Symbol
      /\ ToString(settings["power"]) \in Digit
  BY PrintedSymbols DEF Printable
<1>2. /\ StringMember(MemberText("demo", settings["demo"]), Name["demo"], settings["demo"])
      /\ StringMember(MemberText("order", settings["order"]), Name["order"], settings["order"])
  BY <1>1, StringMemberIs
<1>3. /\ PlainMember(MemberText("tcp", settings["tcp"]), Name["tcp"], ToString(settings["tcp"]))
      /\ PlainMember(MemberText("dithering", settings["dithering"]), Name["dithering"],
                     settings["dithering"])
  BY <1>1, ValueTexts, PlainMemberIs
<1>4. PowerMember(MemberText("power", settings["power"]), Name["power"],
                  ToString(settings["power"]))
  BY <1>1, PowerMemberIs
<1> QED
  BY <1>2, <1>3, <1>4

(* What is printed, symbol by symbol, where the settings are.              *)
KeysAre(s) ==
  /\ s[4] = Name["demo"] /\ s[14] = Name["order"] /\ s[24] = Name["tcp"]
  /\ s[32] = Name["dithering"] /\ s[40] = Name["power"] /\ s[50] = "whitePoint" /\ s[56] = "red"
ValuesAre(s, settings) ==
  /\ s[9] = settings["demo"] /\ s[19] = settings["order"] /\ s[28] = ToString(settings["tcp"])
  /\ s[36] = settings["dithering"]
  /\ s[44] = ToString(settings["power"]) /\ s[45] = "." /\ s[46] = "0" /\ s[60] = "1"

StringLaid(s, n, name, x) ==
  /\ s[n + 1] = QUOTE /\ s[n + 2] = name /\ s[n + 3] = QUOTE /\ s[n + 4] = ":" /\ s[n + 5] = BLANK
  /\ s[n + 6] = QUOTE /\ s[n + 7] = x /\ s[n + 8] = QUOTE /\ s[n + 9] = COMMA /\ s[n + 10] = BLANK
PlainLaid(s, n, name, x) ==
  /\ s[n + 1] = QUOTE /\ s[n + 2] = name /\ s[n + 3] = QUOTE /\ s[n + 4] = ":" /\ s[n + 5] = BLANK
  /\ s[n + 6] = x /\ s[n + 7] = COMMA /\ s[n + 8] = BLANK
PowerLaid(s, n, name, x) ==
  /\ s[n + 1] = QUOTE /\ s[n + 2] = name /\ s[n + 3] = QUOTE /\ s[n + 4] = ":" /\ s[n + 5] = BLANK
  /\ s[n + 6] = x /\ s[n + 7] = "." /\ s[n + 8] = "0" /\ s[n + 9] = COMMA /\ s[n + 10] = BLANK

(* A member whose value is a string, symbol by symbol.                     *)
LEMMA StringLies ==
  ASSUME NEW s, NEW n \in Nat, NEW m, Laid(s, n, m), NEW name, NEW x, StringMember(m, name, x)
  PROVE  StringLaid(s, n, name, x)
<1>1. Len(m) = 10 /\ NamedMember(m, name)
  BY DEF StringMember
<1>2. /\ s[n + 1] = QUOTE /\ s[n + 2] = name /\ s[n + 3] = QUOTE
      /\ s[n + 4] = ":" /\ s[n + 5] = BLANK
  <2>1. Len(m) \in Nat /\ Len(m) >= 5 /\ NamedMember(m, name)
    BY <1>1
  <2> QED
    BY <2>1, NamedLaid, ZenonT(30)
<1>3. /\ 6 \in 1 .. Len(m) /\ 7 \in 1 .. Len(m) /\ 8 \in 1 .. Len(m) /\ 9 \in 1 .. Len(m)
      /\ 10 \in 1 .. Len(m)
  BY <1>1
<1>4. /\ s[n + 6] = m[6] /\ s[n + 7] = m[7] /\ s[n + 8] = m[8] /\ s[n + 9] = m[9]
      /\ s[n + 10] = m[10]
  BY <1>3 DEF Laid
<1> QED
  BY <1>2, <1>4 DEF StringMember, StringLaid

(* A member whose value is one symbol.                                     *)
LEMMA PlainLies ==
  ASSUME NEW s, NEW n \in Nat, NEW m, Laid(s, n, m), NEW name, NEW x, PlainMember(m, name, x)
  PROVE  PlainLaid(s, n, name, x)
<1>1. Len(m) = 8 /\ NamedMember(m, name)
  BY DEF PlainMember
<1>2. /\ s[n + 1] = QUOTE /\ s[n + 2] = name /\ s[n + 3] = QUOTE
      /\ s[n + 4] = ":" /\ s[n + 5] = BLANK
  <2>1. Len(m) \in Nat /\ Len(m) >= 5 /\ NamedMember(m, name)
    BY <1>1
  <2> QED
    BY <2>1, NamedLaid, ZenonT(30)
<1>3. 6 \in 1 .. Len(m) /\ 7 \in 1 .. Len(m) /\ 8 \in 1 .. Len(m)
  BY <1>1
<1>4. s[n + 6] = m[6] /\ s[n + 7] = m[7] /\ s[n + 8] = m[8]
  BY <1>3 DEF Laid
<1> QED
  BY <1>2, <1>4 DEF PlainMember, PlainLaid

(* The power.                                                              *)
LEMMA PowerLies ==
  ASSUME NEW s, NEW n \in Nat, NEW m, Laid(s, n, m), NEW name, NEW x, PowerMember(m, name, x)
  PROVE  PowerLaid(s, n, name, x)
<1>1. Len(m) = 10 /\ NamedMember(m, name)
  BY DEF PowerMember
<1>2. /\ s[n + 1] = QUOTE /\ s[n + 2] = name /\ s[n + 3] = QUOTE
      /\ s[n + 4] = ":" /\ s[n + 5] = BLANK
  <2>1. Len(m) \in Nat /\ Len(m) >= 5 /\ NamedMember(m, name)
    BY <1>1
  <2> QED
    BY <2>1, NamedLaid, ZenonT(30)
<1>3. /\ 6 \in 1 .. Len(m) /\ 7 \in 1 .. Len(m) /\ 8 \in 1 .. Len(m) /\ 9 \in 1 .. Len(m)
      /\ 10 \in 1 .. Len(m)
  BY <1>1
<1>4. /\ s[n + 6] = m[6] /\ s[n + 7] = m[7] /\ s[n + 8] = m[8] /\ s[n + 9] = m[9]
      /\ s[n + 10] = m[10]
  BY <1>3 DEF Laid
<1> QED
  BY <1>2, <1>4 DEF PowerMember, PowerLaid

(* The five members that are printed.                                      *)
LEMMA FiveLaid ==
  ASSUME NEW settings, Printable(settings), NEW s, PiecesLaid(s, settings)
  PROVE  /\ StringLaid(s, 2, Name["demo"], settings["demo"])
         /\ StringLaid(s, 12, Name["order"], settings["order"])
         /\ PlainLaid(s, 22, Name["tcp"], ToString(settings["tcp"]))
         /\ PlainLaid(s, 30, Name["dithering"], settings["dithering"])
         /\ PowerLaid(s, 38, Name["power"], ToString(settings["power"]))
<1> DEFINE m1 == MemberText("demo", settings["demo"])
           m2 == MemberText("order", settings["order"])
           m3 == MemberText("tcp", settings["tcp"])
           m4 == MemberText("dithering", settings["dithering"])
           m5 == MemberText("power", settings["power"])
<1>1. /\ Laid(s, 2, m1) /\ Laid(s, 12, m2) /\ Laid(s, 22, m3) /\ Laid(s, 30, m4) /\ Laid(s, 38, m5)
  BY DEF PiecesLaid
<1>2. /\ StringMember(m1, Name["demo"], settings["demo"])
      /\ StringMember(m2, Name["order"], settings["order"])
      /\ PlainMember(m3, Name["tcp"], ToString(settings["tcp"]))
      /\ PlainMember(m4, Name["dithering"], settings["dithering"])
      /\ PowerMember(m5, Name["power"], ToString(settings["power"]))
  BY MembersLaid
<1> HIDE DEF m1, m2, m3, m4, m5
<1>3. 2 \in Nat /\ 12 \in Nat /\ 22 \in Nat /\ 30 \in Nat /\ 38 \in Nat
  OBVIOUS
<1> QED
  BY <1>1, <1>2, <1>3, StringLies, PlainLies, PowerLies

(* The white point, and the braces.                                        *)
LEMMA RestLaid ==
  ASSUME NEW settings, NEW s, PiecesLaid(s, settings)
  PROVE  /\ s[1] = LBRACE /\ s[2] = BLANK
         /\ s[49] = QUOTE /\ s[50] = "whitePoint" /\ s[51] = QUOTE
         /\ s[52] = ":" /\ s[53] = BLANK /\ s[54] = LBRACE
         /\ s[55] = QUOTE /\ s[56] = "red" /\ s[57] = QUOTE
         /\ s[58] = ":" /\ s[59] = BLANK /\ s[60] = "1" /\ s[61] = RBRACE
         /\ s[62] = BLANK /\ s[63] = RBRACE /\ s[64] = BLANK
<1> DEFINE m0 == <<LBRACE, BLANK>>
           m6 == Quoted("whitePoint")
           m7 == <<":", BLANK, LBRACE>>
           m8 == Quoted("red")
           m9 == <<":", BLANK, "1", RBRACE>>
           m10 == <<BLANK, RBRACE, BLANK>>
<1>1. /\ Laid(s, 0, m0) /\ Laid(s, 48, m6) /\ Laid(s, 51, m7) /\ Laid(s, 54, m8)
      /\ Laid(s, 57, m9) /\ Laid(s, 61, m10)
  BY DEF PiecesLaid
<1>2. /\ Len(m0) = 2 /\ m0[1] = LBRACE /\ m0[2] = BLANK
      /\ Len(m10) = 3 /\ m10[1] = BLANK /\ m10[2] = RBRACE /\ m10[3] = BLANK
  OBVIOUS
<1>3. /\ Len(m6) = 3 /\ m6[1] = QUOTE /\ m6[2] = "whitePoint" /\ m6[3] = QUOTE
      /\ Len(m8) = 3 /\ m8[1] = QUOTE /\ m8[2] = "red" /\ m8[3] = QUOTE
  BY DEF Quoted
<1>4. /\ Len(m7) = 3 /\ m7[1] = ":" /\ m7[2] = BLANK /\ m7[3] = LBRACE
      /\ Len(m9) = 4 /\ m9[1] = ":" /\ m9[2] = BLANK /\ m9[3] = "1" /\ m9[4] = RBRACE
  OBVIOUS
<1> HIDE DEF m0, m6, m7, m8, m9, m10
<1>5. s[0 + 1] = m0[1] /\ s[0 + 2] = m0[2]
  BY <1>1, <1>2 DEF Laid
<1>6. s[48 + 1] = m6[1] /\ s[48 + 2] = m6[2] /\ s[48 + 3] = m6[3]
  BY <1>1, <1>3 DEF Laid
<1>7. s[51 + 1] = m7[1] /\ s[51 + 2] = m7[2] /\ s[51 + 3] = m7[3]
  BY <1>1, <1>4 DEF Laid
<1>8. s[54 + 1] = m8[1] /\ s[54 + 2] = m8[2] /\ s[54 + 3] = m8[3]
  BY <1>1, <1>3 DEF Laid
<1>9. s[57 + 1] = m9[1] /\ s[57 + 2] = m9[2] /\ s[57 + 3] = m9[3] /\ s[57 + 4] = m9[4]
  BY <1>1, <1>4 DEF Laid
<1>10. s[61 + 1] = m10[1] /\ s[61 + 2] = m10[2] /\ s[61 + 3] = m10[3]
  BY <1>1, <1>2 DEF Laid
<1>11. s[1] = LBRACE /\ s[2] = BLANK
  BY <1>2, <1>5
<1>12. s[49] = QUOTE /\ s[50] = "whitePoint" /\ s[51] = QUOTE
  BY <1>3, <1>6
<1>13. s[52] = ":" /\ s[53] = BLANK /\ s[54] = LBRACE
  BY <1>4, <1>7
<1>14. s[55] = QUOTE /\ s[56] = "red" /\ s[57] = QUOTE
  BY <1>3, <1>8
<1>15. s[58] = ":" /\ s[59] = BLANK /\ s[60] = "1" /\ s[61] = RBRACE
  BY <1>4, <1>9
<1>16. s[62] = BLANK /\ s[63] = RBRACE /\ s[64] = BLANK
  BY <1>2, <1>10
<1> QED
  BY <1>11, <1>12, <1>13, <1>14, <1>15, <1>16

(* A member that lies in the text is one that is read.                     *)
LEMMA StringReads ==
  ASSUME NEW s, Len(s) = 64, NEW n \in 0 .. 48, NEW name \in Letter, NEW x \in Letter,
         StringLaid(s, n, name, x)
  PROVE  MemberHere(s, n + 1, Plain("string", n + 7, 1), n + 9)
<1> DEFINE k == n + 1
           v == n + 6
           e == n + 9
           token == Plain("string", n + 7, 1)
<1>1. k + 1 = n + 2 /\ k + 2 = n + 3 /\ k + 3 = n + 4 /\ k + 4 = n + 5 /\ k + 5 = v
      /\ v + 1 = n + 7 /\ v + 2 = n + 8 /\ v + 3 = e /\ e + 1 = n + 10 /\ v + 2 < 64 /\ v <= 64
  OBVIOUS
<1>2. /\ s[k] = QUOTE /\ s[k + 1] = name /\ s[k + 2] = QUOTE /\ s[k + 3] = ":" /\ s[k + 4] = BLANK
      /\ s[v] = QUOTE /\ s[v + 1] = x /\ s[v + 2] = QUOTE /\ s[e] = COMMA /\ s[e + 1] = BLANK
  BY <1>1 DEF StringLaid
<1>3. token = Plain("string", v + 1, 1)
  BY <1>1
<1> HIDE DEF k, v, e, token
<1>4. KeyHere(s, k)
  BY <1>1, <1>2, SymbolsApart DEF KeyHere
<1>5. ValueHere(s, k + 5, token, e)
  BY <1>1, <1>2, <1>3 DEF ValueHere
<1>6. MemberHere(s, k, token, e)
  BY <1>2, <1>4, <1>5 DEF MemberHere
<1> QED
  BY <1>6 DEF k, e, token

(* So is a number,                                                         *)
LEMMA NumberReads ==
  ASSUME NEW s, Len(s) = 64, NEW n \in 0 .. 48, NEW name \in Letter, NEW x \in Digit,
         PlainLaid(s, n, name, x)
  PROVE  MemberHere(s, n + 1, Plain("number", n + 6, 1), n + 7)
<1> DEFINE k == n + 1
           v == n + 6
           e == n + 7
           token == Plain("number", n + 6, 1)
<1>1. k + 1 = n + 2 /\ k + 2 = n + 3 /\ k + 3 = n + 4 /\ k + 4 = n + 5 /\ k + 5 = v
      /\ v + 1 = e /\ e + 1 = n + 8 /\ v < 64 /\ v <= 64
  OBVIOUS
<1>2. /\ s[k] = QUOTE /\ s[k + 1] = name /\ s[k + 2] = QUOTE /\ s[k + 3] = ":" /\ s[k + 4] = BLANK
      /\ s[v] = x /\ s[e] = COMMA /\ s[e + 1] = BLANK
  BY <1>1 DEF PlainLaid
<1>3. token = Plain("number", v, 1)
  BY <1>1
<1> HIDE DEF k, v, e, token
<1>4. KeyHere(s, k)
  BY <1>1, <1>2, SymbolsApart DEF KeyHere
<1>5. ValueHere(s, k + 5, token, e)
  BY <1>1, <1>2, <1>3 DEF ValueHere
<1>6. MemberHere(s, k, token, e)
  BY <1>2, <1>4, <1>5 DEF MemberHere
<1> QED
  BY <1>6 DEF k, e, token

(* and true or false,                                                      *)
LEMMA TruthReads ==
  ASSUME NEW s, Len(s) = 64, NEW n \in 0 .. 48, NEW name \in Letter, NEW x \in {"true", "false"},
         PlainLaid(s, n, name, x)
  PROVE  MemberHere(s, n + 1, Plain(s[n + 6], n + 6, 1), n + 7)
<1> DEFINE k == n + 1
           v == n + 6
           e == n + 7
           token == Plain(s[n + 6], n + 6, 1)
<1>1. k + 1 = n + 2 /\ k + 2 = n + 3 /\ k + 3 = n + 4 /\ k + 4 = n + 5 /\ k + 5 = v
      /\ v + 1 = e /\ e + 1 = n + 8 /\ v < 64 /\ v <= 64
  OBVIOUS
<1>2. /\ s[k] = QUOTE /\ s[k + 1] = name /\ s[k + 2] = QUOTE /\ s[k + 3] = ":" /\ s[k + 4] = BLANK
      /\ s[v] = x /\ s[e] = COMMA /\ s[e + 1] = BLANK
  BY <1>1 DEF PlainLaid
<1>3. token = Plain(s[v], v, 1)
  BY <1>1
<1> HIDE DEF k, v, e, token
<1>4. KeyHere(s, k)
  BY <1>1, <1>2, SymbolsApart DEF KeyHere
<1>5. ValueHere(s, k + 5, token, e)
  BY <1>1, <1>2, <1>3 DEF ValueHere
<1>6. MemberHere(s, k, token, e)
  BY <1>2, <1>4, <1>5 DEF MemberHere
<1> QED
  BY <1>6 DEF k, e, token

(* and a number with a decimal.                                            *)
LEMMA PowerReads ==
  ASSUME NEW s, Len(s) = 64, NEW n \in 0 .. 48, NEW name \in Letter, NEW x \in Digit,
         PowerLaid(s, n, name, x)
  PROVE  MemberHere(s, n + 1, Plain("number", n + 6, 3), n + 9)
<1> DEFINE k == n + 1
           v == n + 6
           e == n + 9
           token == Plain("number", n + 6, 3)
<1>1. k + 1 = n + 2 /\ k + 2 = n + 3 /\ k + 3 = n + 4 /\ k + 4 = n + 5 /\ k + 5 = v
      /\ v + 1 = n + 7 /\ v + 2 = n + 8 /\ v + 3 = e /\ e + 1 = n + 10 /\ v + 2 < 64 /\ v <= 64
  OBVIOUS
<1>2. /\ s[k] = QUOTE /\ s[k + 1] = name /\ s[k + 2] = QUOTE /\ s[k + 3] = ":" /\ s[k + 4] = BLANK
      /\ s[v] = x /\ s[v + 1] = "." /\ s[v + 2] = "0" /\ s[e] = COMMA /\ s[e + 1] = BLANK
  BY <1>1 DEF PowerLaid
<1>3. token = Plain("number", v, 3)
  BY <1>1
<1> HIDE DEF k, v, e, token
<1>4. KeyHere(s, k)
  BY <1>1, <1>2, SymbolsApart DEF KeyHere
<1>5. ValueHere(s, k + 5, token, e)
  BY <1>1, <1>2, <1>3, NumbersAreDigits DEF ValueHere
<1>6. MemberHere(s, k, token, e)
  BY <1>2, <1>4, <1>5 DEF MemberHere
<1> QED
  BY <1>6 DEF k, e, token

(* What is printed has the layout that is read.                            *)
LEMMA LayoutOfPieces ==
  ASSUME NEW settings, Printable(settings), NEW s, PiecesLaid(s, settings)
  PROVE  Layout(s) /\ KeysAre(s) /\ ValuesAre(s, settings)
<1>1. Len(s) = 64 /\ s \in Seq(Symbol)
  BY DEF PiecesLaid
<1>2. /\ StringLaid(s, 2, Name["demo"], settings["demo"])
      /\ StringLaid(s, 12, Name["order"], settings["order"])
      /\ PlainLaid(s, 22, Name["tcp"], ToString(settings["tcp"]))
      /\ PlainLaid(s, 30, Name["dithering"], settings["dithering"])
      /\ PowerLaid(s, 38, Name["power"], ToString(settings["power"]))
  BY FiveLaid
<1>3. /\ s[1] = LBRACE /\ s[2] = BLANK
      /\ s[49] = QUOTE /\ s[50] = "whitePoint" /\ s[51] = QUOTE
      /\ s[52] = ":" /\ s[53] = BLANK /\ s[54] = LBRACE
      /\ s[55] = QUOTE /\ s[56] = "red" /\ s[57] = QUOTE
      /\ s[58] = ":" /\ s[59] = BLANK /\ s[60] = "1" /\ s[61] = RBRACE
      /\ s[62] = BLANK /\ s[63] = RBRACE /\ s[64] = BLANK
  BY RestLaid
<1>4. /\ Name["demo"] \in Letter /\ Name["order"] \in Letter /\ Name["tcp"] \in Letter
      /\ Name["dithering"] \in Letter /\ Name["power"] \in Letter
  BY NamesAreLetters DEF Settings
<1>5. /\ settings["demo"] \in Letter /\ settings["order"] \in Letter
      /\ settings["dithering"] \in {"true", "false"}
      /\ ToString(settings["tcp"]) \in Digit /\ ToString(settings["power"]) \in Digit
  BY DEF Printable
<1>6. KeysAre(s) /\ ValuesAre(s, settings)
  <2>1. s[4] = Name["demo"] /\ s[9] = settings["demo"]
    BY <1>2 DEF StringLaid
  <2>2. s[14] = Name["order"] /\ s[19] = settings["order"]
    BY <1>2 DEF StringLaid
  <2>3. s[24] = Name["tcp"] /\ s[28] = ToString(settings["tcp"])
    BY <1>2 DEF PlainLaid
  <2>4. s[32] = Name["dithering"] /\ s[36] = settings["dithering"]
    BY <1>2 DEF PlainLaid
  <2>5. /\ s[40] = Name["power"] /\ s[44] = ToString(settings["power"])
        /\ s[45] = "." /\ s[46] = "0"
    BY <1>2 DEF PowerLaid
  <2> QED
    BY <1>3, <2>1, <2>2, <2>3, <2>4, <2>5 DEF KeysAre, ValuesAre
<1>7. 2 \in 0 .. 48 /\ 12 \in 0 .. 48 /\ 22 \in 0 .. 48 /\ 30 \in 0 .. 48 /\ 38 \in 0 .. 48
  OBVIOUS
<1>8. MemberHere(s, 3, Plain("string", 9, 1), 11)
  <2>1. MemberHere(s, 2 + 1, Plain("string", 2 + 7, 1), 2 + 9)
    BY <1>1, <1>2, <1>4, <1>5, <1>7, StringReads
  <2> QED
    BY <2>1
<1>9. MemberHere(s, 13, Plain("string", 19, 1), 21)
  <2>1. MemberHere(s, 12 + 1, Plain("string", 12 + 7, 1), 12 + 9)
    BY <1>1, <1>2, <1>4, <1>5, <1>7, StringReads
  <2> QED
    BY <2>1
<1>10. MemberHere(s, 23, Plain("number", 28, 1), 29)
  <2>1. MemberHere(s, 22 + 1, Plain("number", 22 + 6, 1), 22 + 7)
    BY <1>1, <1>2, <1>4, <1>5, <1>7, NumberReads
  <2> QED
    BY <2>1
<1>11. MemberHere(s, 31, Plain(s[36], 36, 1), 37) /\ s[36] \in {"true", "false"}
  <2>1. MemberHere(s, 30 + 1, Plain(s[30 + 6], 30 + 6, 1), 30 + 7)
    BY <1>1, <1>2, <1>4, <1>5, <1>7, TruthReads
  <2>2. s[36] = settings["dithering"]
    BY <1>6 DEF ValuesAre
  <2> QED
    BY <1>5, <2>1, <2>2
<1>12. MemberHere(s, 39, Plain("number", 44, 3), 47)
  <2>1. MemberHere(s, 38 + 1, Plain("number", 38 + 6, 3), 38 + 9)
    BY <1>1, <1>2, <1>4, <1>5, <1>7, PowerReads
  <2> QED
    BY <2>1
<1>13. KeyHere(s, 49) /\ KeyHere(s, 55) /\ s[54] = LBRACE
  <2>1. "whitePoint" \in Letter /\ "red" \in Letter /\ s[60] \in Digit
    BY <1>3, NamesAreLetters, NumbersAreDigits
  <2>2. BLANK # s[60] /\ BLANK # s[54]
    BY <1>3, <2>1, SymbolsApart
  <2> QED
    BY <1>1, <1>3, <2>1, <2>2 DEF KeyHere
<1>14. ValueHere(s, 60, Plain("number", 60, 1), 61) /\ s[61] = RBRACE
  BY <1>1, <1>3, NumbersAreDigits DEF ValueHere
<1> QED
  BY <1>1, <1>3, <1>6, <1>8, <1>9, <1>10, <1>11, <1>12, <1>13, <1>14 DEF Layout

-----------------------------------------------------------------------------
(* What was saved is found.                                                *)

(* Typing changes nothing of the server.                                   *)
LEMMA TextInvariance == TextSpec => []IInv
<1>1. TextInit => IInv
  BY InitInvariant DEF TextInit
<1>2. IInv /\ [Type \/ Retype \/ Runs]_textVars => IInv'
  <2> SUFFICES ASSUME IInv, [Type \/ Retype \/ Runs]_textVars PROVE IInv'
    OBVIOUS
  <2>1. [Next]_vars
    BY DEF Type, Retype, Runs, textVars
  <2> QED
    BY <2>1, NextInvariant
<1> QED
  BY <1>1, <1>2, PTL DEF TextSpec

(* The texts of settings.                                                  *)
LEMMA TextIs ==
  ASSUME NEW s, NEW v
  PROVE  /\ s = "tcp" => Text(s, v) = v
         /\ s = "power" => Text(s, v) = Rounded(v)
         /\ s = "demo" => Text(s, v) = demo_mode_to_string(v)
         /\ s = "dithering" => Text(s, v) = IF v THEN "true" ELSE "false"
         /\ s = "order" => Text(s, v) = color_channel_order_to_string(v)
<1>1. CASE s = "tcp"
  BY <1>1 DEF Text
<1>2. CASE s = "power"
  BY <1>2 DEF Text
<1>3. CASE s = "demo"
  BY <1>3 DEF Text
<1>4. CASE s = "dithering"
  BY <1>4 DEF Text
<1>5. CASE s = "order"
  BY <1>5 DEF Text
<1> QED
  BY <1>1, <1>2, <1>3, <1>4, <1>5

(* The names of the demo modes.                                            *)
LEMMA DemoTexts ==
  ASSUME NEW v \in DemoMode
  PROVE  demo_mode_to_string(v) \in {"none", "fade", "id", "black"}
  BY DEF DemoMode, demo_mode_to_string

(* The names of the colour orders.                                         *)
LEMMA OrderTexts ==
  ASSUME NEW v \in ColorOrder
  PROVE  color_channel_order_to_string(v) \in {"RGB", "RBG", "GRB", "GBR", "BGR", "BRG"}
  BY DEF ColorOrder, color_channel_order_to_string

(* The types of valid settings.                                            *)
LEMMA ValidTypes ==
  ASSUME NEW c, Typed(c), AllValid(c)
  PROVE  /\ c["tcp"] \in 1 .. PortMod - 1
         /\ c["power"] \in Nat /\ c["power"] <= MaxPower
         /\ c["demo"] \in DemoMode /\ c["dithering"] \in BOOLEAN /\ c["order"] \in ColorOrder
<1>1. ASSUME NEW s \in Settings PROVE c[s] \in ValueType(s) /\ Valid(s, c[s])
  BY DEF Typed, AllValid
<1>2. ASSUME NEW s \in Settings, s = "tcp" PROVE c[s] \in 1 .. PortMod - 1
  BY <1>1, <1>2 DEF Valid
<1>3. ASSUME NEW s \in Settings, s = "power" PROVE c[s] \in Nat /\ c[s] <= MaxPower
  BY <1>1, <1>3 DEF Valid, ValueType
<1>4. ASSUME NEW s \in Settings, s = "demo" PROVE c[s] \in DemoMode
  BY <1>1, <1>4 DEF Valid, ValueType
<1>5. ASSUME NEW s \in Settings, s = "dithering" PROVE c[s] \in BOOLEAN
  BY <1>1, <1>5 DEF ValueType
<1>6. ASSUME NEW s \in Settings, s = "order" PROVE c[s] \in ColorOrder
  BY <1>1, <1>6 DEF ValueType
<1>7. /\ "tcp" \in Settings /\ "power" \in Settings /\ "demo" \in Settings
      /\ "dithering" \in Settings /\ "order" \in Settings
  BY DEF Settings
<1> QED
  BY <1>2, <1>3, <1>4, <1>5, <1>6, <1>7

(* What the server has saved is settings that can be printed.              *)
LEMMA SavedIsPrintable ==
  ASSUME IInv, kept # NotKept
  PROVE  Printable(file.settings)
<1> DEFINE c == kept
           settings == file.settings
<1>1. Typed(c) /\ AllValid(c) /\ settings = ToJson(c)
  BY DEF IInv, FileIsKept, Json
<1> HIDE DEF c, settings
<1>2. DOMAIN settings = Saved /\ \A s \in Saved : settings[s] = Text(s, c[s])
  BY <1>1 DEF ToJson
<1>3. /\ "tcp" \in Saved /\ "power" \in Saved /\ "demo" \in Saved
      /\ "dithering" \in Saved /\ "order" \in Saved
  BY DEF Saved, Settings
<1>4. /\ settings["tcp"] = c["tcp"] /\ settings["power"] = Rounded(c["power"])
      /\ settings["demo"] = demo_mode_to_string(c["demo"])
      /\ settings["dithering"] = (IF c["dithering"] THEN "true" ELSE "false")
      /\ settings["order"] = color_channel_order_to_string(c["order"])
  BY <1>2, <1>3, TextIs
<1>5. /\ c["tcp"] \in 1 .. PortMod - 1
      /\ c["power"] \in Nat /\ c["power"] <= MaxPower
      /\ c["demo"] \in DemoMode /\ c["dithering"] \in BOOLEAN /\ c["order"] \in ColorOrder
  BY <1>1, ValidTypes
<1>6. ToString(settings["tcp"]) \in Digit
  <2>1. settings["tcp"] \in (0 .. PortMod - 1) \cup (0 .. MaxPower)
    BY <1>4, <1>5
  <2> QED
    BY <2>1, NumbersAreDigits
<1>7. ToString(settings["power"]) \in Digit
  <2>1. Rounded(c["power"]) \in Nat /\ Rounded(c["power"]) <= MaxPower
    BY <1>5, RoundedIsBounded
  <2>2. settings["power"] \in (0 .. PortMod - 1) \cup (0 .. MaxPower)
    BY <1>4, <2>1, ConfigAssumption
  <2> QED
    BY <2>2, NumbersAreDigits
<1>8. settings["demo"] \in Letter
  BY <1>4, <1>5, DemoTexts, NamesAreLetters
<1>9. settings["order"] \in Letter
  BY <1>4, <1>5, OrderTexts, NamesAreLetters
<1>10. settings["dithering"] \in {"true", "false"}
  BY <1>4
<1> QED
  BY <1>2, <1>6, <1>7, <1>8, <1>9, <1>10 DEF Printable, settings

(* Where each setting is found.                                            *)
LEMMA PlacesFound ==
  ASSUME NEW f, SettledAt(f, 15), LaidOut(f), KeysAre(f.s)
  PROVE  /\ FindJsonToken(f, <<<<Name["demo"]>>>>) = 3
         /\ FindJsonToken(f, <<<<Name["order"]>>>>) = 5
         /\ FindJsonToken(f, <<<<Name["tcp"]>>>>) = 7
         /\ FindJsonToken(f, <<<<Name["dithering"]>>>>) = 9
         /\ FindJsonToken(f, <<<<Name["power"]>>>>) = 11
         /\ FindJsonToken(f, <<<<Name["e131"]>>>>) = 0
         /\ FindJsonToken(f, <<<<"whitePoint">>, <<"red">>>>) = 15
<1> DEFINE At1(x) == FindJsonToken(f, <<<<x>>>>)
<1>1. \A x : IF x = f.s[4] THEN At1(x) = 3
             ELSE IF x = f.s[14] THEN At1(x) = 5
             ELSE IF x = f.s[24] THEN At1(x) = 7
             ELSE IF x = f.s[32] THEN At1(x) = 9
             ELSE IF x = f.s[40] THEN At1(x) = 11
             ELSE IF x = f.s[50] THEN At1(x) = 13
             ELSE At1(x) = 0
  BY Sought6
<1>2. /\ f.s[4] = "demoMode" /\ f.s[14] = "colorChannelOrder" /\ f.s[24] = "opcTcpPort"
      /\ f.s[32] = "enableDithering" /\ f.s[40] = "lumCurvePower" /\ f.s[50] = "whitePoint"
      /\ f.s[56] = "red"
  BY DEF KeysAre, Name
<1>3. /\ Name["demo"] = "demoMode" /\ Name["order"] = "colorChannelOrder"
      /\ Name["tcp"] = "opcTcpPort" /\ Name["dithering"] = "enableDithering"
      /\ Name["power"] = "lumCurvePower" /\ Name["e131"] = "e131Port"
  BY DEF Name
<1> HIDE DEF At1
<1>4. /\ At1("demoMode") = 3 /\ At1("colorChannelOrder") = 5 /\ At1("opcTcpPort") = 7
      /\ At1("enableDithering") = 9 /\ At1("lumCurvePower") = 11 /\ At1("whitePoint") = 13
      /\ At1("e131Port") = 0
  BY <1>1, <1>2
<1>5. FindJsonToken(f, <<<<"whitePoint">>, <<f.s[56]>>>>) = 15
  BY <1>4, SoughtInside DEF At1
<1> QED
  BY <1>2, <1>3, <1>4, <1>5 DEF At1

(* Every setting the server has saved is found in the file, with its own   *)
(* value, and so is one part of the white point; the E1.31 port, which is  *)
(* not saved, is not found.                                                *)
THEOREM SavedSettingsAreFound == TextSpec => []SavedIsFound
<1>1. IInv => SavedIsFound
  <2> SUFFICES ASSUME IInv, phase = "running", kept = config PROVE SavedIsFound
    BY DEF SavedIsFound
  <2> DEFINE settings == file.settings
             f == Doit(Printed(settings))
             Found(path) == LET i == FindJsonToken(f, path) IN IF i = 0 THEN <<>> ELSE TokenValue(f, i)
  <2>1. Printable(settings)
    <3>1. DOMAIN config = Settings
      BY DEF IInv, Typed
    <3>2. kept # NotKept
      <4>1. "tcp" \in DOMAIN kept
        BY <3>1 DEF Settings
      <4>2. "tcp" \notin DOMAIN NotKept
        BY DEF NotKept
      <4> QED
        BY <4>1, <4>2
    <3> QED
      BY <3>2, SavedIsPrintable
  <2> HIDE DEF settings
  <2>2. PiecesLaid(Printed(settings), settings)
    BY <2>1, PrintedPieces
  <2>3. /\ Layout(Printed(settings)) /\ KeysAre(Printed(settings))
        /\ ValuesAre(Printed(settings), settings)
    BY <2>1, <2>2, LayoutOfPieces
  <2>4. /\ LaidOut(f) /\ f.code = 0 /\ f.s = Printed(settings) /\ SettledAt(f, 15)
    <3>1. Printed(settings) \in Seq(Symbol)
      BY <2>2 DEF PiecesLaid
    <3> QED
      BY <2>3, <3>1, LayoutLaidOut
  <2>5. /\ FindJsonToken(f, <<<<Name["demo"]>>>>) = 3
        /\ FindJsonToken(f, <<<<Name["order"]>>>>) = 5
        /\ FindJsonToken(f, <<<<Name["tcp"]>>>>) = 7
        /\ FindJsonToken(f, <<<<Name["dithering"]>>>>) = 9
        /\ FindJsonToken(f, <<<<Name["power"]>>>>) = 11
        /\ FindJsonToken(f, <<<<Name["e131"]>>>>) = 0
        /\ FindJsonToken(f, <<<<"whitePoint">>, <<"red">>>>) = 15
    <3>1. KeysAre(f.s)
      BY <2>3, <2>4
    <3> HIDE DEF f
    <3> QED
      BY <2>4, <3>1, PlacesFound
  <2>6. ValuesAre(f.s, settings)
    BY <2>3, <2>4
  <2> HIDE DEF f
  <2>7. /\ TokenValue(f, 3) = <<settings["demo"]>> /\ TokenValue(f, 5) = <<settings["order"]>>
        /\ TokenValue(f, 7) = <<ToString(settings["tcp"])>>
        /\ TokenValue(f, 9) = <<settings["dithering"]>>
        /\ TokenValue(f, 11) = <<ToString(settings["power"]), ".", "0">>
        /\ TokenValue(f, 15) = <<"1">>
    <3>1. /\ TokenValue(f, 3) = <<f.s[9]>> /\ TokenValue(f, 5) = <<f.s[19]>>
          /\ TokenValue(f, 7) = <<f.s[28]>> /\ TokenValue(f, 9) = <<f.s[36]>>
          /\ TokenValue(f, 11) = <<f.s[44], f.s[45], f.s[46]>> /\ TokenValue(f, 15) = <<f.s[60]>>
      BY <2>4 DEF LaidOut, Simple
    <3> QED
      BY <2>6, <3>1 DEF ValuesAre
  <2>8. /\ Found(<<<<Name["demo"]>>>>) = Value("demo", settings["demo"])
        /\ Found(<<<<Name["order"]>>>>) = Value("order", settings["order"])
        /\ Found(<<<<Name["tcp"]>>>>) = Value("tcp", settings["tcp"])
        /\ Found(<<<<Name["dithering"]>>>>) = Value("dithering", settings["dithering"])
        /\ Found(<<<<Name["power"]>>>>) = Value("power", settings["power"])
        /\ Found(<<<<Name["e131"]>>>>) = <<>>
        /\ Found(<<<<"whitePoint">>, <<"red">>>>) = <<"1">>
    BY <2>5, <2>7, ValueTexts
  <2>9. \A s \in Settings :
          Found(<<<<Name[s]>>>>) = IF s \in Saved THEN Value(s, settings[s]) ELSE <<>>
    <3> HIDE DEF Found
    <3> QED
      BY <2>8 DEF Settings, Saved
  <2> QED
    BY <2>4, <2>8, <2>9 DEF SavedIsFound, f, settings
<1> QED
  BY <1>1, TextInvariance, PTL
=============================================================================
