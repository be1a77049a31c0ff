-------------------------------- MODULE KeyMap ------------------------------
(***************************************************************************)
(* From an X keysym to what the IME is told of a key in the v2 host:       *)
(* is_shifted_char and rime_to_vk (win_imm/vk_map.rs) and their use in     *)
(* process_key and process_vk (win_imm/mod.rs).  Keysyms of printable      *)
(* ASCII are the character codes.                                          *)
(***************************************************************************)
EXTENDS Integers

Upper  == 65 .. 90
Lower  == 97 .. 122
Digits == 48 .. 57

\* Mutant: the double quote is forgotten.
IsShiftedChar_NoQuote(c) ==
    c \in Upper \cup {33, 35, 36, 37, 38, 40, 41, 42, 43, 58, 60, 62, 63, 64, 94, 95, 123, 124, 125, 126}

\* ! " # $ % & ( ) * + : < > ? @ ^ _ { | } ~ and the capitals.
IsShiftedChar(c) ==
    c \in Upper \cup {33, 34, 35, 36, 37, 38, 40, 41, 42, 43, 58, 60, 62, 63, 64, 94, 95,
                      123, 124, 125, 126}

NoVk == 0

\* BackSpace, Tab, Return, Escape; Home to End; Insert, Menu, Delete; the
\* modifiers.  The values are the VK_ codes.
Named(keycode) ==
    CASE keycode = 65288 -> 8   [] keycode = 65289 -> 9   [] keycode = 65293 -> 13
      [] keycode = 65307 -> 27  [] keycode = 65360 -> 36  [] keycode = 65361 -> 37
      [] keycode = 65362 -> 38  [] keycode = 65363 -> 39  [] keycode = 65364 -> 40
      [] keycode = 65365 -> 33  [] keycode = 65366 -> 34  [] keycode = 65367 -> 35
      [] keycode = 65379 -> 45  [] keycode = 65383 -> 254 [] keycode = 65535 -> 46
      [] keycode = 65505 -> 160 [] keycode = 65506 -> 161 [] keycode = 65507 -> 162
      [] keycode = 65508 -> 163 [] keycode = 65513 -> 164 [] keycode = 65514 -> 165
      [] keycode = 65509 -> 20  [] keycode = 65515 -> 91  [] keycode = 65516 -> 92
      [] OTHER -> NoVk

\* ; : = + , < - _ . > / ? ` ~ [ { \ | ] } ' " to VK_OEM_1 and so on, then
\* ! @ # $ % ^ & * ( ) to the digit keys, and the space.
Punctuation(keycode) ==
    CASE keycode \in {59, 58} -> 186  [] keycode \in {61, 43} -> 187  [] keycode \in {44, 60} -> 188
      [] keycode \in {45, 95} -> 189  [] keycode \in {46, 62} -> 190  [] keycode \in {47, 63} -> 191
      [] keycode \in {96, 126} -> 192 [] keycode \in {91, 123} -> 219 [] keycode \in {92, 124} -> 220
      [] keycode \in {93, 125} -> 221 [] keycode \in {39, 34} -> 222
      [] keycode = 33 -> 49 [] keycode = 64 -> 50 [] keycode = 35 -> 51 [] keycode = 36 -> 52
      [] keycode = 37 -> 53 [] keycode = 94 -> 54 [] keycode = 38 -> 55 [] keycode = 42 -> 56
      [] keycode = 40 -> 57 [] keycode = 41 -> 48 [] keycode = 32 -> 32
      [] OTHER -> NoVk

\* rime_to_vk.  Every printable character has its entry, so that VkKeyScanW is
\* not asked for one; any other keysym is cut to sixteen bits.
RimeToVk(keycode) ==
    IF Named(keycode) # NoVk THEN Named(keycode)
    ELSE IF Punctuation(keycode) # NoVk THEN Punctuation(keycode)
    ELSE IF keycode \in Lower THEN keycode - 32
    ELSE keycode % 65536

\* External: ToUnicode on a US keyboard; the plain and the shifted character of
\* the digits' keys and of VK_OEM_1 to VK_OEM_3 and VK_OEM_4 to VK_OEM_7.
NoChar == 0
DigitKeys  == <<41, 33, 64, 35, 36, 37, 94, 38, 42, 40>>
OemPlain   == <<59, 61, 44, 45, 46, 47, 96>>
OemShift   == <<58, 43, 60, 95, 62, 63, 126>>
OemPlain2  == <<91, 92, 93, 39>>
OemShift2  == <<123, 124, 125, 34>>

ToUnicode(vk, shift) ==
    CASE vk \in Upper      -> IF shift THEN vk ELSE vk + 32
      [] vk \in Digits     -> IF shift THEN DigitKeys[vk - 47] ELSE vk
      [] vk \in 186 .. 192 -> IF shift THEN OemShift[vk - 185] ELSE OemPlain[vk - 185]
      [] vk \in 219 .. 222 -> IF shift THEN OemShift2[vk - 218] ELSE OemPlain2[vk - 218]
      [] vk = 32           -> 32
      [] OTHER             -> NoChar

\* ime_uvirt: the virtual key and the character that ImeToAsciiEx is given.
Uvirt(keycode, shift) ==
    LET vk == RimeToVk(keycode)
    IN [vk |-> vk, char |-> ToUnicode(vk, shift \/ IsShiftedChar(keycode))]
-----------------------------------------------------------------------------
(* select_candidate: the number key for an index, and NotifyIME for one    *)
(* without.                                                                *)

NoKey == 0

\* Mutant: the first row is '0'.
SelectionVk_FromZero(index) == IF index \in 0 .. 9 THEN 48 + index ELSE NoKey

SelectionVk(index) ==
    IF index \in 0 .. 8 THEN 49 + index ELSE IF index = 9 THEN 48 ELSE NoKey
=============================================================================
