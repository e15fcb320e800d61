---------------------------- MODULE KconfigText ----------------------------
(***************************************************************************)
(* The texts that the configuration tools read, write and are told: values *)
(* of symbols and names of files.  Each is a string, and the constants say *)
(* what the conversions of the C library make of it.                       *)
(***************************************************************************)
CONSTANTS
    Texts,      \* the values int, hex and string symbols are given
    Text,       \* what the conversions make of each: Text[t].dec, .hex and .auto,
                \* the number in base 10, 16 and 0 or NotNumber, .isInt and .isHex,
                \* whether it is a valid value of the type, .prefixed, the text
                \* with 0x before it, .rank, its place in the order of strcmp,
                \* and .chars, its characters
    NotNumber   \* the result of a conversion that stops at a character

ASSUME TextAssumption ==
    \A t \in Texts : Text[t].isHex => /\ Text[t].prefixed \in Texts
                                     /\ Text[Text[t].prefixed].hex = Text[t].hex

NoSym == ""
NoFile == ""

BoolTypes == {"bool", "tristate"}
StringTypes == {"int", "hex", "string"}
=============================================================================
