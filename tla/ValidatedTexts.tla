--------------------------- MODULE ValidatedTexts ---------------------------
(***************************************************************************)
(* The validated texts of opendut-types. A text is its length in bytes and *)
(* the class of its characters, which is all that the checks look at:      *)
(*   "word"    letters, digits, and '-' or '_' inside                      *)
(*   "dashed"  the same, with a '-' or '_' at an end                       *)
(*   "place"   characters of a location that a name may not have, inside   *)
(*   "padded"  a word with one space at an end                             *)
(*   "bare"    a URL without a path, which a URL is printed with           *)
(*   "url"     a URL as it is printed                                      *)
(*   "free"    any other text                                              *)
(* Each operator says whether try_from of the type of its name succeeds.   *)
(***************************************************************************)
EXTENDS Naturals

CharClass == {"word", "dashed", "place", "padded", "bare", "url", "free"}

\* Only a word can be empty.
Text == {t \in [length : Nat, chars : CharClass] : t.length = 0 => t.chars = "word"}

Empty == [length |-> 0, chars |-> "word"]

IsEmpty(t) == t.length = 0

ValidCharactersInName(t) == t.chars \in {"word", "dashed"}

InvalidStartAndEndOfName(t) == t.chars = "dashed"

ValidCharactersInLocation(t) == t.chars \in {"word", "dashed", "place", "padded"}

InvalidStartAndEndOfLocation(t) == t.chars \in {"dashed", "padded"}

\* str::trim
Trim(t) ==
    IF t.chars = "padded" THEN [length |-> t.length - 1, chars |-> "word"] ELSE t

-----------------------------------------------------------------------------

PeerName(t) ==
    /\ t.length \in 4..64
    /\ ~InvalidStartAndEndOfName(t)
    /\ ValidCharactersInName(t)

PeerLocation(t) ==
    /\ t.length <= 64
    /\ ~InvalidStartAndEndOfLocation(t)
    /\ ValidCharactersInLocation(t)

DeviceName(t) ==
    /\ t.length \in 1..64
    /\ ~InvalidStartAndEndOfName(t)
    /\ ValidCharactersInName(t)

DeviceDescription(t) == t.length <= 280

DeviceTag(t) == t.length <= 64

NetworkInterfaceName(t) == t.length \in 1..15

\* A container may go without a name.
ContainerName(t) ==
    IsEmpty(t) \/ (t.length \in 2..60 /\ ValidCharactersInName(t))

ContainerImage(t) == t.length >= 1

ContainerVolume(t) == ~IsEmpty(t)

ContainerDevice(t) == ~IsEmpty(t)

ContainerEnvironmentVariable(name, value) == ~IsEmpty(name)

ContainerPortSpec(t) == ~IsEmpty(t)

\* Nothing is refused; an empty command is the command of the image.
ContainerCommand(t) == TRUE

ContainerCommandArgument(t) == ~IsEmpty(t)

ResultsUrl(t) == t.chars \in {"bare", "url"}

\* Url::to_string ends a URL without a path with a slash.
Printed(t) ==
    IF t.chars = "bare" THEN [length |-> t.length + 1, chars |-> "url"] ELSE t

-----------------------------------------------------------------------------
(* Sample points are read in ten-thousandths, as there is a text for every *)
(* fraction, and kept in thousandths; a negative number, and NaN, become 0. *)

Rounded(s) == IF s < 0 THEN 0 ELSE (s + 5) \div 10

CanSamplePoint(thousandths) == thousandths < 1000
=============================================================================
