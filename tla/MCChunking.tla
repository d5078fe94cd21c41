------------------------------ MODULE MCChunking ------------------------------
(* All texts of a few characters, for TLC. *)
EXTENDS Chunking

CONSTANTS
    MaxText,        \* length of texts without blanks
    MaxMixed        \* length of texts with blanks

Letters == [1 .. 1 -> {"letter"}]

TextsOf(characters, length) ==
    {t \in {<<"letter">> \o inner \o <<"letter">> :
                inner \in UNION {[1 .. n -> characters] : n \in 0 .. length - 2}} : Normal(t)}

ShortTexts ==
    {<<>>} \cup Letters
           \cup TextsOf(Character \ {"blank"}, MaxText)
           \cup TextsOf(Character, MaxMixed)
=============================================================================
