------------------------------ MODULE IPv4Text ------------------------------
(***************************************************************************)
(* ParseIPv4Address of a text (src/src/CushiNet.cpp).  A text is the       *)
(* sequence of its segments between dots.  Of a segment only what          *)
(* std::stoi makes of it matters: an "octet" is one of "0" to "255"; a     *)
(* "number" is anything else it takes ("256", "-1", " 7x"); or it throws,  *)
(* as it does for "" and for a number that is too big for an int.          *)
(***************************************************************************)
EXTENDS Addresses

CONSTANTS
    Segments,     \* inputs: segments,
    MaxSegments   \* bound: and how many a text has

VARIABLE
    text          \* the argument

IntMax     == 2147483647              \* std::numeric_limits<int>::max()
Exceptions == {"invalid_argument", "out_of_range"}

ASSUME TextAssumption ==
    /\ Segments \subseteq
        [kind : {"octet"}, value : Octet]
            \cup [kind : {"number"}, value : -IntMax - 1 .. IntMax]
            \cup [kind : Exceptions, value : {0}]
    /\ MaxSegments \in Nat

(* (uint32)n << by, without the bits that fall off the top.                *)
Shifted(n, by) ==
    CASE by = 24 -> <<(n % 256) * 256, 0>>
      [] by = 16 -> <<n % 65536, 0>>
      [] by = 8  -> <<(n \div 256) % 65536, (n % 256) * 256>>
      [] by = 0  -> <<(n \div 65536) % 65536, n % 65536>>

(* The operator | of C, for each weight that a bit may have.               *)
HalfOr(m, n) ==
    LET bit(w) == IF (m \div w) % 2 = 1 \/ (n \div w) % 2 = 1 THEN w ELSE 0
    IN  bit(1) + bit(2) + bit(4) + bit(8) + bit(16) + bit(32) + bit(64)
            + bit(128) + bit(256) + bit(512) + bit(1024) + bit(2048)
            + bit(4096) + bit(8192) + bit(16384) + bit(32768)

BitOr(m, n) == <<HalfOr(m[1], n[1]), HalfOr(m[2], n[2])>>

(* What the call may throw: without three dots invalid_argument, else what *)
(* one of the first four segments makes stoi throw, in no order.  What     *)
(* comes after a fourth dot is part of the fourth segment, where stoi has  *)
(* stopped reading by then.                                                *)
Throws(t) ==
    IF Len(t) < 4 THEN {"invalid_argument"}
                  ELSE {t[i].kind : i \in 1 .. 4} \cap Exceptions

(* Mutant: the second and the third segment change places.                 *)
MiddleSwapped(t) ==
    BitOr(BitOr(Shifted(t[1].value, 24), Shifted(t[2].value, 8)),
       BitOr(Shifted(t[3].value, 16), Shifted(t[4].value, 0)))

(* What it returns if it does not throw.                                   *)
ParseIPv4Address(t) ==
    BitOr(BitOr(Shifted(t[1].value, 24), Shifted(t[2].value, 16)),
       BitOr(Shifted(t[3].value, 8), Shifted(t[4].value, 0)))

-----------------------------------------------------------------------------
TextInit == text = <<>>

(* Another text, or a longer one.                                          *)
TextNext ==
    \E s \in Segments :
        \/ text' = <<s>>
        \/ Len(text) < MaxSegments /\ text' = Append(text, s)

TextSpec == TextInit /\ [][TextNext]_text

-----------------------------------------------------------------------------
(* "[0-255].[0-255].[0-255].[0-255]" (CushiNet.h:13) parses, to what the   *)
(* overload for octets makes of the same numbers, and GetIPv4 reads that   *)
(* number back from the address it is put in.  It says nothing of other    *)
(* texts.                                                                  *)
WellFormed(t) == Len(t) = 4 /\ \A i \in 1 .. 4 : t[i].kind = "octet"

WellFormedParses ==
    WellFormed(text) =>
        /\ Throws(text) = {}
        /\ ParseIPv4Address(text) =
            ParseIPv4Octets(text[1].value, text[2].value,
                            text[3].value, text[4].value)
        /\ GetIPv4(SetIPv4(ParseIPv4Address(text), 0)) = ParseIPv4Address(text)

-----------------------------------------------------------------------------
(* What the header says and the code does not do.                          *)

(* CushiNet.h:18: "Throws `std::invalid_argument` if the IPv4 address is   *)
(* invalidly formatted".                                                   *)
InvalidFormatThrows ==
    ~ WellFormed(text) => Throws(text) = {"invalid_argument"}
=============================================================================
