------------------------------ MODULE MCSpool ------------------------------
(***************************************************************************)
(* Spool for TLC: one producer besides the handle, and the shipper as the  *)
(* action ShipperRemoves.                                                  *)
(***************************************************************************)
EXTENDS Spool

CONSTANTS handle, submitter   (* model values: the two ends of the channel *)

MCSenders == {handle, submitter}

----------------------------------------------------------------------------
(* The order of the names, against the comparison of their text.            *)

MaxNumber == Base * Base + Base

\* The decimal text of a number, each digit 1 too large; 0 stands for the ".".
Text[n \in 0 .. MaxNumber] ==
  IF n < Base THEN <<n + 1>> ELSE Append(Text[n \div Base], (n % Base) + 1)

Lexicographic(s, t) ==
  \E i \in DOMAIN s \cap DOMAIN t :
    s[i] < t[i] /\ \A j \in 1 .. i - 1 : s[j] = t[j]

ASSUME TextOrder ==
  \A m, n \in 0 .. MaxNumber :
    TextBefore(m, n) <=> Lexicographic(Append(Text[m], 0), Append(Text[n], 0))
=============================================================================
