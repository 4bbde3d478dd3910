---------------------------- MODULE BatchNames ----------------------------
(***************************************************************************)
(* The names of the sealed batches of a spool directory and the order in   *)
(* which the agent sorts them.                                             *)
(*                                                                         *)
(* The writer names a batch batch-<ts>-<seq>.zst (spool/writer.rs), with   *)
(* ts the wall clock in whole seconds and seq a counter that starts at 0   *)
(* in every run.  The writer's size cap and the shipper both call the      *)
(* smallest NAME, compared as text, the oldest batch.  A ts always has ten *)
(* digits (until the year 2286), so it compares as a number; seq is not    *)
(* padded, so its decimal text does not.                                   *)
(***************************************************************************)
EXTENDS Naturals

CONSTANTS
  Base,      (* the base seq is printed in: 10 in the code                 *)
  MaxClock,  (* bound: the last second the wall clock reaches              *)
  MaxSeals   (* bound: how many batches one run seals                      *)

ASSUME NameAssumption ==
  /\ Base \in Nat \ {0, 1}
  /\ MaxClock \in Nat
  /\ MaxSeals \in Nat \ {0}

Seconds == 0 .. MaxClock

Names == [ts : Seconds, seq : 0 .. MaxSeals - 1]

\* The number of digits of n.
Digits(n) ==
  CHOOSE k \in 1 .. n + 1 : n < Base ^ k /\ \A j \in 1 .. k - 1 : Base ^ j <= n

\* The text of m followed by ".zst" sorts before the text of n followed by
\* ".zst": numbers of one width sort as numbers, otherwise the shorter text is
\* compared with as many first digits of the longer, and "." is smaller than
\* every digit.
TextBefore(m, n) ==
  LET wider == Digits(n) - Digits(m)
      narrower == Digits(m) - Digits(n)
  IN  IF Digits(m) = Digits(n) THEN m < n
      ELSE IF Digits(m) < Digits(n) THEN m * Base ^ wider <= n
      ELSE m < n * Base ^ narrower

\* Mutation: seq compared as if it were printed from the last digit.
NameBefore_Reversed(a, b) ==
  a.ts < b.ts \/ (a.ts = b.ts /\ TextBefore(b.seq, a.seq))

\* The order of PathBuf and String comparison on two batch names.
NameBefore(a, b) ==
  a.ts < b.ts \/ (a.ts = b.ts /\ TextBefore(a.seq, b.seq))

\* Mutation: the newest name is taken for the oldest.
Oldest_Newest(S) == CHOOSE n \in S : \A m \in S \ {n} : NameBefore(m, n)

\* The first of a non-empty set of names once it is sorted.
Oldest(S) == CHOOSE n \in S : \A m \in S \ {n} : NameBefore(n, m)
============================================================================
