----------------------------- MODULE MCLogging -----------------------------
(* An instance of Logging.tla for TLC. *)
EXTENDS Logging

\* A descriptor that is the size the table was asked for, and two numbers that
\* are no descriptors.
MCOther == {-1, 3, 4}

\* The first two entries are newlines only: together they need six dates, and
\* there is room for five.
MCBreaks == {1, 2} \X {1, 2}
=============================================================================
