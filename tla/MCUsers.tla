------------------------------ MODULE MCUsers ------------------------------
(* An instance of Users.tla for TLC. *)
EXTENDS Users

MCLetter   == {"a", "b"}

\* The second name is read back as the first, and a line with the second
\* password is not read at all.
MCName     == {<<"a">>, <<"a", ":">>}
MCPassword == {<<"a">>, <<"control">>}

\* The first name ends at a byte from 128 on, and the load at one in the second
\* line.
MCShipped  == <<"#", "b", "negative", "a", "newline", "@", "control", "negative", "@", "a", "newline">>

\* Nothing, or the first line and the second up to its password.
MCFlushed  == {0, 8}
=============================================================================
