----------------------------- MODULE MCSession -----------------------------
(* Instances of Session.tla for TLC. *)
EXTENDS Session, TLC

\* The administrator may accept clients without authentication, only those, or
\* go back to what the server starts with.
MCMethodSets == {{2}, {0}, {0, 2}}

\* Records are interchangeable.
MCSymmetry == Permutations(Session)
=============================================================================
