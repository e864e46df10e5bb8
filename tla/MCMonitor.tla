----------------------------- MODULE MCMonitor -----------------------------
(* An instance of Monitor.tla for TLC. *)
EXTENDS Monitor, TLC

\* The administrator the server is shipped with.
MCFirst == <<[name |-> "a", pass |-> "p", level |-> 0]>>

\* Both methods there are, and one that is not supported.
MCMethods == {0, 1, 2}

\* One argument too many for the requests with fewer than three.
MCMaxArgs == [ADD_USER |-> 3, REMOVE_USER |-> 2, CHANGE_PASSWD |-> 3,
              STATISTICS |-> 1, CHANGE_AUTH_METHODS |-> 3, unknown |-> 0]

\* Sessions are interchangeable.
MCSymmetry == Permutations(Admin)
=============================================================================
