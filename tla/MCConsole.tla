----------------------------- MODULE MCConsole -----------------------------
(* Two clients, two files of one name; "ls" makes both other listings.     *)
EXTENDS Console
CONSTANTS c1, c2, n1
MCListing == {<<"hash", "clients">>}
=============================================================================
