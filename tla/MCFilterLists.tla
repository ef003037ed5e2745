--------------------------- MODULE MCFilterLists ----------------------------
(* Small instances of FilterLists for TLC. *)
EXTENDS FilterLists, TLC

CONSTANTS u1, u2, n1

\* A harmless list, and one that blocks a domain the house needs.
MCText == {{"bait"}, {"bait", "need"}}
MCNeed == {"need"}
MCBait == {"bait"}

\* One list is installed and may be refreshed for worse; another one is off, or
\* is not there and would do harm.
MCStart ==
  LET good(on) == [name |-> n1, on |-> on, text |-> {"bait"}]
  IN  {[lists |-> u1 :> good(TRUE) @@ u2 :> good(FALSE),
        offered |-> u1 :> {"bait", "need"} @@ u2 :> {"bait"}],
       [lists |-> u1 :> good(TRUE) @@ u2 :> Absent,
        offered |-> u1 :> {"bait"} @@ u2 :> {"bait", "need"}]}
=============================================================================
