----------------------------- MODULE FilterBook -----------------------------
(***************************************************************************)
(* What the filter-list pipeline of the gateway promises to the admin      *)
(* (portal/gateway/gw/filterlists.py): a change of a block list is all or  *)
(* nothing, and touches no other list; one that is not applied leaves no   *)
(* trace. A change that could not be taken back spoils the book.           *)
(***************************************************************************)
EXTENDS Naturals

CONSTANTS
  Url,   \* block lists
  Config \* what a list can be: a name and a switch, or not installed

VARIABLES
  book,    \* each list, as the changes that were applied left it
  applied, \* how many changes were
  spoilt   \* a change that failed could not be taken back

Init == book \in [Url -> Config] /\ applied = 0 /\ spoilt = FALSE

Change(u) ==
  /\ \E c \in Config : book' = [book EXCEPT ![u] = c]
  /\ applied' = applied + 1 /\ UNCHANGED spoilt

Spoil == book' \in [Url -> Config] /\ spoilt' = TRUE /\ UNCHANGED applied

Next == (\E u \in Url : Change(u)) \/ Spoil

Spec == Init /\ [][Next]_<<book, applied, spoilt>>
=============================================================================
