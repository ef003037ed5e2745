--------------------------- MODULE MCChildDevices ---------------------------
(* Small instances of ChildDevices for TLC. *)
EXTENDS ChildDevices, TLC

CONSTANTS a, b

MCWindow == {{}, {1}}
\* One device, whose window opens; or another one too, opened by an exception.
MCStart ==
  LET row(w, until) == [win |-> w, exc |-> [t \in Target |-> IF t = "all" THEN until ELSE 0]]
  IN  {a :> row({1}, 0) @@ b :> Absent,
       a :> row({1}, 0) @@ b :> row({}, 2)}
=============================================================================
