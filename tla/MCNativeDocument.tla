-------------------------- MODULE MCNativeDocument --------------------------
(***************************************************************************)
(* Small sources, requests and limits for NativeDocument.                  *)
(***************************************************************************)
EXTENDS NativeDocument

K(n) == [tag |-> "key", value |-> n]
I(n) == [tag |-> "index", value |-> n]
Slot(n, path) == [slot |-> n, path |-> path]

\* The paths meet values, containers and each other in every way: one inside
\* another, side by side, equal, of two kinds at one node, beyond an end.
MCRequests == {
  <<>>,
  <<Slot(0, <<>>)>>,
  <<Slot(0, <<K(1)>>), Slot(0, <<K(2)>>)>>,
  <<Slot(1, <<K(1)>>)>>,
  <<Slot(1, <<K(1)>>), Slot(0, <<K(2)>>)>>,
  <<Slot(0, <<K(1)>>), Slot(1, <<K(1)>>)>>,
  <<Slot(0, <<K(1), K(2)>>), Slot(1, <<K(1), K(1)>>)>>,
  <<Slot(0, <<K(1), K(1)>>), Slot(1, <<K(1)>>)>>,
  <<Slot(0, <<I(1)>>), Slot(1, <<I(0)>>)>>,
  <<Slot(1, <<I(0)>>), Slot(2, <<I(1), I(0)>>), Slot(0, <<I(2)>>)>>,
  <<Slot(0, <<I(1)>>), Slot(1, <<K(2)>>)>>,
  <<Slot(0, <<K(2), I(0)>>), Slot(2, <<K(2), K(1)>>), Slot(1, <<I(0)>>)>> }

Config(depth, entries, string, output) ==
  [depth |-> depth, entries |-> entries, string |-> string, output |-> output]

\* Each limit is met alone, and the limit of the output at every size.
MCLimits ==
  {Config(2, 4, 4, 40), Config(1, 4, 4, 40), Config(2, 1, 4, 40),
   Config(2, 2, 1, 40), Config(3, 4, 4, 40), Config(2, 4, 4, 0)}
    \cup {Config(2, 4, 4, n) : n \in 3..12}
=============================================================================
