---------------------------- MODULE MCCoordinator ----------------------------
(* Small instances of Coordinator for TLC. *)
EXTENDS Coordinator, TLC

CONSTANTS o1, d1, s1, s2, c1, t1, b1,   \* requests
          own, ann, bob                 \* callers: the owner of the document, others

OneOpen    == {o1}
OneDecode  == {d1}
OneSelect  == {s1}
TwoSelects == {s1, s2}
OneClose   == {c1}
OneSetup   == {t1}
OneBatch   == {b1}

Everybody  == {own, ann, bob}
Owner      == {own}
Owners     == {own, ann}
BatchOwner == {bob}
Readers    == {ann, bob}

\* The document is one process's, which also makes a cursor; others do the rest.
Caller == [r \in Requests |->
  IF r \in Selects \cup Closes \cup Setups THEN own
  ELSE IF r \in Opens THEN ann ELSE bob]

Symmetry == Permutations(Selects)
=============================================================================
