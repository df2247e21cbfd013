------------------------- MODULE MCDocumentLifecycle -------------------------
(* Small instances of DocumentLifecycle for TLC. *)
EXTENDS DocumentLifecycle, TLC

CONSTANTS s1, s2, t1, p1, c1, c2

OneSelect  == {s1}
TwoSelects == {s1, s2}
OneStream  == {t1}
OneProbe   == {p1}
OneClose   == {c1}
TwoCloses  == {c1, c2}

Symmetry == Permutations(Selects) \cup Permutations(Streams)
              \cup Permutations(Closes)
=============================================================================
