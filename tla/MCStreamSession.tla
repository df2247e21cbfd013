--------------------------- MODULE MCStreamSession ---------------------------
(***************************************************************************)
(* Small sources for StreamSession.                                        *)
(***************************************************************************)
EXTENDS StreamSession

Level(opens, before, found, after) ==
  [opens |-> opens, before |-> before, found |-> found, after |-> after]
Through(after) == Level(TRUE, <<TRUE>>, TRUE, after)

Source(mode, levels, array, rows, end) ==
  [mode |-> mode, levels |-> levels, array |-> array, rows |-> rows, end |-> end]

\* Rows that fill a batch, leave room, do not fit behind another, do not fit
\* at all, cannot be projected.
MCRows == {<<>>, <<2>>, <<1, 1, 1>>, <<2, 2, 2>>, <<2, 3, 2>>, <<3, 1, 1>>, <<1, 5>>, <<1, 2, 0>>}

\* Ways that lead to the target, at two depths, and ways that fail.
MCLevels == {
  <<>>, <<Through(<<TRUE>>)>>, <<Through(<<TRUE, FALSE>>)>>,
  <<Through(<<>>), Through(<<TRUE>>)>>,
  <<Through(<<FALSE>>), Through(<<TRUE>>)>>,
  <<Through(<<TRUE>>), Level(TRUE, <<FALSE>>, TRUE, <<>>)>>,
  <<Through(<<TRUE>>), Level(TRUE, <<TRUE>>, FALSE, <<>>)>>,
  <<Level(FALSE, <<>>, TRUE, <<>>)>> }

MCSources ==
  {Source("document", levels, TRUE, rows, end) :
     levels \in MCLevels, rows \in MCRows, end \in BOOLEAN}
    \cup {Source("document", <<Through(<<TRUE>>)>>, FALSE, <<2>>, TRUE)}
    \cup {Source("lines", <<>>, TRUE, rows, end) : rows \in MCRows, end \in BOOLEAN}
    \cup {Source("file", <<>>, TRUE, rows, TRUE) : rows \in MCRows}
=============================================================================
