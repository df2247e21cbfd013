---------------------------- MODULE StreamCursor ----------------------------
(***************************************************************************)
(* The native stream cursor, native/src/simd_json_stream_cursor.cpp: from  *)
(* the plan it takes over to the batches it fills.                         *)
(*                                                                         *)
(* A source is what the reader meets: on the way to the target array one   *)
(* level per segment (is the value of the kind the segment asks for, which *)
(* members lie before the chosen one and behind it, and is each of them    *)
(* valid, is there a chosen one), then the rows, each with the bytes its   *)
(* projection takes in a batch (0: it cannot be projected), and the end.   *)
(* A file has no levels; its rows are its documents.  The bytes of a row   *)
(* and the copy of its strings have one limit.                             *)
(***************************************************************************)
EXTENDS Integers, SequencesExt, FiniteSetsExt

CONSTANTS
  Sources,    \* [mode, levels, array, rows, end]; see SourcesAssumption
  RowLimit,   \* rows of a batch (batch_size)
  ByteLimit,  \* bytes of a batch (max_batch_bytes)
  Probing     \* what a cancellation probe may answer; NIF code passes none

Modes == {"document", "lines", "file"}   \* lines: newline-delimited JSON

ASSUME LimitsAssumption ==
  RowLimit \in Nat \ {0} /\ ByteLimit \in Nat \ {0} /\ Probing \subseteq BOOLEAN

ASSUME SourcesAssumption ==
  \A s \in Sources :
    /\ s.mode \in Modes
    /\ s.levels \in Seq([opens : BOOLEAN, found : BOOLEAN,
                         before : Seq(BOOLEAN), after : Seq(BOOLEAN)])
    /\ s.rows \in Seq(Nat) /\ s.array \in BOOLEAN /\ s.end \in BOOLEAN
    /\ s.mode # "document" => s.levels = <<>> /\ s.array
    /\ s.mode = "file" => s.end

VARIABLES
  source,    \* fixed: what is read
  changed,   \* the file is no longer the one that was mapped
  state,     \* simd_json_stream_cursor.state; before, "none" or "mapping"
  located,   \* target_located
  frames,    \* parent_frames: the levels entered, the outermost first
  row,       \* current_row_index
  pending,   \* the row projected and in no batch yet, or <<>>
  attempts,  \* projection_attempts
  sequence,  \* batch_sequence
  at,        \* where simd_json_stream_next_batch is, or "idle"
  batch      \* the storage of the caller: rows, bytes, done, and the code

cursorVars == <<source, changed, state, located, frames, row, pending, attempts,
                sequence, at, batch>>

States == {"none", "mapping", "ready", "running", "done", "cancelled", "closed"}
Cleared == [rows |-> <<>>, bytes |-> 0, done |-> FALSE, code |-> "ok"]

CursorTypeOK ==
  /\ source \in Sources /\ changed \in BOOLEAN
  /\ state \in States /\ located \in BOOLEAN
  /\ at \in {"idle", "locate", "fill", "complete"}
  /\ at # "idle" <=> state = "running"
  /\ row \in 0..Len(source.rows) /\ pending \in {<<>>, <<row>>}
  /\ attempts \in Nat /\ sequence \in Nat
  /\ Len(frames) <= Len(source.levels)
  /\ Len(batch.rows) <= RowLimit /\ batch.bytes <= ByteLimit

CursorInit ==
  /\ source \in Sources /\ changed = FALSE
  /\ state = "none" /\ located = FALSE /\ frames = <<>>
  /\ row = 0 /\ pending = <<>> /\ attempts = 0 /\ sequence = 0
  /\ at = "idle" /\ batch = Cleared

IsFile == source.mode # "document"

\* Somebody writes to the file, at any time after its first stat.
ChangeFile ==
  /\ IsFile /\ state # "none" /\ ~changed /\ changed' = TRUE
  /\ UNCHANGED <<source, state, located, frames, row, pending, attempts, sequence,
                 at, batch>>

\* simd_json_mapped_input_create takes a stat, maps the file, ...
MapInput ==
  /\ IsFile /\ state = "none" /\ state' = "mapping"
  /\ UNCHANGED <<source, changed, located, frames, row, pending, attempts, sequence,
                 at, batch>>

\* ... and refuses it if a second stat differs (same_file_snapshot).
CreateAllowed == IF IsFile THEN state = "mapping" /\ ~changed ELSE state = "none"

\* simd_json_stream_cursor_create or simd_json_file_stream_cursor_create
\* succeeds; the documents of a file need not be located.
OpenCursor ==
  /\ CreateAllowed
  /\ state' = "ready" /\ located' = IsFile
  /\ UNCHANGED <<source, changed, frames, row, pending, attempts, sequence, at, batch>>

\* ~simd_json_stream_cursor, with whatever is left in it.
DestroyCursor ==
  /\ state' = "closed" /\ at' = "idle"
  /\ UNCHANGED <<source, changed, located, frames, row, pending, attempts, sequence, batch>>

\* A batch is given back: the cursor is left in a state, with the rows, or
\* cleared with a code.
Leave(next) == state' = next /\ at' = "idle"
Refuse(code) == batch' = [Cleared EXCEPT !.code = code]
Fail(code) == Leave("cancelled") /\ Refuse(code)

AtEnd == row = Len(source.rows)

YieldEmptied ==   \* mutant: the row that found no place is dropped
  /\ Leave("ready") /\ sequence' = sequence + 1 /\ pending' = <<>>
  /\ UNCHANGED <<source, changed, located, frames, row, attempts, batch>>
\* The batch is as full as it gets.  The row that found no place is kept.
Yield ==
  /\ Leave("ready") /\ sequence' = sequence + 1
  /\ UNCHANGED <<source, changed, located, frames, row, pending, attempts, batch>>

\* The beginning of simd_json_stream_next_batch: a probe, the state, the file.
BeginBatch ==
  /\ at = "idle"
  /\ UNCHANGED <<source, changed, located, frames, row, pending, attempts, sequence>>
  /\ \/ /\ TRUE \in Probing
        /\ Refuse("cancelled")
        /\ state' = (IF state = "ready" THEN "cancelled" ELSE state) /\ UNCHANGED at
     \/ /\ state = "ready"
        /\ IF IsFile /\ changed
           THEN Fail("file_changed")
           ELSE /\ state' = "running" /\ batch' = Cleared
                /\ at' = (IF located THEN "fill" ELSE "locate")
     \/ /\ state # "ready"
        /\ batch' = [Cleared EXCEPT !.done = (state = "done"),
                       !.code = CASE state = "done" -> "ok"
                                  [] state = "cancelled" -> "cancelled"
                                  [] OTHER -> "cursor_state"]
        /\ UNCHANGED <<state, at>>

\* object_segment and array_segment: what one level of the way answers.
SegmentStatus(level) ==
  CASE ~level.opens -> "incorrect_type"
    [] FALSE \in Range(level.before) -> "invalid_json"
    [] ~level.found -> "not_found"
    [] OTHER -> "ok"

FailedLevels == {k \in DOMAIN source.levels : SegmentStatus(source.levels[k]) # "ok"}

\* locate_target.  A failure leaves the cursor ready, and the frames of the
\* levels that were entered in it.
LocateTarget ==
  /\ at = "locate"
  /\ UNCHANGED <<source, changed, row, pending, attempts, sequence>>
  /\ \/ /\ FailedLevels = {} /\ source.array
        /\ located' = TRUE /\ at' = "fill"
        /\ frames' = frames \o source.levels
        /\ UNCHANGED <<state, batch>>
     \/ /\ FailedLevels = {} /\ ~source.array
        /\ frames' = frames \o source.levels
        /\ Leave("ready") /\ Refuse("incorrect_type") /\ UNCHANGED located
     \/ \E k \in FailedLevels :
          /\ FailedLevels \cap 1..(k - 1) = {}
          /\ frames' = frames \o SubSeq(source.levels, 1, k - 1)
          /\ Leave("ready") /\ Refuse(SegmentStatus(source.levels[k]))
          /\ UNCHANGED located

\* One turn of the loop: its end, ...
FullLate == Len(batch.rows) > RowLimit   \* mutant: a row too many
Full == Len(batch.rows) = RowLimit
EndFilling ==
  /\ at = "fill" /\ pending = <<>> /\ AtEnd
  /\ at' = "complete"
  /\ UNCHANGED <<source, changed, state, located, frames, row, pending, attempts,
                 sequence, batch>>
YieldFull == at = "fill" /\ Full /\ ~(pending = <<>> /\ AtEnd) /\ Yield

\* ... project_current_row or project_current_file_document, ...
ProjectRow ==
  /\ at = "fill" /\ pending = <<>> /\ ~AtEnd /\ ~Full
  /\ attempts' = attempts + 1
  /\ UNCHANGED <<source, changed, located, frames, row, sequence>>
  /\ IF source.rows[row + 1] = 0
     THEN Fail("unprojectable") /\ UNCHANGED pending
     ELSE pending' = <<row>> /\ UNCHANGED <<state, at, batch>>

\* ... and append_pending_row.
Fits == batch.bytes + source.rows[row + 1] <= ByteLimit
NeverTooLarge == FALSE   \* mutant: a batch may stay empty
TooLarge == ~Fits /\ batch.rows = <<>>

AppendRow ==
  /\ at = "fill" /\ pending # <<>> /\ ~Full
  /\ \/ /\ Fits
        /\ batch' = [batch EXCEPT !.rows = @ \o pending, !.bytes = @ + source.rows[row + 1]]
        /\ pending' = <<>> /\ row' = row + 1
        /\ UNCHANGED <<source, changed, state, located, frames, attempts, sequence, at>>
     \/ /\ TooLarge
        /\ Fail("batch_too_large")
        /\ UNCHANGED <<source, changed, located, frames, row, pending, attempts, sequence>>
     \/ ~Fits /\ ~TooLarge /\ Yield

\* A probe that says stop, between two rows, two slots or two members.
StopBatch ==
  /\ at \in {"fill", "complete"} /\ TRUE \in Probing
  /\ Fail("cancelled")
  /\ UNCHANGED <<source, changed, located, frames, row, pending, attempts, sequence>>

\* An exception, which any allocation of the loop may throw.
LoseBatch ==
  /\ at # "idle"
  /\ Fail("out_of_memory")
  /\ UNCHANGED <<source, changed, located, frames, row, pending, attempts, sequence>>

NoneRemain == <<>>   \* mutant: the innermost level stands for all
\* validate_source_completion: the members behind the target, innermost level
\* first, are read and validated.
Remaining == Front(frames)
ValidateParent ==
  /\ at = "complete" /\ frames # <<>>
  /\ IF FALSE \in Range(Last(frames).after)
     THEN Fail("invalid_json") /\ UNCHANGED frames
     ELSE frames' = Remaining /\ UNCHANGED <<state, at, batch>>
  /\ UNCHANGED <<source, changed, located, row, pending, attempts, sequence>>

Unverified ==   \* mutant: the file is not looked at again
  IF source.end THEN "ok" ELSE "unexpected_eof"

\* What validate_stream_completion says at last: is the file still the same,
\* and does the source end where it should.
CompletionStatus ==
  CASE IsFile /\ changed -> "file_changed"
    [] ~source.end -> IF IsFile THEN "unexpected_eof" ELSE "invalid_json"
    [] OTHER -> "ok"

\* The end of a batch that is the last.  The comparison of the file and the store
\* of the state are one step: a write between them is a write after the end.
Complete ==
  /\ at = "complete" /\ frames = <<>>
  /\ UNCHANGED <<source, changed, located, frames, row, pending, attempts>>
  /\ IF CompletionStatus = "ok"
     THEN /\ Leave("done") /\ batch' = [batch EXCEPT !.done = TRUE]
          /\ sequence' = sequence + 1
     ELSE Fail(CompletionStatus) /\ UNCHANGED sequence

\* A batch under way.
BatchStep ==
  \/ LocateTarget \/ EndFilling \/ YieldFull \/ ProjectRow \/ AppendRow
  \/ StopBatch \/ LoseBatch \/ ValidateParent \/ Complete
=============================================================================
