----------------------------- MODULE UnmadeCursor -----------------------------
(***************************************************************************)
(* DocumentLifecycle where the resource of a new stream cursor may fail to *)
(* be allocated, the last step of threaded_stream_setup_fixture in         *)
(* native/zig/build_smoke.zig: two clean-up paths release one reservation. *)
(***************************************************************************)
EXTENDS DocumentLifecycle

\* The cursor exists, but no resource for it: destroyStreamCursorControl
\* releases the reservation, and the deferred statement of the setup releases
\* it again.
FailCursor(s) ==
  /\ Goto(s, "using", "spoilt")
  /\ UNCHANGED <<opener, stateVars, ownerVars, seen>>

ReleaseSpoilt(s) ==
  /\ Goto(s, "spoilt", "leave")
  /\ admitted' = Unadmitted
  /\ UNCHANGED <<opener, lifecycle, generation, projection, cleanupStarted, owned,
                 ownerVars, seen>>

UnmadeNext == Next \/ \E s \in Streams : FailCursor(s) \/ ReleaseSpoilt(s)

UnmadeSpec == Init /\ [][UnmadeNext]_vars

-----------------------------------------------------------------------------
\* document_resource.zig:845 "std.debug.assert(previous > 0)": no release finds
\* the admission count at zero.
PreviousIsPositive == [][admitted' < admitted => admitted > 0]_vars
=============================================================================
