---------------------------- MODULE MCPollCursor ----------------------------
(***************************************************************************)
(* Instances of PollCursor.  Two job ids are enough for a poll to meet the *)
(* snapshot of another one: an id is used again once nothing refers to it. *)
(***************************************************************************)
EXTENDS PollCursor

NoExposure == {}
EmptyStore == {"emptyStore"}
=============================================================================
