---------------------------- MODULE MCShmMailbox ----------------------------
(* Messages of two types, one of each. *)
EXTENDS ShmMailbox

MCMessage == [type : {1, 2}, text : {"x"}]
=============================================================================
