--------------------------- MODULE MCControlCenter ---------------------------
(* ControlCenter with two reports (the first answered by a file, the second by  *)
(* a comment that confirms the first) and its other constants in the .cfg.      *)
EXTENDS ControlCenter

MCTransport == <<"file", "comment">>
MCConfirms == <<0, 1>>
MCNeedsReply == <<TRUE, TRUE>>
MCRetry == [task |-> 2, fault |-> 1]
=============================================================================
