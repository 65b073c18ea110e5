------------------------ MODULE MCFileSystemAdapter ------------------------
(* Values for the constants of FileSystemAdapter that a .cfg cannot write. *)
EXTENDS FileSystemAdapter

NoDelay == {0}
SomeDelay == {0, 1}
ShortTimeout == {1}

DlqPolicy ==
  [retry |-> ValidateRetryPolicy([limit |-> 2, backoff |-> "fixed",
                                  initial_delay_sec |-> 1, max_delay_sec |-> 1]),
   dlq_enabled |-> TRUE]
============================================================================
