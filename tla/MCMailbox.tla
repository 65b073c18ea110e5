------------------------------ MODULE MCMailbox ------------------------------
(* Values for the constants of Mailbox that a .cfg cannot write. *)
EXTENDS Mailbox

\* Each of the four kinds beside another one.
SomeContents == {<<"dated", "undated">>, <<"malformed", "dated">>, <<"garbled", "undated">>}
=============================================================================
