---------------------------- MODULE MCMailStore ----------------------------
(***************************************************************************)
(* Two bulletins of one board, of which the second one expires.            *)
(***************************************************************************)
EXTENDS MailStore

Mails == 1 .. 2
Places == [m \in Mails |-> "sat"]
Old == {2}
=============================================================================
