---------------------------- MODULE MCAppServer ----------------------------
(* An instance of AppServer for TLC. *)
EXTENDS AppServer, TLC

CONSTANT shell

\* The one tool needs approval.
MCPolicy == [default |-> "deny", tools |-> (shell :> "ask")]
MCParent == <<>>
=============================================================================
