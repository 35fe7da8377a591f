--------------------------- MODULE MCMailSources ---------------------------
(***************************************************************************)
(* The IMAP daemon, the Gmail push endpoint, the dead-letter queue, the    *)
(* initial synchronisation of a mailbox and the dashboard's Gmail account. *)
(* They share no state that the properties are about, so a behaviour moves *)
(* one of them and leaves the others as they started.                      *)
(***************************************************************************)
EXTENDS ImapDaemon, GmailPush, DeadLetterQueue, MailboxSync, GmailAccount

CONSTANT Parts
VARIABLE part

Init == part \in Parts /\ ImapInit /\ GmailInit /\ DlqInit /\ BoxInit /\ AccountInit

Next ==
  \/ part = "imap" /\ ImapNext /\ UNCHANGED <<part, gmailVars, dlqVars, boxVars, accountVars>>
  \/ part = "gmail" /\ GmailNext /\ UNCHANGED <<part, imapVars, dlqVars, boxVars, accountVars>>
  \/ part = "dlq" /\ DlqNext /\ UNCHANGED <<part, imapVars, gmailVars, boxVars, accountVars>>
  \/ part = "sync" /\ BoxNext /\ UNCHANGED <<part, imapVars, gmailVars, dlqVars, accountVars>>
  \/ part = "account" /\ AccountNext /\ UNCHANGED <<part, imapVars, gmailVars, dlqVars, boxVars>>

Spec ==
  /\ Init /\ [][Next]_<<part, imapVars, gmailVars, dlqVars, boxVars, accountVars>>
  /\ ImapFairness

\* A mailbox that was empty, and one that has grown.
MCListings == {<<>>, <<"m1">>, <<"m1", "m2">>}

\* Two daemons of one address (two tenants) and one of another; one of them
\* checks a token.
MCDaemons == << [name |-> "d1", addr |-> "a", token |-> "x"],
                [name |-> "d2", addr |-> "b", token |-> NoToken],
                [name |-> "d3", addr |-> "a", token |-> NoToken] >>
\* Two notifications that list the same message, and one with a wrong token.
MCNotes == [n1 |-> [addr |-> "a", token |-> "x", msgs |-> <<"m1", "m2">>],
            n2 |-> [addr |-> "a", token |-> "x", msgs |-> <<"m2">>],
            n3 |-> [addr |-> "b", token |-> "y", msgs |-> <<"m3">>]]

\* Two mailboxes, each with a token of its own.
TokenDaemons == << [name |-> "d1", addr |-> "a", token |-> "x"],
                   [name |-> "d2", addr |-> "b", token |-> "y"] >>
TokenNotes == [n1 |-> [addr |-> "b", token |-> "y", msgs |-> <<"m1">>]]

MCOwner == [l \in 1..MaxLetters |-> IF l \in {1, 3} THEN "t1" ELSE "t2"]
=============================================================================
