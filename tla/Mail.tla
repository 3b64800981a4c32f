--------------------------------- MODULE Mail ---------------------------------
(***************************************************************************)
(* The mail every account begins with, the only one the server ever writes *)
(* (load_starter_mail): on_read_mail and on_read_mail_batch deliver what   *)
(* is attached and mark the mail afterwards (handlers/mail).  It has no     *)
(* expiry, so on_get_all_mails only reads.                                 *)
(***************************************************************************)
EXTENDS Inventory

CONSTANT Attachment     \* user_mails.attachment

ASSUME MailAssumption ==
    /\ Attachment \in Bill
    /\ \A i \in DOMAIN Attachment : Kind[Attachment[i][1]] # "insight"

VARIABLES
    claimed,   \* user_mails.state = 1
    claims,    \* rows of user_mail_history
    deliveries    \* history: how often the attachment was given, or began to be

mailVars == <<claimed, claims, deliveries>>

MailInit ==
    /\ claimed = FALSE
    /\ claims = 0
    /\ deliveries = 0

-----------------------------------------------------------------------------
MailOrder == <<"item", "currency", "equip", "power", "hero">>

\* Both begin with the state of the mail; op is "readMail" for one mail, and
\* "listMails" for the mails not yet claimed.
AskMail(c, op) ==
    /\ Begin(c, Nothing, Total(Attachment), << Stmt(op, "mail", 0) >>)
    /\ UNCHANGED mailVars

\* Mutant of FindMail: one mail is read whatever its state.
FindMailAgain(c) ==
    /\ At(c, "readMail") \/ At(c, "listMails")
    /\ IF claimed /\ At(c, "listMails") THEN Return(c, "refused") /\ UNCHANGED mailVars
       ELSE /\ Proceed(c, Deliver(MailOrder, Attachment, "mailHero")
                          \o << Stmt("markMail", "mail", 0), Stmt("logMail", "mail", 0) >>)
            /\ deliveries' = deliveries + 1
            /\ UNCHANGED <<claimed, claims>>
    /\ UNCHANGED owned /\ Unrecorded

FindMail(c) ==
    /\ At(c, "readMail") \/ At(c, "listMails")
    /\ IF claimed THEN Return(c, "refused") /\ UNCHANGED mailVars
       ELSE /\ Proceed(c, Deliver(MailOrder, Attachment, "mailHero")
                          \o << Stmt("markMail", "mail", 0), Stmt("logMail", "mail", 0) >>)
            /\ deliveries' = deliveries + 1
            /\ UNCHANGED <<claimed, claims>>
    /\ UNCHANGED owned /\ Unrecorded

MarkMail(c) ==
    /\ At(c, "markMail")
    /\ claimed' = TRUE
    /\ Proceed(c, <<>>)
    /\ UNCHANGED <<owned, claims, deliveries>> /\ Unrecorded

LogMail(c) ==
    /\ At(c, "logMail")
    /\ claims' = claims + 1
    /\ Proceed(c, <<>>)
    /\ UNCHANGED <<owned, claimed, deliveries>> /\ Unrecorded

MailRequest(c) == AskMail(c, "readMail") \/ AskMail(c, "listMails")
MailStep(c) == FindMail(c) \/ MarkMail(c) \/ LogMail(c)
=============================================================================
