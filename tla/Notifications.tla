--------------------------- MODULE Notifications ----------------------------
(***************************************************************************)
(* The notification service on BoltDB (services/notification/bolt:         *)
(* service.go, cleanup.go): e-mail that is marked as sent before it is     *)
(* sent, unmarked when sending fails, and forgotten after 21 days; and the *)
(* addresses that want none, which the handler of a forgotten password     *)
(* (server/feapi_user.go) asks for before it sends.                        *)
(*                                                                         *)
(* The id of a message contains the time of the call (service.go:76): no   *)
(* two calls have the same, so a call stands for its id.                   *)
(***************************************************************************)
EXTENDS Naturals

CONSTANTS
    Calls,          \* calls of SendEmail with CheckSent
    Recipients,
    MarkDays,       \* 21 days
    LastDay         \* bound of the clock

ASSUME NotificationsAssumption == MarkDays \in Nat /\ LastDay \in Nat

VARIABLES
    marks,          \* bucket Email_Message_IDs: call -> day its mark expires, or NoMark
    optOuts,        \* bucket of the addresses that opted out
    sending,        \* call -> where it is
    mail,           \* history: the calls whose message went out
    crashed,        \* history: the calls the process stopped in
    resetMail,      \* address -> where the handler of a forgotten password is
    day

notificationsVars == <<marks, optOuts, sending, mail, crashed, resetMail, day>>
sendVars == <<marks, sending, mail, crashed>>

NoMark == LastDay + MarkDays + 1

NotificationsInit ==
    /\ marks = [c \in Calls |-> NoMark]
    /\ optOuts = {}
    /\ sending = [c \in Calls |-> "new"]
    /\ mail = {}
    /\ crashed = {}
    /\ resetMail = [a \in Recipients |-> "none"]
    /\ day = 0

Marked(c) == marks[c] # NoMark

----------------------------------------------------------------------------
\* SendEmail: the transaction that marks, the message, and on an error the
\* transaction that takes the mark away.
MarkSent(c) ==
    /\ sending[c] = "new"
    /\ ~Marked(c)
    /\ marks' = [marks EXCEPT ![c] = day + MarkDays]
    /\ sending' = [sending EXCEPT ![c] = "marked"]
    /\ UNCHANGED <<optOuts, mail, crashed, resetMail, day>>

DialAndSend(c) ==
    /\ sending[c] = "marked"
    /\ \/ /\ sending' = [sending EXCEPT ![c] = "done"]
          /\ mail' = mail \cup {c}
       \/ /\ sending' = [sending EXCEPT ![c] = "failed"]
          /\ UNCHANGED mail
    /\ UNCHANGED <<marks, optOuts, crashed, resetMail, day>>

\* Mutant: the mark stays when sending fails.
UnmarkSentNot(c) ==
    /\ sending[c] = "failed"
    /\ sending' = [sending EXCEPT ![c] = "done"]
    /\ UNCHANGED <<marks, optOuts, mail, crashed, resetMail, day>>

UnmarkSent(c) ==
    /\ sending[c] = "failed"
    /\ marks' = [marks EXCEPT ![c] = NoMark]
    /\ sending' = [sending EXCEPT ![c] = "done"]
    /\ UNCHANGED <<optOuts, mail, crashed, resetMail, day>>

\* The process stops: calls and goroutines end where they are.
NotificationsCrash ==
    /\ crashed' = crashed \cup {c \in Calls : sending[c] \in {"marked", "failed"}}
    /\ sending' = [c \in Calls |-> IF sending[c] = "new" THEN "new" ELSE "done"]
    /\ resetMail' = [a \in Recipients |-> "none"]
    /\ UNCHANGED <<marks, optOuts, mail, day>>

----------------------------------------------------------------------------
OptOutEmail(a) ==
    /\ optOuts' = optOuts \cup {a}
    /\ UNCHANGED <<sendVars, resetMail, day>>

RemoveOptedOutEmail(a) ==
    /\ optOuts' = optOuts \ {a}
    /\ UNCHANGED <<sendVars, resetMail, day>>

\* passwordResetTokenFEAPIHandler: IsEmailOptedOut, then a goroutine that sends
\* without asking again.
AskOptedOut(a) ==
    /\ resetMail[a] = "none"
    /\ a \notin optOuts
    /\ resetMail' = [resetMail EXCEPT ![a] = "allowed"]
    /\ UNCHANGED <<sendVars, optOuts, day>>

SendResetMail(a) ==
    /\ resetMail[a] = "allowed"
    /\ resetMail' = [resetMail EXCEPT ![a] = "none"]
    /\ UNCHANGED <<sendVars, optOuts, day>>

\* cleanup
CleanMarks ==
    /\ \E c \in Calls : Marked(c) /\ day > marks[c]
    /\ marks' = [c \in Calls |-> IF day > marks[c] THEN NoMark ELSE marks[c]]
    /\ UNCHANGED <<optOuts, sending, mail, crashed, resetMail, day>>

DayPasses ==
    /\ day < LastDay
    /\ day' = day + 1
    /\ UNCHANGED <<sendVars, optOuts, resetMail>>

NotificationsNext ==
    \/ \E c \in Calls : MarkSent(c) \/ DialAndSend(c) \/ UnmarkSent(c)
    \/ NotificationsCrash
    \/ \E a \in Recipients : OptOutEmail(a) \/ RemoveOptedOutEmail(a)
    \/ \E a \in Recipients : AskOptedOut(a) \/ SendResetMail(a)
    \/ CleanMarks
    \/ DayPasses

NotificationsSpec == NotificationsInit /\ [][NotificationsNext]_notificationsVars

----------------------------------------------------------------------------
(***************************************************************************)
(* Properties                                                              *)
(***************************************************************************)

(***************************************************************************)
(* A mark tells the truth: its message went out, or is on its way, or the  *)
(* process stopped in between; a failed message can be sent again, and     *)
(* what was sent stays marked for the whole of its 21 days.                *)
(***************************************************************************)
MarksTellTheTruth ==
    \A c \in Calls :
        /\ Marked(c) => c \in mail \cup crashed \/ sending[c] \in {"marked", "failed"}
        /\ c \in mail /\ ~Marked(c) => day > MarkDays
=============================================================================
