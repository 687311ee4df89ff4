----------------------------- MODULE MCServices -----------------------------
(***************************************************************************)
(* The small services side by side: they share no state, so a behaviour is *)
(* one of them alone.  Of the certificates one name moves in a behaviour,  *)
(* as orders for different names meet in no record: a site, which its      *)
(* handshakes and renewals order, or a domain, which its set-up and        *)
(* renewals order.  Handshakes of a domain only read its certificate into  *)
(* its entry of the cache, and are left to the site.                       *)
(***************************************************************************)
EXTENDS Sessions, Keys, Notifications, LdapPool, Certificates

VARIABLES
    part,   \* what the behaviour is about
    about   \* the name that moves, if that is certificates

smallVars == <<sessionsVars, keysVars, notificationsVars, ldapVars>>

ServicesInit ==
    /\ part \in {"sessions", "keys", "notifications", "ldap", "sites", "set-ups"}
    /\ about \in CASE part = "sites" -> Sites
                   [] part = "set-ups" -> PackageDomains
                   [] OTHER -> {None}
    /\ SessionsInit /\ KeysInit /\ NotificationsInit /\ LdapInit /\ CertificatesInit

SessionsPart ==
    /\ part = "sessions" /\ SessionsNext
    /\ UNCHANGED <<keysVars, notificationsVars, ldapVars, certificateVars, part, about>>

KeysPart ==
    /\ part = "keys" /\ KeysNext
    /\ UNCHANGED <<sessionsVars, notificationsVars, ldapVars, certificateVars, part, about>>

NotificationsPart ==
    /\ part = "notifications" /\ NotificationsNext
    /\ UNCHANGED <<sessionsVars, keysVars, ldapVars, certificateVars, part, about>>

LdapPart ==
    /\ part = "ldap" /\ LdapNext
    /\ UNCHANGED <<sessionsVars, keysVars, notificationsVars, certificateVars, part, about>>

SitesPart ==
    /\ part = "sites" /\ StepsAbout({about})
    /\ UNCHANGED <<smallVars, part, about>>

SetupsPart ==
    /\ part = "set-ups" /\ UNCHANGED <<cache, handshakes>> /\ StepsAbout({about})
    /\ UNCHANGED <<smallVars, part, about>>

ServicesNext ==
    \/ SessionsPart \/ KeysPart \/ NotificationsPart \/ LdapPart
    \/ SitesPart \/ SetupsPart

\* The fairness of LdapPool and Certificates.
ServicesFairness ==
    /\ \A p \in Logins : /\ WF_ldapVars(part = "ldap" /\ LoginStep(p))
                         /\ WF_ldapVars(part = "ldap" /\ Authenticate(p))
    /\ \A c \in Callers : WF_certificateVars(part \in {"sites", "set-ups"} /\ OrderStep(c))
    /\ \A c \in Setups :
           /\ WF_certificateVars(part = "set-ups" /\ SetupOrders(c))
           /\ WF_certificateVars(part = "set-ups" /\ SetupOrdered(c))
           /\ WF_certificateVars(part = "set-ups" /\ SetupResets(c))

ServicesSpec ==
    /\ ServicesInit
    /\ [][ServicesNext]_<<smallVars, certificateVars, part, about>>
    /\ ServicesFairness
=============================================================================
