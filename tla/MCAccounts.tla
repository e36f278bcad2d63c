------------------------------ MODULE MCAccounts ------------------------------
(* Small instances of the sessions of customers, of the administration of    *)
(* the cloud, and of the stand-in of the vendor's cloud that boxes and apps  *)
(* are paired with.  They share no state: one of them runs at a time.        *)
EXTENDS CustomerSessions, Administration, PairingService

VARIABLE focus      \* the module that runs

accountsVars == <<sessionVars, adminVars, pairingServiceVars, focus>>

Init ==
    /\ focus \in {"sessions", "administration", "groups", "meet", "relay", "licences"}
    /\ SessionInit /\ AdminInit /\ PairingServiceInit

Vendor(what, A) == focus = what /\ A /\ UNCHANGED <<sessionVars, adminVars, focus>>

Next ==
    \/ focus = "sessions" /\ SessionNext /\ UNCHANGED <<adminVars, pairingServiceVars, focus>>
    \/ focus = "administration" /\ AdminNext /\ UNCHANGED <<sessionVars, pairingServiceVars, focus>>
    \/ Vendor("groups", GroupNext \/ PersistNext) \/ Vendor("meet", MeetNext \/ PersistNext)
    \/ Vendor("relay", RelayNext \/ PersistNext) \/ Vendor("licences", LicenceNext \/ PersistNext)

Spec == Init /\ [][Next]_accountsVars

-----------------------------------------------------------------------------
\* Whatever lets a customer in works as often and as long as it should: links, invitations and
\* codes once, a revoked session and what came of a share no longer, restarts included
\* (CustomerSessions); and an app that was given the key of a group is never locked out, nor a
\* licence changed that is on file (PairingService).  The types come first.
AccessRight ==
    /\ SessionTypeOK /\ UsedOnce /\ AccessEnds
    /\ PairingServiceTypeOK /\ OneKeyEach /\ KeysKept /\ RelaySound /\ LicenceKept

\* The audit log tells an edit of its file and loses no entry but the last (Administration).
AuditTells == AdminTypeOK /\ AuditHonest
=============================================================================
