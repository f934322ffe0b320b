-------------------------- MODULE MCAuthorization --------------------------
(***************************************************************************)
(* Small instances of Authorization: one connector, a driver's identifier, *)
(* and one of kind NoAuthorization, which a free bay presents.             *)
(***************************************************************************)
EXTENDS Authorization

OneEvse == [c \in Connectors |-> CHOOSE v \in Evses : TRUE]

Plain(types) == {[type |-> t] : t \in types}

\* A driver comes and goes, cards and a contract are presented, the CSMS starts
\* sessions remotely, and an operator frees the connector at any time.
VisitEvents ==
    Plain({"CableConnected", "LockConfirmed", "SetAvailable"})
    \cup [type : {"IdTokenPresented"}, token : IdTokens]
    \cup {[type |-> "ContractCertificatePresented", token |-> "alice"],
          [type |-> "RemoteStartRequested", token |-> "alice",
           remoteStartId |-> 7]}

NoStationEvents == {}

\* A held start is authorized anew, unless its identifier is exempt: both ways
\* from a hold to a session are taken.
VisitPolicies == {[DefaultPolicy EXCEPT !.authorizeRemoteStart = TRUE]}

Setting ==
    [localAuthorizeOffline |-> TRUE, unknownIdOffline |-> FALSE,
     disableRemote |-> FALSE, cacheEnabled |-> TRUE, lifeTime |-> 1]

SomeSwitches == {Setting, [Setting EXCEPT !.disableRemote = TRUE]}

Empty == [t \in IdTokens |-> None]

SomeLists == {Empty, [Empty EXCEPT !["alice"] = "Accepted"]}

=============================================================================
