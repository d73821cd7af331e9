----------------------------- MODULE MCAclPayload -----------------------------
(***************************************************************************)
(* Entries of every principal, with and without a second id; what is read  *)
(* from anywhere but the start of an entry is MCGarbage.                   *)
(***************************************************************************)
EXTENDS AclPayload

En(principal, id, access) == [principal |-> principal, id |-> id, access |-> access]

MCAixcEntries == {En("user", 1, 32768 + 7), En("group", 1, 4), En("unknown", 0, 32768)}
MCNfs4Entries == {En("owner", 0, 1), En("group_owner", 0, 1), En("everyone", 0, 0),
                  En("user", 1, 1), En("group", 1, 1)}
MCGarbage == En("unknown", 9, 9)
=============================================================================
