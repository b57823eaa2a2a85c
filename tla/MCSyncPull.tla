----------------------------- MODULE MCSyncPull -----------------------------
(***************************************************************************)
(* SyncPull with one account, and one device pulling while requests push.  *)
(***************************************************************************)
EXTENDS SyncPull

CONSTANTS u1, f1, d1, pg1, n1, r1, v1

MCClientTimes == {1, 4}
MCDeviceUser == [v \in Devices |-> u1]

=============================================================================
