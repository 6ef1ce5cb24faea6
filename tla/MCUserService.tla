--------------------------- MODULE MCUserService ----------------------------
(* Small instances of LocalRpc with the user service in detail, for TLC. *)
EXTENDS UserService, TLC

\* The admin, somebody else, and an id that agrees with the admin's in the low
\* bits.
MCUserIds == {AdminId, AdminId + 1, AdminId + IdSpan}
=============================================================================
