---------------------------- MODULE MCForwarding ----------------------------
(* Small instances of Forwarding for TLC. *)
EXTENDS Forwarding, MCGovernance

\* One request of each kind that takes a path of its own: a creation, a body
\* that throws, a read, an event, and a call of the user service.
Op(op, kind, id, event, body) ==
    [op |-> op, kind |-> kind, id |-> id, event |-> event, body |-> body]
MCOperations ==
    {Op("create", "task", 0, "created", "good"), Op("create", "task", 0, "created", "throws"),
     Op("get", "task", 1, "created", "good"), Op("event", "task", 1, "event", "good"),
     Op("login", "user", 0, "created", "good")}
=============================================================================
