----------------------------- MODULE MCSessions -----------------------------
(***************************************************************************)
(* Small instances of Sessions.                                            *)
(***************************************************************************)
EXTENDS Sessions

Server(p, root, command, kind) == [port |-> p, root |-> root, command |-> command, kind |-> kind]

\* Two servers of one project, and one the scan cannot attribute.
Servers == {Server(1, "app", "none", "dev"), Server(2, "app", "none", "dev"),
            Server(2, "none", "none", "dev")}

\* Servers of which a scan sees the port and nothing else.
Rootless == {Server(p, "none", "none", "dev") : p \in 1..2}
=============================================================================
