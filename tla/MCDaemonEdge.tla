---------------------------- MODULE MCDaemonEdge ----------------------------
(***************************************************************************)
(* Two scenarios in one run, for their product is too large.  Without a    *)
(* forwarder, two clients compete for one permit while the configuration,  *)
(* the storage and the token file change.  With one, a single Unix client  *)
(* records two transactions, three events for a channel of one, with a     *)
(* threshold of one drop and a backoff capped after two doublings, and the *)
(* daemon stops and starts.                                                *)
(***************************************************************************)
EXTENDS DaemonEdge

CONSTANTS
    Client,   \* The client of the second scenario.
    Executed  \* The transactions of Tx that are executed.

MCPeers == {{"sysknife-dev", "users"}, {"users"}}
MCEvent == Tx \X {"preview"} \union Executed \X {"final"}

Quiet == listen = "unix" /\ ready /\ stored = Absent /\ exit # "failure"
            /\ \A c \in Conn : peer[c] = {"users"} /\ (c # Client => conn[c] = "none")

MCInit == Init /\ (forwarding => Quiet)
MCNext == Next /\ (forwarding => Quiet')

MCSpec == MCInit /\ [][MCNext]_vars /\ Fairness
=============================================================================
