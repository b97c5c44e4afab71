----------------------------- MODULE AcceptLoop -----------------------------
(***************************************************************************)
(* The daemon process: start-up, the accept loop with its connection       *)
(* permits, the role every connection is served under, and the ways out.   *)
(* What a served request does is ApprovalExec's subject.                   *)
(*                                                                         *)
(* main returns Ok(()) after every exit of the accept loop and Err from    *)
(* every failure of start-up; packaging/sysknife-daemon.service restarts   *)
(* the process on failure only.                                            *)
(***************************************************************************)
EXTENDS Integers, FiniteSets

CONSTANTS
    Conn,            \* Connections clients may make.
    MAX_CONNECTIONS,
    Token,           \* Tokens an operator may put into the token file.
    Empty, Absent,   \* An empty token, and a token file that is not there.
    Peers,           \* The sets of groups client processes may be in.
    TokenRole        \* SYSKNIFE_TOKEN_ROLE.

Observer == 0
Dev      == 1
Admin    == 2
Boot     == 3

ASSUME AcceptAssumption ==
    /\ MAX_CONNECTIONS \in Nat \ {0}
    /\ IsFiniteSet(Conn)
    /\ Empty # Absent /\ {Empty, Absent} \intersect Token = {}
    /\ TokenRole \in Observer .. Boot

VARIABLES
    proc,       \* "down", "up".
    exit,       \* The last exit status: "none", "success", "failure".
    listen,     \* The scheme of the listen URI: "unix" or "vsock".
    ready,      \* Does the configuration load and the storage backend answer?
    permits,    \* Free permits of the semaphore.
    conn,       \* conn[c]: "none", "backlog", "auth" (first frame awaited), "open".
    gone,       \* gone[c]: the client has closed its end.
    role,       \* role[c]: the role requests on c are served under.
    peer,       \* peer[c]: the groups of the process at the other end.
    presented,  \* presented[c]: the token of the auth frame, or Absent.
    stored,     \* The content of the token file.
    valid       \* valid[c]: what `stored` has been while c was connected.

acceptVars == <<proc, exit, listen, ready, permits, conn, gone, role, peer,
                presented, stored, valid>>

env == <<listen, ready, stored, valid>>

-----------------------------------------------------------------------------
(* auth.rs.                                                                *)

RoleForGroup(group) ==
    IF group = "sysknife-boot" THEN Boot
    ELSE IF group \in {"sysknife-admin", "wheel"} THEN Admin
    ELSE IF group = "sysknife-dev" THEN Dev
    ELSE Observer

HighestRole(groups) ==
    CHOOSE r \in Observer .. Boot :
        /\ r \in {Observer} \union {RoleForGroup(g) : g \in groups}
        /\ \A g \in groups : RoleForGroup(g) <= r

\* Mutant of TokenMatches: without the tests for empty tokens.
TokenEquals(token) == token = stored

TokenMatches(token) ==
    /\ token # Empty
    /\ stored \notin {Empty, Absent}
    /\ token = stored

-----------------------------------------------------------------------------
(* main.rs.                                                                *)

Live == {c \in Conn : conn[c] \in {"auth", "open"}}

Forget(c) ==
    /\ conn' = [conn EXCEPT ![c] = "none"]
    /\ gone' = [gone EXCEPT ![c] = FALSE]
    /\ role' = [role EXCEPT ![c] = Observer]
    /\ presented' = [presented EXCEPT ![c] = Absent]

AcceptInit ==
    /\ proc = "down" /\ exit = "none"
    /\ listen \in {"unix", "vsock"}
    /\ ready \in BOOLEAN
    /\ permits = MAX_CONNECTIONS
    /\ conn = [c \in Conn |-> "none"]
    /\ gone = [c \in Conn |-> FALSE]
    /\ role = [c \in Conn |-> Observer]
    /\ peer \in [Conn -> Peers]
    /\ presented = [c \in Conn |-> Absent]
    /\ stored \in Token \union {Empty, Absent}
    /\ valid = [c \in Conn |-> {stored}]

\* run up to the accept loop; the semaphore is new.  systemd starts the service
\* once, and again only after a failure.
StartDaemon ==
    /\ proc = "down" /\ exit # "success"
    /\ IF ready THEN proc' = "up" /\ exit' = "none"
                ELSE proc' = "down" /\ exit' = "failure"
    /\ permits' = MAX_CONNECTIONS
    /\ UNCHANGED <<conn, gone, role, peer, presented>> /\ UNCHANGED env

\* The operator starts a service that stopped.
Operator ==
    /\ proc = "down" /\ exit = "success"
    /\ exit' = "none"
    /\ UNCHANGED <<proc, permits, conn, gone, role, peer, presented>> /\ UNCHANGED env

\* The accept loop breaks, on ctrl_c or on a fatal accept error, or the process
\* is killed; every connection goes with it.
DaemonEnds(status) ==
    /\ proc = "up"
    /\ proc' = "down" /\ exit' = status
    /\ conn' = [c \in Conn |-> "none"]
    /\ gone' = [c \in Conn |-> FALSE]
    /\ role' = [c \in Conn |-> Observer]
    /\ presented' = [c \in Conn |-> Absent]
    /\ UNCHANGED <<permits, peer>> /\ UNCHANGED env

ShutDown == DaemonEnds("success")
Killed   == DaemonEnds("failure")

\* Anything but ConnectionAborted and ConnectionReset, EMFILE included.
FatalAcceptError == DaemonEnds("success")

\* connect_async: a client connects.  Its auth frame, over VSOCK, is AuthFrame's.
Connect(c) ==
    /\ proc = "up" /\ conn[c] = "none"
    /\ conn' = [conn EXCEPT ![c] = "backlog"]
    /\ valid' = [valid EXCEPT ![c] = {stored}]
    /\ UNCHANGED <<proc, exit, listen, ready, permits, gone, role, peer, presented, stored>>

\* The client closes its end, or dies; what it had sent can still be read.
PeerLeaves(c) ==
    /\ conn[c] # "none" /\ ~ gone[c]
    /\ gone' = [gone EXCEPT ![c] = TRUE]
    /\ UNCHANGED <<proc, exit, permits, conn, role, peer, presented>> /\ UNCHANGED env

\* ConnectionAborted or ConnectionReset: the loop goes on.
TransientAcceptError(c) ==
    /\ proc = "up" /\ conn[c] = "backlog"
    /\ Forget(c)
    /\ UNCHANGED <<proc, exit, permits, peer>> /\ UNCHANGED env

\* No permit: the stream is dropped.
RefuseConnection(c) ==
    /\ proc = "up" /\ conn[c] = "backlog"
    /\ permits = 0
    /\ Forget(c)
    /\ UNCHANGED <<proc, exit, permits, peer>> /\ UNCHANGED env

\* resolve_caller_role falls back to Observer when it cannot read the groups.
AcceptUnix(c) ==
    /\ proc = "up" /\ listen = "unix" /\ conn[c] = "backlog"
    /\ permits > 0
    /\ permits' = permits - 1
    /\ conn' = [conn EXCEPT ![c] = "open"]
    /\ \E r \in {Observer, HighestRole(peer[c])} : role' = [role EXCEPT ![c] = r]
    /\ UNCHANGED <<proc, exit, gone, peer, presented>> /\ UNCHANGED env

AcceptVsock(c) ==
    /\ proc = "up" /\ listen = "vsock" /\ conn[c] = "backlog"
    /\ permits > 0
    /\ permits' = permits - 1
    /\ conn' = [conn EXCEPT ![c] = "auth"]
    /\ UNCHANGED <<proc, exit, gone, role, peer, presented>> /\ UNCHANGED env

\* The connection task's last step: the handler has returned, drop(permit).
HandlerReturns(c) ==
    /\ Forget(c)
    /\ permits' = permits + 1

\* The first frame came in time; it holds a token, or is no auth frame (Absent).
AuthFrame(c, token) ==
    /\ conn[c] = "auth"
    /\ IF TokenMatches(token)
       THEN /\ conn' = [conn EXCEPT ![c] = "open"]
            /\ role' = [role EXCEPT ![c] = TokenRole]
            /\ presented' = [presented EXCEPT ![c] = token]
            /\ UNCHANGED <<permits, gone>>
       ELSE HandlerReturns(c)
    /\ UNCHANGED <<proc, exit, peer>> /\ UNCHANGED env

\* Mutant of AuthTimeout: recv without the timeout around it.
AuthWaits(c) == FALSE /\ conn[c] = "auth" /\ UNCHANGED acceptVars

\* VSOCK_AUTH_FRAME_TIMEOUT_SECS have passed, or the peer has gone.
AuthTimeout(c) ==
    /\ conn[c] = "auth"
    /\ HandlerReturns(c)
    /\ UNCHANGED <<proc, exit, peer>> /\ UNCHANGED env

\* Mutant of ConnectionEnds: dispatch_loop goes on after an Io error.
ErrorIgnored(c) ==
    /\ conn[c] = "open" /\ ~ gone[c]
    /\ HandlerReturns(c)
    /\ UNCHANGED <<proc, exit, peer>> /\ UNCHANGED env

\* A framing error, malformed JSON or the end of the stream ends dispatch_loop.
\* Nothing else does: neither recv nor write_all has a timeout.
ConnectionEnds(c) ==
    /\ conn[c] = "open"
    /\ HandlerReturns(c)
    /\ UNCHANGED <<proc, exit, peer>> /\ UNCHANGED env

\* The client has gone: recv and send fail.
EndOfStream(c) == gone[c] /\ ConnectionEnds(c)

\* A request is served under the connection's role (see DaemonEdge).
Serving(c) == conn[c] = "open"

-----------------------------------------------------------------------------
(* The environment.                                                        *)

\* The configuration is mended, the storage comes back or goes; main reads both
\* at start-up only.
ReadinessChanges ==
    /\ proc = "down"
    /\ ready' = ~ ready
    /\ UNCHANGED <<proc, exit, listen, permits, conn, gone, role, peer, presented,
                   stored, valid>>

TokenRotates ==
    /\ stored' \in (Token \union {Empty, Absent}) \ {stored}
    /\ valid' = [c \in Conn |-> IF conn[c] = "none" THEN {stored'}
                                ELSE valid[c] \union {stored'}]
    /\ UNCHANGED <<proc, exit, listen, ready, permits, conn, gone, role, peer, presented>>

LoopAnswers(c) ==
    \/ RefuseConnection(c)
    \/ AcceptUnix(c)
    \/ AcceptVsock(c)

AcceptStep ==
    \/ StartDaemon
    \/ Operator
    \/ ReadinessChanges
    \/ TokenRotates
    \/ \E c \in Conn :
          \/ Connect(c)
          \/ PeerLeaves(c)
          \/ TransientAcceptError(c)
          \/ LoopAnswers(c)
          \/ \E token \in Token \union {Empty, Absent} : AuthFrame(c, token)
          \/ AuthTimeout(c)
          \/ ConnectionEnds(c)

\* The loop is polled while the process lives, the timer fires, the kernel reports
\* the end of a stream, and systemd restarts a service that failed.  Clients owe
\* nothing: one that stays without a word, or without reading, may do so for ever.
AcceptFairness ==
    /\ WF_acceptVars(StartDaemon)
    /\ \A c \in Conn : /\ WF_acceptVars(LoopAnswers(c)) /\ WF_acceptVars(AuthTimeout(c))
                       /\ WF_acceptVars(EndOfStream(c))

-----------------------------------------------------------------------------
(* Properties.                                                             *)

AcceptTypeOK ==
    /\ proc \in {"down", "up"} /\ exit \in {"none", "success", "failure"}
    /\ listen \in {"unix", "vsock"} /\ ready \in BOOLEAN
    /\ permits \in 0 .. MAX_CONNECTIONS
    /\ conn \in [Conn -> {"none", "backlog", "auth", "open"}]
    /\ gone \in [Conn -> BOOLEAN]
    /\ role \in [Conn -> Observer .. Boot]
    /\ presented \in [Conn -> Token \union {Empty, Absent}]
    /\ stored \in Token \union {Empty, Absent}
    /\ valid \in [Conn -> SUBSET (Token \union {Empty, Absent})]

\* Permits are neither leaked nor made, however connections end: while the
\* daemon is up, every permit is free or held by one live handler, so no more
\* than MAX_CONNECTIONS handlers run (main.rs:14-19).
PermitsAreHandlers ==
    proc = "up" => permits + Cardinality(Live) = MAX_CONNECTIONS

\* A connection is served under a role its peer has earned: over the Unix
\* socket no more than the groups of the process give; over VSOCK the token's
\* role, and only after a real token that the file held while the connection
\* lasted, however the file changes meanwhile.
ServedAsGranted ==
    \A c \in Conn : conn[c] = "open" =>
        IF listen = "unix"
        THEN role[c] = Observer \/ \E g \in peer[c] : RoleForGroup(g) = role[c]
        ELSE /\ role[c] = TokenRole
             /\ presented[c] \in Token \intersect valid[c]

\* Who is inside holds a permit and a role it earned, and nobody else holds either.
AdmittedAsGranted == PermitsAreHandlers /\ ServedAsGranted

\* A permit comes back from a VSOCK peer that does not send its token, and from a
\* client that has gone.
PermitsReturn ==
    \A c \in Conn : /\ conn[c] = "auth" ~> conn[c] # "auth"
                   /\ conn[c] = "open" /\ gone[c] ~> conn[c] # "open"

\* A client in the backlog is accepted, turned away, or loses the daemon.
BacklogAnswered == \A c \in Conn : conn[c] = "backlog" ~> conn[c] # "backlog"

\* Being turned away is an answer, so the daemon may turn everybody away for ever;
\* but a house that stays full is full of accepted clients that stay.
ClosedByStayers ==
    <>[](proc = "up" /\ permits = 0)
        => <>[](\A c \in Live : conn[c] = "open" /\ ~ gone[c])

\* A start that failed is tried again until the configuration and the storage
\* allow it.
FailedStartIsRetried == <>[]ready => (exit = "failure" ~> proc = "up")

\* Nobody waits at the daemon's door without an answer, and neither a silent VSOCK
\* peer, nor a client that has gone, nor a failed start keeps it shut.
DoorOpens == PermitsReturn /\ BacklogAnswered /\ ClosedByStayers /\ FailedStartIsRetried
=============================================================================
