--------------------------- MODULE DaemonEdgeProofs ---------------------------
(***************************************************************************)
(* The daemon's two ends, for any number of connections, permits, tokens   *)
(* and events: who is let in, under which role, and when an outage of the  *)
(* SIEM is announced.                                                      *)
(***************************************************************************)
EXTENDS DaemonEdge, FiniteSetTheorems, TLAPS

-----------------------------------------------------------------------------
(* The accept loop.                                                        *)

\* A connection awaits its first frame on VSOCK only; a daemon that is down has no
\* connection; the token file's content is among what it has been.
DoorInv ==
    /\ \A c \in Conn : conn[c] = "auth" => listen = "vsock"
    /\ proc = "down" => Live = {}
    /\ \A c \in Conn : stored \in valid[c]

AcceptInv == AcceptTypeOK /\ DoorInv /\ PermitsAreHandlers /\ ServedAsGranted

\* The role of the highest group is one of the roles of the groups.
LEMMA HighestRoleEarned ==
    ASSUME NEW groups
    PROVE  /\ HighestRole(groups) \in Observer .. Boot
           /\ \/ HighestRole(groups) = Observer
              \/ \E g \in groups : RoleForGroup(g) = HighestRole(groups)
  <1> DEFINE Highest(r) ==
          /\ r \in {Observer} \union {RoleForGroup(g) : g \in groups}
          /\ \A g \in groups : RoleForGroup(g) <= r
  <1>1. \A g \in groups : RoleForGroup(g) \in {0, 1, 2, 3}
    BY DEF RoleForGroup, Observer, Dev, Admin, Boot
  <1>2. \E r \in Observer .. Boot : Highest(r)
    <2>1. CASE \E g \in groups : RoleForGroup(g) = 3
      BY <1>1, <2>1 DEF Observer, Boot
    <2>2. CASE (\A g \in groups : RoleForGroup(g) # 3) /\ \E g \in groups : RoleForGroup(g) = 2
      BY <1>1, <2>2 DEF Observer, Boot
    <2>3. CASE /\ \A g \in groups : RoleForGroup(g) \notin {2, 3}
               /\ \E g \in groups : RoleForGroup(g) = 1
      BY <1>1, <2>3 DEF Observer, Boot
    <2>4. CASE \A g \in groups : RoleForGroup(g) = 0
      BY <2>4 DEF Observer, Boot
    <2> QED BY <1>1, <2>1, <2>2, <2>3, <2>4
  <1>3. HighestRole(groups) \in Observer .. Boot /\ Highest(HighestRole(groups))
    <2> HIDE DEF Highest
    <2>1. HighestRole(groups) = CHOOSE r \in Observer .. Boot : Highest(r)
      BY DEF HighestRole, Highest
    <2> QED BY <1>2, <2>1
  <1> QED BY <1>3

\* A handler more or less is one permit less or more.
LEMMA LiveCounts ==
    ASSUME NEW c \in Conn
    PROVE  /\ IsFiniteSet(Live) /\ Cardinality(Live) \in Nat
           /\ c \notin Live => Cardinality(Live \union {c}) = Cardinality(Live) + 1
           /\ c \in Live => /\ Cardinality(Live \ {c}) = Cardinality(Live) - 1
                           /\ Cardinality(Live) >= 1
  <1>1. Live \in SUBSET Conn
    BY DEF Live
  <1>2. IsFiniteSet(Live)
    BY <1>1, FS_Subset, AcceptAssumption
  <1>3. c \in Live => Cardinality(Live) # 0
    BY <1>2, FS_EmptySet
  <1>4. Cardinality(Live) \in Nat
    BY <1>2, FS_CardinalityType
  <1>5. c \in Live => Cardinality(Live \ {c}) = Cardinality(Live) - 1
    BY <1>2, FS_RemoveElement
  <1>6. c \notin Live => Cardinality(Live \union {c}) = Cardinality(Live) + 1
    BY <1>2, FS_AddElement
  <1> QED BY <1>2, <1>3, <1>4, <1>5, <1>6

\* The daemon starts with all permits and no connection.
LEMMA AcceptInitInv == AcceptInit => AcceptInv
  BY AcceptAssumption, FS_EmptySet
     DEF AcceptInit, AcceptInv, AcceptTypeOK, DoorInv, PermitsAreHandlers, ServedAsGranted,
         Live, Observer, Boot

LEMMA StartDaemonAdmits ==
    ASSUME AcceptInv, StartDaemon
    PROVE  AcceptInv'
  <1> USE AcceptAssumption
      DEF AcceptInv, AcceptTypeOK, StartDaemon, env, Forget, Observer, Boot
  <1>1. Live' = Live
    BY DEF Live, DoorInv
  <1>2. AcceptTypeOK'
    OBVIOUS
  <1>3. DoorInv'
    BY <1>1 DEF DoorInv
  <1>4. PermitsAreHandlers'
    BY <1>1, FS_EmptySet DEF PermitsAreHandlers, DoorInv
  <1>5. ServedAsGranted'
    BY DEF ServedAsGranted, DoorInv
  <1> QED BY <1>2, <1>3, <1>4, <1>5

LEMMA OperatorAdmits ==
    ASSUME AcceptInv, Operator
    PROVE  AcceptInv'
  <1> USE AcceptAssumption
      DEF AcceptInv, AcceptTypeOK, Operator, env, Forget, Observer, Boot
  <1>1. Live' = Live
    BY DEF Live, DoorInv
  <1>2. AcceptTypeOK'
    OBVIOUS
  <1>3. DoorInv'
    BY <1>1 DEF DoorInv
  <1>4. PermitsAreHandlers'
    BY <1>1 DEF PermitsAreHandlers, DoorInv
  <1>5. ServedAsGranted'
    BY DEF ServedAsGranted, DoorInv
  <1> QED BY <1>2, <1>3, <1>4, <1>5

LEMMA ReadinessChangesAdmits ==
    ASSUME AcceptInv, ReadinessChanges
    PROVE  AcceptInv'
  <1> USE AcceptAssumption
      DEF AcceptInv, AcceptTypeOK, ReadinessChanges, env, Forget, Observer, Boot
  <1>1. Live' = Live
    BY DEF Live, DoorInv
  <1>2. AcceptTypeOK'
    OBVIOUS
  <1>3. DoorInv'
    BY <1>1 DEF DoorInv
  <1>4. PermitsAreHandlers'
    BY <1>1 DEF PermitsAreHandlers, DoorInv
  <1>5. ServedAsGranted'
    BY DEF ServedAsGranted, DoorInv
  <1> QED BY <1>2, <1>3, <1>4, <1>5

LEMMA TokenRotatesAdmits ==
    ASSUME AcceptInv, TokenRotates
    PROVE  AcceptInv'
  <1> USE AcceptAssumption
      DEF AcceptInv, AcceptTypeOK, TokenRotates, env, Forget, Observer, Boot
  <1>1. Live' = Live
    BY DEF Live, DoorInv
  <1>2. AcceptTypeOK'
    OBVIOUS
  <1>3. DoorInv'
    BY <1>1 DEF DoorInv
  <1>4. PermitsAreHandlers'
    BY <1>1 DEF PermitsAreHandlers, DoorInv
  <1>5. ServedAsGranted'
    BY DEF ServedAsGranted, DoorInv
  <1> QED BY <1>2, <1>3, <1>4, <1>5

LEMMA DaemonEndsAdmits ==
    ASSUME AcceptInv, NEW status \in {"success", "failure"}, DaemonEnds(status)
    PROVE  AcceptInv'
  <1> USE AcceptAssumption
      DEF AcceptInv, AcceptTypeOK, DaemonEnds, env, Forget, Observer, Boot
  <1>1. Live' = {}
    BY DEF Live
  <1>2. AcceptTypeOK'
    OBVIOUS
  <1>3. DoorInv'
    BY <1>1 DEF DoorInv
  <1>4. PermitsAreHandlers'
    BY <1>1, FS_EmptySet DEF PermitsAreHandlers, DoorInv
  <1>5. ServedAsGranted'
    BY DEF ServedAsGranted, DoorInv
  <1> QED BY <1>2, <1>3, <1>4, <1>5

LEMMA ConnectAdmits ==
    ASSUME AcceptInv, NEW c \in Conn, Connect(c)
    PROVE  AcceptInv'
  <1> USE AcceptAssumption DEF AcceptInv, AcceptTypeOK, Connect, env, Forget, Observer, Boot
  <1>1. Live' = Live
    BY DEF Live, DoorInv
  <1>2. AcceptTypeOK'
    OBVIOUS
  <1>3. DoorInv'
    BY <1>1 DEF DoorInv
  <1>4. PermitsAreHandlers'
    BY <1>1 DEF PermitsAreHandlers, DoorInv
  <1>5. ServedAsGranted'
    BY DEF ServedAsGranted, DoorInv
  <1> QED BY <1>2, <1>3, <1>4, <1>5

LEMMA PeerLeavesAdmits ==
    ASSUME AcceptInv, NEW c \in Conn, PeerLeaves(c)
    PROVE  AcceptInv'
  <1> USE AcceptAssumption DEF AcceptInv, AcceptTypeOK, PeerLeaves, env, Observer, Boot
  <1>1. Live' = Live
    BY DEF Live, DoorInv
  <1>2. AcceptTypeOK'
    OBVIOUS
  <1>3. DoorInv'
    BY <1>1 DEF DoorInv
  <1>4. PermitsAreHandlers'
    BY <1>1 DEF PermitsAreHandlers, DoorInv
  <1>5. ServedAsGranted'
    BY DEF ServedAsGranted, DoorInv
  <1> QED BY <1>2, <1>3, <1>4, <1>5

LEMMA TransientAcceptErrorAdmits ==
    ASSUME AcceptInv, NEW c \in Conn, TransientAcceptError(c)
    PROVE  AcceptInv'
  <1> USE AcceptAssumption
      DEF AcceptInv, AcceptTypeOK, TransientAcceptError, env, Forget, Observer, Boot
  <1>1. Live' = Live
    BY DEF Live, DoorInv
  <1>2. AcceptTypeOK'
    OBVIOUS
  <1>3. DoorInv'
    BY <1>1 DEF DoorInv
  <1>4. PermitsAreHandlers'
    BY <1>1 DEF PermitsAreHandlers, DoorInv
  <1>5. ServedAsGranted'
    BY DEF ServedAsGranted, DoorInv
  <1> QED BY <1>2, <1>3, <1>4, <1>5

LEMMA RefuseConnectionAdmits ==
    ASSUME AcceptInv, NEW c \in Conn, RefuseConnection(c)
    PROVE  AcceptInv'
  <1> USE AcceptAssumption
      DEF AcceptInv, AcceptTypeOK, RefuseConnection, env, Forget, Observer, Boot
  <1>1. Live' = Live
    BY DEF Live, DoorInv
  <1>2. AcceptTypeOK'
    OBVIOUS
  <1>3. DoorInv'
    BY <1>1 DEF DoorInv
  <1>4. PermitsAreHandlers'
    BY <1>1 DEF PermitsAreHandlers, DoorInv
  <1>5. ServedAsGranted'
    BY DEF ServedAsGranted, DoorInv
  <1> QED BY <1>2, <1>3, <1>4, <1>5

LEMMA AcceptUnixAdmits ==
    ASSUME AcceptInv, NEW c \in Conn, AcceptUnix(c)
    PROVE  AcceptInv'
  <1> USE AcceptAssumption
      DEF AcceptInv, AcceptTypeOK, AcceptUnix, env, Forget, Observer, Boot
  <1>1. c \notin Live /\ Live' = Live \union {c}
    BY DEF Live
  <1>2. AcceptTypeOK'
    BY <1>1, LiveCounts, HighestRoleEarned DEF PermitsAreHandlers, DoorInv
  <1>3. DoorInv'
    BY <1>1 DEF DoorInv
  <1>4. PermitsAreHandlers'
    BY <1>1, LiveCounts DEF PermitsAreHandlers, DoorInv
  <1>5. ServedAsGranted'
    BY HighestRoleEarned DEF ServedAsGranted, DoorInv
  <1> QED BY <1>2, <1>3, <1>4, <1>5

LEMMA AcceptVsockAdmits ==
    ASSUME AcceptInv, NEW c \in Conn, AcceptVsock(c)
    PROVE  AcceptInv'
  <1> USE AcceptAssumption
      DEF AcceptInv, AcceptTypeOK, AcceptVsock, env, Forget, Observer, Boot
  <1>1. c \notin Live /\ Live' = Live \union {c}
    BY DEF Live
  <1>2. AcceptTypeOK'
    BY <1>1, LiveCounts DEF PermitsAreHandlers, DoorInv
  <1>3. DoorInv'
    BY <1>1 DEF DoorInv
  <1>4. PermitsAreHandlers'
    BY <1>1, LiveCounts DEF PermitsAreHandlers, DoorInv
  <1>5. ServedAsGranted'
    BY DEF ServedAsGranted, DoorInv
  <1> QED BY <1>2, <1>3, <1>4, <1>5

LEMMA AuthFrameAdmits ==
    ASSUME AcceptInv, NEW c \in Conn, NEW token \in Token \union {Empty, Absent},
           AuthFrame(c, token)
    PROVE  AcceptInv'
  <1> USE AcceptAssumption
      DEF AcceptInv, AcceptTypeOK, AuthFrame, env, Forget, Observer, Boot, HandlerReturns
  <1>1. c \in Live /\ Live' = IF TokenMatches(token) THEN Live ELSE Live \ {c}
    BY DEF Live
  <1>2. AcceptTypeOK'
    <2>1. permits + 1 \in 0 .. MAX_CONNECTIONS
      <3>1. Cardinality(Live) \in Nat /\ Cardinality(Live) >= 1
        BY <1>1, LiveCounts
      <3>2. permits + Cardinality(Live) = MAX_CONNECTIONS
        BY <1>1 DEF PermitsAreHandlers, DoorInv
      <3> QED BY <3>1, <3>2
    <2>2. CASE TokenMatches(token)
      BY <2>2
    <2>3. CASE ~ TokenMatches(token)
      <3>1. /\ permits' = permits + 1 /\ conn' = [conn EXCEPT ![c] = "none"]
            /\ gone' = [gone EXCEPT ![c] = FALSE] /\ role' = [role EXCEPT ![c] = Observer]
            /\ presented' = [presented EXCEPT ![c] = Absent]
            /\ UNCHANGED <<proc, exit, peer, listen, ready, stored, valid>>
        BY <2>3
      <3> QED BY <2>1, <3>1
    <2> QED BY <2>2, <2>3
  <1>3. DoorInv'
    BY <1>1 DEF DoorInv
  <1>4. PermitsAreHandlers'
    BY <1>1, LiveCounts DEF PermitsAreHandlers, DoorInv
  <1>5. ServedAsGranted'
    BY DEF ServedAsGranted, DoorInv, TokenMatches
  <1> QED BY <1>2, <1>3, <1>4, <1>5

LEMMA AuthTimeoutAdmits ==
    ASSUME AcceptInv, NEW c \in Conn, AuthTimeout(c)
    PROVE  AcceptInv'
  <1> USE AcceptAssumption
      DEF AcceptInv, AcceptTypeOK, AuthTimeout, env, Forget, Observer, Boot,
          HandlerReturns
  <1>1. c \in Live /\ Live' = Live \ {c}
    BY DEF Live
  <1>2. AcceptTypeOK'
    <2>1. permits + 1 \in 0 .. MAX_CONNECTIONS
      <3>1. Cardinality(Live) \in Nat /\ Cardinality(Live) >= 1
        BY <1>1, LiveCounts
      <3>2. permits + Cardinality(Live) = MAX_CONNECTIONS
        BY <1>1 DEF PermitsAreHandlers, DoorInv
      <3> QED BY <3>1, <3>2
    <2> QED BY <2>1
  <1>3. DoorInv'
    BY <1>1 DEF DoorInv
  <1>4. PermitsAreHandlers'
    BY <1>1, LiveCounts DEF PermitsAreHandlers, DoorInv
  <1>5. ServedAsGranted'
    BY DEF ServedAsGranted, DoorInv
  <1> QED BY <1>2, <1>3, <1>4, <1>5

LEMMA ConnectionEndsAdmits ==
    ASSUME AcceptInv, NEW c \in Conn, ConnectionEnds(c)
    PROVE  AcceptInv'
  <1> USE AcceptAssumption
      DEF AcceptInv, AcceptTypeOK, ConnectionEnds, env, Forget, Observer, Boot,
          HandlerReturns
  <1>1. c \in Live /\ Live' = Live \ {c}
    BY DEF Live
  <1>2. AcceptTypeOK'
    <2>1. permits + 1 \in 0 .. MAX_CONNECTIONS
      <3>1. Cardinality(Live) \in Nat /\ Cardinality(Live) >= 1
        BY <1>1, LiveCounts
      <3>2. permits + Cardinality(Live) = MAX_CONNECTIONS
        BY <1>1 DEF PermitsAreHandlers, DoorInv
      <3> QED BY <3>1, <3>2
    <2> QED BY <2>1
  <1>3. DoorInv'
    BY <1>1 DEF DoorInv
  <1>4. PermitsAreHandlers'
    BY <1>1, LiveCounts DEF PermitsAreHandlers, DoorInv
  <1>5. ServedAsGranted'
    BY DEF ServedAsGranted, DoorInv
  <1> QED BY <1>2, <1>3, <1>4, <1>5

\* Every step of the process, of a connection and of the environment keeps it.
LEMMA AcceptStepAdmits ==
    ASSUME AcceptInv, [Next]_vars PROVE AcceptInv'
  <1>1. CASE UNCHANGED acceptVars
    BY <1>1 DEF acceptVars, AcceptInv, AcceptTypeOK, DoorInv, PermitsAreHandlers, ServedAsGranted,
       Live
  <1>2. CASE AcceptStep
    BY <1>2, StartDaemonAdmits, OperatorAdmits, ReadinessChangesAdmits, TokenRotatesAdmits,
       ConnectAdmits, PeerLeavesAdmits, TransientAcceptErrorAdmits, RefuseConnectionAdmits,
       AcceptUnixAdmits, AcceptVsockAdmits, AuthFrameAdmits, AuthTimeoutAdmits,
       ConnectionEndsAdmits
       DEF AcceptStep, LoopAnswers
  <1>3. CASE ProcessEnds
    BY <1>3, DaemonEndsAdmits DEF ProcessEnds, ShutDown, Killed, FatalAcceptError
  <1>4. CASE UNCHANGED vars
    BY <1>1, <1>4 DEF vars
  <1> QED BY <1>1, <1>2, <1>3, <1>4
          DEF Next, Step, PreviewRecorded, FinalStatusRecorded, ForwarderPolled, TaskPolled

\* main.rs and auth.rs: however connections end and the token file changes, permits
\* and handlers stay in step and nobody is served under a role it did not earn.
THEOREM EdgeAdmitsAsGranted == Spec => []AdmittedAsGranted
  <1>1. Init => AcceptInv
    BY AcceptInitInv DEF Init
  <1>2. AcceptInv => AdmittedAsGranted
    BY DEF AcceptInv, AdmittedAsGranted
  <1> QED BY <1>1, <1>2, AcceptStepAdmits, PTL DEF Spec

-----------------------------------------------------------------------------
(* The forwarder's warnings.                                               *)

\* The warnings of an outage are no more than the times the counter may have reached
\* the threshold: once, and once for each reset that came late.
WarnInv ==
    /\ drops \in Nat /\ streak \in Nat /\ warned \in Nat /\ late \in Nat
    /\ DOMAIN task = Event
    /\ streak = 0 => warned = 0
    /\ warned <= late + (IF drops >= DROP_WARN_THRESHOLD THEN 1 ELSE 0)
    /\ drops >= DROP_WARN_THRESHOLD /\ ~ ResetPending => warned >= 1

LEMMA WarnInitInv == ForwardInit => WarnInv
  BY ForwardAssumption DEF ForwardInit, WarnInv, ResetPending

\* Between a success and its reset the counter may say anything; the reset that
\* comes ends that.
LEMMA WarnStep == ASSUME WarnInv, [Next]_vars PROVE WarnInv'
  <1> USE ForwardAssumption DEF WarnInv, ResetPending, ghosts, sender
  <1>1. ASSUME NEW e \in Event, SpawnTask(e), UNCHANGED <<drops, ghosts>> PROVE WarnInv'
    BY <1>1 DEF SpawnTask
  <1>2. ASSUME NEW e \in Event, FetchFails(e) PROVE WarnInv'
    BY <1>2 DEF FetchFails
  <1>3. ASSUME NEW e \in Event, SubmitOk(e) PROVE WarnInv'
    BY <1>3 DEF SubmitOk
  <1>4. ASSUME NEW e \in Event, ResetDrops(e) PROVE WarnInv'
    BY <1>4 DEF ResetDrops
  <1>5. ASSUME NEW e \in Event, SubmitFull(e) PROVE WarnInv'
    BY <1>5 DEF SubmitFull, WarnAt
  <1>6. CASE ForwarderStep
    BY <1>6 DEF ForwarderStep, Recv, SendOk, SendFails, Reopen, ReopenFails, WakeUp
  <1>7. CASE ForwarderEnds
    BY <1>7 DEF ForwarderEnds
  <1>8. CASE UNCHANGED forwardVars
    BY <1>8 DEF forwardVars
  <1> HIDE DEF WarnInv
  <1> QED BY <1>1, <1>2, <1>3, <1>4, <1>5, <1>6, <1>7, <1>8, EdgeAssumption
          DEF Next, Step, vars, ProcessEnds, PreviewRecorded, FinalStatusRecorded, SpawnedOnly,
              ForwarderPolled, TaskPolled, TaskStep

\* audit_forward.rs:50-52, submit: whatever tasks come between a try_send and the
\* reset of the counter, an outage is announced, and once.
THEOREM OutagesAnnounced == Spec => []WarningsTellOutages
  <1>1. Init => WarnInv
    BY WarnInitInv DEF Init
  <1>2. WarnInv => WarningsTellOutages
    BY DEF WarnInv, WarningsTellOutages
  <1> QED BY <1>1, <1>2, WarnStep, PTL DEF Spec

-----------------------------------------------------------------------------
(* The forwarder's waits.                                                  *)

\* While the task sleeps the wait is already doubled once more than the backoff.
WaitInv ==
    /\ fwd \in {"recv", "send", "reopen", "sleep"}
    /\ uncapped \in Nat \ {0}
    /\ fwd = "sleep" => \E due \in Nat \ {0} : uncapped = 2 * due
    /\ BackoffTracksOutage

\* Capping a doubled wait that was capped before is capping the doubled wait.
LEMMA WaitStep == ASSUME WaitInv, [Next]_vars PROVE WaitInv'
  <1> USE ForwardAssumption DEF WaitInv, BackoffTracksOutage
  <1>1. CASE UNCHANGED <<fwd, uncapped, backoff>>
    BY <1>1
  <1>2. CASE ReopenFails
    BY <1>2 DEF ReopenFails
  <1>3. CASE WakeUp
    BY <1>3 DEF WakeUp, next_backoff_secs
  <1>4. CASE Recv \/ SendOk \/ SendFails \/ Reopen
    BY <1>4 DEF Recv, SendOk, SendFails, Reopen, Reopened, sender
  <1>5. CASE ForwarderEnds
    BY <1>5 DEF ForwarderEnds
  <1>6. ASSUME NEW e \in Event, TaskStep(e) PROVE UNCHANGED <<fwd, uncapped, backoff>>
    BY <1>6 DEF TaskStep, FetchFails, SubmitOk, ResetDrops, SubmitFull, sender
  <1>7. CASE UNCHANGED forwardVars
    BY <1>1, <1>7 DEF forwardVars
  <1> HIDE DEF WaitInv, BackoffTracksOutage
  <1> QED BY <1>1, <1>2, <1>3, <1>4, <1>5, <1>6, <1>7
          DEF Next, Step, vars, ProcessEnds, PreviewRecorded, FinalStatusRecorded, SpawnedOnly,
              sender, ForwarderPolled, TaskPolled, ForwarderStep

\* audit_forward.rs, submit and forwarder_task: an outage is announced once, and
\* however often the network goes and comes back, the next wait is what the present
\* outage has earned.
THEOREM OutageTracked == Spec => []OutageIsTracked
  <1>1. Init => WaitInv
    BY ForwardAssumption DEF Init, ForwardInit, WaitInv, BackoffTracksOutage
  <1>2. WaitInv => BackoffTracksOutage
    BY DEF WaitInv
  <1>3. WarningsTellOutages /\ BackoffTracksOutage => OutageIsTracked
    BY DEF OutageIsTracked
  <1> QED BY <1>1, <1>2, <1>3, WaitStep, OutagesAnnounced, PTL DEF Spec

-----------------------------------------------------------------------------
(* The forwarder's order.                                                  *)

ForwardTyped ==
    /\ task \in [Event -> {"none", "fetch", "reset", "done"}]
    /\ fate \in [Event -> {"none", "unread", "dropped", "delivered", "lost", "abandoned"}]
    /\ queue \in Seq(Event) /\ delivered \in Seq(Event)
    /\ hand \in Seq(Event) /\ Len(hand) <= 1 /\ (hand # << >> <=> fwd = "send")
    /\ accepted \in Nat /\ turn \in [Event -> Nat]
    /\ \A e \in Event : turn[e] <= accepted

\* An event has a turn from its try_send on, and until then no fate.
TurnsAreTaken ==
    \A e \in Event :
        /\ task[e] \in {"none", "fetch"} => turn[e] = 0 /\ fate[e] = "none"

\* Every turn delivered is before the one in hand, and that before those in the
\* channel.
SentBeforeHeld ==
    /\ \A e \in Range(hand) : turn[e] > 0 /\ fate[e] = "none"
    /\ \A e \in Range(delivered), x \in Range(hand) \union Range(queue) : turn[e] < turn[x]
    /\ \A e \in Range(hand), x \in Range(queue) : turn[e] < turn[x]

OrderInv == ForwardTyped /\ TurnsAreTaken /\ SentBeforeHeld /\ DeliveredInOrder

\* An element more at the end, and the ranges of the parts of a sequence.
LEMMA RangeOfAppend ==
    ASSUME NEW S, NEW s \in Seq(S), NEW e \in S
    PROVE  Range(Append(s, e)) = Range(s) \union {e}
  <1>1. /\ Len(s) \in Nat /\ DOMAIN s = 1 .. Len(s)
        /\ DOMAIN Append(s, e) = 1 .. Len(s) + 1
        /\ Append(s, e)[Len(s) + 1] = e
        /\ \A i \in 1 .. Len(s) : Append(s, e)[i] = s[i]
    OBVIOUS
  <1>2. \A i \in 1 .. Len(s) + 1 : i \in 1 .. Len(s) \/ i = Len(s) + 1
    BY <1>1
  <1>3. Len(s) + 1 \in 1 .. Len(s) + 1 /\ \A i \in 1 .. Len(s) : i \in 1 .. Len(s) + 1
    BY <1>1
  <1> QED BY <1>1, <1>2, <1>3 DEF Range

LEMMA RangeOfParts ==
    ASSUME NEW S, NEW s \in Seq(S), s # << >>
    PROVE  /\ Len(s) \in Nat \ {0} /\ Head(s) \in S /\ Tail(s) \in Seq(S)
           /\ Range(s) = {Head(s)} \union Range(Tail(s))
           /\ Range(<<Head(s)>>) = {Head(s)}
  <1>1. Len(s) \in Nat \ {0} /\ Head(s) = s[1] /\ Len(Tail(s)) = Len(s) - 1
        /\ \A i \in 1 .. Len(s) - 1 : Tail(s)[i] = s[i + 1]
    OBVIOUS
  <1>2. ASSUME NEW i \in 1 .. Len(s) PROVE s[i] \in {Head(s)} \union Range(Tail(s))
    <2>1. CASE i = 1
      BY <1>1, <2>1
    <2>2. CASE i # 1
      <3>1. i - 1 \in 1 .. Len(s) - 1 /\ Tail(s)[i - 1] = s[i]
        BY <1>1, <2>2
      <3>2. DOMAIN Tail(s) = 1 .. Len(s) - 1
        BY <1>1
      <3> QED BY <3>1, <3>2 DEF Range
    <2> QED BY <2>1, <2>2
  <1>3. Range(Tail(s)) \subseteq Range(s)
    <2>1. ASSUME NEW i \in 1 .. Len(s) - 1 PROVE Tail(s)[i] \in Range(s)
      BY <1>1 DEF Range
    <2>2. DOMAIN Tail(s) = 1 .. Len(s) - 1
      BY <1>1
    <2> QED BY <2>1, <2>2 DEF Range
  <1>4. Head(s) \in Range(s)
    BY <1>1 DEF Range
  <1>5. Range(s) = {Head(s)} \union Range(Tail(s))
    BY <1>2, <1>3, <1>4 DEF Range
  <1>6. Head(s) \in S /\ Tail(s) \in Seq(S)
    BY <1>1
  <1>7. Range(<<Head(s)>>) = {Head(s)}
    BY DEF Range
  <1> QED BY <1>1, <1>5, <1>6, <1>7

LEMMA OrderInit == ForwardInit => OrderInv
  BY DEF ForwardInit, OrderInv, ForwardTyped, TurnsAreTaken, SentBeforeHeld, DeliveredInOrder,
         InTurn, Accepted, Range

\* Steps that give no event a turn or a place, and change the fate of none that has one.
LEMMA NothingMoves ==
    ASSUME OrderInv, UNCHANGED <<queue, hand, fwd, turn, accepted, delivered>>,
           ForwardTyped', TurnsAreTaken',
           \A e \in Event : turn[e] > 0 => fate'[e] = fate[e]
    PROVE  OrderInv'
  <1>1. Range(hand) \subseteq Event
    BY DEF OrderInv, ForwardTyped, Range
  <1>2. SentBeforeHeld'
    BY <1>1 DEF OrderInv, SentBeforeHeld
  <1>3. Accepted("delivered")' = Accepted("delivered") /\ Accepted("none")' = Accepted("none")
    BY DEF Accepted
  <1>4. DeliveredInOrder'
    BY <1>3 DEF OrderInv, DeliveredInOrder, InTurn
  <1> QED BY <1>2, <1>4 DEF OrderInv

LEMMA SpawnKeepsOrder ==
    ASSUME OrderInv, NEW e \in Event, SpawnTask(e), SpawnedOnly
    PROVE  OrderInv'
  <1> USE DEF SpawnTask, SpawnedOnly, sender, ghosts
  <1>1. ForwardTyped' /\ TurnsAreTaken'
    BY DEF OrderInv, ForwardTyped, TurnsAreTaken
  <1> QED BY <1>1, NothingMoves

LEMMA FetchFailsKeepsOrder ==
    ASSUME OrderInv, NEW e \in Event, FetchFails(e)
    PROVE  OrderInv'
  <1> USE DEF FetchFails, Ends, sender, ghosts
  <1>1. ForwardTyped' /\ TurnsAreTaken'
    BY DEF OrderInv, ForwardTyped, TurnsAreTaken
  <1>2. \A x \in Event : turn[x] > 0 => fate'[x] = fate[x]
    BY DEF OrderInv, ForwardTyped, TurnsAreTaken
  <1> QED BY <1>1, <1>2, NothingMoves

LEMMA ResetDropsKeepsOrder ==
    ASSUME OrderInv, NEW e \in Event, ResetDrops(e)
    PROVE  OrderInv'
  <1> USE DEF ResetDrops, sender
  <1>1. ForwardTyped' /\ TurnsAreTaken'
    BY DEF OrderInv, ForwardTyped, TurnsAreTaken
  <1> QED BY <1>1, NothingMoves

LEMMA SubmitFullKeepsOrder ==
    ASSUME OrderInv, NEW e \in Event, SubmitFull(e)
    PROVE  OrderInv'
  <1> USE DEF SubmitFull, Ends, sender
  <1>1. ForwardTyped' /\ TurnsAreTaken'
    BY DEF OrderInv, ForwardTyped, TurnsAreTaken
  <1>2. \A x \in Event : turn[x] > 0 => fate'[x] = fate[x]
    BY DEF OrderInv, ForwardTyped, TurnsAreTaken
  <1> QED BY <1>1, <1>2, NothingMoves

\* A try_send: the next turn, at the end of the channel.
LEMMA SubmitOkKeepsOrder ==
    ASSUME OrderInv, NEW e \in Event, SubmitOk(e)
    PROVE  OrderInv'
  <1> USE DEF SubmitOk, sender
  <1>1. ForwardTyped /\ turn[e] = 0 /\ fate[e] = "none"
    BY DEF OrderInv, TurnsAreTaken
  <1>2. ForwardTyped' /\ TurnsAreTaken'
    BY <1>1 DEF OrderInv, ForwardTyped, TurnsAreTaken
  <1>3. /\ Range(hand) \subseteq Event /\ Range(queue) \subseteq Event
        /\ Range(delivered) \subseteq Event
    BY <1>1 DEF ForwardTyped, Range
  <1>4. /\ Range(queue') = Range(queue) \union {e}
        /\ e \notin Range(hand) /\ e \notin Range(delivered) /\ e \notin Range(queue)
    BY <1>1, RangeOfAppend
       DEF OrderInv, ForwardTyped, SentBeforeHeld, DeliveredInOrder, Accepted
  <1>5. /\ turn'[e] = accepted + 1
        /\ \A x \in Event : /\ x # e => turn'[x] = turn[x]
                           /\ turn[x] <= accepted /\ turn[x] \in Nat
    BY <1>1 DEF ForwardTyped
  <1>6. SentBeforeHeld'
    <2>1. \A x \in Range(hand) : turn'[x] > 0 /\ fate'[x] = "none"
      BY <1>3, <1>4, <1>5 DEF OrderInv, SentBeforeHeld
    <2>2. \A d \in Range(delivered), x \in Range(hand) \union Range(queue) \union {e} :
              turn'[d] < turn'[x]
      BY <1>1, <1>3, <1>4, <1>5 DEF OrderInv, SentBeforeHeld, ForwardTyped
    <2>3. \A x \in Range(hand), y \in Range(queue) \union {e} : turn'[x] < turn'[y]
      BY <1>1, <1>3, <1>4, <1>5 DEF OrderInv, SentBeforeHeld, ForwardTyped
    <2> QED BY <1>4, <2>1, <2>2, <2>3 DEF SentBeforeHeld
  <1>7. Accepted("delivered")' = Accepted("delivered")
        /\ Accepted("none")' = Accepted("none") \union {e}
    BY <1>1, <1>5 DEF Accepted, ForwardTyped
  <1>8. InTurn(delivered)' /\ InTurn(queue)'
    <2>1. \A i \in 1 .. Len(delivered) : delivered[i] \in Range(delivered)
      BY <1>1 DEF ForwardTyped, Range
    <2>2. \A i \in 1 .. Len(queue) : queue[i] \in Range(queue)
      BY <1>1 DEF ForwardTyped, Range
    <2>3. InTurn(delivered)'
      BY <1>3, <1>4, <1>5, <2>1 DEF InTurn, OrderInv, DeliveredInOrder
    <2>4. /\ Len(queue') = Len(queue) + 1 /\ queue'[Len(queue) + 1] = e
          /\ \A i \in 1 .. Len(queue) : queue'[i] = queue[i]
          /\ Len(queue) \in Nat
      BY <1>1 DEF ForwardTyped
    <2>5. \A i, j \in 1 .. Len(queue) : i < j => turn[queue[i]] < turn[queue[j]]
      BY DEF InTurn, OrderInv, DeliveredInOrder
    <2>6. ASSUME NEW i \in 1 .. Len(queue'), NEW j \in 1 .. Len(queue'), i < j
          PROVE  turn'[queue'[i]] < turn'[queue'[j]]
      <3>1. i \in 1 .. Len(queue) /\ queue'[i] = queue[i]
            /\ queue[i] \in Event /\ queue[i] # e
        BY <1>3, <1>4, <2>2, <2>4, <2>6
      <3>2. CASE j = Len(queue) + 1
        <4>1. turn'[queue'[i]] <= accepted /\ turn'[queue'[i]] \in Nat
          BY <1>5, <3>1
        <4> QED BY <1>1, <1>5, <2>4, <3>2, <4>1 DEF ForwardTyped
      <3>3. CASE j \in 1 .. Len(queue)
        <4>1. queue'[j] = queue[j] /\ queue[j] \in Event /\ queue[j] # e
          BY <1>3, <1>4, <2>2, <2>4, <3>3
        <4> QED BY <1>5, <2>5, <2>6, <3>1, <3>3, <4>1
      <3> QED BY <2>4, <3>2, <3>3
    <2> QED BY <2>3, <2>6 DEF InTurn
  <1>9. DeliveredInOrder'
    <2>1. Range(delivered) = Accepted("delivered")
          /\ Range(queue) = Accepted("none") \ Range(hand)
      BY DEF OrderInv, DeliveredInOrder
    <2> QED BY <1>4, <1>7, <1>8, <2>1 DEF DeliveredInOrder
  <1> QED BY <1>2, <1>6, <1>9 DEF OrderInv

\* The head of the channel is the earliest turn of all that are left.
LEMMA RecvKeepsOrder ==
    ASSUME OrderInv, Recv
    PROVE  OrderInv'
  <1> USE DEF Recv, sender, ghosts
  <1> DEFINE first == Head(queue)
             rest == Tail(queue)
  <1>1. ForwardTyped /\ hand = << >> /\ queue # << >>
    BY DEF OrderInv, ForwardTyped
  <1>2. /\ first \in Event /\ rest \in Seq(Event)
        /\ Range(queue) = {first} \union Range(rest) /\ Range(<<first>>) = {first}
    BY <1>1, RangeOfParts DEF ForwardTyped
  <1>3. ForwardTyped' /\ TurnsAreTaken'
    BY <1>1, <1>2 DEF OrderInv, ForwardTyped, TurnsAreTaken
  <1>4. Range(hand) = {}
    BY <1>1 DEF Range
  <1>5. \A i, j \in 1 .. Len(queue) : i < j => turn[queue[i]] < turn[queue[j]]
    BY DEF InTurn, OrderInv, DeliveredInOrder
  <1>6. /\ Len(queue) \in Nat \ {0} /\ Len(rest) = Len(queue) - 1 /\ first = queue[1]
        /\ \A i \in 1 .. Len(rest) : rest[i] = queue[i + 1]
        /\ DOMAIN rest = 1 .. Len(rest)
    BY <1>1 DEF ForwardTyped
  <1>7. InTurn(rest)
    <2> HIDE DEF first, rest
    <2> QED BY <1>5, <1>6 DEF InTurn
  <1>8. \A x \in Range(rest) : turn[first] < turn[x]
    <2>1. \A i \in 1 .. Len(rest) : turn[first] < turn[rest[i]]
      <3> HIDE DEF first, rest
      <3> QED BY <1>5, <1>6
    <2> HIDE DEF first, rest
    <2> QED BY <1>6, <2>1 DEF Range
  <1>9. Range(delivered) = Accepted("delivered") /\ Range(queue) = Accepted("none")
        /\ InTurn(delivered)
    BY <1>4 DEF OrderInv, DeliveredInOrder
  <1>10. first \notin Range(rest)
    <2>1. turn[first] \in Nat
      BY <1>1, <1>2 DEF ForwardTyped
    <2> HIDE DEF first, rest
    <2> QED BY <1>8, <2>1
  <1>11. SentBeforeHeld'
    <2>1. \A d \in Range(delivered), x \in Range(queue) : turn[d] < turn[x]
      BY <1>4 DEF OrderInv, SentBeforeHeld
    <2>2. turn[first] > 0 /\ fate[first] = "none"
      BY <1>2, <1>9 DEF Accepted
    <2>3. Range(hand') = {first} /\ Range(queue') = Range(rest)
      BY <1>2
    <2> HIDE DEF first, rest
    <2> QED BY <1>2, <1>8, <2>1, <2>2, <2>3 DEF SentBeforeHeld
  <1>12. DeliveredInOrder'
    <2>1. Accepted("delivered")' = Accepted("delivered") /\ Accepted("none")' = Accepted("none")
      BY DEF Accepted
    <2>2. InTurn(delivered)' /\ InTurn(queue)'
      <3>1. queue' = rest
        OBVIOUS
      <3> HIDE DEF rest
      <3> QED BY <1>7, <1>9, <3>1 DEF InTurn
    <2>3. Range(hand') = {first} /\ Range(queue') = Range(rest) /\ delivered' = delivered
      BY <1>2
    <2> HIDE DEF first, rest
    <2> QED BY <1>2, <1>9, <1>10, <2>1, <2>2, <2>3 DEF DeliveredInOrder
  <1> QED BY <1>3, <1>11, <1>12 DEF OrderInv

\* What the forwarder task holds is one event, accepted and without a fate.
LEMMA HeldIsOne ==
    ASSUME OrderInv, fwd = "send"
    PROVE  /\ Head(hand) \in Event /\ hand = <<Head(hand)>> /\ Range(hand) = {Head(hand)}
           /\ turn[Head(hand)] > 0 /\ fate[Head(hand)] = "none"
  <1>1. hand \in Seq(Event) /\ Len(hand) = 1
    <2>1. hand \in Seq(Event) /\ Len(hand) <= 1 /\ hand # << >>
      BY DEF OrderInv, ForwardTyped
    <2>2. Len(hand) \in Nat \ {0}
      BY <2>1, RangeOfParts, Zenon
    <2>3. \A n \in Nat \ {0} : n <= 1 => n = 1
      OBVIOUS
    <2> QED BY <2>1, <2>2, <2>3, Zenon
  <1>2. hand[1] = Head(hand) /\ DOMAIN hand = {1} /\ hand[1] \in Event
    BY <1>1
  <1>3. Range(hand) = {Head(hand)}
    BY <1>2 DEF Range
  <1>4. hand = <<Head(hand)>>
    BY <1>1
  <1> QED BY <1>2, <1>3, <1>4 DEF OrderInv, SentBeforeHeld

LEMMA SendOkKeepsOrder ==
    ASSUME OrderInv, SendOk
    PROVE  OrderInv'
  <1> DEFINE e == Head(hand)
  <1>1. /\ ForwardTyped /\ e \in Event /\ Range(hand) = {e}
        /\ turn[e] > 0 /\ fate[e] = "none"
    BY HeldIsOne DEF SendOk, OrderInv
  <1>2. /\ delivered' = Append(delivered, e) /\ hand' = << >> /\ fwd' = "recv"
        /\ fate' = [fate EXCEPT ![e] = "delivered"]
        /\ UNCHANGED <<task, queue, accepted, turn>>
    BY DEF SendOk, Ends, ghosts
  <1> HIDE DEF e
  <1>3. ForwardTyped' /\ TurnsAreTaken'
    BY <1>1, <1>2 DEF OrderInv, ForwardTyped, TurnsAreTaken
  <1>4. Range(hand') = {} /\ Range(delivered') = Range(delivered) \union {e}
    <2>1. Range(Append(delivered, e)) = Range(delivered) \union {e}
      BY <1>1, RangeOfAppend DEF ForwardTyped
    <2>2. Range(<< >>) = {}
      BY DEF Range
    <2> QED BY <1>2, <2>1, <2>2
  <1>5. \A d \in Range(delivered), x \in {e} \union Range(queue) : turn[d] < turn[x]
    BY <1>1 DEF OrderInv, SentBeforeHeld
  <1>6. \A x \in Range(queue) : turn[e] < turn[x]
    BY <1>1 DEF OrderInv, SentBeforeHeld
  <1>7. SentBeforeHeld'
    BY <1>2, <1>4, <1>5, <1>6 DEF SentBeforeHeld
  <1>8. /\ InTurn(delivered) /\ InTurn(queue)
        /\ Range(delivered) = Accepted("delivered")
        /\ Range(queue) = Accepted("none") \ {e}
    BY <1>1 DEF OrderInv, DeliveredInOrder
  <1>9. /\ Accepted("delivered")' = Accepted("delivered") \union {e}
        /\ Accepted("none")' = Accepted("none") \ {e}
    BY <1>1, <1>2 DEF Accepted, ForwardTyped
  <1>10. InTurn(delivered)' /\ InTurn(queue)'
    <2>1. \A i \in 1 .. Len(delivered) : delivered[i] \in Range(delivered)
      BY <1>1 DEF ForwardTyped, Range
    <2>2. /\ Len(delivered') = Len(delivered) + 1 /\ delivered'[Len(delivered) + 1] = e
          /\ \A i \in 1 .. Len(delivered) : delivered'[i] = delivered[i]
          /\ Len(delivered) \in Nat
      BY <1>1, <1>2 DEF ForwardTyped
    <2>3. InTurn(delivered')
      BY <1>5, <1>8, <2>1, <2>2 DEF InTurn
    <2> QED BY <1>2, <1>8, <2>3 DEF InTurn
  <1>11. DeliveredInOrder'
    BY <1>2, <1>4, <1>8, <1>9, <1>10 DEF DeliveredInOrder
  <1> QED BY <1>3, <1>7, <1>11 DEF OrderInv

\* A lost event leaves its place empty.
LEMMA SendFailsKeepsOrder ==
    ASSUME OrderInv, SendFails
    PROVE  OrderInv'
  <1> DEFINE e == Head(hand)
  <1>1. /\ ForwardTyped /\ e \in Event /\ Range(hand) = {e}
        /\ turn[e] > 0 /\ fate[e] = "none"
    BY HeldIsOne DEF SendFails, OrderInv
  <1>2. /\ hand' = << >> /\ fwd' = "reopen"
        /\ fate' = [fate EXCEPT ![e] = "lost"]
        /\ UNCHANGED <<task, queue, delivered, accepted, turn>>
    BY DEF SendFails, Ends, ghosts
  <1> HIDE DEF e
  <1>3. ForwardTyped' /\ TurnsAreTaken'
    BY <1>1, <1>2 DEF OrderInv, ForwardTyped, TurnsAreTaken
  <1>4. Range(hand') = {}
    BY <1>2 DEF Range
  <1>5. SentBeforeHeld'
    BY <1>2, <1>4 DEF OrderInv, SentBeforeHeld
  <1>6. /\ Accepted("delivered")' = Accepted("delivered")
        /\ Accepted("none")' = Accepted("none") \ {e}
    BY <1>1, <1>2 DEF Accepted, ForwardTyped
  <1>7. DeliveredInOrder'
    BY <1>1, <1>2, <1>4, <1>6 DEF OrderInv, DeliveredInOrder, InTurn
  <1> QED BY <1>3, <1>5, <1>7 DEF OrderInv

LEMMA SocketKeepsOrder ==
    ASSUME OrderInv, Reopen \/ ReopenFails \/ WakeUp
    PROVE  OrderInv'
  <1>1. /\ UNCHANGED <<task, fate, queue, hand, accepted, turn, delivered>>
        /\ fwd # "send" /\ fwd' # "send"
    BY DEF Reopen, ReopenFails, WakeUp, ghosts
  <1>2. ForwardTyped' /\ TurnsAreTaken'
    BY <1>1 DEF OrderInv, ForwardTyped, TurnsAreTaken
  <1>3. SentBeforeHeld' /\ DeliveredInOrder'
    BY <1>1 DEF OrderInv, SentBeforeHeld, DeliveredInOrder, InTurn, Accepted
  <1> QED BY <1>2, <1>3 DEF OrderInv

\* A shutdown drops what is on its way, and a restart has nothing to replay.
LEMMA EndsKeepsOrder ==
    ASSUME OrderInv, ForwarderEnds
    PROVE  OrderInv'
  <1>1. /\ queue' = << >> /\ hand' = << >> /\ fwd' = "recv"
        /\ UNCHANGED <<accepted, turn, delivered>>
        /\ task' = [e \in Event |-> IF task[e] = "none" THEN "none" ELSE "done"]
        /\ fate' = [e \in Event |-> IF task[e] # "none" /\ fate[e] = "none"
                                    THEN "abandoned" ELSE fate[e]]
    BY DEF ForwarderEnds
  <1>2. ForwardTyped /\ \A e \in Event : turn[e] > 0 => task[e] # "none"
    BY DEF OrderInv, TurnsAreTaken
  <1>3. ForwardTyped'
    BY <1>1, <1>2 DEF ForwardTyped
  <1>4. TurnsAreTaken'
    BY <1>1, <1>2 DEF OrderInv, TurnsAreTaken, ForwardTyped
  <1>5. Range(queue') = {} /\ Range(hand') = {}
    BY <1>1 DEF Range
  <1>6. SentBeforeHeld'
    BY <1>5 DEF SentBeforeHeld
  <1>7. Accepted("delivered")' = Accepted("delivered") /\ Accepted("none")' = {}
    BY <1>1, <1>2 DEF Accepted, ForwardTyped
  <1>8. InTurn(delivered)' /\ InTurn(queue)'
    BY <1>1 DEF OrderInv, DeliveredInOrder, InTurn
  <1>9. DeliveredInOrder'
    BY <1>1, <1>5, <1>7, <1>8 DEF OrderInv, DeliveredInOrder
  <1> QED BY <1>3, <1>4, <1>6, <1>9 DEF OrderInv

LEMMA OrderStep == ASSUME OrderInv, [Next]_vars PROVE OrderInv'
  <1>1. ASSUME NEW e \in Event, TaskStep(e) PROVE OrderInv'
    BY <1>1, FetchFailsKeepsOrder, SubmitOkKeepsOrder, ResetDropsKeepsOrder,
       SubmitFullKeepsOrder DEF TaskStep
  <1>2. CASE ForwarderStep
    BY <1>2, RecvKeepsOrder, SendOkKeepsOrder, SendFailsKeepsOrder, SocketKeepsOrder
       DEF ForwarderStep
  <1>3. CASE UNCHANGED forwardVars
    <2>1. ForwardTyped' /\ TurnsAreTaken'
      BY <1>3 DEF forwardVars, OrderInv, ForwardTyped, TurnsAreTaken
    <2> QED BY <1>3, <2>1, NothingMoves DEF forwardVars
  <1> QED BY <1>1, <1>2, <1>3, SpawnKeepsOrder, EndsKeepsOrder, EdgeAssumption
          DEF Next, Step, vars, ProcessEnds, PreviewRecorded, FinalStatusRecorded,
              ForwarderPolled, TaskPolled

\* audit_forward.rs, forwarder_task: whatever the tasks, the network and the process
\* do, the SIEM is sent a part of what was accepted, in its order and once each.
THEOREM ForwardsInOrder == Spec => []DeliveredInOrder
  <1>1. Init => OrderInv
    BY OrderInit DEF Init
  <1>2. OrderInv => DeliveredInOrder
    BY DEF OrderInv
  <1> QED BY <1>1, <1>2, OrderStep, PTL DEF Spec

\* audit_forward.rs: order and outage together, from the try_send to the datagram.
THEOREM ForwardingAlwaysSound == Spec => []ForwardingIsSound
  <1>1. DeliveredInOrder /\ OutageIsTracked => ForwardingIsSound
    BY DEF ForwardingIsSound
  <1> QED BY <1>1, ForwardsInOrder, OutageTracked, PTL

-----------------------------------------------------------------------------
(* The forwarder's promise.                                                *)

\* What the channel and the forwarder task hold, taken as one line, grows at the end,
LEMMA LineGrows ==
    ASSUME NEW S, NEW held \in Seq(S), NEW rest \in Seq(S), NEW e \in S
    PROVE  /\ Append(held \o rest, e) = held \o Append(rest, e)
           /\ Len(held \o rest) = Len(held) + Len(rest)
  OBVIOUS

\* stays when its first event passes from one to the other,
LEMMA LineStays ==
    ASSUME NEW S, NEW rest \in Seq(S), rest # << >>
    PROVE  <<Head(rest)>> \o Tail(rest) = << >> \o rest
  OBVIOUS

\* and loses its first event with the task that held it.
LEMMA LineShrinks ==
    ASSUME NEW S, NEW rest \in Seq(S), NEW e \in S
    PROVE  LET line == <<e>> \o rest
           IN  line # << >> /\ Head(line) = e /\ Tail(line) = << >> \o rest
  <1> DEFINE line == <<e>> \o rest
  <1>1. /\ line \in Seq(S) /\ Len(line) = Len(rest) + 1 /\ line[1] = e
        /\ \A i \in 1 .. Len(rest) : line[i + 1] = rest[i]
    OBVIOUS
  <1>2. << >> \o rest = rest
    OBVIOUS
  <1> HIDE DEF line
  <1>3. line # << >> /\ Head(line) = e
    BY <1>1
  <1>4. /\ Tail(line) \in Seq(S) /\ Len(Tail(line)) = Len(rest)
        /\ \A i \in 1 .. Len(rest) : Tail(line)[i] = rest[i]
    BY <1>1
  <1>5. Tail(line) = rest
    BY <1>4
  <1> QED BY <1>2, <1>3, <1>5 DEF line

\* The events the promise calls pending.
Unsubmitted == {e \in Event : task[e] \in {"none", "fetch"}}

LEMMA TasksKeepPromise ==
    ASSUME OrderInv, NEW e \in Event, TaskStep(e)
    PROVE  [Lossy!Next]_(Lossy!vars)
  <1> USE DEF Lossy!vars, sender, ghosts
  <1>1. ForwardTyped /\ Len(hand) \in Nat /\ Len(queue) \in Nat
    BY DEF OrderInv, ForwardTyped
  <1>2. ASSUME task[e] = "fetch", task' \in {[task EXCEPT ![e] = "done"], [task EXCEPT ![e] = "reset"]}
        PROVE  e \in Unsubmitted /\ Unsubmitted' = Unsubmitted \ {e}
    BY <1>1, <1>2 DEF Unsubmitted, ForwardTyped
  <1>3. CASE FetchFails(e) \/ SubmitFull(e)
    <2>1. Lossy!TurnAway(e)
      BY <1>2, <1>3 DEF FetchFails, SubmitFull, Unsubmitted, Lossy!TurnAway
    <2> QED BY <2>1 DEF Lossy!Next
  <1>4. CASE SubmitOk(e)
    <2>1. Append(hand \o queue, e) = hand' \o queue' /\ Len(hand \o queue) < FORWARDER_QUEUE_DEPTH + 1
      <3>1. /\ hand' = hand /\ queue' = Append(queue, e)
            /\ Len(hand) + Len(queue) < FORWARDER_QUEUE_DEPTH + 1
        BY <1>1, <1>4, ForwardAssumption DEF SubmitOk, ForwardTyped
      <3> QED BY <1>1, <3>1, LineGrows DEF ForwardTyped
    <2>2. Lossy!Enter(e)
      BY <1>2, <1>4, <2>1 DEF SubmitOk, Unsubmitted, Lossy!Enter
    <2> QED BY <2>2 DEF Lossy!Next
  <1>5. CASE ResetDrops(e)
    <2>1. Unsubmitted' = Unsubmitted
      BY <1>1, <1>5 DEF ResetDrops, Unsubmitted, ForwardTyped
    <2> QED BY <1>5, <2>1 DEF ResetDrops, Unsubmitted
  <1> QED BY <1>3, <1>4, <1>5 DEF TaskStep

LEMMA ForwarderKeepsPromise ==
    ASSUME OrderInv, ForwarderStep
    PROVE  [Lossy!Next]_(Lossy!vars)
  <1> USE DEF Lossy!vars, sender, ghosts
  <1>1. ForwardTyped /\ task' = task
    BY DEF OrderInv, ForwarderStep, Recv, SendOk, SendFails, Reopen, ReopenFails, WakeUp
  <1>2. CASE Recv
    <2>1. hand = << >> /\ queue # << >>
      BY <1>1, <1>2 DEF Recv, ForwardTyped
    <2>2. hand' \o queue' = hand \o queue
      BY <1>1, <1>2, <2>1, LineStays DEF Recv, ForwardTyped
    <2> QED BY <1>1, <1>2, <2>2 DEF Recv
  <1>3. ASSUME fwd = "send", hand' = << >>, queue' = queue
        PROVE  /\ hand \o queue # << >> /\ hand' \o queue' = Tail(hand \o queue)
               /\ Head(hand) = Head(hand \o queue)
    <2>1. Head(hand) \in Event /\ hand = <<Head(hand)>>
      BY <1>3, HeldIsOne
    <2> QED BY <1>1, <1>3, <2>1, LineShrinks DEF ForwardTyped
  <1>4. CASE SendOk
    <2>1. Lossy!Receive
      BY <1>1, <1>3, <1>4 DEF SendOk, Lossy!Receive, Lossy!Leave
    <2> QED BY <2>1 DEF Lossy!Next
  <1>5. CASE SendFails
    <2>1. Lossy!Lose
      BY <1>1, <1>3, <1>5 DEF SendFails, Lossy!Lose, Lossy!Leave
    <2> QED BY <2>1 DEF Lossy!Next
  <1>6. CASE Reopen \/ ReopenFails \/ WakeUp
    BY <1>1, <1>6 DEF Reopen, ReopenFails, WakeUp
  <1> QED BY <1>2, <1>4, <1>5, <1>6 DEF ForwarderStep

LEMMA EndKeepsPromise ==
    ASSUME OrderInv, ForwarderEnds
    PROVE  [Lossy!Next]_(Lossy!vars)
  <1>1. Unsubmitted' \in SUBSET Unsubmitted
    BY DEF ForwarderEnds, Unsubmitted
  <1>2. hand' \o queue' = << >>
    BY DEF ForwarderEnds
  <1>3. Lossy!Shutdown
    BY <1>1, <1>2 DEF ForwarderEnds, Unsubmitted, Lossy!Shutdown
  <1> QED BY <1>3 DEF Lossy!Next

LEMMA SpawnKeepsPromise ==
    ASSUME OrderInv, NEW e \in Event, SpawnTask(e), SpawnedOnly
    PROVE  UNCHANGED Lossy!vars
  <1>1. Unsubmitted' = Unsubmitted
    BY DEF OrderInv, ForwardTyped, SpawnTask, Unsubmitted
  <1> QED BY <1>1 DEF SpawnedOnly, sender, ghosts, Unsubmitted, Lossy!vars

\* audit_forward.rs, dispatcher.rs: from the record of a status to the datagram, for
\* any number of events and any depth of the channel, forwarding is a bounded line
\* that loses events at its ends or all at once, and does nothing else.
THEOREM ForwarderIsLossyQueue == Spec => ForwardsAsPromised
  <1>1. Init => OrderInv /\ Lossy!Init
    <2>1. ASSUME Init PROVE Lossy!Init
      <3>1. << >> \o << >> = << >>
        OBVIOUS
      <3> QED BY <2>1, <3>1 DEF Init, ForwardInit, Lossy!Init
    <2> QED BY <2>1, OrderInit DEF Init
  <1>2. ASSUME OrderInv, [Next]_vars PROVE [Lossy!Next]_(Lossy!vars)
    <2>1. CASE UNCHANGED forwardVars
      BY <2>1 DEF forwardVars, Lossy!vars
    <2> QED BY <1>2, <2>1, TasksKeepPromise, ForwarderKeepsPromise, EndKeepsPromise,
               SpawnKeepsPromise, EdgeAssumption
            DEF Next, Step, vars, ProcessEnds, PreviewRecorded, FinalStatusRecorded,
                ForwarderPolled, TaskPolled
  <1> QED BY <1>1, <1>2, OrderStep, PTL DEF Spec, ForwardsAsPromised, Lossy!Spec

=============================================================================
