------------------------------- MODULE Session --------------------------------
(***************************************************************************)
(* Interprocess calls: ports, sessions and the threads at both ends        *)
(* (hle/kernel/client_port.cpp, server_port.cpp, client_session.cpp,       *)
(* server_session.cpp, hle_ipc.cpp and their system calls in svc.cpp).     *)
(*                                                                         *)
(* The threads of a client process call through sessions to ports.  A port *)
(* is served by the threads of an emulated process, with svcAcceptSession  *)
(* and svcReplyAndReceive, or by the emulator itself (a port of Hle).      *)
(*                                                                         *)
(* A server thread serves the sessions it accepted, and no others: what    *)
(* happens when several receive on one session is told in the README.      *)
(* Ready and running threads are not told apart, and processes do not end. *)
(***************************************************************************)
EXTENDS Integers, Sequences, FiniteSets, SequencesExt, TLC

CONSTANTS
    Client,          \* threads of the client process
    Server,          \* threads of the server process
    Session,         \* each is connected once: it bounds the connections
    Port,
    Hle,             \* the ports the emulator serves
    max_sessions,
    None

ASSUME SessionAssumption ==
    /\ Hle \subseteq Port /\ max_sessions \in Nat
    /\ Client \cap Server = {} /\ Session \cap Port = {}
    /\ None \notin Client \cup Session \cup Port

VARIABLES
    status,                       \* of the threads
    wait_objects,                 \* of a server thread
    port,                         \* of a session; None before Connect
    client, server,               \* sessions whose endpoint exists
    pending_sessions,             \* of a port: connected, not accepted
    active_sessions,              \* of a port
    accepted,                     \* sessions a server thread has a handle of
    connected_sessions,           \* sessions the HLE handlers know
    pending_requesting_threads,   \* of a session
    currently_handling,           \* of a session
    call,                         \* session a client thread waits for an answer of
    wakeups                       \* client threads with a pending wakeup event

portVars == <<port, client, server, pending_sessions, active_sessions, accepted,
              connected_sessions>>
requestVars == <<pending_requesting_threads, currently_handling>>
vars == <<status, wait_objects, portVars, requestVars, call, wakeups>>

Init ==
    /\ status = [t \in Client \cup Server |-> "Running"]
    /\ wait_objects = [t \in Server |-> {}]
    /\ port = [s \in Session |-> None]
    /\ client = {} /\ server = {} /\ connected_sessions = {}
    /\ pending_sessions = [p \in Port |-> <<>>]
    /\ active_sessions = [p \in Port |-> 0]
    /\ accepted = [t \in Server |-> {}]
    /\ pending_requesting_threads = [s \in Session |-> <<>>]
    /\ currently_handling = [s \in Session |-> None]
    /\ call = [c \in Client |-> None]
    /\ wakeups = {}

-------------------------------------------------------------------------------
(* Waiting for ports and sessions                                          *)

\* ShouldWait of a session: a closed one never waits.
SessionShouldWait(s, clients, pending, handling) ==
    s \in clients /\ (pending[s] = <<>> \/ handling[s] # None)

PortShouldWait(p, pending) == pending[p] = <<>>

\* Acquire of a session: the request that came last, unless the session is closed.
Handling(s, clients, pending, handling) ==
    IF s \in clients THEN [handling EXCEPT ![s] = Last(pending[s])] ELSE handling
Remaining(s, clients, pending) ==
    IF s \in clients THEN [pending EXCEPT ![s] = Front(@)] ELSE pending

\* WakeupAllWaitingThreads of an object: the wait of its threads is over.
Resume(woken) ==
    /\ wait_objects' = [t \in Server |-> IF t \in woken THEN {} ELSE wait_objects[t]]
    /\ status' = [t \in Client \cup Server |-> IF t \in woken THEN "Running" ELSE status[t]]

Waiters(o) == {t \in Server : o \in wait_objects[t]}

-------------------------------------------------------------------------------
(* Ports                                                                   *)

\* ClientPort::Connect, by svcConnectToPort and svcCreateSessionToPort; past
\* max_sessions it fails.
Connect(c, s, p) ==
    /\ status[c] = "Running" /\ port[s] = None
    /\ active_sessions[p] < max_sessions
    /\ active_sessions' = [active_sessions EXCEPT ![p] = @ + 1]
    /\ port' = [port EXCEPT ![s] = p]
    /\ client' = client \cup {s} /\ server' = server \cup {s}
    /\ IF p \in Hle
       THEN /\ connected_sessions' = connected_sessions \cup {s}
            /\ UNCHANGED <<pending_sessions, status, wait_objects>>
       ELSE /\ pending_sessions' = [pending_sessions EXCEPT ![p] = Append(@, s)]
            /\ Resume(Waiters(p))
            /\ UNCHANGED connected_sessions
    /\ UNCHANGED <<accepted, requestVars, call, wakeups>>

\* AcceptSession: the connection that came last.
AcceptSession(t, p) ==
    /\ status[t] = "Running" /\ pending_sessions[p] # <<>>
    /\ accepted' = [accepted EXCEPT ![t] = @ \cup {Last(pending_sessions[p])}]
    /\ pending_sessions' = [pending_sessions EXCEPT ![p] = Front(@)]
    /\ UNCHANGED <<status, wait_objects, port, client, server, active_sessions,
                   connected_sessions, requestVars, call, wakeups>>

-------------------------------------------------------------------------------
(* The end of a session                                                    *)

\* ~ServerSession, when its last reference goes: ClientPort::ConnectionClosed.
DestroyServer(s, last) ==
    /\ server' = IF last THEN server \ {s} ELSE server
    /\ active_sessions' = IF last THEN [active_sessions EXCEPT ![port[s]] = @ - 1]
                                  ELSE active_sessions

\* The requests that a session knows are forgotten with it, and with its client.
ForgetRequests(s) ==
    /\ pending_requesting_threads' = [pending_requesting_threads EXCEPT ![s] = <<>>]
    /\ currently_handling' = [currently_handling EXCEPT ![s] = None]

\* The context of a sleeping request holds its session.
SleepsFor(s) == {c \in Client : call[c] = s /\ status[c] = "WaitHleEvent"}

\* Whether the handler of the emulator has the last reference to its session.
HandlerIsLastIgnoringContext(s) == s \in connected_sessions
HandlerIsLast(s) == s \in connected_sessions /\ SleepsFor(s) = {}

\* ~ClientSession, which a thread of the client runs: the client ends first, and
\* then the server is woken.
ClosedWakeTooEarly(s) ==
    IF s \in server /\ ~SessionShouldWait(s, client, pending_requesting_threads, currently_handling)
    THEN Waiters(s) ELSE {}
ClosedWake(s) == IF s \in server THEN Waiters(s) ELSE {}

CloseClientSession(c, s) ==
    /\ status[c] = "Running" /\ s \in client
    /\ client' = client \ {s}
    /\ ForgetRequests(s)
    /\ DestroyServer(s, s \in server /\ HandlerIsLast(s))
    /\ connected_sessions' = connected_sessions \ {s}
    /\ Resume(ClosedWake(s))
    /\ UNCHANGED <<port, pending_sessions, accepted, call, wakeups>>

\* The handle of a server session is closed: nobody wakes its clients.
CloseServerSession(t, s) ==
    /\ status[t] = "Running" /\ s \in accepted[t]
    /\ accepted' = [accepted EXCEPT ![t] = @ \ {s}]
    /\ DestroyServer(s, TRUE) /\ ForgetRequests(s)
    /\ UNCHANGED <<status, wait_objects, port, client, pending_sessions, connected_sessions,
                   call, wakeups>>

-------------------------------------------------------------------------------
(* Requests                                                                *)

\* SendSyncRequest to a process.  A server that waits for the session gets it.
SendSyncRequest(c, s) ==
    /\ status[c] = "Running" /\ s \in client \cap server /\ s \notin connected_sessions
    /\ LET pending == [pending_requesting_threads EXCEPT ![s] = Append(@, c)]
           waiting == [status EXCEPT ![c] = "WaitIPC"]
           taken == Waiters(s) # {} /\ ~SessionShouldWait(s, client, pending, currently_handling)
       IN  IF taken
           THEN /\ pending_requesting_threads' = Remaining(s, client, pending)
                /\ currently_handling' = Handling(s, client, pending, currently_handling)
                /\ wait_objects' = [t \in Server |-> IF t \in Waiters(s) THEN {}
                                                                         ELSE wait_objects[t]]
                /\ status' = [t \in Client \cup Server |->
                                IF t \in Waiters(s) THEN "Running" ELSE waiting[t]]
           ELSE /\ pending_requesting_threads' = pending
                /\ status' = waiting
                /\ UNCHANGED <<currently_handling, wait_objects>>
    /\ call' = [call EXCEPT ![c] = s]
    /\ UNCHANGED <<portVars, wakeups>>

\* The answer of ReplyAndReceive for the session r; nothing is answered when the
\* client is gone.
HandlingAfterReplyKept(r) == currently_handling
HandlingAfterReply(r) == [s \in Session |-> IF s = r THEN None ELSE currently_handling[s]]

ReplyFails(r) == r # None /\ (r \notin client \/ currently_handling[r] = None)

\* ReplyAndReceive, for the session r or none, and then for the first of the
\* objects that is ready.  The caller chooses their order: any that is ready.
ReplyAndReceive(t, r, objects) ==
    LET handling == HandlingAfterReply(r)
        answered == IF r = None THEN {} ELSE {currently_handling[r]} \ {None}
        replied == [u \in Client \cup Server |-> IF u \in answered THEN "Running" ELSE status[u]]
        returned == [c \in Client |-> IF c \in answered THEN None ELSE call[c]]
        ready == {o \in objects :
                    IF o \in Port THEN ~PortShouldWait(o, pending_sessions)
                    ELSE ~SessionShouldWait(o, client, pending_requesting_threads, handling)}
        Acquire(o) ==
          IF o \in Session
          THEN /\ currently_handling' = Handling(o, client, pending_requesting_threads, handling)
               /\ pending_requesting_threads' = Remaining(o, client, pending_requesting_threads)
          ELSE currently_handling' = handling /\ UNCHANGED pending_requesting_threads
    IN  /\ status[t] = "Running"
        /\ r \in accepted[t] \cup {None} /\ objects \subseteq accepted[t] \cup (Port \ Hle)
        /\ CASE ReplyFails(r) ->
                  /\ currently_handling' = handling
                  /\ UNCHANGED <<status, wait_objects, pending_requesting_threads, call>>
             [] ~ReplyFails(r) /\ (ready # {} \/ objects = {}) ->
                  /\ status' = replied /\ call' = returned
                  /\ IF objects = {}
                     THEN currently_handling' = handling /\ UNCHANGED pending_requesting_threads
                     ELSE \E o \in ready : Acquire(o)
                  /\ UNCHANGED wait_objects
             [] OTHER ->
                  /\ currently_handling' = handling
                  /\ status' = [replied EXCEPT ![t] = "WaitSynchAny"] /\ call' = returned
                  /\ wait_objects' = [wait_objects EXCEPT ![t] = objects]
                  /\ UNCHANGED pending_requesting_threads
        /\ UNCHANGED <<portVars, wakeups>>

-------------------------------------------------------------------------------
(* Requests the emulator handles                                           *)

\* SendSyncRequest to an HLE service that answers at once: the thread sleeps for
\* IPCDelayNanoseconds.
HleAnswers(c, s) ==
    /\ status[c] = "Running" /\ s \in client \cap connected_sessions
    /\ status' = [status EXCEPT ![c] = "WaitIPC"]
    /\ wakeups' = wakeups \cup {c}
    /\ call' = [call EXCEPT ![c] = s]
    /\ UNCHANGED <<wait_objects, portVars, requestVars>>

\* ... or lets the thread sleep: SleepClientThread.
HleSleeps(c, s) ==
    /\ status[c] = "Running" /\ s \in client \cap connected_sessions
    /\ status' = [status EXCEPT ![c] = "WaitHleEvent"]
    /\ call' = [call EXCEPT ![c] = s]
    /\ UNCHANGED <<wait_objects, portVars, requestVars, wakeups>>

\* The delay is over.
DelayEnds(c) ==
    /\ c \in wakeups
    /\ wakeups' = wakeups \ {c}
    /\ status' = [status EXCEPT ![c] = "Running"]
    /\ call' = [call EXCEPT ![c] = None]
    /\ UNCHANGED <<wait_objects, portVars, requestVars>>

\* The event is signalled or the timeout fires: the response is written, and the
\* context goes with the callback that held it.
HleWakes(c) ==
    /\ status[c] = "WaitHleEvent"
    /\ status' = [status EXCEPT ![c] = "Running"]
    /\ call' = [call EXCEPT ![c] = None]
    /\ DestroyServer(call[c], call[c] \notin connected_sessions /\ SleepsFor(call[c]) = {c})
    /\ UNCHANGED <<wait_objects, port, client, pending_sessions, accepted, connected_sessions,
                   requestVars, wakeups>>

Next ==
    \/ \E c \in Client, s \in Session :
          \/ \E p \in Port : Connect(c, s, p)
          \/ CloseClientSession(c, s) \/ SendSyncRequest(c, s)
          \/ HleAnswers(c, s) \/ HleSleeps(c, s)
    \/ \E c \in Client : DelayEnds(c) \/ HleWakes(c)
    \/ \E t \in Server :
          \/ \E p \in Port : AcceptSession(t, p)
          \/ \E s \in Session : CloseServerSession(t, s)
          \/ \E r \in Session \cup {None}, objects \in SUBSET (Session \cup Port) :
                ReplyAndReceive(t, r, objects)

Spec == Init /\ [][Next]_vars

NameSymmetry == Permutations(Client) \cup Permutations(Session) \cup Permutations(Server)

-------------------------------------------------------------------------------
(* Properties                                                              *)

\* Every request is answered at most once, and no answer goes to a thread that did
\* not ask for it ("Thread ... has already resumed", thread.cpp 305): as long as
\* both ends of the session exist it knows the threads that wait for its answer,
\* once each, and nobody else, through every order of requests, replies that fail
\* and endpoints that are closed.
RequestsAccounted ==
    \A s \in Session :
        /\ ToSet(pending_requesting_threads[s]) \cup ({currently_handling[s]} \ {None})
             = {c \in Client : /\ status[c] = "WaitIPC" /\ c \notin wakeups
                               /\ call[c] = s /\ s \in client \cap server}
        /\ IsInjective(pending_requesting_threads[s])
        /\ currently_handling[s] \notin ToSet(pending_requesting_threads[s])

\* A server thread sleeps only while none of the objects it waits for is ready: a
\* request, a connection or the end of a client always wakes it.  "This call has
\* to happen after Session::client has been set to nullptr" (client_session.cpp 42).
SleepsOnlyWhenIdle ==
    \A t \in Server, o \in Session \cup Port :
        o \in wait_objects[t] =>
            IF o \in Port THEN PortShouldWait(o, pending_sessions)
            ELSE SessionShouldWait(o, client, pending_requesting_threads, currently_handling)

\* A port counts exactly the server sessions that are still referred to, by the
\* port, a handle, an HLE handler or the context of a sleeping request: a place is
\* neither lost nor given back twice (ASSERT of ClientPort::ConnectionClosed).
ActiveSessionsExact ==
    \A p \in Port :
        /\ active_sessions[p] <= max_sessions
        /\ active_sessions[p] =
             Cardinality({s \in Session :
                /\ port[s] = p
                /\ \/ s \in ToSet(pending_sessions[p]) \/ s \in connected_sessions
                   \/ \E t \in Server : s \in accepted[t]
                   \/ SleepsFor(s) # {}})
===============================================================================
