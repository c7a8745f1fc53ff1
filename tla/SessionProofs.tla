---------------------------- MODULE SessionProofs -----------------------------
(***************************************************************************)
(* Interprocess calls for any number of threads, sessions and ports: no    *)
(* request is lost or answered twice, no server sleeps while it has work,  *)
(* and no place of a port leaks.                                           *)
(*                                                                         *)
(* The three depend on where a session is.  A session of an emulated port  *)
(* is in the list of its port or with one server thread; a session of the  *)
(* emulator is with its handler as long as its client exists, and after    *)
(* that only with the requests that sleep.                                 *)
(***************************************************************************)
EXTENDS Session, FiniteSetTheorems, SequenceTheorems, TLAPS

Status == {"Running", "WaitIPC", "WaitHleEvent", "WaitSynchAny"}

TypeOK ==
    /\ status \in [Client \cup Server -> Status]
    /\ wait_objects \in [Server -> SUBSET (Session \cup Port)]
    /\ port \in [Session -> Port \cup {None}]
    /\ client \subseteq Session /\ server \subseteq Session /\ connected_sessions \subseteq Session
    /\ pending_sessions \in [Port -> Seq(Session)]
    /\ active_sessions \in [Port -> Nat]
    /\ accepted \in [Server -> SUBSET Session]
    /\ pending_requesting_threads \in [Session -> Seq(Client)]
    /\ currently_handling \in [Session -> Client \cup {None}]
    /\ call \in [Client -> Session \cup {None}]
    /\ wakeups \subseteq Client

\* A session whose endpoint exists, or that the emulator knows, has been connected.
Connected ==
    /\ \A s \in client : port[s] # None
    /\ \A s \in connected_sessions : s \in client \cap server /\ port[s] \in Hle
    /\ \A s \in client : port[s] \in Hle => s \in connected_sessions

\* A session of the list of a port is there once, and nobody has accepted it.
Listed ==
    \A p \in Port :
        /\ IsInjective(pending_sessions[p])
        /\ \A s \in ToSet(pending_sessions[p]) :
              /\ port[s] = p /\ p \notin Hle /\ s \in server
              /\ \A t \in Server : s \notin accepted[t]

\* A session is served by the one thread that accepted it.
Accepted ==
    \A t \in Server : \A s \in accepted[t] :
        /\ port[s] \in Port \ Hle /\ s \in server
        /\ \A u \in Server : s \in accepted[u] => u = t

\* What a client thread waits for.
Calls ==
    \A c \in Client :
        /\ c \in wakeups => status[c] = "WaitIPC"
        /\ status[c] = "WaitHleEvent" => call[c] # None /\ port[call[c]] \in Hle
        /\ status[c] = "WaitIPC" /\ c \notin wakeups => call[c] # None /\ port[call[c]] \in Port \ Hle

\* A server thread waits for sessions it accepted, and sleeps meanwhile.
Serving ==
    \A t \in Server :
        /\ wait_objects[t] # {} => status[t] = "WaitSynchAny"
        /\ \A o \in wait_objects[t] : o \in Session => o \in accepted[t]

\* The sessions a port counts.
Referred(p) ==
    {s \in Session :
        /\ port[s] = p
        /\ \/ s \in ToSet(pending_sessions[p]) \/ s \in connected_sessions
           \/ \E t \in Server : s \in accepted[t]
           \/ SleepsFor(s) # {}}

CountedAt(p) ==
    /\ IsFiniteSet(Referred(p))
    /\ active_sessions[p] = Cardinality(Referred(p))
    /\ active_sessions[p] <= max_sessions

Counted == \A p \in Port : CountedAt(p)

Inv ==
    /\ TypeOK /\ Connected /\ Listed /\ Accepted /\ Calls /\ Serving
    /\ RequestsAccounted /\ SleepsOnlyWhenIdle /\ Counted

-------------------------------------------------------------------------------
(* Lists                                                                   *)

LEMMA AppendedList ==
    ASSUME NEW S, NEW q \in Seq(S), NEW x \in S
    PROVE  /\ Append(q, x) \in Seq(S) /\ Append(q, x) # <<>>
           /\ ToSet(Append(q, x)) = ToSet(q) \cup {x}
           /\ IsInjective(q) /\ x \notin ToSet(q) => IsInjective(Append(q, x))
           /\ Last(Append(q, x)) = x /\ Front(Append(q, x)) = q
<1>1. /\ Append(q, x) \in Seq(S) /\ Len(Append(q, x)) = Len(q) + 1
      /\ \A i \in 1 .. Len(q) : Append(q, x)[i] = q[i]
      /\ Append(q, x)[Len(q) + 1] = x
      /\ Len(q) \in Nat /\ DOMAIN q = 1 .. Len(q) /\ DOMAIN Append(q, x) = 1 .. Len(q) + 1
  OBVIOUS
<1>2. Append(q, x) # <<>>
  BY <1>1
<1>3. ToSet(Append(q, x)) = ToSet(q) \cup {x}
  <2>1. ASSUME NEW y \in ToSet(Append(q, x)) PROVE y \in ToSet(q) \cup {x}
    <3>1. PICK i \in 1 .. Len(q) + 1 : y = Append(q, x)[i]
      BY <1>1, <2>1 DEF ToSet
    <3>2. CASE i = Len(q) + 1
      BY <1>1, <3>1, <3>2
    <3>3. CASE i # Len(q) + 1
      <4>1. i \in 1 .. Len(q)
        BY <1>1, <3>3
      <4> QED BY <1>1, <3>1, <4>1 DEF ToSet
    <3> QED BY <3>2, <3>3
  <2>2. ASSUME NEW y \in ToSet(q) PROVE y \in ToSet(Append(q, x))
    <3>1. PICK i \in 1 .. Len(q) : y = q[i]
      BY <1>1, <2>2 DEF ToSet
    <3>2. i \in 1 .. Len(q) + 1
      BY <1>1
    <3> QED BY <1>1, <3>1, <3>2 DEF ToSet
  <2>3. x \in ToSet(Append(q, x))
    <3>1. Len(q) + 1 \in 1 .. Len(q) + 1
      BY <1>1
    <3> QED BY <1>1, <3>1 DEF ToSet
  <2> QED BY <2>1, <2>2, <2>3
<1>4. ASSUME IsInjective(q), x \notin ToSet(q) PROVE IsInjective(Append(q, x))
  <2> SUFFICES ASSUME NEW i \in 1 .. Len(q) + 1, NEW j \in 1 .. Len(q) + 1,
                      Append(q, x)[i] = Append(q, x)[j]
               PROVE  i = j
    BY <1>1 DEF IsInjective
  <2>1. \A k \in 1 .. Len(q) : q[k] # x
    BY <1>1, <1>4 DEF ToSet
  <2>2. CASE i \in 1 .. Len(q) /\ j \in 1 .. Len(q)
    BY <1>1, <1>4, <2>2 DEF IsInjective
  <2>3. CASE i = Len(q) + 1 /\ j \in 1 .. Len(q)
    BY <1>1, <2>1, <2>3
  <2>4. CASE j = Len(q) + 1 /\ i \in 1 .. Len(q)
    BY <1>1, <2>1, <2>4
  <2> QED BY <1>1, <2>2, <2>3, <2>4
<1>5. Last(Append(q, x)) = x
  BY <1>1 DEF Last
<1>6. Front(Append(q, x)) = q
  <2>1. Front(Append(q, x)) = SubSeq(Append(q, x), 1, Len(q))
    BY <1>1 DEF Front
  <2> QED BY <1>1, <2>1
<1> QED BY <1>1, <1>2, <1>3, <1>4, <1>5, <1>6

LEMMA FrontList ==
    ASSUME NEW S, NEW q \in Seq(S), q # <<>>, IsInjective(q)
    PROVE  /\ Front(q) \in Seq(S) /\ IsInjective(Front(q))
           /\ Last(q) \in ToSet(q) /\ Last(q) \in S
           /\ ToSet(Front(q)) = ToSet(q) \ {Last(q)}
<1>1. Len(q) \in Nat /\ Len(q) > 0 /\ DOMAIN q = 1 .. Len(q)
  OBVIOUS
<1>2. /\ Front(q) \in Seq(S) /\ Len(Front(q)) = Len(q) - 1
      /\ DOMAIN Front(q) = 1 .. Len(q) - 1
      /\ \A i \in 1 .. Len(q) - 1 : Front(q)[i] = q[i]
  BY <1>1 DEF Front
<1>3. Len(q) \in 1 .. Len(q) /\ \A i \in 1 .. Len(q) - 1 : i \in 1 .. Len(q) /\ i # Len(q)
  <2>1. \A n \in Nat : n > 0 => n \in 1 .. n /\ \A i \in 1 .. n - 1 : i \in 1 .. n /\ i # n
    OBVIOUS
  <2> QED BY <1>1, <2>1
<1>4. Last(q) \in ToSet(q) /\ Last(q) \in S
  <2>1. q[Len(q)] \in ToSet(q)
    BY <1>1, <1>3 DEF ToSet
  <2>2. q[Len(q)] \in S
    BY <1>1, <1>3, ElementOfSeq
  <2> QED BY <2>1, <2>2 DEF Last
<1>5. IsInjective(Front(q))
  BY <1>1, <1>2, <1>3 DEF IsInjective
<1>6. ASSUME NEW x \in ToSet(Front(q)) PROVE x \in ToSet(q) \ {Last(q)}
  <2>1. PICK i \in 1 .. Len(q) - 1 : x = q[i]
    BY <1>2, <1>6 DEF ToSet
  <2>2. x \in ToSet(q)
    BY <1>1, <1>3, <2>1 DEF ToSet
  <2>3. q[i] # q[Len(q)]
    BY <1>1, <1>3 DEF IsInjective
  <2> QED BY <2>1, <2>2, <2>3 DEF Last
<1>7. ASSUME NEW x \in ToSet(q) \ {Last(q)} PROVE x \in ToSet(Front(q))
  <2>1. PICK i \in 1 .. Len(q) : x = q[i]
    BY <1>1, <1>7 DEF ToSet
  <2>2. i \in 1 .. Len(q) - 1
    BY <1>1, <1>7, <2>1 DEF Last
  <2> QED BY <1>2, <2>1, <2>2 DEF ToSet
<1> QED BY <1>2, <1>4, <1>5, <1>6, <1>7

LEMMA EmptyList ==
    /\ ToSet(<<>>) = {} /\ IsInjective(<<>>)
    /\ \A S : <<>> \in Seq(S)
    /\ \A S : \A q \in Seq(S) : ToSet(q) = {} => q = <<>>
    /\ \A S : \A q \in Seq(S) : ToSet(q) \subseteq S
<1>1. ASSUME NEW S, NEW q \in Seq(S), ToSet(q) = {} PROVE q = <<>>
  <2>1. Len(q) \in Nat /\ DOMAIN q = 1 .. Len(q)
    OBVIOUS
  <2>2. 1 \notin DOMAIN q
    BY <1>1 DEF ToSet
  <2> QED BY <2>1, <2>2
<1>2. \A S : \A q \in Seq(S) : ToSet(q) \subseteq S
  BY DEF ToSet
<1>3. ToSet(<<>>) = {} /\ IsInjective(<<>>) /\ \A S : <<>> \in Seq(S)
  BY DEF ToSet, IsInjective
<1> QED BY <1>1, <1>2, <1>3

-------------------------------------------------------------------------------
(* What the steps have in common                                           *)

\* A port counts the same sessions, ...
LEMMA CountsSame ==
    ASSUME Counted, NEW p \in Port, Referred(p)' = Referred(p),
           active_sessions'[p] = active_sessions[p]
    PROVE  CountedAt(p)'
BY DEF Counted, CountedAt

\* ... one more, ...
LEMMA CountsMore ==
    ASSUME TypeOK, Counted, NEW p \in Port, NEW s, s \notin Referred(p),
           Referred(p)' = Referred(p) \cup {s}, active_sessions[p] < max_sessions,
           active_sessions'[p] = active_sessions[p] + 1
    PROVE  CountedAt(p)'
<1>1. IsFiniteSet(Referred(p)) /\ active_sessions[p] = Cardinality(Referred(p))
  BY DEF Counted, CountedAt
<1>2. IsFiniteSet(Referred(p) \cup {s}) /\ Cardinality(Referred(p) \cup {s}) = active_sessions[p] + 1
  BY <1>1, FS_AddElement
<1>3. active_sessions[p] \in Nat /\ max_sessions \in Nat
  BY SessionAssumption DEF TypeOK
<1>4. active_sessions[p] + 1 <= max_sessions
  BY <1>3
<1> QED BY <1>2, <1>4 DEF CountedAt

\* ... or one less, and that one it did count.
LEMMA CountsLess ==
    ASSUME TypeOK, Counted, NEW p \in Port, NEW s \in Referred(p)
    PROVE  /\ active_sessions[p] - 1 \in Nat
           /\ /\ Referred(p)' = Referred(p) \ {s}
              /\ active_sessions'[p] = active_sessions[p] - 1
              => CountedAt(p)'
<1>1. /\ IsFiniteSet(Referred(p)) /\ active_sessions[p] = Cardinality(Referred(p))
      /\ active_sessions[p] <= max_sessions
  BY DEF Counted, CountedAt
<1>2. IsFiniteSet(Referred(p) \ {s}) /\ Cardinality(Referred(p) \ {s}) = active_sessions[p] - 1
  BY <1>1, FS_RemoveElement
<1>3. active_sessions[p] - 1 \in Nat
  BY <1>2, FS_CardinalityType
<1>4. active_sessions[p] \in Nat /\ max_sessions \in Nat
  BY SessionAssumption DEF TypeOK
<1>5. active_sessions[p] - 1 <= max_sessions
  BY <1>1, <1>4
<1> QED BY <1>2, <1>3, <1>5 DEF CountedAt

\* The wait of the server threads W ends.
Woken(W) ==
    /\ status' \in [Client \cup Server -> Status]
    /\ wait_objects' \in [Server -> SUBSET (Session \cup Port)]
    /\ \A c \in Client : status'[c] = status[c]
    /\ \A t \in Server : t \in W => wait_objects'[t] = {}
    /\ \A t \in Server : t \notin W => wait_objects'[t] = wait_objects[t] /\ status'[t] = status[t]

LEMMA ResumeWakes ==
    ASSUME TypeOK, NEW W \in SUBSET Server, Resume(W)
    PROVE  Woken(W)
<1>1. status' \in [Client \cup Server -> Status]
  BY DEF Resume, TypeOK, Status
<1>2. wait_objects' \in [Server -> SUBSET (Session \cup Port)]
  BY DEF Resume, TypeOK
<1>3. \A c \in Client : c \notin W
  BY SessionAssumption
<1>4. \A c \in Client : status'[c] = status[c]
  BY <1>3 DEF Resume
<1>5. /\ \A t \in Server : t \in W => wait_objects'[t] = {}
      /\ \A t \in Server : t \notin W => wait_objects'[t] = wait_objects[t] /\ status'[t] = status[t]
  BY DEF Resume
<1> QED BY <1>1, <1>2, <1>4, <1>5 DEF Woken

LEMMA NobodyWoken ==
    ASSUME TypeOK, UNCHANGED <<status, wait_objects>>
    PROVE  Woken({})
BY DEF Woken, TypeOK

LEMMA WokenServing ==
    ASSUME TypeOK, Serving, NEW W, Woken(W), \A t \in Server : accepted[t] \subseteq accepted'[t]
    PROVE  Serving'
BY DEF Serving, Woken

\* Calls that stay as they are, to sessions that stay connected.
LEMMA SameCalls ==
    ASSUME TypeOK, Calls, \A c \in Client : status'[c] = status[c], UNCHANGED <<call, wakeups>>,
           \A s \in Session : port[s] # None => port'[s] = port[s]
    PROVE  Calls'
<1>1. \A p \in Port : p # None
  BY SessionAssumption
<1> SUFFICES ASSUME NEW c \in Client
             PROVE  /\ c \in wakeups => status[c] = "WaitIPC"
                    /\ status[c] = "WaitHleEvent" => call[c] # None /\ port'[call[c]] \in Hle
                    /\ status[c] = "WaitIPC" /\ c \notin wakeups
                         => call[c] # None /\ port'[call[c]] \in Port \ Hle
  BY DEF Calls
<1>2. call[c] # None => call[c] \in Session
  BY DEF TypeOK
<1> QED BY <1>1, <1>2, SessionAssumption DEF Calls

\* Threads that sleep for a session.
LEMMA SameSleepers ==
    ASSUME \A c \in Client : status'[c] = status[c], UNCHANGED call
    PROVE  \A s \in Session : SleepsFor(s)' = SleepsFor(s)
BY DEF SleepsFor

\* A session knows the threads that wait for its answer.
Waiting(s) ==
    {c \in Client : /\ status[c] = "WaitIPC" /\ c \notin wakeups
                    /\ call[c] = s /\ s \in client \cap server}
RequestsAt(s) ==
    /\ ToSet(pending_requesting_threads[s]) \cup ({currently_handling[s]} \ {None}) = Waiting(s)
    /\ IsInjective(pending_requesting_threads[s])
    /\ currently_handling[s] \notin ToSet(pending_requesting_threads[s])

LEMMA RequestsEach == RequestsAccounted <=> \A s \in Session : RequestsAt(s)
BY DEF RequestsAccounted, RequestsAt, Waiting

LEMMA SameRequests ==
    ASSUME NEW s \in Session, RequestsAt(s), Waiting(s)' = Waiting(s),
           pending_requesting_threads'[s] = pending_requesting_threads[s],
           currently_handling'[s] = currently_handling[s]
    PROVE  RequestsAt(s)'
BY DEF RequestsAt

\* Nobody waits for the answer of a session that has lost an end, or that the
\* emulator serves.
LEMMA NoRequests ==
    ASSUME TypeOK, NEW s \in Session, RequestsAt(s), Waiting(s) = {}
    PROVE  pending_requesting_threads[s] = <<>> /\ currently_handling[s] = None
<1>1. ToSet(pending_requesting_threads[s]) = {} /\ {currently_handling[s]} \ {None} = {}
  BY DEF RequestsAt
<1>2. pending_requesting_threads[s] \in Seq(Client)
  BY DEF TypeOK
<1> QED BY <1>1, <1>2, EmptyList

LEMMA ForgetsRequests ==
    ASSUME TypeOK, NEW s \in Session, ForgetRequests(s), \A q \in Session : RequestsAt(q),
           Waiting(s)' = {}, \A q \in Session \ {s} : Waiting(q)' = Waiting(q)
    PROVE  \A q \in Session : RequestsAt(q)'
<1>1. /\ pending_requesting_threads'[s] = <<>> /\ currently_handling'[s] = None
      /\ \A q \in Session \ {s} : /\ pending_requesting_threads'[q] = pending_requesting_threads[q]
                                   /\ currently_handling'[q] = currently_handling[q]
  BY DEF ForgetRequests, TypeOK
<1>2. RequestsAt(s)'
  BY <1>1, EmptyList DEF RequestsAt
<1>3. \A q \in Session \ {s} : RequestsAt(q)'
  BY <1>1, SameRequests
<1> QED BY <1>2, <1>3

-------------------------------------------------------------------------------
(* Ports                                                                   *)

\* A session that is not connected is nowhere.
LEMMA NewSession ==
    ASSUME Inv, NEW s \in Session, port[s] = None
    PROVE  /\ s \notin client /\ s \notin connected_sessions
           /\ \A p \in Port : s \notin ToSet(pending_sessions[p])
           /\ \A t \in Server : s \notin accepted[t]
           /\ SleepsFor(s) = {}
           /\ \A c \in Client : ~(status[c] = "WaitIPC" /\ c \notin wakeups /\ call[c] = s)
<1>1. \A p \in Port : p # None
  BY SessionAssumption
<1>2. s \notin client /\ s \notin connected_sessions
  BY DEF Inv, Connected
<1>3. \A p \in Port : s \notin ToSet(pending_sessions[p])
  BY <1>1 DEF Inv, Listed
<1>4. \A t \in Server : s \notin accepted[t]
  BY <1>1 DEF Inv, Accepted
<1>5. SleepsFor(s) = {}
  BY <1>1, SessionAssumption DEF Inv, Calls, SleepsFor
<1>6. \A c \in Client : ~(status[c] = "WaitIPC" /\ c \notin wakeups /\ call[c] = s)
  BY <1>1 DEF Inv, Calls
<1> QED BY <1>2, <1>3, <1>4, <1>5, <1>6

LEMMA ConnectInv ==
    ASSUME Inv, NEW c \in Client, NEW s \in Session, NEW p \in Port, Connect(c, s, p)
    PROVE  Inv'
<1>1. /\ port[s] = None /\ active_sessions[p] < max_sessions
      /\ active_sessions' = [active_sessions EXCEPT ![p] = @ + 1]
      /\ port' = [port EXCEPT ![s] = p]
      /\ client' = client \cup {s} /\ server' = server \cup {s}
      /\ UNCHANGED <<accepted, pending_requesting_threads, currently_handling, call, wakeups>>
  BY DEF Connect, requestVars
<1>2. PICK W \in SUBSET Server :
        /\ Woken(W) /\ (p \notin Hle => \A t \in Server : p \in wait_objects[t] => t \in W)
        /\ IF p \in Hle
           THEN connected_sessions' = connected_sessions \cup {s} /\ UNCHANGED pending_sessions
           ELSE /\ pending_sessions' = [pending_sessions EXCEPT ![p] = Append(@, s)]
                /\ UNCHANGED connected_sessions
  <2>1. CASE p \in Hle
    BY <2>1, NobodyWoken DEF Connect, Inv
  <2>2. CASE p \notin Hle
    <3>1. Waiters(p) \in SUBSET Server /\ Resume(Waiters(p))
      BY <2>2 DEF Connect, Waiters
    <3>2. Woken(Waiters(p))
      BY <3>1, ResumeWakes DEF Inv
    <3> QED BY <2>2, <3>1, <3>2 DEF Connect, Waiters
  <2> QED BY <2>1, <2>2
<1>n. /\ s \notin client /\ s \notin connected_sessions
      /\ \A q \in Port : s \notin ToSet(pending_sessions[q])
      /\ \A t \in Server : s \notin accepted[t]
      /\ SleepsFor(s) = {}
      /\ \A d \in Client : ~(status[d] = "WaitIPC" /\ d \notin wakeups /\ call[d] = s)
  BY <1>1, NewSession
<1>p. /\ port'[s] = p /\ \A q \in Session \ {s} : port'[q] = port[q]
  BY <1>1 DEF Inv, TypeOK
<1>l. /\ pending_sessions' \in [Port -> Seq(Session)]
      /\ \A q \in Port : q # p \/ p \in Hle => pending_sessions'[q] = pending_sessions[q]
      /\ p \notin Hle => /\ IsInjective(pending_sessions'[p]) /\ pending_sessions'[p] # <<>>
                         /\ ToSet(pending_sessions'[p]) = ToSet(pending_sessions[p]) \cup {s}
  <2>1. CASE p \in Hle
    BY <1>2, <2>1 DEF Inv, TypeOK
  <2>2. CASE p \notin Hle
    <3>1. pending_sessions[p] \in Seq(Session) /\ IsInjective(pending_sessions[p])
      BY DEF Inv, TypeOK, Listed
    <3>2. pending_sessions'[p] = Append(pending_sessions[p], s)
      BY <1>2, <2>2 DEF Inv, TypeOK
    <3>3. /\ Append(pending_sessions[p], s) \in Seq(Session) /\ Append(pending_sessions[p], s) # <<>>
          /\ ToSet(Append(pending_sessions[p], s)) = ToSet(pending_sessions[p]) \cup {s}
          /\ IsInjective(Append(pending_sessions[p], s))
      BY <1>n, <3>1, AppendedList
    <3>4. pending_sessions' \in [Port -> Seq(Session)]
      BY <1>2, <2>2, <3>3 DEF Inv, TypeOK
    <3>5. \A q \in Port : q # p => pending_sessions'[q] = pending_sessions[q]
      BY <1>2, <2>2 DEF Inv, TypeOK
    <3> QED BY <2>2, <3>2, <3>3, <3>4, <3>5
  <2> QED BY <2>1, <2>2
<1>3. TypeOK'
  <2>1. active_sessions' \in [Port -> Nat] /\ port' \in [Session -> Port \cup {None}]
    BY <1>1 DEF Inv, TypeOK
  <2>2. connected_sessions' \subseteq Session /\ client' \subseteq Session /\ server' \subseteq Session
    BY <1>1, <1>2 DEF Inv, TypeOK
  <2> QED BY <1>1, <1>2, <1>l, <2>1, <2>2 DEF Inv, TypeOK, Woken
<1>4. Connected'
  <2>1. \A x \in client' : port'[x] # None
    BY <1>1, <1>p, SessionAssumption DEF Inv, Connected, TypeOK
  <2>2. \A x \in connected_sessions' : x \in client' \cap server' /\ port'[x] \in Hle
    BY <1>1, <1>2, <1>p, <1>n DEF Inv, Connected, TypeOK
  <2>3. \A x \in client' : port'[x] \in Hle => x \in connected_sessions'
    BY <1>1, <1>2, <1>p, <1>n DEF Inv, Connected, TypeOK
  <2> QED BY <2>1, <2>2, <2>3 DEF Connected
<1>5. Listed'
  <2> SUFFICES ASSUME NEW q \in Port
               PROVE  /\ IsInjective(pending_sessions'[q])
                      /\ \A x \in ToSet(pending_sessions'[q]) :
                            /\ port'[x] = q /\ q \notin Hle /\ x \in server'
                            /\ \A t \in Server : x \notin accepted'[t]
    BY DEF Listed
  <2>1. ToSet(pending_sessions[q]) \subseteq Session /\ s \notin ToSet(pending_sessions[q])
    BY <1>n, EmptyList DEF Inv, TypeOK
  <2>2. CASE q # p \/ p \in Hle
    BY <1>1, <1>p, <1>l, <2>1, <2>2 DEF Inv, Listed
  <2>3. CASE q = p /\ p \notin Hle
    <3>1. \A x \in ToSet(pending_sessions[p]) : /\ port[x] = p /\ x \in server /\ x # s
                                                /\ \A t \in Server : x \notin accepted[t]
      BY <1>n DEF Inv, Listed
    <3>2. ASSUME NEW x \in ToSet(pending_sessions[p])
          PROVE  port'[x] = p /\ x \in server' /\ \A t \in Server : x \notin accepted'[t]
      BY <1>1, <1>p, <2>1, <2>3, <3>1
    <3>3. port'[s] = p /\ s \in server' /\ \A t \in Server : s \notin accepted'[t]
      BY <1>1, <1>n, <1>p
    <3> QED BY <1>l, <2>3, <3>2, <3>3
  <2> QED BY <2>2, <2>3
<1>6. Accepted'
  BY <1>1, <1>n, <1>p DEF Inv, Accepted, TypeOK
<1>7. Calls'
  BY <1>1, <1>2, <1>p, SameCalls DEF Inv, Woken
<1>8. Serving'
  BY <1>1, <1>2, WokenServing DEF Inv
<1>9. RequestsAccounted'
  <2>1. \A x \in Session : RequestsAt(x)
    BY RequestsEach DEF Inv
  <2>2. \A x \in Session : Waiting(x)' = Waiting(x)
    BY <1>1, <1>2, <1>n DEF Waiting, Woken
  <2>3. \A x \in Session : RequestsAt(x)'
    BY <1>1, <2>1, <2>2, SameRequests
  <2> QED BY <2>3, RequestsEach DEF RequestsAccounted, RequestsAt, Waiting
<1>10. SleepsOnlyWhenIdle'
  <2> SUFFICES ASSUME NEW t \in Server, NEW o \in Session \cup Port, o \in wait_objects'[t]
               PROVE  IF o \in Port THEN PortShouldWait(o, pending_sessions')
                      ELSE SessionShouldWait(o, client', pending_requesting_threads',
                                             currently_handling')
    BY DEF SleepsOnlyWhenIdle
  <2>1. t \notin W /\ o \in wait_objects[t]
    BY <1>2 DEF Woken
  <2>2. CASE o \in Port
    <3>1. PortShouldWait(o, pending_sessions)
      BY <2>1, <2>2 DEF Inv, SleepsOnlyWhenIdle
    <3>2. o # p \/ p \in Hle
      BY <1>2, <2>1
    <3> QED BY <1>l, <2>2, <3>1, <3>2 DEF PortShouldWait
  <2>3. CASE o \notin Port
    BY <1>1, <2>1, <2>3 DEF Inv, SleepsOnlyWhenIdle, SessionShouldWait
  <2> QED BY <2>2, <2>3
<1>11. Counted'
  <2> SUFFICES ASSUME NEW q \in Port PROVE CountedAt(q)'
    BY DEF Counted
  <2>1. \A x \in Session : SleepsFor(x)' = SleepsFor(x)
    BY <1>1, <1>2, SameSleepers DEF Woken
  <2>2. s \notin Referred(q)
    BY <1>n DEF Referred
  <2>3. CASE q = p
    <3>1. Referred(p)' = Referred(p) \cup {s}
      BY <1>1, <1>2, <1>n, <1>p, <1>l, <2>1 DEF Referred
    <3>2. active_sessions'[p] = active_sessions[p] + 1
      BY <1>1 DEF Inv, TypeOK
    <3> QED BY <1>1, <2>2, <2>3, <3>1, <3>2, CountsMore DEF Inv
  <2>4. CASE q # p
    <3>1. Referred(q)' = Referred(q)
      BY <1>1, <1>2, <1>n, <1>p, <1>l, <2>1, <2>4 DEF Referred
    <3>2. active_sessions'[q] = active_sessions[q]
      BY <1>1, <2>4 DEF Inv, TypeOK
    <3> QED BY <3>1, <3>2, CountsSame DEF Inv
  <2> QED BY <2>3, <2>4
<1> QED BY <1>3, <1>4, <1>5, <1>6, <1>7, <1>8, <1>9, <1>10, <1>11 DEF Inv

LEMMA AcceptSessionInv ==
    ASSUME Inv, NEW t \in Server, NEW p \in Port, AcceptSession(t, p)
    PROVE  Inv'
<1>1. /\ status[t] = "Running" /\ pending_sessions[p] # <<>>
      /\ UNCHANGED <<status, wait_objects, port, client, server, active_sessions, connected_sessions,
                     pending_requesting_threads, currently_handling, call, wakeups>>
  BY DEF AcceptSession, requestVars
<1>2. pending_sessions[p] \in Seq(Session) /\ IsInjective(pending_sessions[p])
  BY DEF Inv, TypeOK, Listed
<1>3. PICK s \in Session :
        /\ s = Last(pending_sessions[p]) /\ s \in ToSet(pending_sessions[p])
        /\ Front(pending_sessions[p]) \in Seq(Session) /\ IsInjective(Front(pending_sessions[p]))
        /\ ToSet(Front(pending_sessions[p])) = ToSet(pending_sessions[p]) \ {s}
  BY <1>1, <1>2, FrontList
<1>4. /\ port[s] = p /\ p \notin Hle /\ s \in server /\ \A u \in Server : s \notin accepted[u]
  BY <1>3 DEF Inv, Listed
<1>5. /\ accepted'[t] = accepted[t] \cup {s}
      /\ \A u \in Server \ {t} : accepted'[u] = accepted[u]
      /\ accepted' \in [Server -> SUBSET Session]
  BY <1>3 DEF AcceptSession, Inv, TypeOK
<1>6. /\ pending_sessions' \in [Port -> Seq(Session)]
      /\ \A q \in Port \ {p} : pending_sessions'[q] = pending_sessions[q]
      /\ pending_sessions'[p] = Front(pending_sessions[p])
  BY <1>3 DEF AcceptSession, Inv, TypeOK
<1>7. TypeOK'
  BY <1>1, <1>5, <1>6 DEF Inv, TypeOK
<1>8. Connected'
  BY <1>1 DEF Inv, Connected
<1>9. Listed'
  <2> SUFFICES ASSUME NEW q \in Port
               PROVE  /\ IsInjective(pending_sessions'[q])
                      /\ \A x \in ToSet(pending_sessions'[q]) :
                            /\ port[x] = q /\ q \notin Hle /\ x \in server
                            /\ \A u \in Server : x \notin accepted'[u]
    BY <1>1 DEF Listed
  <2>1. IsInjective(pending_sessions'[q])
    BY <1>3, <1>6 DEF Inv, Listed
  <2>2. ASSUME NEW x \in ToSet(pending_sessions'[q])
        PROVE  x \in ToSet(pending_sessions[q]) /\ x # s
    <3>1. CASE q = p
      BY <1>3, <1>6, <2>2, <3>1
    <3>2. CASE q # p
      BY <1>4, <1>6, <2>2, <3>2 DEF Inv, Listed
    <3> QED BY <3>1, <3>2
  <2>3. ASSUME NEW x \in ToSet(pending_sessions'[q])
        PROVE  /\ port[x] = q /\ q \notin Hle /\ x \in server
               /\ \A u \in Server : x \notin accepted'[u]
    BY <1>5, <2>2, <2>3 DEF Inv, Listed
  <2> QED BY <2>1, <2>3
<1>10. Accepted'
  <2> SUFFICES ASSUME NEW v \in Server, NEW x \in accepted'[v]
               PROVE  /\ port[x] \in Port \ Hle /\ x \in server
                      /\ \A u \in Server : x \in accepted'[u] => u = v
    BY <1>1 DEF Accepted
  <2>1. CASE x = s
    BY <1>4, <1>5, <2>1
  <2>2. CASE x # s
    BY <1>5, <2>2 DEF Inv, Accepted
  <2> QED BY <2>1, <2>2
<1>11. Calls'
  BY <1>1 DEF Inv, Calls
<1>12. Serving'
  BY <1>1, <1>5, NobodyWoken, WokenServing DEF Inv
<1>13. RequestsAccounted'
  BY <1>1 DEF Inv, RequestsAccounted
<1>14. SleepsOnlyWhenIdle'
  <2> SUFFICES ASSUME NEW u \in Server, NEW o \in Session \cup Port, o \in wait_objects[u]
               PROVE  IF o \in Port THEN PortShouldWait(o, pending_sessions')
                      ELSE SessionShouldWait(o, client, pending_requesting_threads,
                                             currently_handling)
    BY <1>1 DEF SleepsOnlyWhenIdle
  <2>1. IF o \in Port THEN PortShouldWait(o, pending_sessions)
        ELSE SessionShouldWait(o, client, pending_requesting_threads, currently_handling)
    BY DEF Inv, SleepsOnlyWhenIdle
  <2> QED BY <1>1, <1>6, <2>1 DEF PortShouldWait
<1>15. Counted'
  <2> SUFFICES ASSUME NEW q \in Port PROVE CountedAt(q)'
    BY DEF Counted
  <2>1. \A x \in Session : SleepsFor(x)' = SleepsFor(x)
    BY <1>1 DEF SleepsFor
  <2>2. Referred(q)' = Referred(q)
    <3> SUFFICES ASSUME NEW x \in Session
                 PROVE  (x \in Referred(q)') <=> (x \in Referred(q))
      BY DEF Referred
    <3>1. CASE x = s
      BY <1>1, <1>3, <1>4, <1>5, <3>1 DEF Referred
    <3>2. CASE x # s
      <4>1. (x \in ToSet(pending_sessions'[q])) <=> (x \in ToSet(pending_sessions[q]))
        BY <1>3, <1>6, <3>2
      <4>2. \A u \in Server : (x \in accepted'[u]) <=> (x \in accepted[u])
        BY <1>5, <3>2
      <4> QED BY <1>1, <2>1, <4>1, <4>2 DEF Referred
    <3> QED BY <3>1, <3>2
  <2> QED BY <1>1, <2>2, CountsSame DEF Inv
<1> QED BY <1>7, <1>8, <1>9, <1>10, <1>11, <1>12, <1>13, <1>14, <1>15 DEF Inv

-------------------------------------------------------------------------------
(* The end of a session                                                    *)

LEMMA DestroyServerType ==
    ASSUME Inv, NEW s \in Session, NEW last \in BOOLEAN, DestroyServer(s, last),
           last => \E p \in Port : s \in Referred(p)
    PROVE  /\ server' \subseteq Session /\ active_sessions' \in [Port -> Nat]
           /\ ~last => UNCHANGED <<server, active_sessions>>
           /\ last => /\ server' = server \ {s} /\ port[s] \in Port
                      /\ active_sessions'[port[s]] = active_sessions[port[s]] - 1
                      /\ \A p \in Port \ {port[s]} : active_sessions'[p] = active_sessions[p]
<1>1. CASE ~last
  BY <1>1 DEF DestroyServer, Inv, TypeOK
<1>2. CASE last
  <2>1. port[s] \in Port /\ s \in Referred(port[s])
    BY <1>2 DEF Referred
  <2>2. active_sessions[port[s]] - 1 \in Nat
    BY <2>1, CountsLess DEF Inv
  <2>3. server' = server \ {s}
        /\ active_sessions' = [active_sessions EXCEPT ![port[s]] = @ - 1]
    BY <1>2 DEF DestroyServer
  <2> QED BY <1>2, <2>1, <2>2, <2>3 DEF Inv, TypeOK
<1> QED BY <1>1, <1>2

\* The port forgets a session that nobody refers to any more, and only that one.
LEMMA DestroyServerCounts ==
    ASSUME Inv, NEW s \in Session, NEW last \in BOOLEAN, DestroyServer(s, last), UNCHANGED port,
           last => s \in Referred(port[s]) /\ s \notin Referred(port[s])',
           ~last => \A p \in Port : (s \in Referred(p)') <=> (s \in Referred(p)),
           \A p \in Port : \A x \in Session \ {s} : (x \in Referred(p)') <=> (x \in Referred(p))
    PROVE  Counted'
<1> SUFFICES ASSUME NEW q \in Port PROVE CountedAt(q)'
  BY DEF Counted
<1>1. Referred(q) \subseteq Session /\ Referred(q)' \subseteq Session
  BY DEF Referred
<1>2. CASE ~last
  <2>1. Referred(q)' = Referred(q)
    BY <1>1, <1>2
  <2>2. active_sessions'[q] = active_sessions[q]
    BY <1>2 DEF DestroyServer
  <2> QED BY <2>1, <2>2, CountsSame DEF Inv
<1>3. CASE last /\ q = port[s]
  <2>1. Referred(q)' = Referred(q) \ {s}
    BY <1>1, <1>3
  <2>2. active_sessions'[q] = active_sessions[q] - 1
    BY <1>3 DEF DestroyServer, Inv, TypeOK
  <2> QED BY <1>3, <2>1, <2>2, CountsLess DEF Inv
<1>4. CASE last /\ q # port[s]
  <2>1. s \notin Referred(q) /\ s \notin Referred(q)'
    BY <1>4 DEF Referred
  <2>2. Referred(q)' = Referred(q)
    BY <1>1, <2>1
  <2>3. active_sessions'[q] = active_sessions[q]
    BY <1>4 DEF DestroyServer, Inv, TypeOK
  <2> QED BY <2>2, <2>3, CountsSame DEF Inv
<1> QED BY <1>2, <1>3, <1>4

\* A session of the emulator is in no list and with no server thread.
LEMMA HleSession ==
    ASSUME Inv, NEW s \in Session, port[s] \in Hle
    PROVE  /\ \A p \in Port : s \notin ToSet(pending_sessions[p])
           /\ \A t \in Server : s \notin accepted[t]
BY DEF Inv, Listed, Accepted

LEMMA CloseClientSessionInv ==
    ASSUME Inv, NEW c \in Client, NEW s \in Session, CloseClientSession(c, s)
    PROVE  Inv'
<1> DEFINE last == s \in server /\ HandlerIsLast(s)
<1>1. /\ s \in client /\ client' = client \ {s} /\ connected_sessions' = connected_sessions \ {s}
      /\ ForgetRequests(s) /\ DestroyServer(s, last)
      /\ UNCHANGED <<port, pending_sessions, accepted, call, wakeups>>
  BY DEF CloseClientSession
<1>2. PICK W \in SUBSET Server : Woken(W) /\ (s \in server => W = Waiters(s))
  <2>1. ClosedWake(s) \in SUBSET Server /\ Resume(ClosedWake(s))
    BY DEF CloseClientSession, ClosedWake, Waiters
  <2> QED BY <2>1, ResumeWakes DEF ClosedWake, Inv
<1>3. last => s \in connected_sessions /\ SleepsFor(s) = {} /\ port[s] \in Hle
  BY DEF HandlerIsLast, Inv, Connected
<1>4. last => s \in Referred(port[s]) /\ \E p \in Port : s \in Referred(p)
  BY <1>3, SessionAssumption DEF Referred
<1>5. /\ server' \subseteq Session /\ active_sessions' \in [Port -> Nat]
      /\ server' \subseteq server /\ server \subseteq server' \cup {s}
      /\ ~last => server' = server
  BY <1>1, <1>4, DestroyServerType DEF DestroyServer
<1>6. \A x \in Session : SleepsFor(x)' = SleepsFor(x)
  BY <1>1, <1>2, SameSleepers DEF Woken
<1>7. s \in server' \/ port[s] \in Hle \/ s \notin server
  BY <1>3, <1>5
<1> HIDE DEF last
<1>8. TypeOK'
  <2>1. /\ pending_requesting_threads' \in [Session -> Seq(Client)]
        /\ currently_handling' \in [Session -> Client \cup {None}]
    BY <1>1 DEF ForgetRequests, Inv, TypeOK
  <2> QED BY <1>1, <1>2, <1>5, <2>1 DEF Inv, TypeOK, Woken
<1>9. Connected'
  BY <1>1, <1>5 DEF Inv, Connected
<1>10. Listed'
  <2>1. ASSUME NEW q \in Port, NEW x \in ToSet(pending_sessions[q]) PROVE x \in server'
    <3>1. x \in server /\ port[x] = q /\ q \notin Hle
      BY DEF Inv, Listed
    <3> QED BY <1>5, <1>7, <3>1
  <2> QED BY <1>1, <2>1 DEF Inv, Listed
<1>11. Accepted'
  <2>1. ASSUME NEW t \in Server, NEW x \in accepted[t] PROVE x \in server'
    <3>1. x \in server /\ port[x] \notin Hle
      BY DEF Inv, Accepted
    <3> QED BY <1>5, <1>7, <3>1
  <2> QED BY <1>1, <2>1 DEF Inv, Accepted
<1>12. Calls'
  BY <1>1, <1>2, SameCalls DEF Inv, Woken
<1>13. Serving'
  BY <1>1, <1>2, WokenServing DEF Inv
<1>14. RequestsAccounted'
  <2>1. \A x \in Session : RequestsAt(x)
    BY RequestsEach DEF Inv
  <2>2. Waiting(s)' = {}
    BY <1>1 DEF Waiting
  <2>3. \A x \in Session \ {s} : Waiting(x)' = Waiting(x)
    BY <1>1, <1>2, <1>5 DEF Waiting, Woken
  <2>4. \A x \in Session : RequestsAt(x)'
    BY <1>1, <2>1, <2>2, <2>3, ForgetsRequests DEF Inv
  <2> QED BY <2>4 DEF RequestsAccounted, RequestsAt, Waiting
<1>15. SleepsOnlyWhenIdle'
  <2> SUFFICES ASSUME NEW t \in Server, NEW o \in Session \cup Port, o \in wait_objects'[t]
               PROVE  IF o \in Port THEN PortShouldWait(o, pending_sessions')
                      ELSE SessionShouldWait(o, client', pending_requesting_threads',
                                             currently_handling')
    BY DEF SleepsOnlyWhenIdle
  <2>1. t \notin W /\ o \in wait_objects[t]
    BY <1>2 DEF Woken
  <2>2. o # s
    <3>1. SUFFICES ASSUME o = s PROVE FALSE
      OBVIOUS
    <3>2. s \in accepted[t] /\ s \in server
      BY <2>1, <3>1 DEF Inv, Serving, Accepted
    <3> QED BY <1>2, <2>1, <3>1, <3>2 DEF Waiters
  <2>3. IF o \in Port THEN PortShouldWait(o, pending_sessions)
        ELSE SessionShouldWait(o, client, pending_requesting_threads, currently_handling)
    BY <2>1 DEF Inv, SleepsOnlyWhenIdle
  <2>4. CASE o \in Port
    BY <1>1, <2>3, <2>4
  <2>5. CASE o \notin Port
    <3>1. /\ pending_requesting_threads'[o] = pending_requesting_threads[o]
          /\ currently_handling'[o] = currently_handling[o]
      BY <1>1, <2>2, <2>5 DEF ForgetRequests, Inv, TypeOK
    <3> QED BY <1>1, <2>2, <2>3, <2>5, <3>1 DEF SessionShouldWait
  <2> QED BY <2>4, <2>5
<1>16. Counted'
  <2>1. last => s \notin Referred(port[s])'
    BY <1>1, <1>3, <1>6, HleSession, SessionAssumption DEF Referred
  <2>2. ~last => \A p \in Port : (s \in Referred(p)') <=> (s \in Referred(p))
    <3>1. CASE s \notin connected_sessions
      BY <1>1, <1>6, <3>1 DEF Referred
    <3>2. CASE s \in connected_sessions
      <4>1. ~last => SleepsFor(s) # {}
        BY <3>2 DEF last, HandlerIsLast, Inv, Connected
      <4> QED BY <1>1, <1>6, <4>1 DEF Referred
    <3> QED BY <3>1, <3>2
  <2>3. \A p \in Port : \A x \in Session \ {s} : (x \in Referred(p)') <=> (x \in Referred(p))
    BY <1>1, <1>6 DEF Referred
  <2>4. last \in BOOLEAN
    BY DEF last
  <2> QED BY <1>1, <1>4, <2>1, <2>2, <2>3, <2>4, DestroyServerCounts
<1> QED BY <1>8, <1>9, <1>10, <1>11, <1>12, <1>13, <1>14, <1>15, <1>16 DEF Inv

LEMMA CloseServerSessionInv ==
    ASSUME Inv, NEW t \in Server, NEW s \in Session, CloseServerSession(t, s)
    PROVE  Inv'
<1>1. /\ status[t] = "Running" /\ s \in accepted[t]
      /\ accepted' = [accepted EXCEPT ![t] = @ \ {s}]
      /\ DestroyServer(s, TRUE) /\ ForgetRequests(s)
      /\ UNCHANGED <<status, wait_objects, port, client, pending_sessions, connected_sessions,
                     call, wakeups>>
  BY DEF CloseServerSession
<1>2. /\ port[s] \in Port \ Hle /\ s \in server
      /\ \A u \in Server \ {t} : s \notin accepted[u]
  BY <1>1 DEF Inv, Accepted
<1>3. /\ s \notin connected_sessions /\ \A q \in Port : s \notin ToSet(pending_sessions[q])
      /\ SleepsFor(s) = {}
  BY <1>1, <1>2 DEF Inv, Connected, Listed, Calls, SleepsFor
<1>4. s \in Referred(port[s]) /\ \E p \in Port : s \in Referred(p)
  BY <1>1, <1>2 DEF Referred
<1>5. active_sessions' \in [Port -> Nat] /\ server' = server \ {s}
  BY <1>1, <1>4, DestroyServerType
<1>6. /\ accepted' \in [Server -> SUBSET Session] /\ accepted'[t] = accepted[t] \ {s}
      /\ \A u \in Server \ {t} : accepted'[u] = accepted[u]
      /\ \A u \in Server : s \notin accepted'[u]
  BY <1>1, <1>2 DEF Inv, TypeOK
<1>7. TypeOK'
  <2>1. /\ pending_requesting_threads' \in [Session -> Seq(Client)]
        /\ currently_handling' \in [Session -> Client \cup {None}]
    BY <1>1 DEF ForgetRequests, Inv, TypeOK
  <2>2. server' \subseteq Session
    BY <1>5 DEF Inv, TypeOK
  <2> QED BY <1>1, <1>5, <1>6, <2>1, <2>2 DEF Inv, TypeOK
<1>8. Connected'
  BY <1>1, <1>3, <1>5 DEF Inv, Connected
<1>9. Listed'
  <2> SUFFICES ASSUME NEW q \in Port
               PROVE  /\ IsInjective(pending_sessions[q])
                      /\ \A x \in ToSet(pending_sessions[q]) :
                            /\ port[x] = q /\ q \notin Hle /\ x \in server'
                            /\ \A u \in Server : x \notin accepted'[u]
    BY <1>1 DEF Listed
  <2>1. \A u \in Server : accepted'[u] \subseteq accepted[u]
    BY <1>6
  <2> QED BY <1>3, <1>5, <2>1 DEF Inv, Listed
<1>10. Accepted'
  BY <1>1, <1>5, <1>6 DEF Inv, Accepted
<1>11. Calls'
  BY <1>1 DEF Inv, Calls
<1>12. wait_objects[t] = {}
  BY <1>1 DEF Inv, Serving
<1>13. Serving'
  BY <1>1, <1>6, <1>12 DEF Inv, Serving
<1>14. RequestsAccounted'
  <2>1. \A x \in Session : RequestsAt(x)
    BY RequestsEach DEF Inv
  <2>2. Waiting(s)' = {}
    BY <1>5 DEF Waiting
  <2>3. \A x \in Session \ {s} : Waiting(x)' = Waiting(x)
    BY <1>1, <1>5 DEF Waiting
  <2>4. \A x \in Session : RequestsAt(x)'
    BY <1>1, <2>1, <2>2, <2>3, ForgetsRequests DEF Inv
  <2> QED BY <2>4 DEF RequestsAccounted, RequestsAt, Waiting
<1>15. SleepsOnlyWhenIdle'
  <2> SUFFICES ASSUME NEW u \in Server, NEW o \in Session \cup Port, o \in wait_objects[u]
               PROVE  IF o \in Port THEN PortShouldWait(o, pending_sessions)
                      ELSE SessionShouldWait(o, client, pending_requesting_threads',
                                             currently_handling')
    BY <1>1 DEF SleepsOnlyWhenIdle
  <2>1. IF o \in Port THEN PortShouldWait(o, pending_sessions)
        ELSE SessionShouldWait(o, client, pending_requesting_threads, currently_handling)
    BY DEF Inv, SleepsOnlyWhenIdle
  <2>2. o \in Session => o # s
    BY <1>2, <1>12 DEF Inv, Serving
  <2>3. o \notin Port => /\ pending_requesting_threads'[o] = pending_requesting_threads[o]
                         /\ currently_handling'[o] = currently_handling[o]
    BY <1>1, <2>2 DEF ForgetRequests, Inv, TypeOK
  <2> QED BY <2>1, <2>3 DEF SessionShouldWait
<1>16. Counted'
  <2>1. \A x \in Session : SleepsFor(x)' = SleepsFor(x)
    BY <1>1 DEF SleepsFor
  <2>2. s \notin Referred(port[s])'
    BY <1>1, <1>2, <1>3, <1>6, <2>1 DEF Referred
  <2>3. \A p \in Port : \A x \in Session \ {s} : (x \in Referred(p)') <=> (x \in Referred(p))
    <3>1. \A x \in Session \ {s} : \A u \in Server : (x \in accepted'[u]) <=> (x \in accepted[u])
      BY <1>6
    <3> QED BY <1>1, <2>1, <3>1 DEF Referred
  <2> QED BY <1>1, <1>4, <2>2, <2>3, DestroyServerCounts
<1> QED BY <1>7, <1>8, <1>9, <1>10, <1>11, <1>13, <1>14, <1>15, <1>16 DEF Inv

-------------------------------------------------------------------------------
(* Requests the emulator handles                                           *)

\* A client thread c goes to a status with a call: it waits for no server process,
\* before and after.
Moves(c, to, session) ==
    /\ UNCHANGED <<wait_objects, port, client, pending_sessions, accepted, connected_sessions,
                   pending_requesting_threads, currently_handling>>
    /\ status' = [status EXCEPT ![c] = to]
    /\ call' = [call EXCEPT ![c] = session]
    /\ status[c] = "WaitIPC" => c \in wakeups
    /\ to = "WaitIPC" => c \in wakeups'
    /\ c \in wakeups' => to = "WaitIPC"
    /\ wakeups' \subseteq Client
    /\ \A d \in Client \ {c} : (d \in wakeups') <=> (d \in wakeups)
    /\ to = "WaitHleEvent" => session # None /\ port[session] \in Hle

LEMMA MovesInv ==
    ASSUME Inv, NEW c \in Client, NEW to \in Status, NEW session \in Session \cup {None},
           Moves(c, to, session), server' \subseteq server, active_sessions' \in [Port -> Nat],
           \A s \in server \ server' : s \notin client /\ port[s] \in Hle,
           Counted'
    PROVE  Inv'
<1>1. UNCHANGED <<wait_objects, port, client, pending_sessions, accepted, connected_sessions,
                  pending_requesting_threads, currently_handling>>
  BY DEF Moves
<1>2. /\ status' \in [Client \cup Server -> Status] /\ call' \in [Client -> Session \cup {None}]
      /\ status'[c] = to /\ call'[c] = session
      /\ \A d \in Client \ {c} : status'[d] = status[d] /\ call'[d] = call[d]
  BY DEF Moves, Inv, TypeOK
<1>3. \A t \in Server : t # c /\ status'[t] = status[t]
  BY SessionAssumption DEF Moves, Inv, TypeOK
<1>4. TypeOK'
  BY <1>1, <1>2 DEF Moves, Inv, TypeOK
<1>5. Connected'
  BY <1>1 DEF Inv, Connected
<1>6. Listed'
  BY <1>1 DEF Inv, Listed
<1>7. Accepted'
  BY <1>1 DEF Inv, Accepted
<1>8. Calls'
  <2> SUFFICES ASSUME NEW d \in Client
               PROVE  /\ d \in wakeups' => status'[d] = "WaitIPC"
                      /\ status'[d] = "WaitHleEvent" => call'[d] # None /\ port[call'[d]] \in Hle
                      /\ status'[d] = "WaitIPC" /\ d \notin wakeups'
                           => call'[d] # None /\ port[call'[d]] \in Port \ Hle
    BY <1>1 DEF Calls
  <2>1. CASE d = c
    BY <1>2, <2>1 DEF Moves
  <2>2. CASE d # c
    BY <1>2, <2>2 DEF Moves, Inv, Calls
  <2> QED BY <2>1, <2>2
<1>9. Serving'
  BY <1>1, <1>3 DEF Inv, Serving
<1>10. RequestsAccounted'
  <2>1. ASSUME NEW s \in Session PROVE Waiting(s)' = Waiting(s)
    <3>1. (s \in client' \cap server') <=> (s \in client \cap server)
      BY <1>1
    <3>2. c \notin Waiting(s) /\ c \notin Waiting(s)'
      BY <1>2 DEF Waiting, Moves
    <3>3. \A d \in Client \ {c} : (d \in Waiting(s)') <=> (d \in Waiting(s))
      BY <1>2, <3>1 DEF Waiting, Moves
    <3> QED BY <3>2, <3>3 DEF Waiting
  <2>2. \A s \in Session : RequestsAt(s)
    BY RequestsEach DEF Inv
  <2>3. \A s \in Session : RequestsAt(s)'
    BY <1>1, <2>1, <2>2, SameRequests
  <2> QED BY <2>3 DEF RequestsAccounted, RequestsAt, Waiting
<1>11. SleepsOnlyWhenIdle'
  BY <1>1 DEF Inv, SleepsOnlyWhenIdle
<1> QED BY <1>4, <1>5, <1>6, <1>7, <1>8, <1>9, <1>10, <1>11 DEF Inv

\* A thread that sleeps neither before nor after, or for a session that its handler
\* still has, changes no count.
LEMMA MovesCounts ==
    ASSUME Inv, NEW c \in Client, NEW to \in Status, NEW session \in Session \cup {None},
           Moves(c, to, session), UNCHANGED active_sessions,
           status[c] = "WaitHleEvent" => call[c] \in connected_sessions,
           to = "WaitHleEvent" => session \in connected_sessions
    PROVE  Counted'
<1> SUFFICES ASSUME NEW q \in Port PROVE CountedAt(q)'
  BY DEF Counted
<1>1. /\ UNCHANGED <<port, pending_sessions, accepted, connected_sessions>>
      /\ status'[c] = to /\ call'[c] = session
      /\ \A d \in Client \ {c} : status'[d] = status[d] /\ call'[d] = call[d]
  BY DEF Moves, Inv, TypeOK
<1>2. \A x \in Session : x \notin connected_sessions => SleepsFor(x)' = SleepsFor(x)
  BY <1>1 DEF SleepsFor
<1>3. Referred(q)' = Referred(q)
  BY <1>1, <1>2 DEF Referred
<1> QED BY <1>3, CountsSame DEF Inv

LEMMA HleInv ==
    ASSUME Inv, NEW c \in Client, NEW s \in Session, HleAnswers(c, s) \/ HleSleeps(c, s)
    PROVE  Inv'
<1>1. /\ status[c] = "Running" /\ s \in client \cap connected_sessions
      /\ UNCHANGED <<portVars, wait_objects, requestVars>>
  BY DEF HleAnswers, HleSleeps
<1>2. port[s] \in Hle /\ s \in Session \cup {None} /\ s # None
  BY <1>1, SessionAssumption DEF Inv, Connected
<1>3. c \notin wakeups
  BY <1>1 DEF Inv, Calls
<1>4. wakeups \subseteq Client
  BY DEF Inv, TypeOK
<1>5. /\ "WaitIPC" \in Status /\ "WaitHleEvent" \in Status
  BY DEF Status
<1>6. active_sessions' \in [Port -> Nat] /\ server' = server /\ active_sessions' = active_sessions
  BY <1>1 DEF portVars, Inv, TypeOK
<1>7. CASE HleAnswers(c, s)
  <2>1. Moves(c, "WaitIPC", s)
    BY <1>1, <1>4, <1>7 DEF Moves, HleAnswers, portVars, requestVars
  <2>2. Counted'
    BY <1>1, <1>2, <1>5, <1>6, <2>1, MovesCounts
  <2> QED BY <1>2, <1>5, <1>6, <2>1, <2>2, MovesInv
<1>8. CASE HleSleeps(c, s)
  <2>1. Moves(c, "WaitHleEvent", s)
    BY <1>1, <1>2, <1>3, <1>4, <1>8 DEF Moves, HleSleeps, portVars, requestVars
  <2>2. Counted'
    BY <1>1, <1>2, <1>5, <1>6, <2>1, MovesCounts
  <2> QED BY <1>2, <1>5, <1>6, <2>1, <2>2, MovesInv
<1> QED BY <1>7, <1>8

LEMMA DelayEndsInv ==
    ASSUME Inv, NEW c \in Client, DelayEnds(c)
    PROVE  Inv'
<1>1. c \in wakeups /\ status[c] = "WaitIPC" /\ wakeups \subseteq Client
  BY DEF DelayEnds, Inv, Calls, TypeOK
<1>2. Moves(c, "Running", None)
  BY <1>1 DEF Moves, DelayEnds, portVars, requestVars
<1>3. active_sessions' \in [Port -> Nat] /\ server' = server /\ active_sessions' = active_sessions
  BY DEF DelayEnds, portVars, Inv, TypeOK
<1>4. "Running" \in Status /\ None \in Session \cup {None}
  BY DEF Status
<1>5. Counted'
  BY <1>1, <1>2, <1>3, <1>4, MovesCounts
<1> QED BY <1>2, <1>3, <1>4, <1>5, MovesInv

LEMMA HleWakesInv ==
    ASSUME Inv, NEW c \in Client, HleWakes(c)
    PROVE  Inv'
<1>1. PICK s \in Session : s = call[c] /\ status[c] = "WaitHleEvent" /\ port[s] \in Hle
  BY SessionAssumption DEF HleWakes, Inv, Calls, TypeOK
<1>2. c \notin wakeups /\ wakeups \subseteq Client
  BY <1>1 DEF Inv, Calls, TypeOK
<1>3. Moves(c, "Running", None)
  BY <1>1, <1>2 DEF Moves, HleWakes, requestVars
<1>4. PICK last \in BOOLEAN : /\ DestroyServer(s, last)
                              /\ last = (s \notin connected_sessions /\ SleepsFor(s) = {c})
  BY <1>1 DEF HleWakes
<1>5. c \in SleepsFor(s) /\ s \in Referred(port[s])
  BY <1>1 DEF SleepsFor, Referred
<1>6. /\ active_sessions' \in [Port -> Nat] /\ server' \subseteq server
      /\ last => server' = server \ {s}
      /\ ~last => server' = server
  <2>1. last => \E p \in Port : s \in Referred(p)
    BY <1>1, <1>5, SessionAssumption
  <2> QED BY <1>4, <2>1, DestroyServerType
<1>7. last => s \notin client
  BY <1>1, <1>4 DEF Inv, Connected
<1>8. Counted'
  <2>1. /\ UNCHANGED <<port, pending_sessions, accepted, connected_sessions>>
        /\ status'[c] = "Running"
        /\ \A d \in Client \ {c} : status'[d] = status[d] /\ call'[d] = call[d]
    BY <1>3 DEF Moves, Inv, TypeOK
  <2>2. SleepsFor(s)' = SleepsFor(s) \ {c} /\ \A x \in Session \ {s} : SleepsFor(x)' = SleepsFor(x)
    BY <1>1, <2>1 DEF SleepsFor
  <2>3. last => s \notin Referred(port[s])'
    BY <1>1, <1>4, <2>1, <2>2, HleSession, SessionAssumption DEF Referred
  <2>4. ~last => \A p \in Port : (s \in Referred(p)') <=> (s \in Referred(p))
    <3>1. ~last => s \in connected_sessions \/ SleepsFor(s) \ {c} # {}
      BY <1>4, <1>5
    <3> QED BY <2>1, <2>2, <3>1 DEF Referred
  <2>5. \A p \in Port : \A x \in Session \ {s} : (x \in Referred(p)') <=> (x \in Referred(p))
    BY <2>1, <2>2 DEF Referred
  <2> QED BY <1>4, <1>5, <2>1, <2>3, <2>4, <2>5, DestroyServerCounts
<1>9. \A x \in server \ server' : x \notin client /\ port[x] \in Hle
  BY <1>1, <1>6, <1>7
<1>10. "Running" \in Status /\ None \in Session \cup {None}
  BY DEF Status
<1> QED BY <1>3, <1>6, <1>8, <1>9, <1>10, MovesInv

-------------------------------------------------------------------------------
(* Requests                                                                *)

LEMMA SendSyncRequestInv ==
    ASSUME Inv, NEW c \in Client, NEW s \in Session, SendSyncRequest(c, s)
    PROVE  Inv'
<1>1. /\ status[c] = "Running" /\ s \in client \cap server /\ s \notin connected_sessions
      /\ call' = [call EXCEPT ![c] = s]
      /\ UNCHANGED <<port, client, server, pending_sessions, active_sessions, accepted,
                     connected_sessions, wakeups>>
  BY DEF SendSyncRequest, portVars
<1>2. PICK P \in Seq(Client), h \in Client \cup {None} :
        P = pending_requesting_threads[s] /\ h = currently_handling[s]
  BY DEF Inv, TypeOK
<1>3. /\ c \notin wakeups /\ c \notin ToSet(P) /\ c # h /\ IsInjective(P) /\ h \notin ToSet(P)
      /\ \A x \in Session : c \notin Waiting(x)
      /\ ToSet(P) \cup ({h} \ {None}) = Waiting(s)
  <2>1. RequestsAt(s)
    BY RequestsEach DEF Inv
  <2>2. c # None
    BY SessionAssumption
  <2> QED BY <1>1, <1>2, <2>1, <2>2 DEF Inv, Calls, RequestsAt, Waiting
<1>4. PICK pending \in [Session -> Seq(Client)] :
        /\ pending = [pending_requesting_threads EXCEPT ![s] = Append(@, c)]
        /\ pending[s] = Append(P, c)
        /\ \A x \in Session \ {s} : pending[x] = pending_requesting_threads[x]
  <2>1. Append(P, c) \in Seq(Client)
    BY AppendedList
  <2>2. pending_requesting_threads \in [Session -> Seq(Client)]
    BY DEF Inv, TypeOK
  <2>3. [pending_requesting_threads EXCEPT ![s] = Append(@, c)]
          = [pending_requesting_threads EXCEPT ![s] = Append(P, c)]
    BY <1>2
  <2>4. [pending_requesting_threads EXCEPT ![s] = Append(P, c)] \in [Session -> Seq(Client)]
    BY <2>1, <2>2
  <2> QED BY <2>2, <2>3, <2>4
<1>5. /\ Append(P, c) # <<>> /\ ToSet(Append(P, c)) = ToSet(P) \cup {c}
      /\ IsInjective(Append(P, c)) /\ Last(Append(P, c)) = c /\ Front(Append(P, c)) = P
  BY <1>3, AppendedList
<1>6. PICK taken \in BOOLEAN :
        taken = (Waiters(s) # {} /\ ~SessionShouldWait(s, client, pending, currently_handling))
  OBVIOUS
<1>7. /\ taken => /\ pending_requesting_threads' = Remaining(s, client, pending)
                  /\ currently_handling' = Handling(s, client, pending, currently_handling)
                  /\ wait_objects' = [t \in Server |-> IF t \in Waiters(s) THEN {}
                                                                           ELSE wait_objects[t]]
                  /\ status' = [t \in Client \cup Server |->
                                  IF t \in Waiters(s) THEN "Running"
                                  ELSE [status EXCEPT ![c] = "WaitIPC"][t]]
      /\ ~taken => /\ pending_requesting_threads' = pending
                   /\ status' = [status EXCEPT ![c] = "WaitIPC"]
                   /\ UNCHANGED <<currently_handling, wait_objects>>
  BY <1>4, <1>6 DEF SendSyncRequest
<1>8. PICK W \in SUBSET Server : (taken => W = Waiters(s)) /\ (~taken => W = {})
  BY DEF Waiters
<1>9. \A d \in Client : d \notin W /\ \A t \in Server : t # d
  BY SessionAssumption
<1>10. /\ status' \in [Client \cup Server -> Status]
       /\ wait_objects' \in [Server -> SUBSET (Session \cup Port)]
       /\ status'[c] = "WaitIPC" /\ \A d \in Client \ {c} : status'[d] = status[d]
       /\ \A t \in Server : t \in W => wait_objects'[t] = {}
       /\ \A t \in Server : t \notin W => wait_objects'[t] = wait_objects[t] /\ status'[t] = status[t]
  <2>1. CASE taken
    BY <1>7, <1>8, <1>9, <2>1 DEF Inv, TypeOK, Status
  <2>2. CASE ~taken
    BY <1>7, <1>8, <1>9, <2>2 DEF Inv, TypeOK, Status
  <2> QED BY <2>1, <2>2
<1>11. taken => h = None
  BY <1>1, <1>2, <1>6 DEF SessionShouldWait
<1>12. /\ pending_requesting_threads' \in [Session -> Seq(Client)]
       /\ currently_handling' \in [Session -> Client \cup {None}]
       /\ \A x \in Session \ {s} : /\ pending_requesting_threads'[x] = pending_requesting_threads[x]
                                   /\ currently_handling'[x] = currently_handling[x]
       /\ taken => pending_requesting_threads'[s] = P /\ currently_handling'[s] = c
       /\ ~taken => pending_requesting_threads'[s] = Append(P, c) /\ currently_handling'[s] = h
  <2>1. CASE taken
    <3>1. pending_requesting_threads' = [pending EXCEPT ![s] = P]
      BY <1>1, <1>4, <1>5, <1>7, <2>1 DEF Remaining
    <3>2. currently_handling' = [currently_handling EXCEPT ![s] = c]
      BY <1>1, <1>4, <1>5, <1>7, <2>1 DEF Handling
    <3> QED BY <1>4, <2>1, <3>1, <3>2 DEF Inv, TypeOK
  <2>2. CASE ~taken
    BY <1>2, <1>4, <1>7, <2>2 DEF Inv, TypeOK
  <2> QED BY <2>1, <2>2
<1>13. /\ call' \in [Client -> Session \cup {None}] /\ call'[c] = s
       /\ \A d \in Client \ {c} : call'[d] = call[d]
  BY <1>1 DEF Inv, TypeOK
<1>14. port[s] \in Port \ Hle /\ s # None
  BY <1>1, SessionAssumption DEF Inv, Connected, TypeOK
<1>15. TypeOK'
  BY <1>1, <1>10, <1>12, <1>13 DEF Inv, TypeOK
<1>16. Connected' /\ Listed' /\ Accepted'
  BY <1>1 DEF Inv, Connected, Listed, Accepted
<1>17. Calls'
  <2> SUFFICES ASSUME NEW d \in Client
               PROVE  /\ d \in wakeups => status'[d] = "WaitIPC"
                      /\ status'[d] = "WaitHleEvent" => call'[d] # None /\ port[call'[d]] \in Hle
                      /\ status'[d] = "WaitIPC" /\ d \notin wakeups
                           => call'[d] # None /\ port[call'[d]] \in Port \ Hle
    BY <1>1 DEF Calls
  <2>1. CASE d = c
    BY <1>10, <1>13, <1>14, <2>1
  <2>2. CASE d # c
    BY <1>10, <1>13, <2>2 DEF Inv, Calls
  <2> QED BY <2>1, <2>2
<1>18. Serving'
  BY <1>1, <1>10 DEF Inv, Serving
<1>19. RequestsAccounted'
  <2>1. Waiting(s)' = Waiting(s) \cup {c}
    BY <1>1, <1>3, <1>10, <1>13 DEF Waiting
  <2>2. \A x \in Session \ {s} : Waiting(x)' = Waiting(x)
    BY <1>1, <1>3, <1>10, <1>13 DEF Waiting
  <2>3. \A x \in Session \ {s} : RequestsAt(x)'
    BY <1>12, <2>2, RequestsEach, SameRequests DEF Inv
  <2>4. RequestsAt(s)'
    <3>1. c # None
      BY SessionAssumption
    <3>2. CASE taken
      BY <1>3, <1>11, <1>12, <2>1, <3>1, <3>2 DEF RequestsAt
    <3>3. CASE ~taken
      BY <1>3, <1>5, <1>12, <2>1, <3>1, <3>3 DEF RequestsAt
    <3> QED BY <3>2, <3>3
  <2> QED BY <2>3, <2>4 DEF RequestsAccounted, RequestsAt, Waiting
<1>20. SleepsOnlyWhenIdle'
  <2> SUFFICES ASSUME NEW t \in Server, NEW o \in Session \cup Port, o \in wait_objects'[t]
               PROVE  IF o \in Port THEN PortShouldWait(o, pending_sessions)
                      ELSE SessionShouldWait(o, client, pending_requesting_threads',
                                             currently_handling')
    BY <1>1 DEF SleepsOnlyWhenIdle
  <2>1. t \notin W /\ o \in wait_objects[t]
    BY <1>10
  <2>2. IF o \in Port THEN PortShouldWait(o, pending_sessions)
        ELSE SessionShouldWait(o, client, pending_requesting_threads, currently_handling)
    BY <2>1 DEF Inv, SleepsOnlyWhenIdle
  <2>3. CASE o \in Session /\ o # s
    BY <1>12, <2>2, <2>3, SessionAssumption DEF SessionShouldWait
  <2>4. CASE o = s
    <3>1. Waiters(s) # {} /\ ~taken
      BY <1>8, <2>1, <2>4 DEF Waiters
    <3>2. SessionShouldWait(s, client, pending, currently_handling)
      BY <1>6, <3>1
    <3> QED BY <1>7, <2>4, <3>1, <3>2, SessionAssumption
  <2> QED BY <2>2, <2>3, <2>4
<1>21. Counted'
  <2>1. \A x \in Session : SleepsFor(x)' = SleepsFor(x)
    BY <1>1, <1>10, <1>13 DEF SleepsFor
  <2>2. \A q \in Port : Referred(q)' = Referred(q)
    BY <1>1, <2>1 DEF Referred
  <2>3. \A q \in Port : CountedAt(q)'
    BY <1>1, <2>2, CountsSame DEF Inv
  <2> QED BY <2>3 DEF Counted
<1> QED BY <1>15, <1>16, <1>17, <1>18, <1>19, <1>20, <1>21 DEF Inv

\* Acquire of a session that is ready: the request moves from the list to the hand,
\* and the session knows the same threads.
Acquires(o, hand, hand2, pending2) ==
    /\ ~SessionShouldWait(o, client, pending_requesting_threads, hand)
    /\ hand2 = Handling(o, client, pending_requesting_threads, hand)
    /\ pending2 = Remaining(o, client, pending_requesting_threads)

Acquired(o, hand, hand2, pending2) ==
    /\ hand2 \in [Session -> Client \cup {None}] /\ pending2 \in [Session -> Seq(Client)]
    /\ \A x \in Session \ {o} : /\ hand2[x] = hand[x]
                                /\ pending2[x] = pending_requesting_threads[x]
    /\ o \notin client => hand2[o] = hand[o] /\ pending2[o] = pending_requesting_threads[o]
    /\ o \in client =>
         /\ ToSet(pending2[o]) \cup ({hand2[o]} \ {None})
              = ToSet(pending_requesting_threads[o]) \cup ({hand[o]} \ {None})
         /\ IsInjective(pending2[o])
         /\ hand2[o] \notin ToSet(pending2[o])

LEMMA AcquireMoves ==
    ASSUME TypeOK, NEW o \in Session, NEW hand \in [Session -> Client \cup {None}],
           IsInjective(pending_requesting_threads[o]), NEW hand2, NEW pending2,
           Acquires(o, hand, hand2, pending2)
    PROVE  Acquired(o, hand, hand2, pending2)
<1>1. PICK P \in Seq(Client) : P = pending_requesting_threads[o]
  BY DEF TypeOK
<1>2. CASE o \notin client
  BY <1>2 DEF Acquires, Acquired, Handling, Remaining, TypeOK
<1>3. CASE o \in client
  <2>1. P # <<>> /\ hand[o] = None
    BY <1>1, <1>3 DEF Acquires, SessionShouldWait
  <2>2. /\ Front(P) \in Seq(Client) /\ IsInjective(Front(P)) /\ Last(P) \in ToSet(P)
        /\ Last(P) \in Client /\ ToSet(Front(P)) = ToSet(P) \ {Last(P)}
    BY <1>1, <2>1, FrontList
  <2>3. hand2 = [hand EXCEPT ![o] = Last(P)]
    BY <1>1, <1>3 DEF Acquires, Handling
  <2>4. pending2 = [pending_requesting_threads EXCEPT ![o] = Front(P)]
    BY <1>1, <1>3 DEF Acquires, Remaining
  <2>5. /\ hand2 \in [Session -> Client \cup {None}] /\ hand2[o] = Last(P)
        /\ \A x \in Session \ {o} : hand2[x] = hand[x]
    BY <2>2, <2>3
  <2>6. /\ pending2 \in [Session -> Seq(Client)] /\ pending2[o] = Front(P)
        /\ \A x \in Session \ {o} : pending2[x] = pending_requesting_threads[x]
    BY <2>2, <2>4 DEF TypeOK
  <2>7. Last(P) # None
    BY <2>2, SessionAssumption
  <2> QED BY <1>1, <1>3, <2>1, <2>2, <2>5, <2>6, <2>7 DEF Acquired
<1> QED BY <1>2, <1>3

\* What ReplyAndReceive does to the threads and the requests when its reply does
\* not fail: A is the thread that is answered, if there is one.
Replies(t, A, hand) ==
    /\ \A d \in Client : status'[d] = IF d \in A THEN "Running" ELSE status[d]
    /\ \A d \in Client : call'[d] = IF d \in A THEN None ELSE call[d]
    /\ \A u \in Server \ {t} : status'[u] = status[u] /\ wait_objects'[u] = wait_objects[u]
    /\ status' \in [Client \cup Server -> Status]
    /\ wait_objects' \in [Server -> SUBSET (Session \cup Port)]
    /\ call' \in [Client -> Session \cup {None}]
    /\ pending_requesting_threads' \in [Session -> Seq(Client)]
    /\ currently_handling' \in [Session -> Client \cup {None}]
    /\ \/ /\ UNCHANGED pending_requesting_threads /\ currently_handling' = hand
          /\ status'[t] = status[t] /\ wait_objects'[t] = wait_objects[t]
       \/ /\ UNCHANGED pending_requesting_threads /\ currently_handling' = hand
          /\ status'[t] = "WaitSynchAny"
          /\ \A o \in wait_objects'[t] :
                /\ o \in Port => PortShouldWait(o, pending_sessions)
                /\ o \notin Port => /\ o \in accepted[t]
                                    /\ SessionShouldWait(o, client, pending_requesting_threads, hand)
       \/ /\ \E o \in accepted[t] :
                /\ ~SessionShouldWait(o, client, pending_requesting_threads, hand)
                /\ currently_handling' = Handling(o, client, pending_requesting_threads, hand)
                /\ pending_requesting_threads' = Remaining(o, client, pending_requesting_threads)
          /\ status'[t] = status[t] /\ wait_objects'[t] = wait_objects[t]

\* The session r that is answered, or none.
Answers(t, r, A, hand) ==
    /\ r \in accepted[t] \cup {None}
    /\ A = IF r = None THEN {} ELSE {currently_handling[r]} \ {None}
    /\ hand \in [Session -> Client \cup {None}]
    /\ \A s \in Session : hand[s] = IF s = r THEN None ELSE currently_handling[s]

LEMMA AnsweredThread ==
    ASSUME Inv, NEW t \in Server, NEW r, NEW A, NEW hand, Answers(t, r, A, hand)
    PROVE  /\ A \subseteq Client /\ \A d \in A : /\ status[d] = "WaitIPC" /\ d \notin wakeups
                                                 /\ call[d] = r /\ r \in Session
           /\ \A s \in Session :
                /\ ToSet(pending_requesting_threads[s]) \cup ({hand[s]} \ {None}) = Waiting(s) \ A
                /\ IsInjective(pending_requesting_threads[s])
                /\ hand[s] \notin ToSet(pending_requesting_threads[s])
<1>1. \A s \in Session : RequestsAt(s)
  BY RequestsEach DEF Inv
<1>2. r = None \/ r \in Session
  BY DEF Answers, Inv, TypeOK
<1>3. ASSUME NEW d \in A
      PROVE  /\ d \in Client /\ status[d] = "WaitIPC" /\ d \notin wakeups /\ call[d] = r /\ r \in Session
  <2>1. r \in Session /\ d = currently_handling[r] /\ d # None
    BY <1>2, <1>3 DEF Answers
  <2>2. d \in Waiting(r)
    BY <1>1, <2>1 DEF RequestsAt
  <2> QED BY <2>1, <2>2 DEF Waiting
<1>4. ASSUME NEW s \in Session
      PROVE  /\ ToSet(pending_requesting_threads[s]) \cup ({hand[s]} \ {None}) = Waiting(s) \ A
             /\ IsInjective(pending_requesting_threads[s])
             /\ hand[s] \notin ToSet(pending_requesting_threads[s])
  <2>1. None \notin ToSet(pending_requesting_threads[s])
    BY EmptyList, SessionAssumption DEF Inv, TypeOK
  <2>2. CASE s # r
    <3>1. \A d \in A : d \notin Waiting(s)
      BY <1>3, <2>2 DEF Waiting
    <3> QED BY <1>1, <2>2, <3>1 DEF Answers, RequestsAt
  <2>3. CASE s = r
    <3>1. s # None /\ A = {currently_handling[s]} \ {None} /\ hand[s] = None
      BY <2>3, SessionAssumption DEF Answers
    <3> QED BY <1>1, <2>1, <3>1 DEF RequestsAt
  <2> QED BY <2>2, <2>3
<1> QED BY <1>3, <1>4

LEMMA RepliesInv ==
    ASSUME Inv, NEW t \in Server, NEW r, NEW A, NEW hand, Answers(t, r, A, hand),
           Replies(t, A, hand), status[t] = "Running", UNCHANGED <<portVars, wakeups>>
    PROVE  Inv'
<1>1. UNCHANGED <<port, client, server, pending_sessions, active_sessions, accepted,
                  connected_sessions, wakeups>>
  BY DEF portVars
<1>2. /\ A \subseteq Client /\ \A d \in A : status[d] = "WaitIPC" /\ d \notin wakeups
      /\ \A s \in Session :
           /\ ToSet(pending_requesting_threads[s]) \cup ({hand[s]} \ {None}) = Waiting(s) \ A
           /\ IsInjective(pending_requesting_threads[s])
           /\ hand[s] \notin ToSet(pending_requesting_threads[s])
  BY AnsweredThread
<1>3. /\ \A d \in Client : status'[d] = IF d \in A THEN "Running" ELSE status[d]
      /\ \A d \in Client : call'[d] = IF d \in A THEN None ELSE call[d]
  BY DEF Replies
<1>4. TypeOK'
  BY <1>1 DEF Replies, Inv, TypeOK
<1>5. Connected' /\ Listed' /\ Accepted'
  BY <1>1 DEF Inv, Connected, Listed, Accepted
<1>6. Calls'
  BY <1>1, <1>2, <1>3 DEF Inv, Calls
<1>7. wait_objects[t] = {}
  BY DEF Inv, Serving
<1>8. \A u \in Server : \A o \in wait_objects'[u] : o \in Session => o \in accepted[u]
  <2>1. \A u \in Server \ {t} : \A o \in wait_objects'[u] : o \in Session => o \in accepted[u]
    BY DEF Replies, Inv, Serving
  <2>2. \A o \in wait_objects'[t] : o \in Session => o \in accepted[t]
    BY <1>7, SessionAssumption DEF Replies
  <2> QED BY <2>1, <2>2
<1>9. Serving'
  <2>1. \A u \in Server \ {t} : wait_objects'[u] # {} => status'[u] = "WaitSynchAny"
    BY DEF Replies, Inv, Serving
  <2>2. wait_objects'[t] # {} => status'[t] = "WaitSynchAny"
    BY <1>7 DEF Replies
  <2> QED BY <1>1, <1>8, <2>1, <2>2 DEF Serving
<1>10. /\ \A x \in Session \ accepted[t] :
             /\ pending_requesting_threads'[x] = pending_requesting_threads[x]
             /\ currently_handling'[x] = currently_handling[x]
       /\ \A s \in Session :
             /\ ToSet(pending_requesting_threads'[s]) \cup ({currently_handling'[s]} \ {None})
                  = Waiting(s) \ A
             /\ IsInjective(pending_requesting_threads'[s])
             /\ currently_handling'[s] \notin ToSet(pending_requesting_threads'[s])
  <2>1. \A x \in Session \ accepted[t] : hand[x] = currently_handling[x]
    BY SessionAssumption DEF Answers
  <2>2. CASE UNCHANGED pending_requesting_threads /\ currently_handling' = hand
    BY <1>2, <2>1, <2>2
  <2>3. CASE \E o \in accepted[t] :
                /\ ~SessionShouldWait(o, client, pending_requesting_threads, hand)
                /\ currently_handling' = Handling(o, client, pending_requesting_threads, hand)
                /\ pending_requesting_threads' = Remaining(o, client, pending_requesting_threads)
    <3>1. PICK o \in accepted[t] :
                /\ ~SessionShouldWait(o, client, pending_requesting_threads, hand)
                /\ currently_handling' = Handling(o, client, pending_requesting_threads, hand)
                /\ pending_requesting_threads' = Remaining(o, client, pending_requesting_threads)
      BY <2>3
    <3>2. o \in Session /\ hand \in [Session -> Client \cup {None}] /\ TypeOK
      BY DEF Inv, TypeOK, Answers
    <3>3. /\ \A x \in Session \ {o} :
               /\ currently_handling'[x] = hand[x]
               /\ pending_requesting_threads'[x] = pending_requesting_threads[x]
          /\ o \notin client => /\ currently_handling'[o] = hand[o]
                                /\ pending_requesting_threads'[o] = pending_requesting_threads[o]
          /\ o \in client =>
                /\ ToSet(pending_requesting_threads'[o]) \cup ({currently_handling'[o]} \ {None})
                     = ToSet(pending_requesting_threads[o]) \cup ({hand[o]} \ {None})
                /\ IsInjective(pending_requesting_threads'[o])
                /\ currently_handling'[o] \notin ToSet(pending_requesting_threads'[o])
      <4>1. PICK hand2, pending2 : /\ hand2 = currently_handling'
                                   /\ pending2 = pending_requesting_threads'
        OBVIOUS
      <4>2. IsInjective(pending_requesting_threads[o])
        BY <1>2, <3>2
      <4>3. Acquires(o, hand, hand2, pending2)
        BY <3>1, <4>1 DEF Acquires
      <4>4. Acquired(o, hand, hand2, pending2)
        BY <3>2, <4>2, <4>3, AcquireMoves
      <4> QED BY <4>1, <4>4 DEF Acquired
    <3>4. \A s \in Session \ {o} :
             /\ ToSet(pending_requesting_threads'[s]) \cup ({currently_handling'[s]} \ {None})
                  = Waiting(s) \ A
             /\ IsInjective(pending_requesting_threads'[s])
             /\ currently_handling'[s] \notin ToSet(pending_requesting_threads'[s])
      BY <1>2, <3>3
    <3>5. /\ ToSet(pending_requesting_threads'[o]) \cup ({currently_handling'[o]} \ {None})
               = Waiting(o) \ A
          /\ IsInjective(pending_requesting_threads'[o])
          /\ currently_handling'[o] \notin ToSet(pending_requesting_threads'[o])
      BY <1>2, <3>2, <3>3
    <3> QED BY <2>1, <3>3, <3>4, <3>5
  <2> QED BY <2>2, <2>3 DEF Replies
<1>11. RequestsAccounted'
  <2>1. \A s \in Session : Waiting(s)' = Waiting(s) \ A
    BY <1>1, <1>2, <1>3 DEF Waiting
  <2>2. \A s \in Session : RequestsAt(s)'
    BY <1>10, <2>1 DEF RequestsAt
  <2> QED BY <2>2 DEF RequestsAccounted, RequestsAt, Waiting
<1>12. SleepsOnlyWhenIdle'
  <2> SUFFICES ASSUME NEW u \in Server, NEW o \in Session \cup Port, o \in wait_objects'[u]
               PROVE  IF o \in Port THEN PortShouldWait(o, pending_sessions)
                      ELSE SessionShouldWait(o, client, pending_requesting_threads',
                                             currently_handling')
    BY <1>1 DEF SleepsOnlyWhenIdle
  <2>1. CASE u = t
    BY <1>7, <2>1 DEF Replies
  <2>2. CASE u # t
    <3>1. o \in wait_objects[u]
      BY <2>2 DEF Replies
    <3>2. IF o \in Port THEN PortShouldWait(o, pending_sessions)
          ELSE SessionShouldWait(o, client, pending_requesting_threads, currently_handling)
      BY <3>1 DEF Inv, SleepsOnlyWhenIdle
    <3>3. CASE o \in Port
      BY <3>2, <3>3
    <3>4. CASE o \notin Port
      <4>1. o \in accepted[u] /\ o \in Session
        BY <1>8, <3>4
      <4>2. o \notin accepted[t]
        BY <2>2, <4>1 DEF Inv, Accepted
      <4> QED BY <1>10, <3>2, <3>4, <4>1, <4>2 DEF SessionShouldWait
    <3> QED BY <3>3, <3>4
  <2> QED BY <2>1, <2>2
<1>13. Counted'
  <2>1. \A x \in Session : SleepsFor(x)' = SleepsFor(x)
    BY <1>2, <1>3 DEF SleepsFor
  <2>2. \A q \in Port : Referred(q)' = Referred(q)
    BY <1>1, <2>1 DEF Referred
  <2>3. \A q \in Port : CountedAt(q)'
    BY <1>1, <2>2, CountsSame DEF Inv
  <2> QED BY <2>3 DEF Counted
<1> QED BY <1>4, <1>5, <1>6, <1>9, <1>11, <1>12, <1>13 DEF Inv

\* A reply that fails changes nothing: a session that was closed has no request.
LEMMA FailedReplyInv ==
    ASSUME Inv, NEW t \in Server, NEW r \in Session, ReplyFails(r),
           currently_handling' = HandlingAfterReply(r),
           UNCHANGED <<status, wait_objects, pending_requesting_threads, call, portVars, wakeups>>
    PROVE  Inv'
<1>1. currently_handling[r] = None
  <2>1. CASE r \notin client
    <3>1. Waiting(r) = {} /\ RequestsAt(r)
      BY <2>1, RequestsEach DEF Waiting, Inv
    <3> QED BY <3>1, NoRequests DEF Inv
  <2> QED BY <2>1 DEF ReplyFails
<1>2. currently_handling' = currently_handling
  BY <1>1 DEF HandlingAfterReply, Inv, TypeOK
<1>3. TypeOK' /\ Connected' /\ Listed' /\ Accepted'
  BY <1>2 DEF Inv, TypeOK, Connected, Listed, Accepted, portVars
<1>4. Calls' /\ Serving' /\ RequestsAccounted' /\ SleepsOnlyWhenIdle'
  BY <1>2 DEF Inv, Calls, Serving, RequestsAccounted, SleepsOnlyWhenIdle, portVars
<1>5. Counted'
  BY DEF Inv, Counted, CountedAt, Referred, SleepsFor, portVars
<1> QED BY <1>3, <1>4, <1>5 DEF Inv

LEMMA ReplyAndReceiveInv ==
    ASSUME Inv, NEW t \in Server, NEW r \in Session \cup {None},
           NEW objects \in SUBSET (Session \cup Port), ReplyAndReceive(t, r, objects)
    PROVE  Inv'
<1> USE DEF HandlingAfterReply
<1> DEFINE handling == HandlingAfterReply(r)
           answered == IF r = None THEN {} ELSE {currently_handling[r]} \ {None}
           replied == [u \in Client \cup Server |-> IF u \in answered THEN "Running" ELSE status[u]]
           returned == [c \in Client |-> IF c \in answered THEN None ELSE call[c]]
           ready == {o \in objects :
                       IF o \in Port THEN ~PortShouldWait(o, pending_sessions)
                       ELSE ~SessionShouldWait(o, client, pending_requesting_threads, handling)}
           Acquire(o) ==
             IF o \in Session
             THEN /\ currently_handling' = Handling(o, client, pending_requesting_threads, handling)
                  /\ pending_requesting_threads' = Remaining(o, client, pending_requesting_threads)
             ELSE currently_handling' = handling /\ UNCHANGED pending_requesting_threads
           Fails == /\ ReplyFails(r) /\ currently_handling' = handling
                    /\ UNCHANGED <<status, wait_objects, pending_requesting_threads, call>>
           Receives == /\ status' = replied /\ call' = returned
                       /\ IF objects = {}
                          THEN currently_handling' = handling /\ UNCHANGED pending_requesting_threads
                          ELSE \E o \in ready : Acquire(o)
                       /\ UNCHANGED wait_objects
           Sleeps == /\ currently_handling' = handling /\ ready = {}
                     /\ status' = [replied EXCEPT ![t] = "WaitSynchAny"] /\ call' = returned
                     /\ wait_objects' = [wait_objects EXCEPT ![t] = objects]
                     /\ UNCHANGED pending_requesting_threads
<1>1. /\ status[t] = "Running" /\ r \in accepted[t] \cup {None}
      /\ objects \subseteq accepted[t] \cup (Port \ Hle) /\ UNCHANGED <<portVars, wakeups>>
  BY DEF ReplyAndReceive
<1>2. Fails \/ Receives \/ Sleeps
  <2>1. CASE ReplyFails(r)
    BY <2>1 DEF ReplyAndReceive
  <2>2. CASE ~ReplyFails(r) /\ (ready # {} \/ objects = {})
    BY <2>2 DEF ReplyAndReceive
  <2>3. CASE ~ReplyFails(r) /\ ~(ready # {} \/ objects = {})
    BY <2>3 DEF ReplyAndReceive
  <2> QED BY <2>1, <2>2, <2>3
<1>3. CASE Fails
  <2>1. r \in Session
    BY <1>1, <1>3 DEF ReplyFails
  <2> QED BY <1>1, <1>3, <2>1, FailedReplyInv
<1>4. CASE Receives \/ Sleeps
  <2>1. PICK A, hand : A = answered /\ hand = handling
    OBVIOUS
  <2>2. Answers(t, r, A, hand)
    <3>1. hand \in [Session -> Client \cup {None}]
      BY <2>1 DEF Inv, TypeOK
    <3> QED BY <1>1, <2>1, <3>1 DEF Answers
  <2>3. A \subseteq Client /\ \A u \in Server : u \notin A
    BY <2>2, AnsweredThread, SessionAssumption
  <2>4. /\ replied \in [Client \cup Server -> Status] /\ returned \in [Client -> Session \cup {None}]
        /\ \A d \in Client : replied[d] = IF d \in A THEN "Running" ELSE status[d]
        /\ \A d \in Client : returned[d] = IF d \in A THEN None ELSE call[d]
        /\ \A u \in Server : replied[u] = status[u]
    BY <2>1, <2>3 DEF Inv, TypeOK, Status
  <2>5. hand \in [Session -> Client \cup {None}] /\ TypeOK
    BY <2>2 DEF Answers, Inv
  <2>6. CASE Receives
    <3>1. /\ \A d \in Client : status'[d] = IF d \in A THEN "Running" ELSE status[d]
          /\ \A d \in Client : call'[d] = IF d \in A THEN None ELSE call[d]
          /\ \A u \in Server : status'[u] = status[u] /\ wait_objects'[u] = wait_objects[u]
          /\ status' \in [Client \cup Server -> Status]
          /\ wait_objects' \in [Server -> SUBSET (Session \cup Port)]
          /\ call' \in [Client -> Session \cup {None}]
      BY <2>4, <2>6 DEF Inv, TypeOK
    <3>2. CASE currently_handling' = hand /\ UNCHANGED pending_requesting_threads
      <4>1. /\ pending_requesting_threads' \in [Session -> Seq(Client)]
            /\ currently_handling' \in [Session -> Client \cup {None}]
        BY <2>5, <3>2 DEF TypeOK
      <4>2. Replies(t, A, hand)
        BY <3>1, <3>2, <4>1 DEF Replies
      <4> QED BY <1>1, <2>2, <4>2, RepliesInv
    <3>3. CASE ~(currently_handling' = hand /\ UNCHANGED pending_requesting_threads)
      <4>1. PICK o \in ready : Acquire(o)
        BY <2>1, <2>6, <3>3
      <4>2. o \in Session
        BY <2>1, <3>3, <4>1
      <4>3. o \in accepted[t] /\ o \notin Port
        BY <1>1, <4>1, <4>2, SessionAssumption
      <4>4. /\ ~SessionShouldWait(o, client, pending_requesting_threads, hand)
            /\ currently_handling' = Handling(o, client, pending_requesting_threads, hand)
            /\ pending_requesting_threads' = Remaining(o, client, pending_requesting_threads)
        BY <2>1, <4>1, <4>2, <4>3
      <4>5. PICK hand2, pending2 : hand2 = currently_handling' /\ pending2 = pending_requesting_threads'
        OBVIOUS
      <4>6. Acquires(o, hand, hand2, pending2)
        BY <4>4, <4>5 DEF Acquires
      <4>7. IsInjective(pending_requesting_threads[o])
        BY <4>2 DEF Inv, RequestsAccounted
      <4>8. Acquired(o, hand, hand2, pending2)
        BY <2>5, <4>2, <4>6, <4>7, AcquireMoves
      <4>9. /\ pending_requesting_threads' \in [Session -> Seq(Client)]
            /\ currently_handling' \in [Session -> Client \cup {None}]
        BY <4>5, <4>8 DEF Acquired
      <4>10. Replies(t, A, hand)
        BY <3>1, <4>3, <4>4, <4>9 DEF Replies
      <4> QED BY <1>1, <2>2, <4>10, RepliesInv
    <3> QED BY <3>2, <3>3
  <2>7. CASE Sleeps
    <3>1. /\ \A d \in Client : status'[d] = IF d \in A THEN "Running" ELSE status[d]
          /\ \A u \in Server \ {t} : status'[u] = status[u] /\ wait_objects'[u] = wait_objects[u]
          /\ status' \in [Client \cup Server -> Status] /\ status'[t] = "WaitSynchAny"
      <4>1. \A d \in Client : d # t
        BY SessionAssumption
      <4>2. "WaitSynchAny" \in Status
        BY DEF Status
      <4> HIDE DEF replied
      <4> QED BY <2>4, <2>7, <4>1, <4>2 DEF Inv, TypeOK
    <3>2. /\ \A d \in Client : call'[d] = IF d \in A THEN None ELSE call[d]
          /\ call' \in [Client -> Session \cup {None}]
      BY <2>4, <2>7
    <3>3. /\ wait_objects' \in [Server -> SUBSET (Session \cup Port)] /\ wait_objects'[t] = objects
      BY <2>7 DEF Inv, TypeOK
    <3>4. /\ pending_requesting_threads' \in [Session -> Seq(Client)]
          /\ currently_handling' \in [Session -> Client \cup {None}]
          /\ UNCHANGED pending_requesting_threads /\ currently_handling' = hand
      BY <2>1, <2>5, <2>7 DEF TypeOK
    <3>5. ASSUME NEW o \in objects
          PROVE  /\ o \in Port => PortShouldWait(o, pending_sessions)
                 /\ o \notin Port => /\ o \in accepted[t]
                                     /\ SessionShouldWait(o, client, pending_requesting_threads, hand)
      <4>1. o \notin ready
        BY <2>7
      <4> QED BY <1>1, <2>1, <4>1
    <3>6. Replies(t, A, hand)
      BY <3>1, <3>2, <3>3, <3>4, <3>5 DEF Replies
    <3> QED BY <1>1, <2>2, <3>6, RepliesInv
  <2> QED BY <1>4, <2>6, <2>7
<1> QED BY <1>2, <1>3, <1>4

-------------------------------------------------------------------------------
(* The theorems                                                            *)

LEMMA InitInv == Init => Inv
<1> SUFFICES ASSUME Init PROVE Inv
  OBVIOUS
<1>1. TypeOK
  <2>1. /\ \A S : <<>> \in Seq(S)
    BY EmptyList
  <2>2. 0 \in Nat /\ "Running" \in Status
    BY DEF Status
  <2> QED BY <2>1, <2>2 DEF Init, TypeOK
<1>2. Connected /\ Accepted /\ Calls /\ Serving
  BY DEF Init, Connected, Accepted, Calls, Serving
<1>3. Listed
  BY EmptyList DEF Init, Listed
<1>4. RequestsAccounted
  BY EmptyList DEF Init, RequestsAccounted
<1>5. SleepsOnlyWhenIdle
  BY DEF Init, SleepsOnlyWhenIdle
<1>6. Counted
  <2> SUFFICES ASSUME NEW p \in Port PROVE CountedAt(p)
    BY DEF Counted
  <2>1. Referred(p) = {}
    <3>1. \A s \in Session : port[s] # p
      BY SessionAssumption DEF Init
    <3> QED BY <3>1 DEF Referred
  <2>2. active_sessions[p] = 0
    BY DEF Init
  <2>3. 0 <= max_sessions
    BY SessionAssumption
  <2> QED BY <2>1, <2>2, <2>3, FS_EmptySet DEF CountedAt
<1> QED BY <1>1, <1>2, <1>3, <1>4, <1>5, <1>6 DEF Inv

LEMMA NextInv == Inv /\ [Next]_vars => Inv'
<1> SUFFICES ASSUME Inv, [Next]_vars PROVE Inv'
  OBVIOUS
<1>1. CASE UNCHANGED vars
  <2>1. UNCHANGED <<status, wait_objects, port, client, server, pending_sessions, active_sessions,
                    accepted, connected_sessions, pending_requesting_threads, currently_handling,
                    call, wakeups>>
    BY <1>1 DEF vars, portVars, requestVars
  <2>2. TypeOK' /\ Connected' /\ Listed' /\ Accepted'
    BY <2>1 DEF Inv, TypeOK, Connected, Listed, Accepted
  <2>3. Calls' /\ Serving' /\ RequestsAccounted' /\ SleepsOnlyWhenIdle'
    BY <2>1 DEF Inv, Calls, Serving, RequestsAccounted, SleepsOnlyWhenIdle
  <2>4. Counted'
    BY <2>1 DEF Inv, Counted, CountedAt, Referred, SleepsFor
  <2> QED BY <2>2, <2>3, <2>4 DEF Inv
<1>2. ASSUME NEW c \in Client, NEW s \in Session,
             \/ \E p \in Port : Connect(c, s, p)
             \/ CloseClientSession(c, s) \/ SendSyncRequest(c, s)
             \/ HleAnswers(c, s) \/ HleSleeps(c, s)
      PROVE  Inv'
  BY <1>2, ConnectInv, CloseClientSessionInv, SendSyncRequestInv, HleInv
<1>3. ASSUME NEW c \in Client, DelayEnds(c) \/ HleWakes(c)
      PROVE  Inv'
  BY <1>3, DelayEndsInv, HleWakesInv
<1>4. ASSUME NEW t \in Server,
             \/ \E p \in Port : AcceptSession(t, p)
             \/ \E s \in Session : CloseServerSession(t, s)
             \/ \E r \in Session \cup {None}, objects \in SUBSET (Session \cup Port) :
                   ReplyAndReceive(t, r, objects)
      PROVE  Inv'
  BY <1>4, AcceptSessionInv, CloseServerSessionInv, ReplyAndReceiveInv
<1> QED BY <1>1, <1>2, <1>3, <1>4 DEF Next

LEMMA Invariance == Spec => []Inv
BY InitInv, NextInv, PTL DEF Spec

\* Every request that waits is known to its session, once, until it is answered or
\* an end of the session is gone; no session knows a thread that does not wait.  So
\* no reply resumes a thread twice (ServerSession::HandleSyncRequest, Acquire and
\* svcReplyAndReceive).
THEOREM RequestsAreKnown == Spec => []RequestsAccounted
<1>1. Inv => RequestsAccounted
  BY DEF Inv
<1> QED BY <1>1, Invariance, PTL

\* No wakeup of a server thread is lost: a connection, a request and the end of a
\* client each wake the threads that wait for the object they make ready
\* (ClientPort::Connect, ServerSession::HandleSyncRequest, ~ClientSession).
THEOREM ServersAreWoken == Spec => []SleepsOnlyWhenIdle
<1>1. Inv => SleepsOnlyWhenIdle
  BY DEF Inv
<1> QED BY <1>1, Invariance, PTL

\* A port never counts more sessions than its maximum, and never more or fewer than
\* there are: the count of ClientPort::ConnectionClosed cannot go below zero.
THEOREM PlacesAreExact == Spec => []ActiveSessionsExact
<1>1. Inv => ActiveSessionsExact
  BY DEF Inv, Counted, CountedAt, Referred, ActiveSessionsExact
<1> QED BY <1>1, Invariance, PTL
===============================================================================
