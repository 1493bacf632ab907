--------------------------- MODULE Interplanetary ---------------------------
(* How the nodes of a swarm find each other and end up with one connection    *)
(* per pair (src/network/interplanetary.js, and what it hears from            *)
(* src/network/discovery-channel/index.js).                                   *)
(*                                                                            *)
(* A node is known by its id, a number here since ids are compared; it is     *)
(* found under the addresses that HostOf gives it.  A node that restarts has  *)
(* a new id and a new port: it is another node with another address.          *)
(*                                                                            *)
(* A connection is a member of Conn with two ends, "out" at the node that     *)
(* dialed and "in" at the node that was dialed, each with a stage of its own. *)
(* maxConnections is never set.  So totalConnections, which is compared with  *)
(* it only, is left out, and _peersQueued is empty between two events, as     *)
(* every push is followed by a _kick that shifts it: both are in Kick.        *)
EXTENDS Integers

CONSTANTS Node,        \* the ids
          Address,     \* host:port pairs
          HostOf,      \* the node behind an address
          Conn,        \* the connections that can exist at one time
          MaxRetries,  \* RECONNECT_WAIT.length
          MaxTroubles, \* bound on what goes wrong around a swarm (Trouble)
          None

ASSUME InterplanetaryAssumption ==
  /\ Node \subseteq Nat /\ HostOf \in [Address -> Node]
  /\ MaxRetries \in Nat /\ MaxTroubles \in Nat
  /\ None \notin Node \cup Address \cup Conn

VARIABLES
  phase,     \* of the swarm of a node
  seen,      \* _peersSeen: per node and address
  retries,   \* peer.retries, per node and address
  waiting,   \* the addresses whose requeue timer runs, per node
  kept,      \* _peersIds: per node, the connection kept to another
  dialer, dialed,  \* who dialed a connection, and which address
  stage,     \* of both ends of a connection
  troubles,  \* how many there were
  fate       \* history: per node and address, how the last dial was given up
             \* for good: "cut" before the handshake, or "yielded" to another
             \* connection

peerVars == <<seen, retries, waiting>>
connVars == <<dialer, dialed, stage>>
vars == <<phase, seen, retries, waiting, kept, dialer, dialed, stage,
          troubles, fate>>

Side  == {"out", "in"}
Other(s) == IF s = "out" THEN "in" ELSE "out"

\* "ending" is a swarm that destroy() met between listen and 'listening'
Phase == {"idle", "opening", "ending", "up", "destroyed", "closed"}

\* "dialing": net.connect; "backlog": the server has not been told;
\* "open": no handshake yet; "kept": in _peersIds; "closing": destroyed, with
\* the 'close' event to come; "over": its 'close' event has run
Stage == {"none", "dialing", "backlog", "open", "kept", "closing", "over"}

Both(out, in) == [s \in Side |-> IF s = "out" THEN out ELSE in]

Free == {c \in Conn : dialer[c] = None}
Owner(c, s)  == IF s = "out" THEN dialer[c] ELSE HostOf[dialed[c]]
Remote(c, s) == Owner(c, Other(s))
EndsAt(n)    == {e \in (Conn \ Free) \X Side : Owner(e[1], e[2]) = n}
At(e)        == stage[e[1]][e[2]]
Live(n)      == phase[n] = "up"

Init ==
  /\ phase = [n \in Node |-> "idle"]
  /\ seen = [n \in Node |-> [a \in Address |-> "no"]]
  /\ retries = [n \in Node |-> [a \in Address |-> 0]]
  /\ waiting = [n \in Node |-> {}]
  /\ kept = [n \in Node |-> [m \in Node |-> None]]
  /\ dialer = [c \in Conn |-> None] /\ dialed = [c \in Conn |-> None]
  /\ stage = [c \in Conn |-> Both("none", "none")]
  /\ troubles = 0
  /\ fate = [n \in Node |-> [a \in Address |-> "none"]]

\* The environment interferes: a connection fails, a swarm is destroyed, an
\* announcement is out of date or comes back to its own node
Trouble == troubles < MaxTroubles /\ troubles' = troubles + 1

----------------------------------------------------------------------------
(* The life of a swarm *)

\* listen and join: the name waits in _adding until the server listens
Listen(n) ==
  /\ phase[n] = "idle"
  /\ phase' = [phase EXCEPT ![n] = "opening"]
  /\ UNCHANGED <<peerVars, kept, connVars, troubles, fate>>

\* destroy, which waits for 'listening' when the server is not up yet
CloseAll(n) ==
  [c \in Conn |-> [s \in Side |->
     IF c \notin Free /\ Owner(c, s) = n
     THEN CASE stage[c][s] \in {"open", "kept", "dialing"} -> "closing"
            [] stage[c][s] = "backlog" -> "none"
            [] OTHER -> stage[c][s]
     ELSE stage[c][s]]]

Destroy(n) ==
  /\ Trouble
  /\ \/ /\ phase[n] = "opening"
        /\ phase' = [phase EXCEPT ![n] = "ending"]
        /\ UNCHANGED stage
     \/ /\ Live(n)
        /\ phase' = [phase EXCEPT ![n] = "destroyed"]
        /\ stage' = CloseAll(n)
  /\ UNCHANGED <<peerVars, kept, dialer, dialed, fate>>

\* 'listening': _ondiscover starts the discovery and joins the names, then the
\* listener that a destroy() left behind runs
Listening(n) ==
  /\ \/ phase[n] = "opening" /\ phase' = [phase EXCEPT ![n] = "up"]
     \/ phase[n] = "ending"  /\ phase' = [phase EXCEPT ![n] = "destroyed"]
  /\ UNCHANGED <<peerVars, kept, connVars, troubles, fate>>

\* onserverclose: the server has no connection left (the ones that the swarm has
\* dialed are not the server's), 'close' is emitted
Closed(n) ==
  /\ phase[n] = "destroyed"
  /\ \A e \in EndsAt(n) : e[2] = "in" => At(e) \in {"none", "over"}
  /\ phase' = [phase EXCEPT ![n] = "closed"]
  /\ UNCHANGED <<peerVars, kept, connVars, troubles, fate>>

----------------------------------------------------------------------------
(* Finding and dialing *)

\* _kick with the address a at the head of the queue
Kick(n, a) ==
  IF ~Live(n) \/ seen[n][a] = "banned"
  THEN UNCHANGED connVars
  ELSE \E c \in Free :
         /\ dialer' = [dialer EXCEPT ![c] = n]
         /\ dialed' = [dialed EXCEPT ![c] = a]
         /\ stage' = [stage EXCEPT ![c] = Both("dialing", "none")]

\* onpeer: the discovery announces an address; it may be that of a node that has
\* gone, or the node's own
Discover(n, a) ==
  /\ Live(n) /\ seen[n][a] = "no" /\ Free # {}
  /\ \/ Live(HostOf[a]) /\ HostOf[a] # n /\ UNCHANGED troubles
     \/ (HostOf[a] = n \/ phase[HostOf[a]] \in {"destroyed", "closed"}) /\ Trouble
  /\ seen' = [seen EXCEPT ![n][a] = "seen"]
  /\ retries' = [retries EXCEPT ![n][a] = 0]
  /\ Kick(n, a)
  /\ fate' = [fate EXCEPT ![n][a] = "none"]
  /\ UNCHANGED <<phase, waiting, kept>>

\* onwhoami
WhoAmI(n, a) ==
  /\ Live(n) /\ HostOf[a] = n /\ seen[n][a] # "banned"
  /\ Trouble
  /\ seen' = [seen EXCEPT ![n][a] = "banned"]
  /\ UNCHANGED <<phase, retries, waiting, kept, connVars, fate>>

\* _requeue and _dropPeer (faults: the timer is not set; one retry too many)
Unarmed(n, a)   == waiting
Armed(n, a)     == [waiting EXCEPT ![n] = @ \cup {a}]
DropPeer(n, a)  == seen' = [seen EXCEPT ![n][a] = "no"]
OneMore(n, a)   == retries[n][a] <= MaxRetries
Retriable(n, a) == retries[n][a] < MaxRetries
Requeue(n, a) ==
  CASE ~Live(n) -> UNCHANGED peerVars
    [] Live(n) /\ Retriable(n, a) ->
         /\ retries' = [retries EXCEPT ![n][a] = @ + 1]
         /\ waiting' = Armed(n, a)
         /\ UNCHANGED seen
    [] OTHER -> DropPeer(n, a) /\ UNCHANGED <<retries, waiting>>

\* The requeue timer
Retry(n, a) ==
  /\ a \in waiting[n] /\ Free # {}
  /\ waiting' = [waiting EXCEPT ![n] = @ \ {a}]
  /\ Kick(n, a)
  /\ UNCHANGED <<phase, seen, retries, kept, troubles, fate>>

\* onclose of the dialing socket: refused, timed out or destroyed
DialFail(c) ==
  LET n == dialer[c]
      a == dialed[c]
  IN  /\ c \notin Free /\ stage[c]["out"] = "dialing" /\ stage[c]["in"] = "none"
      /\ IF Live(HostOf[a]) THEN Trouble ELSE UNCHANGED troubles
      /\ Requeue(n, a)
      /\ dialer' = [dialer EXCEPT ![c] = None] /\ dialed' = [dialed EXCEPT ![c] = None]
      /\ stage' = [stage EXCEPT ![c] = Both("none", "none")]
      /\ UNCHANGED <<phase, kept, fate>>

\* onconnect: the socket gets its handshake in _onconnection
Connect(c) ==
  /\ c \notin Free /\ stage[c]["out"] = "dialing" /\ Live(HostOf[dialed[c]])
  /\ stage' = [stage EXCEPT ![c] = Both("open", "backlog")]
  /\ UNCHANGED <<phase, peerVars, kept, dialer, dialed, troubles, fate>>

\* 'connection' of the server, with no peer to go back to
Accept(c) ==
  /\ c \notin Free /\ stage[c]["in"] = "backlog"
  /\ stage' = [stage EXCEPT ![c]["in"] = "open"]
  /\ UNCHANGED <<phase, peerVars, kept, dialer, dialed, troubles, fate>>

----------------------------------------------------------------------------
(* Shaking hands *)

\* The id of the other end has come: written when that end was opened, it may be
\* read after that end has closed
Written(c, s) == stage[c][Other(s)] \in {"open", "kept", "closing", "over"}

\* The tie-break of onhandshake: of two connections the one that the smaller id
\* has dialed stays (fault: the first one does)
FirstStays(n, m, s) == TRUE
Loses(n, m, s) == \/ s = "out" /\ m < n
                  \/ s = "in" /\ m > n

\* The end of n of a connection that it keeps
EndOf(n, c) == IF dialer[c] = n THEN "out" ELSE "in"

Yields(n, c) ==
  fate' = IF dialer[c] = n THEN [fate EXCEPT ![n][dialed[c]] = "yielded"] ELSE fate

\* The end s of c takes the place of the one that n has kept to m (fault: which
\* stays open)
Beside(n, m, c, s) ==
  /\ kept' = [kept EXCEPT ![n][m] = c]
  /\ stage' = [stage EXCEPT ![c][s] = "kept"]
  /\ UNCHANGED fate
Replace(n, m, c, s) ==
  LET old == kept[n][m]
  IN  /\ kept' = [kept EXCEPT ![n][m] = c]
      /\ stage' = [d \in Conn |-> [t \in Side |->
           CASE d = c /\ t = s -> "kept"
             [] d = old /\ t = EndOf(n, old) -> "closing"
             [] OTHER -> stage[d][t]]]
      /\ IF old = None THEN UNCHANGED fate ELSE Yields(n, old)

\* onhandshake at the end s of c
Handshake(c, s) ==
  LET n == Owner(c, s)
      m == Remote(c, s)
      a == dialed[c]
  IN  /\ c \notin Free /\ stage[c][s] = "open" /\ Written(c, s)
      /\ retries' = IF s = "out" THEN [retries EXCEPT ![n][a] = 0] ELSE retries
      /\ \/ /\ m = n
            /\ seen' = IF s = "out" THEN [seen EXCEPT ![n][a] = "banned"] ELSE seen
            /\ stage' = [stage EXCEPT ![c][s] = "closing"]
            /\ UNCHANGED <<kept, fate>>
         \/ /\ m # n /\ kept[n][m] # None /\ Loses(n, m, s)
            /\ stage' = [stage EXCEPT ![c][s] = "closing"]
            /\ Yields(n, c)
            /\ UNCHANGED <<seen, kept>>
         \/ /\ m # n /\ (kept[n][m] = None \/ ~Loses(n, m, s))
            /\ Replace(n, m, c, s)
            /\ UNCHANGED seen
      /\ UNCHANGED <<phase, waiting, dialer, dialed, troubles>>

----------------------------------------------------------------------------
(* Losing a connection *)

\* An end that has dialed and has not shaken hands closes
CutAt(c, s) ==
  fate' = IF s = "out" /\ stage[c][s] = "open"
          THEN [fate EXCEPT ![dialer[c]][dialed[c]] = "cut"] ELSE fate

\* The other end has closed
HearClose(c, s) ==
  /\ c \notin Free /\ stage[c][s] \in {"open", "kept"}
  /\ stage[c][Other(s)] \in {"none", "closing", "over"}
  /\ stage' = [stage EXCEPT ![c][s] = "closing"]
  /\ CutAt(c, s)
  /\ UNCHANGED <<phase, peerVars, kept, dialer, dialed, troubles>>

\* 'error' of the socket, or no handshake within HANDSHAKE_TIMEOUT
Fail(c, s) ==
  /\ c \notin Free /\ stage[c][s] \in {"open", "kept"} /\ Trouble
  /\ stage' = [stage EXCEPT ![c][s] = "closing"]
  /\ CutAt(c, s)
  /\ UNCHANGED <<phase, peerVars, kept, dialer, dialed>>

\* The number of the connection is free once both ends are over
Leave(c, s) ==
  IF stage[c][Other(s)] \in {"none", "over"}
  THEN /\ stage' = [stage EXCEPT ![c] = Both("none", "none")]
       /\ dialer' = [dialer EXCEPT ![c] = None]
       /\ dialed' = [dialed EXCEPT ![c] = None]
  ELSE /\ stage' = [stage EXCEPT ![c][s] = "over"]
       /\ UNCHANGED <<dialer, dialed>>

\* Whether the table holds the connection that closes (fault: or another one)
HoldsAny(n, m, c) == kept[n][m] # None
Holds(n, m, c)    == kept[n][m] = c

\* onclose of a connection.  A peer is tried again when the connection was the
\* one that was kept, and this node dialed it.
CloseEvent(c, s) ==
  LET n == Owner(c, s)
      m == Remote(c, s)
  IN  /\ c \notin Free /\ stage[c][s] = "closing"
      /\ IF Holds(n, m, c)
         THEN /\ kept' = [kept EXCEPT ![n][m] = None]
              /\ IF s = "out" THEN Requeue(n, dialed[c]) ELSE UNCHANGED peerVars
         ELSE UNCHANGED <<kept, peerVars>>
      /\ Leave(c, s)
      /\ UNCHANGED <<phase, troubles, fate>>

----------------------------------------------------------------------------
Step(c) ==
  \/ Connect(c) \/ DialFail(c) \/ Accept(c)
  \/ \E s \in Side : Handshake(c, s) \/ HearClose(c, s) \/ CloseEvent(c, s)

Next ==
  \/ \E n \in Node : Listen(n) \/ Listening(n) \/ Destroy(n) \/ Closed(n)
  \/ \E n \in Node, a \in Address : Discover(n, a) \/ WhoAmI(n, a) \/ Retry(n, a)
  \/ \E c \in Conn : Step(c) \/ \E s \in Side : Fail(c, s)

Spec == Init /\ [][Next]_vars

\* What comes by itself: the events of the sockets, the timers, and the
\* announcements that every node repeats.  No call is promised, and no trouble:
\* a connection has few steps, and a dial to a live server fails only by trouble.
Fairness ==
  /\ \A n \in Node : WF_vars(Listening(n) \/ Closed(n))
  /\ \A n \in Node, a \in Address : WF_vars(Discover(n, a)) /\ WF_vars(Retry(n, a))
  /\ \A c \in Conn : WF_vars(Step(c))

FairSpec == Spec /\ Fairness

----------------------------------------------------------------------------
(* Properties *)

\* Every variable has its type.
TypeOK ==
  /\ phase \in [Node -> Phase]
  /\ seen \in [Node -> [Address -> {"no", "seen", "banned"}]]
  /\ retries \in [Node -> [Address -> 0 .. MaxRetries]]
  /\ waiting \in [Node -> SUBSET Address]
  /\ kept \in [Node -> [Node -> Conn \cup {None}]]
  /\ dialer \in [Conn -> Node \cup {None}] /\ dialed \in [Conn -> Address \cup {None}]
  /\ stage \in [Conn -> [Side -> Stage]]
  /\ troubles \in Nat /\ fate \in [Node -> [Address -> {"none", "cut", "yielded"}]]

\* A node keeps one connection per peer: whatever connections cross, the ones
\* that have shaken hands and are not being closed lead to different nodes.
OnePerPeer ==
  \A n \in Node : \A e, f \in EndsAt(n) :
    At(e) = "kept" /\ At(f) = "kept" /\ Remote(e[1], e[2]) = Remote(f[1], f[2]) => e = f

\* n tries to reach m, or is connected to it, by way of the address a, or will
\* hear of a again
Pursues(n, a) ==
  \/ seen[n][a] = "no" \/ a \in waiting[n]
  \/ \E c \in Conn \ Free :
       /\ dialer[c] = n /\ dialed[c] = a
       /\ stage[c]["out"] \in {"dialing", "open", "kept"} \/ kept[n][HostOf[a]] = c

\* Two live nodes never give each other up: one of them pursues the other,
\* unless a dial of the smaller id was closed between connect and handshake, and
\* the other node was cut as well or has yielded.  The smaller one never yields.
Addresses(m) == {a \in Address : HostOf[a] = m}
Chases(n, m) == \E a \in Addresses(m) : Pursues(n, a)
Fates(n, m)  == {fate[n][a] : a \in Addresses(m)}
Severed(n, m) ==
  \E s, l \in {n, m} : s < l /\ "cut" \in Fates(s, l) /\ Fates(l, s) # {"none"}
NobodyIsForgotten ==
  \A n, m \in {HostOf[a] : a \in Address} :
    n # m /\ Live(n) /\ Live(m) => Chases(n, m) \/ Chases(m, n) \/ Severed(n, m)

\* The ends of all connections between n and m have done what they had to do
AtRest(n, m) ==
  \A c \in Conn \ Free : {dialer[c], HostOf[dialed[c]]} = {n, m} =>
                           stage[c]["out"] = "kept" /\ stage[c]["in"] = "kept"

\* "tie-break": with nothing under way between them, two nodes have kept the same
\* connection, or none.
SameConnection == \A n, m \in Node : n # m /\ AtRest(n, m) => kept[n][m] = kept[m][n]

Linked(n, m) == kept[n][m] # None /\ kept[n][m] = kept[m][n]

\* Two live nodes get connected, unless one goes or both have given up.
PairConnects ==
  \A n, m \in Node :
    n # m /\ Live(n) /\ Live(m) ~>
      Linked(n, m) \/ ~Live(n) \/ ~Live(m) \/ Severed(n, m)

=============================================================================
