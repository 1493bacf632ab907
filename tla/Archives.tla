------------------------------ MODULE Archives ------------------------------
(* How an archive gets from the node that packs it to the nodes that are told *)
(* to synchronize: FilesManagement and Archiver (src/file_manager), the swarm *)
(* that the archiver joins for a link, and its announcements                  *)
(* (src/network/discovery-channel/index.js).  GridSync takes all this for one *)
(* step, Download, which may fail or never come; here is when it comes.       *)
(*                                                                            *)
(* A node announces one link at a time, that of its last archiver.join.  The  *)
(* swarm of a link that it leaves is only unannounced: what is connected goes *)
(* on replicating.  A node that restarts has lost its drive: it is another    *)
(* node.                                                                      *)
EXTENDS FiniteSets, Functions, Integers, Sequences

CONSTANTS Node, Link,
          Grids,   \* the grids that are looked at, each with its bounds: see Grid
          None

\* The nodes that take part and those that get POST /tasks/init; how many archives
\* are made, and how much goes wrong (see Trouble), at most
Grid == [nodes : SUBSET Node, operators : SUBSET Node, archives : Nat, troubles : Nat]

ASSUME ArchivesAssumption ==
  IsFiniteSet(Node) /\ None \notin Link /\ Grids \subseteq Grid

VARIABLES
  grid,      \* the one of Grids
  up,        \* the nodes that are up
  peers,     \* per node that may be a master: the peers in its pool
  packing,   \* the nodes whose initializeAndSpread has not archived yet
  master,    \* the nodes with is_file_master
  current,   \* current_link
  link,      \* archiver.link, the one that is announced
  server,    \* per node: how the server of its last swarm fares
  spreads,   \* per node: the joinPool of initializeAndSpread that have not resolved
  fetching,  \* per node and link: the downloads that have not ended
  holds,     \* per node: the links whose archive is complete in its drive
  wired,     \* per link: the pairs of nodes that replicate it
  cut,       \* per link: the pairs of nodes that have lost each other
  asks,      \* 'sync' messages under way, from a node to a node: the links they name
  deleting,  \* per node and link: the handlers of 'sync' in deleteAllPM2Tasks
  loops,     \* per node: the peers that each askAllPeersToSync has still to hear of
  answers,   \* per node: the peers whose 'sync:done' is under way to it
  emptied,   \* history: the nodes whose last 'sync' named no link
  made,      \* history: per node, the links of the archives it has made
  troubles

pools == <<grid, up, peers>>
packs == <<packing, master, current, made>>
swarm == <<link, server, cut>>
nets  == <<swarm, spreads, fetching, wired>>
syncs == <<asks, deleting, loops, answers>>
vars  == <<pools, packs, nets, syncs, holds, emptied, troubles>>

Pairs == {P \in SUBSET Node : Cardinality(P) = 2}

Init ==
  /\ grid \in Grids /\ up = grid.nodes /\ peers = [n \in Node |-> {}]
  /\ packing = {} /\ master = {}
  /\ current = [n \in Node |-> None] /\ made = [n \in Node |-> {}]
  /\ link = [n \in Node |-> None] /\ server = [n \in Node |-> "none"]
  /\ spreads = [n \in Node |-> 0] /\ fetching = [n \in Node |-> [l \in Link |-> 0]]
  /\ holds = [n \in Node |-> {}]
  /\ wired = [l \in Link |-> {}] /\ cut = [l \in Link |-> {}]
  /\ asks = [n \in Node |-> [m \in Node |-> <<>>]]
  /\ deleting = [n \in Node |-> [l \in Link |-> 0]]
  /\ loops = [n \in Node |-> {}] /\ answers = [n \in Node |-> {}]
  /\ emptied = {} /\ troubles = 0

\* A pack or a deletion that fails, a server that cannot listen, a connection of
\* the grid or of a link that is lost, a node that goes down
Trouble == troubles < grid.troubles /\ troubles' = troubles + 1

----------------------------------------------------------------------------
(* The swarm of a link *)

\* Archiver.join, and how the server of the new swarm fares.  The previous link is
\* left, which also takes it out of _adding when its server does not listen yet.
\* The new swarm has a port of its own, and meets again whom the old one has lost.
Join(n, l, fares) ==
  /\ link' = [link EXCEPT ![n] = l] /\ server' = [server EXCEPT ![n] = fares]
  /\ cut' = [cut EXCEPT ![l] = {P \in @ : n \notin P}]

\* The server of a swarm joined by a spread reports: it is that of the last swarm
\* or of one that has been left meanwhile
Opening(n) == IF server[n] = "opening" THEN 1 ELSE 0
Reports(n, fares) ==
  /\ spreads[n] > 0 /\ spreads' = [spreads EXCEPT ![n] = @ - 1]
  /\ \/ server[n] = "opening" /\ server' = [server EXCEPT ![n] = fares]
     \/ spreads[n] > Opening(n) /\ UNCHANGED server

\* 'error', which is only logged: joinPool never resolves
ListenError(n) ==
  /\ Reports(n, "failed") /\ Trouble
  /\ UNCHANGED <<pools, packs, link, cut, fetching, wired, syncs, holds, emptied>>

\* The link is announced, on a server that listens (fault: by who has the archive)
SeedsOnly(n, l) == link[n] = l /\ server[n] = "up" /\ l \in holds[n]
Announces(n, l) == link[n] = l /\ server[n] = "up"

\* ondnspeer: two nodes that have joined the link hear of each other, and get a
\* connection that replicates the archive
Meet(l, P) ==
  /\ P \in Pairs \ (wired[l] \cup cut[l]) /\ \A n \in P : Announces(n, l)
  /\ wired' = [wired EXCEPT ![l] = @ \cup {P}]
  /\ UNCHANGED <<pools, packs, swarm, spreads, fetching, syncs, holds, emptied, troubles>>

\* They lose it, or do not get it, for good (Severed in Interplanetary); what is
\* only lost for a while is a later Meet
Sever(l, P) ==
  /\ P \in Pairs \ cut[l] /\ Trouble
  /\ P \in wired[l] \/ \A n \in P : Announces(n, l)
  /\ wired' = [wired EXCEPT ![l] = @ \ {P}]
  /\ cut' = [cut EXCEPT ![l] = @ \cup {P}]
  /\ UNCHANGED <<pools, packs, link, server, spreads, fetching, syncs, holds, emptied>>

----------------------------------------------------------------------------
(* Sharing: initializeAndSpread *)

\* The links that no archive has
Unused == Link \ UNION Range(made)

\* The node becomes a master before it has packed anything
Pack(n) ==
  /\ n \in (grid.operators \cap up) \ packing
  /\ Cardinality(packing) + Cardinality(UNION Range(made)) < grid.archives
  /\ packing' = packing \cup {n} /\ master' = master \cup {n}
  /\ UNCHANGED <<pools, current, made, nets, syncs, holds, emptied, troubles>>

\* pack fails, or the file has not changed
PackFail(n) ==
  /\ n \in packing /\ Trouble
  /\ packing' = packing \ {n}
  /\ UNCHANGED <<pools, master, current, made, nets, syncs, holds, emptied>>

\* archiveSolo, which makes a new key, and joinPool
Archived(n, l) ==
  /\ n \in packing /\ l \in Unused
  /\ packing' = packing \ {n}
  /\ current' = [current EXCEPT ![n] = l]
  /\ made' = [made EXCEPT ![n] = @ \cup {l}]
  /\ holds' = [holds EXCEPT ![n] = @ \cup {l}]
  /\ Join(n, l, "opening") /\ spreads' = [spreads EXCEPT ![n] = @ + 1]
  /\ UNCHANGED <<pools, master, fetching, wired, syncs, emptied, troubles>>

\* askPeerToSync, by n to the peers in P.  Fault: the link of the archiver.
Joined(n) == link[n]
Told(n)   == current[n]
Sync(n, P) ==
  [asks EXCEPT ![n] =
     [m \in Node |-> IF m \in P \cap peers[n] THEN Append(@[m], Told(n)) ELSE @[m]]]

\* 'listening' after an archive: joinPool resolves, whether or not the link has
\* been left meanwhile, and askAllPeersToSync asks the first router of the pool.
\* Routers are taken in the order of their ids, which is any order of the peers.
\* Loops that have the same peers left count as one.  Fault: it leaves out the
\* peers that have been asked before.
AskNew(n) == peers[n] \ emptied
AskAll(n) == peers[n]
Orders(P) == {w \in [1 .. Cardinality(P) -> P] : Range(w) = P}
Spread(n) ==
  /\ Reports(n, "up")
  /\ \E w \in Orders(AskAll(n)) :
       /\ loops' = [loops EXCEPT ![n] = (@ \cup {w}) \ {<<>>}]
       /\ asks' = Sync(n, {w[i] : i \in 1 .. 1 \cap DOMAIN w})
  /\ UNCHANGED <<pools, packs, link, cut, fetching, wired, deleting, answers, holds, emptied, troubles>>

\* 'sync:done': every loop that waits for this router asks its next one
Hear(n, m) ==
  LET W  == {w \in loops[n] : Head(w) = m}
      on == {Tail(w) : w \in W} \ {<<>>}
  IN  /\ m \in answers[n]
      /\ answers' = [answers EXCEPT ![n] = @ \ {m}]
      /\ loops' = [loops EXCEPT ![n] = (@ \ W) \cup on]
      /\ asks' = Sync(n, {Head(w) : w \in on})
      /\ UNCHANGED <<pools, packs, nets, deleting, holds, emptied, troubles>>

----------------------------------------------------------------------------
(* Fetching *)

\* A router is confirmed at n: mountActions, which does something at a master only
Confirm(n, m) ==
  /\ n # m /\ n \in grid.operators /\ {n, m} \subseteq up /\ m \notin peers[n]
  /\ peers' = [peers EXCEPT ![n] = @ \cup {m}]
  /\ asks' = IF n \in master THEN [asks EXCEPT ![n][m] = Append(@, Told(n))] ELSE asks
  /\ UNCHANGED <<grid, up, packs, nets, deleting, loops, answers, holds, emptied, troubles>>

\* 'sync': a handler deletes the tasks.  When no link is named that is all: the
\* line of downloadAndExpand that logs the link throws.
Receive(n, m) ==
  LET l == Head(asks[m][n])
  IN  /\ asks[m][n] # <<>>
      /\ asks' = [asks EXCEPT ![m][n] = Tail(@)]
      /\ IF l = None
         THEN emptied' = emptied \cup {n} /\ UNCHANGED deleting
         ELSE emptied' = emptied \ {n} /\ deleting' = [deleting EXCEPT ![n][l] = @ + 1]
      /\ UNCHANGED <<pools, packs, nets, loops, answers, holds, troubles>>

\* deleteAllPM2Tasks has ended, and one of two handlers may overtake the other
Deletes(n, l) == deleting[n][l] > 0 /\ deleting' = [deleting EXCEPT ![n][l] = @ - 1]

\* downloadAndExpand.  When the server listens is up to the first Meet.
Deleted(n, l) ==
  /\ Deletes(n, l) /\ Join(n, l, "up")
  /\ fetching' = [fetching EXCEPT ![n][l] = @ + 1]
  /\ UNCHANGED <<pools, packs, spreads, wired, asks, loops, answers, holds, emptied, troubles>>

\* The server cannot listen, which is only logged: the download never begins
DeletedDeaf(n, l) ==
  /\ Deletes(n, l) /\ Join(n, l, "failed") /\ Trouble
  /\ UNCHANGED <<pools, packs, spreads, fetching, wired, asks, loops, answers, holds, emptied>>

\* deleteAllPM2Tasks rejects
DeleteFail(n, l) ==
  /\ Deletes(n, l) /\ Trouble
  /\ UNCHANGED <<pools, packs, nets, asks, loops, answers, holds, emptied>>

\* archive.list and archive.download have all blocks: the node seeds from now on,
\* starts the tasks, and tells the routers of its pool
Fetch(n, l) ==
  /\ fetching[n][l] > 0
  /\ l \in holds[n] \/ \E m \in Node : {n, m} \in wired[l] /\ l \in holds[m]
  /\ fetching' = [fetching EXCEPT ![n][l] = @ - 1]
  /\ holds' = [holds EXCEPT ![n] = @ \cup {l}]
  /\ answers' = [m \in Node |-> IF n \in peers[m] THEN answers[m] \cup {n} ELSE answers[m]]
  /\ UNCHANGED <<pools, packs, swarm, spreads, wired, asks, deleting, loops, emptied, troubles>>

----------------------------------------------------------------------------
(* Troubles *)

\* The router of p has closed: a loop that waits for it, or comes to it, stops
\* (fault: one that has nobody to wait for stays)
Before(w, p) ==
  IF p \in Range(w) THEN SubSeq(w, 1, (CHOOSE i \in DOMAIN w : w[i] = p) - 1) ELSE w
StoppedAll(W, p) == {Before(w, p) : w \in W}
Stopped(W, p) == {Before(w, p) : w \in W} \ {<<>>}

\* The connection of the grid between two nodes closes.  Their connections for a
\* link are others.
Part(n, m) ==
  /\ m \in peers[n] /\ Trouble
  /\ peers' = [peers EXCEPT ![n] = @ \ {m}, ![m] = @ \ {n}]
  /\ asks' = [asks EXCEPT ![n][m] = <<>>, ![m][n] = <<>>]
  /\ loops' = [loops EXCEPT ![n] = Stopped(@, m), ![m] = Stopped(@, n)]
  /\ answers' = [answers EXCEPT ![n] = @ \ {m}, ![m] = @ \ {n}]
  /\ UNCHANGED <<grid, up, packs, nets, deleting, holds, emptied>>

Down(n) ==
  /\ n \in up /\ Trouble
  /\ up' = up \ {n}
  /\ peers' = [m \in Node |-> IF m = n THEN {} ELSE peers[m] \ {n}]
  /\ packing' = packing \ {n} /\ master' = master \ {n}
  /\ current' = [current EXCEPT ![n] = None]
  /\ link' = [link EXCEPT ![n] = None] /\ server' = [server EXCEPT ![n] = "none"]
  /\ spreads' = [spreads EXCEPT ![n] = 0]
  /\ fetching' = [fetching EXCEPT ![n] = [l \in Link |-> 0]]
  /\ holds' = [holds EXCEPT ![n] = {}]
  /\ wired' = [l \in Link |-> {P \in wired[l] : n \notin P}]
  /\ asks' = [a \in Node |-> [b \in Node |-> IF n \in {a, b} THEN <<>> ELSE asks[a][b]]]
  /\ deleting' = [deleting EXCEPT ![n] = [l \in Link |-> 0]]
  /\ loops' = [m \in Node |-> IF m = n THEN {} ELSE Stopped(loops[m], n)]
  /\ answers' = [m \in Node |-> IF m = n THEN {} ELSE answers[m] \ {n}]
  /\ emptied' = emptied \ {n}
  /\ UNCHANGED <<grid, made, cut>>

----------------------------------------------------------------------------
Next ==
  \/ \E n \in Node : Pack(n) \/ PackFail(n) \/ Spread(n) \/ ListenError(n) \/ Down(n)
  \/ \E n \in Node, l \in Link :
       \/ Archived(n, l) \/ Fetch(n, l)
       \/ Deleted(n, l) \/ DeletedDeaf(n, l) \/ DeleteFail(n, l)
  \/ \E l \in Link, P \in Pairs : Meet(l, P) \/ Sever(l, P)
  \/ \E n, m \in Node : Confirm(n, m) \/ Receive(n, m) \/ Hear(n, m) \/ Part(n, m)

Spec == Init /\ [][Next]_vars

\* Servers report, announcements are repeated, messages are delivered, archives
\* replicate, PM2 answers, and a pack ends.  No call is promised, nor that a router
\* is confirmed.
FairSpec ==
  /\ Spec
  /\ \A n \in Node :
       /\ WF_vars(PackFail(n) \/ \E l \in Link : Archived(n, l))
       /\ WF_vars(Spread(n) \/ ListenError(n))
       /\ WF_vars(\E l \in Link : Deleted(n, l) \/ DeletedDeaf(n, l) \/ DeleteFail(n, l))
       /\ WF_vars(\E l \in Link : Fetch(n, l))
       /\ WF_vars(\E m \in Node : Receive(n, m) \/ Hear(n, m))
  /\ \A l \in Link : WF_vars(\E P \in Pairs : Meet(l, P))

----------------------------------------------------------------------------
(* Properties *)

\* Every variable has its type.
TypeOK ==
  /\ grid \in Grids /\ up \subseteq Node /\ peers \in [Node -> SUBSET Node]
  /\ packing \subseteq Node /\ master \subseteq Node
  /\ current \in [Node -> Link \cup {None}] /\ made \in [Node -> SUBSET Link]
  /\ link \in [Node -> Link \cup {None}]
  /\ server \in [Node -> {"none", "opening", "up", "failed"}]
  /\ spreads \in [Node -> Nat] /\ fetching \in [Node -> [Link -> Nat]]
  /\ holds \in [Node -> SUBSET Link]
  /\ wired \in [Link -> SUBSET Pairs] /\ cut \in [Link -> SUBSET Pairs]
  /\ asks \in [Node -> [Node -> Seq(Link \cup {None})]]
  /\ deleting \in [Node -> [Link -> Nat]]
  /\ loops \in [Node -> SUBSET (Seq(Node) \ {<<>>})] /\ answers \in [Node -> SUBSET Node]
  /\ emptied \subseteq Node /\ troubles \in Nat

\* A master gives up the archive that it tells its peers of for nothing but the
\* archive of another master, in whatever order messages, deletions and packs
\* end: when it is the only one, it never does.
MastersShare ==
  \A n \in master : current[n] # None =>
    link[n] = current[n] \/ \E m \in Node \ {n} : link[n] \in made[m]

\* m shares the archive l with n: its server listens or is about to, and the two
\* have not lost each other
Seeds(m, n, l) ==
  l \in holds[m] /\ link[m] = l /\ server[m] # "failed" /\ {m, n} \notin cut[l]

\* A download whose end nobody warrants: its node has left the link or cannot
\* listen any more, or nobody shares the archive with it
Orphan(n, l) ==
  link[n] # l \/ server[n] = "failed" \/ \A m \in Node : ~Seeds(m, n, l)

\* A download comes to its end, unless it becomes an orphan: those that had the
\* archive have gone, have gone over to another, or have lost the node.
\* archiver.download has no timeout.
FetchEnds ==
  \A n \in Node, l \in Link : fetching[n][l] > 0 ~> fetching[n][l] = 0 \/ Orphan(n, l)

\* A download that never ends, since two archives have crossed
Hangs == \E n \in Node, l \in Link : fetching[n][l] > 0 /\ Orphan(n, l)

\* A peer that was told to synchronize before there was an archive has lost its
\* tasks; it is told again when there is one, unless something else goes wrong, or
\* a peer that the loop asks before it hangs.
EmptiedIsRefilled ==
  []<>~Hangs => \A n \in Node : n \in emptied ~> n \notin emptied \/ troubles > 0

=============================================================================
