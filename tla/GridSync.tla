------------------------------ MODULE GridSync ------------------------------
(***************************************************************************)
(* Provisioning of an application over a grid (src/gridcontrol.js,         *)
(* task_controller.js, file_manager.js, archiver.js, task_manager.js).     *)
(*                                                                         *)
(* An operator posts an application to the API of one node.  That node     *)
(* starts the tasks, packs and archives the application, publishes the     *)
(* archive under a link and asks its peers, one after the other, to fetch  *)
(* it.  A peer that is asked deletes its tasks, downloads, starts the      *)
(* tasks it downloaded and tells everybody it knows; whoever hears it      *)
(* flags the peer as synchronized and may route work to it.                *)
(*                                                                         *)
(* The content of an application is a Version, and a link is named by what *)
(* its archive holds.  A task is a file of the application; a folder and   *)
(* what PM2 runs say for each task which version it is of.                 *)
(***************************************************************************)
EXTENDS Naturals, Sequences, FiniteSets

CONSTANTS
  Node,        \* machines running gridcontrol, one process each
  Operators,   \* nodes whose API receives POST /tasks/init
  Version,     \* application contents
  Task,        \* task files of the application
  TasksOf,     \* [Version -> SUBSET Task]  the task files a content has
  Request,     \* names of the POST /tasks/init calls (bounds their number)
  MaxConn,     \* bound on the connections ever established
  MaxRestart,  \* bound on the number of process restarts
  Allowed,     \* what the environment may do, see Circumstances
  None,        \* null, undefined, nothing
  Torn         \* content of a file that two writers mixed, or left unfinished

\* init, spread, sync: the tasks of a master, its archive, a peer's sync fail;
\* close: a connection closes; restart: a process restarts; join: peers
\* connect while a node is a master or becomes one; drop: a message coalesced with `identity` is
\* emitted before anybody listens; overlap: a POST comes while the grid is busy;
\* clear: somebody calls DELETE /tasks/clear.
Circumstances ==
  {"init", "spread", "sync", "close", "restart", "join", "drop", "overlap", "clear"}

ASSUME GridAssumption ==
  /\ Operators \subseteq Node
  /\ None \notin Node \cup Version
  /\ Torn \notin Version \cup {None}
  /\ TasksOf \in [Version -> SUBSET Task]
  /\ IsFiniteSet(Request)
  /\ MaxConn \in Nat
  /\ MaxRestart \in Nat
  /\ Allowed \subseteq Circumstances

Conn    == 1 .. MaxConn
Content == Version \cup {None, Torn}
Folder  == [Task -> Content]
Stage   == {"deleting", "downloading", "starting"}
Phase   == {"starting", "packing", "mixed", "archiving", "joining",
            "asking", "done"}
Kind    == {"identity", "sync", "done", "error"}
Message == [kind : Kind, link : Content]
Job     == [conn : Conn, stage : Stage, link : Content]
Unsent  == [node |-> None, ver |-> None, phase |-> "idle", img |-> None,
            todo |-> {}, wait |-> None]
Posting == [node : Node, ver : Version, phase : Phase, img : Content,
            todo : SUBSET Conn, wait : Conn \cup {None}]
Call    == {Unsent} \cup Posting

VARIABLES
  server,    \* [Conn -> Node]  the end that accepted the connection
  client,    \* [Conn -> Node]  the end that opened it
  pool,      \* [Node -> SUBSET Conn]  socket_pool: identified routers
  gone,      \* [Node -> SUBSET Conn]  ends this node has seen close
  inbox,     \* [Node -> [Conn -> Seq(Message)]]
  synced,    \* [Node -> SUBSET Conn]  router.identity.synchronized
  isMaster,  \* file_manager.is_file_master
  md5,       \* file_manager.current_sync_md5
  link,      \* file_manager.current_link
  tmp,       \* content of defaults.TMP_FILE
  crossed,   \* history: the calls that overlapped another of their node between
             \* the start of the pack and the end of archiveSolo
  astray,    \* history: the nodes with such calls, or with a spread that failed,
             \* and where no other call has archived since
  app,       \* [Node -> Folder]  the tasks in file_manager.app_folder
  running,   \* [Node -> Folder]  the tasks that PM2 runs
  accept,    \* task_manager.can_accept_queries
  local,     \* task_manager.can_local_compute == true
  jobs,      \* [Node -> Seq(Job)]  'sync' handlers under way
  lost,      \* [Node -> SUBSET Conn]  history: the last ask the node got over
             \* the connection will never be answered by 'sync:done'
  req,       \* [Request -> ...]  init_task_group calls
  restarts   \* number of restarts so far

netVars  == <<server, client, pool, gone, inbox, synced, lost>>
fileVars == <<isMaster, md5, link, tmp, crossed, astray>>
taskVars == <<app, running, accept, local>>
vars     == <<netVars, fileVars, taskVars, jobs, req, restarts>>

----------------------------------------------------------------------------
(* Helpers.  A definition said to be a fault is no part of the model: it is what  *)
(* a bug could make of the definition after it.                              *)

Peer(n, c) == IF server[c] = n THEN client[c] ELSE server[c]
EndOf(n)   == {c \in Conn : n \in {server[c], client[c]}}
Least(S)   == CHOOSE c \in S : \A d \in S : c <= d

Identity == [kind |-> "identity", link |-> None]
Sync(l)  == [kind |-> "sync", link |-> l]

\* Faults: an answer of another name, and one that does not tell failure from success
DoneMisnamed(l) == [kind |-> "synced", link |-> l]
ErrorAsDone     == [kind |-> "done", link |-> None]
Done(l)  == [kind |-> "done", link |-> l]
Error    == [kind |-> "error", link |-> None]

\* What the write of out[c] on each router c of n leaves in the inboxes: what
\* is written to a connection closed at either end is lost.
Sent(box, n, out) ==
  [m \in Node |-> [c \in Conn |->
    IF m # n /\ m = Peer(n, c) /\ c \in EndOf(n) /\ c \notin gone[n] \cup gone[m]
      THEN box[m][c] \o out[c] ELSE box[m][c]]]

On(c, msgs) == [d \in Conn |-> IF d = c THEN msgs ELSE <<>>]

\* socket_pool.broadcast.  A fault: only the first router gets the message.
ToFirst(n, m) == IF pool[n] = {} THEN On(0, <<>>) ELSE On(Least(pool[n]), <<m>>)
ToPool(n, m)  == [d \in Conn |-> IF d \in pool[n] THEN <<m>> ELSE <<>>]

\* setAllPeersAsNotSynced (a fault: it reaches nobody) and setAllPeersAsSynced
UnflaggedNone(n) == synced
Unflagged(n)     == [synced EXCEPT ![n] = {}]
Flagged(n)       == [synced EXCEPT ![n] = pool[n]]

\* The ends that get a new ask: they may yet answer
Asked(n, C) == [m \in Node |-> lost[m] \ {c \in C : m = Peer(n, c)}]

\* Folders: no task; the tasks of a content; a content unpacked over what the
\* folder holds (a fault: a file that exists is kept)
Nothing         == [t \in Task |-> None]
TasksIn(l)      == IF l = Torn THEN Task ELSE TasksOf[l]
Whole(v)        == [t \in Task |-> IF t \in TasksOf[v] THEN v ELSE None]
Beside(old, v)  == [t \in Task |-> IF old[t] = None THEN Whole(v)[t] ELSE old[t]]
Layered(old, v) == [t \in Task |-> IF t \in TasksOf[v] THEN v ELSE old[t]]

\* Some of the tasks of f, and f with some of the files of the archives L
\* written over it, completely or not
Parts(f)       == {g \in Folder : \A t \in Task : g[t] \in {None, f[t]}}
Mixtures(f, L) == {g \in Folder : \A t \in Task :
                     \/ g[t] = f[t]
                     \/ \E l \in L : t \in TasksIn(l) /\ g[t] \in {l, Torn}}

Without(s, x) == [y \in 1 .. Len(s) - 1 |-> IF y < x THEN s[y] ELSE s[y + 1]]

----------------------------------------------------------------------------
Init ==
  /\ server = [c \in Conn |-> None] /\ client = [c \in Conn |-> None]
  /\ pool = [n \in Node |-> {}] /\ gone = [n \in Node |-> {}]
  /\ inbox = [n \in Node |-> [c \in Conn |-> <<>>]]
  /\ synced = [n \in Node |-> {}] /\ lost = [n \in Node |-> {}]
  /\ isMaster = [n \in Node |-> FALSE]
  /\ md5 = [n \in Node |-> None] /\ link = [n \in Node |-> None]
  /\ tmp = [n \in Node |-> None] /\ crossed = {} /\ astray = {}
  /\ app = [n \in Node |-> Nothing] /\ running = [n \in Node |-> Nothing]
  /\ accept = [n \in Node |-> FALSE] /\ local = [n \in Node |-> TRUE]
  /\ jobs = [n \in Node |-> <<>>]
  /\ req = [i \in Request |-> Unsent]
  /\ restarts = 0

----------------------------------------------------------------------------
(* Connections *)

\* askPeerToSync, as mountActions makes it on a fresh router of a master.  A
\* fault: every node asks.
GreetingOfAll(n) == <<Sync(link[n])>>
Greeting(n) == IF isMaster[n] THEN <<Sync(link[n])>> ELSE <<>>

\* The server end has the client's identity: the router enters the pool, the
\* server answers with its own identity and mounts its actions.
AcceptPeer(s, k) ==
  \E c \in Conn :
    /\ s # k
    /\ server[c] = None /\ \A d \in Conn : d < c => server[d] # None
    /\ \A d \in EndOf(s) \cap EndOf(k) : d \in gone[s] \cup gone[k]
    /\ \/ "join" \in Allowed
       \/ /\ \A i \in Request : req[i].phase \in {"idle", "done"}
          /\ \A n \in Node : ~isMaster[n]
    /\ server' = [server EXCEPT ![c] = s]
    /\ client' = [client EXCEPT ![c] = k]
    /\ pool' = [pool EXCEPT ![s] = @ \cup {c}]
    /\ inbox' = [inbox EXCEPT ![k][c] = <<Identity>> \o Greeting(s)]
    /\ UNCHANGED <<gone, synced, lost, fileVars, taskVars, jobs, req, restarts>>

\* The client end reads the server's identity.  The handlers are mounted by a
\* promise continuation: whatever the same TCP chunk carries behind the
\* identity is emitted before that and reaches no listener.
ClientConfirm(k, c) ==
  LET box == inbox[k][c]
  IN  /\ c \notin pool[k] \cup gone[k] /\ client[c] = k
      /\ box # <<>> /\ Head(box) = Identity
      /\ \E last \in 1 .. Len(box) :
           /\ last > 1 => "drop" \in Allowed
           /\ LET missed == {x \in 2 .. last : box[x].kind = "sync"}
              IN  lost' = [Asked(k, IF isMaster[k] THEN {c} ELSE {})
                           EXCEPT ![k] = @ \cup IF missed = {} THEN {} ELSE {c}]
           /\ inbox' = Sent([inbox EXCEPT ![k][c] = SubSeq(box, last + 1, Len(box))],
                            k, On(c, Greeting(k)))
      /\ pool' = [pool EXCEPT ![k] = @ \cup {c}]
      /\ UNCHANGED <<server, client, gone, synced, fileVars, taskVars, jobs, req, restarts>>

\* 'close' or 'error' on the socket: the router leaves the pool
Close(n, c) ==
  /\ c \in EndOf(n) \ gone[n]
  /\ "close" \in Allowed \/ c \in gone[Peer(n, c)]
  /\ gone' = [gone EXCEPT ![n] = @ \cup {c}]
  /\ pool' = [pool EXCEPT ![n] = @ \ {c}]
  /\ synced' = [synced EXCEPT ![n] = @ \ {c}]
  /\ inbox' = [inbox EXCEPT ![n][c] = <<>>]
  /\ UNCHANGED <<server, client, lost, fileVars, taskVars, jobs, req, restarts>>

HearClose(n, c) == c \in EndOf(n) /\ c \in gone[Peer(n, c)] /\ Close(n, c)

\* The process of n dies and is started again: its connections close, its
\* memory is fresh, the sync folder is cleared and PM2's tasks are deleted.
Restart(n) ==
  /\ "restart" \in Allowed /\ restarts < MaxRestart
  /\ restarts' = restarts + 1
  /\ gone' = [gone EXCEPT ![n] = EndOf(n)]
  /\ pool' = [pool EXCEPT ![n] = {}]
  /\ synced' = [synced EXCEPT ![n] = {}]
  /\ inbox' = [inbox EXCEPT ![n] = [c \in Conn |-> <<>>]]
  /\ isMaster' = [isMaster EXCEPT ![n] = FALSE]
  /\ md5' = [md5 EXCEPT ![n] = None]
  /\ link' = [link EXCEPT ![n] = None] /\ astray' = astray \ {n}
  /\ app' = [app EXCEPT ![n] = Nothing]
  /\ running' = [running EXCEPT ![n] = Nothing]
  /\ accept' = [accept EXCEPT ![n] = FALSE]
  /\ local' = [local EXCEPT ![n] = TRUE]
  /\ jobs' = [jobs EXCEPT ![n] = <<>>]
  /\ req' = [i \in Request |-> IF req[i].node = n
                               THEN [req[i] EXCEPT !.phase = "done"] ELSE req[i]]
  /\ UNCHANGED <<server, client, lost, tmp, crossed>>

----------------------------------------------------------------------------
(* POST /tasks/init on the master *)

\* Nothing of an earlier request or handshake is under way anywhere
Quiet ==
  /\ \A i \in Request : req[i].phase \in {"idle", "done"}
  /\ \A n \in Node : jobs[n] = <<>> /\ \A c \in Conn : inbox[n][c] = <<>>

\* init_task_group up to its first await
InitRequest(i, n, v, loc) ==
  /\ req[i].phase = "idle"
  /\ "overlap" \in Allowed \/ Quiet
  /\ req' = [req EXCEPT ![i].node = n, ![i].ver = v, ![i].phase = "starting"]
  /\ synced' = Unflagged(n)
  /\ accept' = [accept EXCEPT ![n] = FALSE]
  /\ local' = [local EXCEPT ![n] = loc]
  /\ UNCHANGED <<server, client, pool, gone, inbox, lost, fileVars, app, running,
                 jobs, restarts>>

Packing(n)   == {k \in Request : req[k].node = n /\ req[k].phase \in {"packing", "mixed"}}
Spreading(n) == {k \in Request : req[k].node = n
                                  /\ req[k].phase \in {"packing", "mixed", "archiving"}}

\* initTasks succeeded: the tasks run and initializeAndSpread starts to pack,
\* truncating a file that an earlier request may still be writing
InitStarted(i) ==
  LET n == req[i].node
  IN  /\ req[i].phase = "starting"
      /\ running' = [running EXCEPT ![n] = Whole(req[i].ver)]
      /\ accept' = [accept EXCEPT ![n] = TRUE]
      /\ isMaster' = [isMaster EXCEPT ![n] = TRUE]
      /\ tmp' = [tmp EXCEPT ![n] = Torn]
      /\ IF Spreading(n) = {} THEN UNCHANGED <<crossed, astray>>
         ELSE crossed' = crossed \cup Spreading(n) \cup {i} /\ astray' = astray \cup {n}
      /\ req' = [k \in Request |->
                  IF k \in Packing(n) THEN [req[k] EXCEPT !.phase = "mixed"]
                  ELSE IF k # i THEN req[k]
                  ELSE [req[k] EXCEPT !.phase = IF Packing(n) = {} THEN "packing"
                                                                   ELSE "mixed"]]
      /\ UNCHANGED <<netVars, md5, link, app, local, jobs, restarts>>

\* initTasks rejected: next(e), and nothing else.  The folder could not be
\* read (the old tasks still run) or a task did not start (others may).
InitFail(i) ==
  LET n == req[i].node
  IN  /\ "init" \in Allowed /\ req[i].phase = "starting"
      /\ \E f \in {running[n]} \cup Parts(Whole(req[i].ver)) :
           running' = [running EXCEPT ![n] = f]
      /\ req' = [req EXCEPT ![i].phase = "done"]
      /\ UNCHANGED <<netVars, fileVars, app, accept, local, jobs, restarts>>

\* What TMP_FILE holds when the pack of i resolves: its own content, or that of
\* another pack that overlapped it, or something of both
Packed(i) ==
  LET n == req[i].node
  IN  {req[i].ver} \cup IF req[i].phase = "mixed"
                        THEN {Torn, tmp[n]} \cup {req[k].ver : k \in Packing(n)} ELSE {}

\* Compress.pack resolved.  A file that has not changed is a rejection, which
\* the controller answers with setAllPeersAsSynced.
PackDone(i) ==
  LET n == req[i].node
  IN  \E x \in Packed(i) :
        /\ req[i].phase \in {"packing", "mixed"}
        /\ tmp' = [tmp EXCEPT ![n] = x]
        /\ \/ /\ x = md5[n] /\ x # Torn
              /\ synced' = Flagged(n)
              /\ req' = [req EXCEPT ![i].phase = "done"]
              /\ UNCHANGED md5
           \/ /\ x # md5[n] \/ x = Torn
              /\ md5' = [md5 EXCEPT ![n] = x]
              /\ req' = [req EXCEPT ![i].phase = "archiving", ![i].img = x]
              /\ UNCHANGED synced
        /\ UNCHANGED <<server, client, pool, gone, inbox, lost, isMaster, link, crossed,
                       astray, taskVars, jobs, restarts>>

\* Compress.pack or archiveSolo rejected: same answer, whatever the error
SpreadFail(i) ==
  LET n == req[i].node
  IN  /\ "spread" \in Allowed
      /\ req[i].phase \in {"packing", "mixed", "archiving"}
      /\ synced' = Flagged(n)
      /\ req' = [req EXCEPT ![i].phase = "done"] /\ astray' = astray \cup {n}
      /\ UNCHANGED <<server, client, pool, gone, inbox, lost, isMaster, md5, link, tmp,
                     crossed, taskVars, jobs, restarts>>

\* What archiveSolo, which reads TMP_FILE somewhere between the end of the pack
\* and now, may have got: another request may have been rewriting the file.  A
\* fault: the link goes on naming the previous archive.
PreviousArchive(i) == {link[req[i].node]}
Archives(i) ==
  LET now == tmp[req[i].node]
  IN  {req[i].img} \cup IF now # req[i].img THEN {now, Torn} ELSE {}

\* archiveSolo resolved
Archived(i) ==
  LET n == req[i].node
  IN  /\ req[i].phase = "archiving"
      /\ \E x \in Archives(i) : link' = [link EXCEPT ![n] = x]
      /\ req' = [req EXCEPT ![i].phase = "joining"]
      /\ astray' = IF i \in crossed THEN astray ELSE astray \ {n}
      /\ UNCHANGED <<netVars, isMaster, md5, tmp, crossed, taskVars, jobs, restarts>>

\* joinPool resolved: askAllPeersToSync takes the routers of the pool in the
\* order of their ids and asks the first one
Joined(i) ==
  LET n == req[i].node
      c == Least(pool[n])
  IN  /\ req[i].phase = "joining"
      /\ \/ /\ pool[n] = {}
            /\ req' = [req EXCEPT ![i].phase = "done"]
            /\ UNCHANGED <<inbox, lost>>
         \/ /\ pool[n] # {}
            /\ req' = [req EXCEPT ![i].phase = "asking", ![i].wait = c,
                                  ![i].todo = pool[n] \ {c}]
            /\ inbox' = Sent(inbox, n, On(c, <<Sync(link[n])>>))
            /\ lost' = Asked(n, {c})
      /\ UNCHANGED <<server, client, pool, gone, synced, fileVars, taskVars, jobs,
                     restarts>>

\* DELETE /tasks/clear on any node
ClearTasks(n) ==
  /\ "clear" \in Allowed /\ running[n] # Nothing
  /\ running' = [running EXCEPT ![n] = Nothing]
  /\ UNCHANGED <<netVars, fileVars, app, accept, local, jobs, req, restarts>>

----------------------------------------------------------------------------
(* Messages *)

\* The loops of n that wait for an answer of the router c.  Faults: the answer
\* wakes no loop, or one of them.
Loops(n)           == {i \in Request : req[i].phase = "asking" /\ req[i].node = n}
WaitingNever(n, c) == {}
WaitingOne(n, c)   == LET W == {i \in Loops(n) : req[i].wait = c}
                      IN  IF W = {} THEN {} ELSE {CHOOSE i \in W : TRUE}
Waiting(n, c)      == {i \in Loops(n) : req[i].wait = c}

\* The router the loop i asks next, and the loops of W that ask d next
Following(i) == Least(req[i].todo)
NextOn(W, d) == {i \in W : req[i].todo # {} /\ Following(i) = d}

\* 'sync:done' flags the router, whatever link it names, and every loop
\* waiting on that router goes on to its next one
ReceiveDone(n, c) ==
  LET W == Waiting(n, c)
  IN  /\ c \in pool[n] /\ inbox[n][c] # <<>> /\ Head(inbox[n][c]).kind = "done"
      /\ synced' = [synced EXCEPT ![n] = @ \cup {c}]
      /\ req' = [i \in Request |->
           IF i \notin W THEN req[i]
           ELSE IF req[i].todo = {} THEN [req[i] EXCEPT !.phase = "done"]
           ELSE [req[i] EXCEPT !.wait = Following(i), !.todo = @ \ {Following(i)}]]
      /\ inbox' = Sent([inbox EXCEPT ![n][c] = Tail(@)], n,
                       [d \in Conn |-> [x \in 1 .. Cardinality(NextOn(W, d)) |->
                                          Sync(link[n])]])
      /\ lost' = Asked(n, {d \in Conn : NextOn(W, d) # {}})
      /\ UNCHANGED <<server, client, pool, gone, fileVars, taskVars, jobs, restarts>>

\* 'sync' starts a handler beside the ones under way
ReceiveSync(n, c) ==
  /\ c \in pool[n] /\ inbox[n][c] # <<>> /\ Head(inbox[n][c]).kind = "sync"
  /\ jobs' = [jobs EXCEPT ![n] = Append(@, [conn |-> c, stage |-> "deleting",
                                            link |-> Head(inbox[n][c]).link])]
  /\ inbox' = [inbox EXCEPT ![n][c] = Tail(@)]
  /\ UNCHANGED <<server, client, pool, gone, synced, lost, fileVars, taskVars, req,
                 restarts>>

\* Nobody listens to 'sync:error'
ReceiveError(n, c) ==
  /\ c \in pool[n] /\ inbox[n][c] # <<>> /\ Head(inbox[n][c]).kind = "error"
  /\ inbox' = [inbox EXCEPT ![n][c] = Tail(@)]
  /\ UNCHANGED <<server, client, pool, gone, synced, lost, fileVars, taskVars, jobs,
                 req, restarts>>

----------------------------------------------------------------------------
(* The 'sync' handler of a peer *)

\* The catch branch, for the handler x of n.  When a task does not start, e is
\* undefined: the branch throws in the line that logs e, and tells nobody.
Fails(n, x) ==
  /\ jobs' = [jobs EXCEPT ![n] = Without(@, x)]
  /\ lost' = [lost EXCEPT ![n] = @ \cup {jobs[n][x].conn}]
GiveUp(n, x)  == Fails(n, x) /\ inbox' = Sent(inbox, n, ToPool(n, Error))
BreakUp(n, x) == Fails(n, x) /\ jobs[n][x].stage = "starting" /\ UNCHANGED inbox

Advance(n, x, stage) ==
  /\ jobs' = [jobs EXCEPT ![n][x].stage = stage]
  /\ UNCHANGED <<inbox, lost>>

\* The handlers of n at a stage, and the archives of those that download and
\* unpack.  They all write, unlink and read one file: each may find the archive
\* of another, or a mixture, which unpacks up to where it breaks.
AtStage(n, stage) == {x \in DOMAIN jobs[n] : jobs[n][x].stage = stage}
Unpacking(n)      == {jobs[n][y].link : y \in AtStage(n, "downloading")}
Others(n, x)      == {jobs[n][y].link : y \in AtStage(n, "downloading") \ {x}}

\* deleteAllPM2Tasks resolved; a null link then throws in downloadAndExpand
SyncDeleted(n, x) ==
  /\ x \in AtStage(n, "deleting")
  /\ running' = [running EXCEPT ![n] = Nothing]
  /\ IF jobs[n][x].link = None THEN GiveUp(n, x) ELSE Advance(n, x, "downloading")
  /\ UNCHANGED <<server, client, pool, gone, synced, fileVars, app, accept, local,
                 req, restarts>>

\* archiver.download and Compress.unpack are over and initTasks has begun.
\* The meta of a 'sync' has no `local`: the peer will not compute for itself.
SyncDownloaded(n, x) ==
  /\ x \in AtStage(n, "downloading")
  /\ \E v \in Unpacking(n) \ {Torn} :
       \E f \in Mixtures(Layered(app[n], v), Others(n, x)) : app' = [app EXCEPT ![n] = f]
  /\ accept' = [accept EXCEPT ![n] = FALSE]
  /\ local' = [local EXCEPT ![n] = FALSE]
  /\ Advance(n, x, "starting")
  /\ UNCHANGED <<server, client, pool, gone, synced, fileVars, running, req, restarts>>

\* What came does not unpack, because of another handler or of the archive
SyncBroken(n, x) ==
  /\ x \in AtStage(n, "downloading")
  /\ AtStage(n, "downloading") # {x} \/ jobs[n][x].link = Torn
  /\ \E f \in Mixtures(app[n], Unpacking(n)) : app' = [app EXCEPT ![n] = f]
  /\ GiveUp(n, x)
  /\ UNCHANGED <<server, client, pool, gone, synced, fileVars, running, accept, local,
                 req, restarts>>

\* initTasks resolved, on files that other handlers may be unpacking: tell
\* every router of the pool
SyncStarted(n, x) ==
  /\ x \in AtStage(n, "starting")
  /\ \E f \in Mixtures(app[n], Unpacking(n)) : running' = [running EXCEPT ![n] = f]
  /\ accept' = [accept EXCEPT ![n] = TRUE]
  /\ jobs' = [jobs EXCEPT ![n] = Without(@, x)]
  /\ inbox' = Sent(inbox, n, ToPool(n, Done(jobs[n][x].link)))
  /\ UNCHANGED <<server, client, pool, gone, synced, lost, fileVars, app, local,
                 req, restarts>>

\* Any of the handler's steps rejects: nothing was deleted, an archive was
\* unpacked in part, or tasks were started in part
SyncFail(n, x) ==
  /\ "sync" \in Allowed /\ x \in DOMAIN jobs[n]
  /\ \E f \in Mixtures(app[n], Unpacking(n)) :
       /\ app' = [app EXCEPT ![n] = IF jobs[n][x].stage = "downloading" THEN f ELSE @]
       /\ \E g \in {running[n]} \cup IF jobs[n][x].stage = "starting" THEN Parts(f) ELSE {} :
            running' = [running EXCEPT ![n] = g]
  /\ GiveUp(n, x) \/ BreakUp(n, x)
  /\ UNCHANGED <<server, client, pool, gone, synced, fileVars, accept, local, req,
                 restarts>>

----------------------------------------------------------------------------
SyncStep(n) == \E x \in DOMAIN jobs[n] : SyncDeleted(n, x) \/ SyncStarted(n, x)
Download(n) == \E x \in DOMAIN jobs[n] : SyncDownloaded(n, x) \/ SyncBroken(n, x)
Receive(n, c) ==
  ReceiveDone(n, c) \/ ReceiveSync(n, c) \/ ReceiveError(n, c) \/ ClientConfirm(n, c)
InitStep(i) ==
  InitStarted(i) \/ PackDone(i) \/ Archived(i) \/ Joined(i)

Next ==
  \/ \E s, k \in Node : AcceptPeer(s, k)
  \/ \E i \in Request, n \in Operators, v \in Version, loc \in BOOLEAN :
       InitRequest(i, n, v, loc)
  \/ \E i \in Request : InitStep(i) \/ InitFail(i) \/ SpreadFail(i)
  \/ \E n \in Node, c \in Conn : Receive(n, c) \/ Close(n, c)
  \/ \E n \in Node :
       \/ SyncStep(n) \/ Download(n) \/ Restart(n) \/ ClearTasks(n)
       \/ \E x \in DOMAIN jobs[n] : SyncFail(n, x)

Spec == Init /\ [][Next]_vars

\* What a live process does without anybody's help: its own steps, the messages
\* it has received, and noticing that the other end closed.  Downloads (they
\* need the master's swarm), calls, connections and failures are not promised.
LocalFairness ==
  /\ \A n \in Node : WF_vars(SyncStep(n))
  /\ \A i \in Request : WF_vars(InitStep(i))
  /\ \A n \in Node, c \in Conn :
       /\ WF_vars(Receive(n, c))
       /\ WF_vars(HearClose(n, c))

DownloadFairness == \A n \in Node : WF_vars(Download(n))

DeliverySpec == Spec /\ LocalFairness /\ DownloadFairness

----------------------------------------------------------------------------
(* Properties *)

\* Every variable has its type.
TypeOK ==
  /\ server \in [Conn -> Node \cup {None}] /\ client \in [Conn -> Node \cup {None}]
  /\ pool \in [Node -> SUBSET Conn] /\ gone \in [Node -> SUBSET Conn]
  /\ inbox \in [Node -> [Conn -> Seq(Message)]]
  /\ synced \in [Node -> SUBSET Conn] /\ lost \in [Node -> SUBSET Conn]
  /\ isMaster \in [Node -> BOOLEAN]
  /\ md5 \in [Node -> Content] /\ link \in [Node -> Content]
  /\ tmp \in [Node -> Content] /\ crossed \subseteq Request /\ astray \subseteq Node
  /\ app \in [Node -> Folder] /\ running \in [Node -> Folder]
  /\ accept \in [Node -> BOOLEAN] /\ local \in [Node -> BOOLEAN]
  /\ jobs \in [Node -> Seq(Job)]
  /\ req \in [Request -> Call]
  /\ restarts \in Nat

\* A task that runs was started from a file that is whole: what a failing pack,
\* download or unpack leaves behind is overwritten before anybody starts it.
OnlyWholeTasksRun ==
  \A n \in Node, t \in Task : running[n][t] # Torn

\* A node does not mix two contents: what a sync or a call starts, completely or
\* not, has replaced all that ran before.
OneContentRuns ==
  \A n \in Node, t, u \in Task :
    running[n][t] = None \/ running[n][u] = None \/ running[n][t] = running[n][u]

\* A spread takes down one peer at a time (askAllPeersToSync awaits the answer of
\* each); the peer whose turn it is runs nothing, until it runs all tasks of the
\* content that it was asked for, or has failed; and no node takes a call
\* meanwhile.  A handler is an order, which may be past deleteAllPM2Tasks.
Orders ==
  [n \in Node |-> [x \in DOMAIN jobs[n] |->
    [link |-> jobs[n][x].link, stopped |-> jobs[n][x].stage # "deleting"]]]

R == INSTANCE Rollout WITH orders <- Orders, runs <- running

IsRollout == R!Spec

\* The answer that n waits for over the router c is still on its way: as the
\* ask, as the handler that the ask has started, or as the answer itself
Carries(box, kind) == \E x \in DOMAIN box : box[x].kind = kind
Handling(p, c)     == \E x \in DOMAIN jobs[p] : jobs[p][x].conn = c
Pending(n, c) ==
  LET p == Peer(n, c)
  IN  Carries(inbox[p][c], "sync") \/ Handling(p, c) \/ Carries(inbox[n][c], "done")

\* The router is closed at an end, or the last ask sent over it met no listener
\* or ended in the catch branch
Hopeless(n, c) == LET p == Peer(n, c) IN c \in gone[n] \cup gone[p] \cup lost[p]

\* askAllPeersToSync waits for nothing but an ask that is under way, unless a
\* closed connection, a failed 'sync' or a missed message has stranded it: no
\* interleaving of loops, greetings and answers loses a wake-up.
StallHasCause ==
  \A i \in Request : req[i].phase = "asking" =>
    Pending(req[i].node, req[i].wait) \/ Hopeless(req[i].node, req[i].wait)

\* When nothing is being archived, the link a node shares is the archive of the
\* content whose digest it remembers, so that comparing digests is a sound way
\* not to spread twice.  Calls that overlap and spreads that fail can part them;
\* the next call that gets its archive made, and is not overlapped, mends that.
LinkFollowsDigest ==
  \A n \in Node \ astray : md5[n] # link[n] =>
    \E i \in Request : req[i].node = n /\ req[i].phase = "archiving"

\* "Set all peers as NOT SYNCED to avoid routing to peer with old app versions",
\* "Set all peers as SYNCED used in case the MD5 has not changed": a peer that the
\* node of an operator holds for synchronized, and has a connection to, runs no
\* other content than that node, but after a spread that failed.
RoutedPeersAreCurrent ==
  \A n \in Operators \ astray : \A c \in synced[n] :
    LET p == Peer(n, c)
    IN  c \in gone[p] \/ Nothing \in {running[n], running[p]} \/ running[p] = running[n]

\* "if data.link == current_link == OK": an answer flags a router as synchronized
\* only when it names the link that the node shares now.
DoneNamesCurrentLink ==
  [][\A n \in Node, c \in Conn :
       ReceiveDone(n, c) /\ c \notin synced[n] => Head(inbox[n][c]).link = link[n]]_vars

\* All routers of n are flagged, and their peers run what n runs
Provisioned(n) ==
  \A c \in pool[n] :
    c \in synced[n] /\ running[Peer(n, c)] = running[n] /\ accept[Peer(n, c)]

\* Whatever is posted in a grid where nothing fails and calls do not overlap, all
\* peers end up flagged and running the master's tasks, for good.
Converges == \A n \in Operators : <>[](isMaster[n] => Provisioned(n))

\* The loop of askAllPeersToSync leaves every router it asks, unless that router
\* is closed, or its sync failed or was not heard.
LoopMovesOn ==
  \A i \in Request :
    req[i].phase = "asking" ~> (req[i].phase # "asking" \/ Hopeless(req[i].node, req[i].wait))

=============================================================================
