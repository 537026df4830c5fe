------------------------------ MODULE Startup ------------------------------
(***************************************************************************)
(* service.Start (src/grpc/service.go) and the ipfs repository it opens or *)
(* makes (src/pkg/ipfs/init.go, daemon.go), step by step, for processes    *)
(* that share a root directory.  A process may crash at any step and a     *)
(* step may fail; Start then undoes, by its deferred functions, what came  *)
(* before.                                                                 *)
(*                                                                         *)
(* badger locks its directory for one process.  fsrepo.Open (external)     *)
(* locks the repository for one process too, and counts how often that     *)
(* process has it open.                                                    *)
(***************************************************************************)
EXTENDS Naturals

CONSTANTS
  Processes,
  None,
  MaxStarts   \* bound on the calls of Start

ASSUME StartupAssumption == None \notin Processes /\ MaxStarts \in Nat

VARIABLES
  pc,         \* the step a process is at
  dbLock,     \* the process that has the store open
  dir,        \* the repository's directory exists
  config,     \* it has a configuration, that is an identity
  custom,     \* and hybrid's settings
  keyspace,   \* and an ipns record
  repoLock,   \* the process that has the repository open
  refs,       \* how often
  nodes,      \* the ipfs nodes of the service, each owning one reference
  closing,    \* nodes whose context is cancelled
  cut,        \* some Init was cut short by a crash or an error
  starts

diskVars == <<dir, config, custom, keyspace>>
repoVars == <<repoLock, refs>>
vars == <<pc, dbLock, diskVars, repoVars, nodes, closing, cut, starts>>

(* The steps of Init, and all those of Start.                              *)
InitSteps == {"ensure", "mkdir", "generate", "custom", "settings", "keyspace"}
StartSteps == {"db", "stat", "open", "offline", "node", "connect"} \cup InitSteps

TypeOK ==
  /\ pc \in [Processes -> StartSteps \cup {"idle", "running", "stopping"}]
  /\ dbLock \in Processes \cup {None} /\ repoLock \in Processes \cup {None}
  /\ dir \in BOOLEAN /\ config \in BOOLEAN /\ custom \in BOOLEAN /\ keyspace \in BOOLEAN
  /\ refs \in [Processes -> Nat] /\ nodes \in [Processes -> 0 .. 1]
  /\ closing \in [Processes -> Nat]
  /\ cut \in BOOLEAN /\ starts \in 0 .. MaxStarts

Init ==
  /\ pc = [p \in Processes |-> "idle"]
  /\ dbLock = None /\ repoLock = None
  /\ dir = FALSE /\ config = FALSE /\ custom = FALSE /\ keyspace = FALSE
  /\ refs = [p \in Processes |-> 0]
  /\ nodes = [p \in Processes |-> 0]
  /\ closing = [p \in Processes |-> 0]
  /\ cut = FALSE /\ starts = 0

At(p, step) == pc[p] = step
Goto(p, step) == pc' = [pc EXCEPT ![p] = step]

(* fsrepo.Open and the Close of a repository.                              *)
MayOpen(p) == config /\ repoLock \in {None, p}

Open(p) ==
  /\ MayOpen(p)
  /\ repoLock' = p
  /\ refs' = [refs EXCEPT ![p] = @ + 1]

CloseRepo(p) ==
  /\ refs' = [refs EXCEPT ![p] = @ - 1]
  /\ repoLock' = IF refs[p] = 1 THEN None ELSE repoLock

---------------------------------------------------------------------------
Start(p) ==
  /\ At(p, "idle") /\ starts < MaxStarts
  /\ starts' = starts + 1
  /\ Goto(p, "db")
  /\ UNCHANGED <<dbLock, diskVars, repoVars, nodes, closing, cut>>

NewBadger_Shared(p) ==
  /\ At(p, "db")
  /\ dbLock' = p
  /\ Goto(p, "stat")
  /\ UNCHANGED <<diskVars, repoVars, nodes, closing, cut, starts>>

NewBadger(p) ==
  /\ At(p, "db") /\ dbLock = None
  /\ dbLock' = p
  /\ Goto(p, "stat")
  /\ UNCHANGED <<diskVars, repoVars, nodes, closing, cut, starts>>

(* InitWithDefaultsIfNotExist.                                             *)
Stat(p) ==
  /\ At(p, "stat")
  /\ Goto(p, IF dir THEN "open" ELSE "ensure")
  /\ UNCHANGED <<dbLock, diskVars, repoVars, nodes, closing, cut, starts>>

(* Init: EnsureNoIpfs, checkWritable, IsInitialized, then the key pair and *)
(* the profiles, then fsrepo.Init.                                         *)
EnsureNoIpfs(p) ==
  /\ At(p, "ensure") /\ repoLock \in {None, p}
  /\ Goto(p, "mkdir")
  /\ UNCHANGED <<dbLock, diskVars, repoVars, nodes, closing, cut, starts>>

CheckWritable(p) ==
  /\ At(p, "mkdir") /\ ~config
  /\ dir' = TRUE
  /\ Goto(p, "generate")
  /\ UNCHANGED <<dbLock, config, custom, keyspace, repoVars, nodes, closing, cut, starts>>

InitRepo(p) ==
  /\ At(p, "generate")
  /\ config' = TRUE
  /\ Goto(p, "custom")
  /\ UNCHANGED <<dbLock, dir, custom, keyspace, repoVars, nodes, closing, cut, starts>>

(* initializeCustomConfig opens the repository and does not close it.      *)
OpenForConfig(p) ==
  /\ At(p, "custom") /\ Open(p)
  /\ Goto(p, "settings")
  /\ UNCHANGED <<dbLock, diskVars, nodes, closing, cut, starts>>

SetConfigKeys(p) ==
  /\ At(p, "settings")
  /\ custom' = TRUE
  /\ Goto(p, "keyspace")
  /\ UNCHANGED <<dbLock, dir, config, keyspace, repoVars, nodes, closing, cut, starts>>

(* initializeIpnsKeyspace opens it once more for a node it closes.         *)
InitializeKeyspace(p) ==
  /\ At(p, "keyspace") /\ MayOpen(p)
  /\ keyspace' = TRUE
  /\ Goto(p, "open")
  /\ UNCHANGED <<dbLock, dir, config, custom, repoVars, nodes, closing, cut, starts>>

(* createOfflineNode.                                                      *)
OpenRepo(p) ==
  /\ At(p, "open") /\ Open(p)
  /\ Goto(p, "offline")
  /\ UNCHANGED <<dbLock, diskVars, nodes, closing, cut, starts>>

NewOfflineNode(p) ==
  /\ At(p, "offline")
  /\ nodes' = [nodes EXCEPT ![p] = 1]
  /\ Goto(p, "node")
  /\ UNCHANGED <<dbLock, diskVars, repoVars, closing, cut, starts>>

(* node.New.                                                               *)
NewNode(p) ==
  /\ At(p, "node")
  /\ Goto(p, "connect")
  /\ UNCHANGED <<dbLock, diskVars, repoVars, nodes, closing, cut, starts>>

Connect_SharesRef(p) ==
  /\ At(p, "connect")
  /\ CloseRepo(p)
  /\ Goto(p, "running")
  /\ UNCHANGED <<dbLock, diskVars, nodes, closing, cut, starts>>

(* ipfs.Connect: the daemon opens the repository before the offline node   *)
(* is closed; the references are the same before and after.                *)
Connect(p) ==
  /\ At(p, "connect") /\ MayOpen(p)
  /\ Goto(p, "running")
  /\ UNCHANGED <<dbLock, diskVars, repoVars, nodes, closing, cut, starts>>

Undo_KeepsDb(p) ==
  /\ closing' = [closing EXCEPT ![p] = @ + nodes[p]]
  /\ nodes' = [nodes EXCEPT ![p] = 0]
  /\ Goto(p, "idle")
  /\ UNCHANGED dbLock

(* The deferred functions: node.Close, cancel, db.Close.  What a cancelled *)
(* context closes is closed later.                                         *)
Undo(p) ==
  /\ closing' = [closing EXCEPT ![p] = @ + nodes[p]]
  /\ nodes' = [nodes EXCEPT ![p] = 0]
  /\ dbLock' = IF dbLock = p THEN None ELSE dbLock
  /\ Goto(p, "idle")

(* A step fails because of a lock or a check.                              *)
Blocked(p) ==
  \/ At(p, "db") /\ dbLock # None
  \/ At(p, "ensure") /\ repoLock \notin {None, p}
  \/ At(p, "mkdir") /\ config
  \/ pc[p] \in {"custom", "keyspace", "open", "connect"} /\ ~MayOpen(p)

(* A step fails, for that or any other reason; checkWritable may have made *)
(* the directory by then.                                                  *)
StartFails(p) ==
  /\ pc[p] \in StartSteps
  /\ Undo(p)
  /\ dir' \in IF At(p, "mkdir") THEN {dir, TRUE} ELSE {dir}
  /\ cut' = (cut \/ (pc[p] \in InitSteps /\ dir' /\ ~Blocked(p)))
  /\ UNCHANGED <<config, custom, keyspace, repoVars, starts>>

CancelledNodeCloses(p) ==
  /\ closing[p] > 0
  /\ closing' = [closing EXCEPT ![p] = @ - 1]
  /\ CloseRepo(p)
  /\ UNCHANGED <<pc, dbLock, diskVars, nodes, cut, starts>>

(* waitUntilStopped closes the store, and then waits for the daemon, whose *)
(* context is not the service's.                                           *)
Stop(p) ==
  /\ At(p, "running")
  /\ dbLock' = None
  /\ Goto(p, "stopping")
  /\ UNCHANGED <<diskVars, repoVars, nodes, closing, cut, starts>>

DaemonCloses(p) ==
  /\ At(p, "stopping")
  /\ nodes' = [nodes EXCEPT ![p] = 0]
  /\ CloseRepo(p)
  /\ Goto(p, "idle")
  /\ UNCHANGED <<dbLock, diskVars, closing, cut, starts>>

(* The process dies: its locks go with it.                                 *)
Crash(p) ==
  /\ \/ pc[p] # "idle" \/ refs[p] > 0
  /\ dbLock' = IF dbLock = p THEN None ELSE dbLock
  /\ repoLock' = IF repoLock = p THEN None ELSE repoLock
  /\ refs' = [refs EXCEPT ![p] = 0]
  /\ nodes' = [nodes EXCEPT ![p] = 0]
  /\ closing' = [closing EXCEPT ![p] = 0]
  /\ cut' = (cut \/ (pc[p] \in InitSteps /\ dir))
  /\ Goto(p, "idle")
  /\ UNCHANGED <<diskVars, starts>>

---------------------------------------------------------------------------
InitStep(p) ==
  \/ EnsureNoIpfs(p) \/ CheckWritable(p) \/ InitRepo(p) \/ OpenForConfig(p)
  \/ SetConfigKeys(p) \/ InitializeKeyspace(p)

StartStep(p) ==
  \/ NewBadger(p) \/ Stat(p) \/ InitStep(p)
  \/ OpenRepo(p) \/ NewOfflineNode(p) \/ NewNode(p) \/ Connect(p)

Next ==
  \E p \in Processes :
    \/ Start(p) \/ StartStep(p) \/ StartFails(p) \/ CancelledNodeCloses(p)
    \/ Stop(p) \/ DaemonCloses(p) \/ Crash(p)

Spec == Init /\ [][Next]_vars

---------------------------------------------------------------------------
(* No node runs on a half-made repository, whatever other processes start: *)
(* unless an Init was cut short, which leaves the directory for the next   *)
(* Start to take for a repository (InitWithDefaultsIfNotExist; the store's *)
(* lock, taken first, keeps other processes away).                         *)
NodesOnWholeRepo ==
  ~cut => \A p \in Processes : nodes[p] > 0 => config /\ custom /\ keyspace

(* A process with a running service has both locks, so that no other has a *)
(* service or a node (NewBadger, fsrepo.Open, and Connect's order of       *)
(* opening the daemon's repository and closing the offline node's).        *)
OneOwner ==
  \A p \in Processes :
    /\ At(p, "running") => dbLock = p
    /\ nodes[p] > 0 => repoLock = p

(* A process whose Start failed, or whose service stopped, does not keep   *)
(* the store from others (the deferred db.Close).                          *)
IdleKeepsNoStore == \A p \in Processes : At(p, "idle") => dbLock # p

(* An open repository "is owned by the node", as initializeCustomConfig's  *)
(* comment says: a process has it open once for each node, no more.        *)
RepoIsOwned ==
  \A p \in Processes : At(p, "running") => refs[p] = nodes[p] + closing[p]
============================================================================
