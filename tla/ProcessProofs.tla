--------------------------- MODULE ProcessProofs ---------------------------
(***************************************************************************)
(* Proofs about the life of a process: Startup, for any number of          *)
(* processes, starts and crashes; Interrupt, for any number of signals;    *)
(* and Mobile, for any number of threads of the application.               *)
(*                                                                         *)
(* The store's lock, which Start takes first, makes Stat and Init one      *)
(* critical section; the references to the repository cover the nodes that *)
(* use it.  The counter of the handler's wait group always is the number   *)
(* of goroutines that are still to call Done, so that Close waits for both *)
(* and for nothing else.  DoInitOnce may fail only where the deferred      *)
(* functions still undo all it has done.                                   *)
(***************************************************************************)
EXTENDS Startup, Programs, TLAPS

----------------------------------------------------------------------------
(* Startup.                                                                *)

(* A process has the store from NewBadger until it fails or stops.         *)
HasStore(p) == pc[p] \in (StartSteps \ {"db"}) \cup {"running"}

DbOwned == \A p \in Processes : dbLock = p <=> HasStore(p)

(* The references that the nodes of a process, those still closing, and    *)
(* the step it is at rely on; initializeCustomConfig's may outlive them.   *)
Needs(p) ==
  nodes[p] + closing[p] + (IF pc[p] \in {"settings", "keyspace", "offline"} THEN 1 ELSE 0)

RepoOwned ==
  \A p \in Processes :
    /\ refs[p] >= Needs(p)
    /\ repoLock = p <=> refs[p] > 0
    /\ nodes[p] = IF pc[p] \in {"node", "connect", "running", "stopping"} THEN 1 ELSE 0

(* How much of the repository there is at each step of Init.               *)
RepoMade ==
  /\ config => dir
  /\ repoLock # None => config
  /\ \A p \in Processes :
       /\ pc[p] \in {"ensure", "mkdir"} => ~dir
       /\ pc[p] = "generate" => dir /\ ~config
       /\ pc[p] = "custom" => config /\ repoLock = None
       /\ pc[p] \in {"settings", "keyspace"} => config
       /\ pc[p] = "keyspace" => custom
       /\ pc[p] = "open" => dir

(* Outside Init a directory that no Init has left half-made is whole.      *)
MadeWhole ==
  ~cut /\ dir /\ (\A p \in Processes : pc[p] \notin InitSteps)
    => config /\ custom /\ keyspace

IInv == TypeOK /\ DbOwned /\ RepoOwned /\ RepoMade /\ MadeWhole

(* No process has started yet.                                             *)
LEMMA InitInv == Init => IInv
<1> SUFFICES ASSUME Init PROVE IInv
    OBVIOUS
<1> USE StartupAssumption DEF Init
<1>1. TypeOK
  <2>1. starts \in 0 .. MaxStarts /\ refs \in [Processes -> Nat]
        /\ nodes \in [Processes -> 0 .. 1] /\ closing \in [Processes -> Nat]
        OBVIOUS
  <2>2. pc \in [Processes -> StartSteps \cup {"idle", "running", "stopping"}]
        OBVIOUS
  <2> QED BY <2>1, <2>2, Zenon DEF TypeOK
<1>2. DbOwned   BY DEF DbOwned, HasStore, StartSteps, InitSteps
<1>3. RepoOwned
  <2> SUFFICES ASSUME NEW p \in Processes
               PROVE  refs[p] >= Needs(p) /\ (repoLock = p <=> refs[p] > 0) /\ nodes[p] = 0 /\ pc[p] = "idle"
      BY DEF RepoOwned
  <2>1. refs[p] = 0 /\ nodes[p] = 0 /\ closing[p] = 0 /\ pc[p] = "idle" /\ repoLock # p
        OBVIOUS
  <2> QED BY <2>1 DEF Needs
<1>4. RepoMade  BY DEF RepoMade
<1>5. MadeWhole BY DEF MadeWhole
<1> QED BY <1>1, <1>2, <1>3, <1>4, <1>5 DEF IInv

(* Every step of every process keeps it.                                   *)
LEMMA StepInv == IInv /\ [Next]_vars => IInv'
<1> SUFFICES ASSUME IInv, [Next]_vars PROVE IInv'
    OBVIOUS
<1> USE StartupAssumption DEF IInv, TypeOK, DbOwned, HasStore, RepoOwned, Needs, RepoMade, MadeWhole,
        StartSteps, InitSteps, At, Goto, diskVars, repoVars
<1>1. ASSUME NEW p \in Processes, Start(p) PROVE IInv' BY <1>1 DEF Start
<1>2. ASSUME NEW p \in Processes, NewBadger(p) PROVE IInv' BY <1>2 DEF NewBadger
<1>3. ASSUME NEW p \in Processes, Stat(p) PROVE IInv' BY <1>3 DEF Stat
<1>4. ASSUME NEW p \in Processes, EnsureNoIpfs(p) PROVE IInv' BY <1>4 DEF EnsureNoIpfs
<1>5. ASSUME NEW p \in Processes, CheckWritable(p) PROVE IInv' BY <1>5 DEF CheckWritable
<1>6. ASSUME NEW p \in Processes, InitRepo(p) PROVE IInv' BY <1>6 DEF InitRepo
<1>7. ASSUME NEW p \in Processes, OpenForConfig(p) PROVE IInv' BY <1>7 DEF OpenForConfig, Open, MayOpen
<1>8. ASSUME NEW p \in Processes, SetConfigKeys(p) PROVE IInv' BY <1>8 DEF SetConfigKeys
<1>9. ASSUME NEW p \in Processes, InitializeKeyspace(p) PROVE IInv' BY <1>9 DEF InitializeKeyspace
<1>10. ASSUME NEW p \in Processes, OpenRepo(p) PROVE IInv' BY <1>10 DEF OpenRepo, Open, MayOpen
<1>11. ASSUME NEW p \in Processes, NewOfflineNode(p) PROVE IInv' BY <1>11 DEF NewOfflineNode
<1>12. ASSUME NEW p \in Processes, NewNode(p) PROVE IInv' BY <1>12 DEF NewNode
<1>13. ASSUME NEW p \in Processes, Connect(p) PROVE IInv' BY <1>13 DEF Connect
<1>14. ASSUME NEW p \in Processes, StartFails(p) PROVE IInv'
  <2> USE <1>14 DEF StartFails, Undo
  <2>1. TypeOK'
    <3>1. dir' \in BOOLEAN OBVIOUS
    <3>2. cut' \in BOOLEAN BY Zenon
    <3> QED BY <3>1, <3>2
  <2>2. DbOwned'   OBVIOUS
  <2>3. RepoOwned' OBVIOUS
  <2>4. RepoMade'  OBVIOUS
  <2>5. MadeWhole'
    <3>1. CASE pc[p] \in InitSteps
      <4>1. dir' => ~Blocked(p)
            BY <3>1 DEF Blocked, MayOpen
      <4> QED BY <3>1, <4>1
    <3>2. CASE pc[p] \notin InitSteps
      <4>1. UNCHANGED <<dir, cut, config, custom, keyspace>>
            BY <3>2
      <4> QED BY <3>2, <4>1
    <3> QED BY <3>1, <3>2
  <2> QED BY <2>1, <2>2, <2>3, <2>4, <2>5
<1>15. ASSUME NEW p \in Processes, CancelledNodeCloses(p) PROVE IInv' BY <1>15 DEF CancelledNodeCloses, CloseRepo
<1>16. ASSUME NEW p \in Processes, Stop(p) PROVE IInv' BY <1>16 DEF Stop
<1>17. ASSUME NEW p \in Processes, DaemonCloses(p) PROVE IInv' BY <1>17 DEF DaemonCloses, CloseRepo
<1>18. ASSUME NEW p \in Processes, Crash(p) PROVE IInv' BY <1>18 DEF Crash
<1>19. CASE UNCHANGED vars BY <1>19 DEF vars
<1> QED BY <1>1, <1>2, <1>3, <1>4, <1>5, <1>6, <1>7, <1>8, <1>9, <1>10, <1>11,
           <1>12, <1>13, <1>14, <1>15, <1>16, <1>17, <1>18, <1>19
        DEF Next, StartStep, InitStep

(* The inductive invariant holds for any processes and starts.             *)
THEOREM StartupInvariance == Spec => []IInv
BY InitInv, StepInv, PTL DEF Spec

(* The types of all variables; no repository is closed more often than it  *)
(* was opened.                                                             *)
THEOREM StartupTypes == Spec => []TypeOK
<1>1. IInv => TypeOK BY DEF IInv
<1> QED BY <1>1, StartupInvariance, PTL

(* A running service has the store, a node has the repository, for any     *)
(* number of processes (NewBadger, Connect).                               *)
THEOREM LocksHaveOneOwner == Spec => []OneOwner
<1>1. IInv => OneOwner
  <2> SUFFICES ASSUME IInv, NEW p \in Processes
               PROVE  (At(p, "running") => dbLock = p) /\ (nodes[p] > 0 => repoLock = p)
      BY DEF OneOwner
  <2>1. At(p, "running") => dbLock = p
        BY DEF IInv, DbOwned, HasStore, At
  <2>2. nodes[p] > 0 => repoLock = p
        BY DEF IInv, TypeOK, RepoOwned, Needs
  <2> QED BY <2>1, <2>2
<1> QED BY <1>1, StartupInvariance, PTL

(* No node on a repository that is half made, unless an Init was cut short *)
(* before (InitWithDefaultsIfNotExist under the store's lock).             *)
THEOREM NodesHaveAWholeRepo == Spec => []NodesOnWholeRepo
<1>1. IInv => NodesOnWholeRepo
  <2> SUFFICES ASSUME IInv, ~cut, NEW p \in Processes, nodes[p] > 0
               PROVE  config /\ custom /\ keyspace
      BY DEF NodesOnWholeRepo
  <2>1. repoLock = p /\ config /\ dir
        BY StartupAssumption DEF IInv, TypeOK, RepoOwned, Needs, RepoMade
  <2>2. pc[p] \in {"node", "connect", "running", "stopping"}
        BY DEF IInv, RepoOwned
  <2>3. ASSUME NEW q \in Processes PROVE pc[q] \notin InitSteps
    <3>1. pc[q] \notin {"ensure", "mkdir", "generate"}
          BY <2>1 DEF IInv, RepoMade
    <3>2. pc[q] # "custom"
          BY <2>1, StartupAssumption DEF IInv, RepoMade
    <3>3. pc[q] \notin {"settings", "keyspace"}
          BY <2>1, <2>2 DEF IInv, TypeOK, RepoOwned, Needs
    <3> QED BY <3>1, <3>2, <3>3 DEF InitSteps
  <2> QED BY <2>1, <2>3 DEF IInv, MadeWhole
<1> QED BY <1>1, StartupInvariance, PTL

(* After a failed Start and after a stop the store is free for others (the *)
(* deferred db.Close).                                                     *)
THEOREM IdleProcessesKeepNoStore == Spec => []IdleKeepsNoStore
<1>1. IInv => IdleKeepsNoStore
      BY DEF IInv, DbOwned, HasStore, StartSteps, InitSteps, IdleKeepsNoStore, At
<1> QED BY <1>1, StartupInvariance, PTL

----------------------------------------------------------------------------
(* Interrupt.                                                              *)

(* The signals taken and waiting were sent; which signal the loop is at.   *)
Counted ==
  /\ signals \in Nat /\ sig \in 0 .. 1 /\ count \in Nat
  /\ sig + count <= signals
  /\ loop = "handle" => count >= 1
  /\ count >= 2 => loop = "handle" \/ main = "killed"
  /\ canceller # "none" => count >= 1
  /\ count = 1 /\ loop = "handle" => canceller = "none"

(* IntrHandler.wg has one for the loop and one for the canceller.          *)
Awaited ==
  wg = (IF loop = "ended" THEN 0 ELSE 1) + (IF canceller = "run" THEN 1 ELSE 0)

(* The order of the end: the channel is closed, drained, and only then the *)
(* notification is stopped.                                                *)
Ending ==
  /\ loop \in {"stop", "ended"} => closed /\ sig = 0
  /\ notify <=> loop # "ended"
  /\ closed => main \in {"wgWait", "return", "exited", "killed"}
  /\ main \in {"wgWait", "return", "exited"} => closed
  /\ main \in {"return", "exited"} => wg = 0

HandlerInv == Counted /\ Awaited /\ Ending

(* The handler as setupInterruptHandler leaves it.                         *)
LEMMA HandlerInit == IntrInit => HandlerInv
<1> SUFFICES ASSUME IntrInit PROVE HandlerInv
    OBVIOUS
<1>1. Counted BY DEF IntrInit, Counted
<1>2. Awaited BY DEF IntrInit, Awaited
<1>3. Ending  BY DEF IntrInit, Ending
<1> QED BY <1>1, <1>2, <1>3 DEF HandlerInv

(* Every step of main, of the loop, of the canceller and of os/signal.     *)
LEMMA HandlerStep == HandlerInv /\ [IntrNext]_intrVars => HandlerInv'
<1> SUFFICES ASSUME HandlerInv, [IntrNext]_intrVars PROVE HandlerInv'
    OBVIOUS
<1> USE DEF HandlerInv, Counted, Awaited, Ending, Alive
<1>1. CASE Signal        BY <1>1 DEF Signal
<1>2. CASE Receive       BY <1>2 DEF Receive
<1>3. CASE HandlerFunc   BY <1>3 DEF HandlerFunc
<1>4. CASE StopNotify
  <2>1. ~notify' BY <1>4, Zenon DEF StopNotify
  <2>2. /\ loop' = "ended" /\ wg' = wg - 1
        /\ UNCHANGED <<signals, sig, closed, count, canceller, ctxDone, main, panicked>>
        BY <1>4 DEF StopNotify
  <2>3. closed /\ sig = 0 /\ loop = "stop" BY <1>4 DEF StopNotify
  <2> QED BY <2>1, <2>2, <2>3
<1>5. CASE Cancel        BY <1>5 DEF Cancel
<1>6. CASE ServeGrpcEnds BY <1>6 DEF ServeGrpcEnds
<1>7. CASE MainWaits     BY <1>7 DEF MainWaits
<1>8. CASE CloseHandler  BY <1>8 DEF CloseHandler
<1>9. CASE WgWait        BY <1>9 DEF WgWait
<1>10. CASE MainReturns  BY <1>10 DEF MainReturns
<1>11. CASE UNCHANGED intrVars BY <1>11 DEF intrVars
<1> QED BY <1>1, <1>2, <1>3, <1>4, <1>5, <1>6, <1>7, <1>8, <1>9, <1>10, <1>11
        DEF IntrNext, LoopStep

(* The inductive invariant holds in every state (main, IntrHandler).       *)
THEOREM InterruptInvariance == IntrSpec => []HandlerInv
BY HandlerInit, HandlerStep, PTL DEF IntrSpec

(* However many signals come and whenever they do, the second one that is  *)
(* taken ends the process (handlerFunc).                                   *)
THEOREM TheSecondKills == IntrSpec => []SecondKills
<1>1. HandlerInv => SecondKills
      BY DEF HandlerInv, Counted, SecondKills
<1> QED BY <1>1, InterruptInvariance, PTL

(* Close leaves no goroutine, no unread signal and no notification behind. *)
THEOREM NothingIsLeft == IntrSpec => []NothingLeft
<1>1. HandlerInv => NothingLeft
      BY DEF HandlerInv, Awaited, Ending, NothingLeft
<1> QED BY <1>1, InterruptInvariance, PTL

(* The types: no more signals are taken than were sent, the channel has    *)
(* one place, and the wait group is never below zero (Add, Done).          *)
THEOREM InterruptTypes == IntrSpec => []IntrTypeOK
<1> USE InterruptAssumption
<1>1. IntrInit => IntrTypeOK
  <2> SUFFICES ASSUME IntrInit PROVE IntrTypeOK
      OBVIOUS
  <2>1. /\ signals \in 0 .. MaxSignals /\ sig \in 0 .. 1 /\ count \in 0 .. MaxSignals
        /\ wg \in 0 .. 2
        BY DEF IntrInit
  <2> QED BY <2>1, Zenon DEF IntrInit, IntrTypeOK
<1>2. HandlerInv /\ HandlerInv' /\ IntrTypeOK /\ [IntrNext]_intrVars => IntrTypeOK'
  <2> SUFFICES ASSUME HandlerInv, HandlerInv', IntrTypeOK, [IntrNext]_intrVars PROVE IntrTypeOK'
      OBVIOUS
  <2> USE DEF HandlerInv, Counted, Awaited, IntrTypeOK
  <2>1. CASE Signal
    <3>1. panicked' \in BOOLEAN BY <2>1, Zenon DEF Signal
    <3> QED BY <2>1, <3>1 DEF Signal
  <2>2. CASE Receive       BY <2>2 DEF Receive
  <2>3. CASE HandlerFunc   BY <2>3 DEF HandlerFunc
  <2>4. CASE StopNotify
    <3>1. notify' \in BOOLEAN BY <2>4, Zenon DEF StopNotify
    <3> QED BY <2>4, <3>1 DEF StopNotify
  <2>5. CASE Cancel        BY <2>5 DEF Cancel
  <2>6. CASE ServeGrpcEnds BY <2>6 DEF ServeGrpcEnds
  <2>7. CASE MainWaits     BY <2>7 DEF MainWaits
  <2>8. CASE CloseHandler  BY <2>8 DEF CloseHandler
  <2>9. CASE WgWait        BY <2>9 DEF WgWait
  <2>10. CASE MainReturns  BY <2>10 DEF MainReturns
  <2>11. CASE UNCHANGED intrVars BY <2>11 DEF intrVars
  <2> QED BY <2>1, <2>2, <2>3, <2>4, <2>5, <2>6, <2>7, <2>8, <2>9, <2>10, <2>11
          DEF IntrNext, LoopStep
<1> QED BY <1>1, <1>2, InterruptInvariance, PTL DEF IntrSpec

----------------------------------------------------------------------------
(* Mobile.                                                                 *)

(* What the function of DoInitOnce has made at each of its steps.  Once it *)
(* serves, the goroutine and DoDestroyOnce may undo some of it; before     *)
(* that only its own failure does.                                         *)
LibraryInv ==
  /\ init \in {"no", "sink", "listen"} => ln = "none" /\ ctx = "none"
  /\ init = "context" => ctx = "none"
  /\ init \in {"no", "sink", "listen", "context", "server", "failed"} =>
       serving = "no" /\ ~mServer /\ ~mCancel
  /\ init = "serve" => ~mServer /\ ~mCancel
  /\ init = "assign" => ~mCancel
  /\ init = "failed" => ln # "open" /\ ctx # "live"

(* Nothing has been made yet.                                              *)
LEMMA LibraryInit == M!Init => LibraryInv
BY DEF M!Init, LibraryInv

(* Every step of the callers, of the two functions, of the server and its  *)
(* service.                                                                *)
LEMMA LibraryStep == LibraryInv /\ [M!Next]_(M!vars) => LibraryInv'
<1> SUFFICES ASSUME LibraryInv, [M!Next]_(M!vars) PROVE LibraryInv'
    OBVIOUS
<1> USE DEF LibraryInv
<1>1. ASSUME NEW t \in Threads, M!CallInit(t) PROVE LibraryInv'
      BY <1>1 DEF M!CallInit
<1>2. ASSUME NEW t \in Threads, M!CallDestroy(t) PROVE LibraryInv'
      BY <1>2 DEF M!CallDestroy
<1>3. ASSUME NEW t \in Threads, M!Done(t) PROVE LibraryInv'
      BY <1>3 DEF M!Done
<1>4. CASE M!InitStep         BY <1>4 DEF M!InitStep
<1>5. CASE M!InitFails        BY <1>5 DEF M!InitFails
<1>6. CASE M!DestroyCancels
  <2>1. UNCHANGED <<init, ln, serving, mServer, mCancel>>
        BY <1>6 DEF M!DestroyCancels
  <2>2. PICK cancel \in M!Reads(mCancel) : ctx' = (IF cancel THEN "done" ELSE ctx)
        BY <1>6 DEF M!DestroyCancels
  <2>3. CASE cancel = mCancel
    <3>1. mCancel \/ ctx' = ctx BY <2>2, <2>3
    <3>2. ctx' = "done" \/ ctx' = ctx BY <2>2
    <3> QED BY <2>1, <3>1, <3>2
  <2>4. CASE cancel = FALSE
    <3>1. ctx' = ctx BY <2>2, <2>4
    <3> QED BY <2>1, <3>1
  <2> QED BY <2>2, <2>3, <2>4 DEF M!Reads
<1>7. CASE M!DestroyWaits     BY <1>7 DEF M!DestroyWaits
<1>8. CASE M!ServeGrpcEnds    BY <1>8 DEF M!ServeGrpcEnds
<1>9. CASE M!RpcStart         BY <1>9 DEF M!RpcStart
<1>10. CASE M!RpcStop         BY <1>10 DEF M!RpcStop
<1>11. CASE M!RpcWait         BY <1>11 DEF M!RpcWait
<1>12. CASE M!ServiceCancelled BY <1>12 DEF M!ServiceCancelled
<1>13. CASE UNCHANGED M!vars  BY <1>13 DEF M!vars
<1> QED BY <1>1, <1>2, <1>3, <1>4, <1>5, <1>6, <1>7, <1>8, <1>9, <1>10, <1>11, <1>12, <1>13
        DEF M!Next, M!InitRuns, M!DestroyRuns

(* It holds for any threads, in whatever order they call (DoInitOnce,      *)
(* DoDestroyOnce).                                                         *)
THEOREM LibraryInvariance == M!Spec => []LibraryInv
BY LibraryInit, LibraryStep, PTL DEF M!Spec

(* A failed DoInitOnce leaves no listener and no live context behind, and  *)
(* nothing set, while other threads call DoDestroyOnce (the deferred       *)
(* functions of DoInitOnce).                                               *)
THEOREM FailedInitLeavesNothing == M!Spec => []FailedInitIsClean
<1>1. LibraryInv => FailedInitIsClean
      BY DEF LibraryInv, FailedInitIsClean, M!FailedInitIsClean
<1> QED BY <1>1, LibraryInvariance, PTL

(* The types of all variables (Mobile).                                    *)
THEOREM LibraryTypes == M!Spec => []M!TypeOK
<1>1. M!Init => M!TypeOK
      BY Zenon DEF M!Init, M!TypeOK
<1>2. M!TypeOK /\ [M!Next]_(M!vars) => M!TypeOK'
  <2> SUFFICES ASSUME M!TypeOK, [M!Next]_(M!vars) PROVE M!TypeOK'
      OBVIOUS
  <2> USE DEF M!TypeOK
  <2>1. ASSUME NEW t \in Threads, M!CallInit(t) PROVE M!TypeOK'
        BY <2>1 DEF M!CallInit
  <2>2. ASSUME NEW t \in Threads, M!CallDestroy(t) PROVE M!TypeOK'
        BY <2>2 DEF M!CallDestroy
  <2>3. ASSUME NEW t \in Threads, M!Done(t) PROVE M!TypeOK'
        BY <2>3 DEF M!Done
  <2>4. CASE M!InitStep
    <3>1. mServer' \in BOOLEAN /\ mCancel' \in BOOLEAN
          BY <2>4, Zenon DEF M!InitStep
    <3>2. /\ init' \in {"listen", "context", "server", "serve", "assign", "return", "done"}
          /\ ln' \in {ln, "open"} /\ ctx' \in {ctx, "live"} /\ serving' \in {serving, "yes"}
          /\ UNCHANGED <<thread, destroy, service, crashed>>
          BY <2>4 DEF M!InitStep
    <3> QED BY <3>1, <3>2
  <2>5. CASE M!InitFails        BY <2>5 DEF M!InitFails
  <2>6. CASE M!DestroyCancels
    <3>1. crashed' \in BOOLEAN
          BY <2>6, Zenon DEF M!DestroyCancels
    <3>2. /\ destroy' \in {destroy, "wait"} /\ ctx' \in {ctx, "done"}
          /\ UNCHANGED <<thread, init, ln, serving, mServer, mCancel, service>>
          BY <2>6 DEF M!DestroyCancels
    <3> QED BY <3>1, <3>2
  <2>7. CASE M!DestroyWaits
    <3>1. crashed' \in BOOLEAN
          BY <2>7, Zenon DEF M!DestroyWaits
    <3>2. /\ destroy' \in {destroy, "done"} /\ service' \in {service, "none"}
          /\ UNCHANGED <<thread, init, ln, ctx, serving, mServer, mCancel>>
          BY <2>7 DEF M!DestroyWaits
    <3> QED BY <3>1, <3>2
  <2>8. CASE M!ServeGrpcEnds    BY <2>8 DEF M!ServeGrpcEnds
  <2>9. CASE M!RpcStart         BY <2>9 DEF M!RpcStart
  <2>10. CASE M!RpcStop         BY <2>10 DEF M!RpcStop
  <2>11. CASE M!RpcWait         BY <2>11 DEF M!RpcWait
  <2>12. CASE M!ServiceCancelled BY <2>12 DEF M!ServiceCancelled
  <2>13. CASE UNCHANGED M!vars  BY <2>13 DEF M!vars
  <2> QED BY <2>1, <2>2, <2>3, <2>4, <2>5, <2>6, <2>7, <2>8, <2>9, <2>10, <2>11, <2>12, <2>13
          DEF M!Next, M!InitRuns, M!DestroyRuns
<1> QED BY <1>1, <1>2, PTL DEF M!Spec

----------------------------------------------------------------------------
(* Programs.                                                               *)

(* Whichever of the two programs runs, its steps are those of its module,  *)
(* and the variables of the other one stay as they are.                    *)
THEOREM ProgramsRunOne == ProgramsSpec => IntrSpec /\ M!Spec
<1>1. ProgramsInit => IntrInit /\ M!Init
      BY DEF ProgramsInit
<1>2. [ProgramsNext]_programVars => [IntrNext]_intrVars
      BY DEF ProgramsNext, HybridNext, LibraryNext, HybridStays, programVars
<1>3. [ProgramsNext]_programVars => [M!Next]_(M!vars)
      BY DEF ProgramsNext, HybridNext, LibraryNext, LibraryStays, programVars,
             libraryVars, M!vars
<1> QED BY <1>1, <1>2, <1>3, PTL DEF ProgramsSpec, IntrSpec, M!Spec

(* Hence what is proved of the handler and of the library holds in the     *)
(* program that is built with them (cmd/hybrid, gomobile).                 *)
THEOREM ProgramsKeepPromises ==
  ProgramsSpec => [](SecondKills /\ NothingLeft /\ FailedInitIsClean)
BY ProgramsRunOne, TheSecondKills, NothingIsLeft, FailedInitLeavesNothing, PTL

============================================================================
