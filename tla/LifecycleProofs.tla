--------------------------- MODULE LifecycleProofs ---------------------------
(***************************************************************************)
(* What holds of the commands and the processes whatever the shells do and *)
(* whoever gets the numbers of processes that have ended.                  *)
(***************************************************************************)
EXTENDS Lifecycle, TLAPS

USE LifecycleAssumption

(* The type invariant, variable by variable. *)

Handling == {"running", "cleaning", "summary", "stopping"}
ProcOK ==
    /\ proc \in [Pid -> Process]
    /\ \A p \in Pid : proc[p].pending # {} => proc[p].state \in Handling
FileOK ==
    /\ pidFile \in [pid : Pid \cup {None, Empty}, open : SUBSET (Pid \cup Client)]
    /\ pidFile.pid = None => pidFile.open = {}
ClientOK ==
    /\ client \in [Client -> ClientState]
    /\ \A c \in Client : client[c].pid = None <=> client[c].pc \in {"idle", "spawn"}

LEMMA TypeParts ==
    TypeOK <=> /\ ProcOK /\ FileOK /\ ClientOK
               /\ summary \in {"none", "empty", "full"} /\ ended \in [Client -> BOOLEAN]
  BY DEF TypeOK, ProcOK, FileOK, ClientOK, HandlesSignals, Handling, In

\* A process whose record is replaced keeps the types.
LEMMA ProcessReplaced ==
    ASSUME ProcOK, NEW p \in Pid, NEW r \in Process,
           r.pending # {} => r.state \in Handling, proc' = [proc EXCEPT ![p] = r]
    PROVE  ProcOK'
  BY DEF ProcOK

\* Only signals of a live process have an effect, and of those the process may
\* die or stay what it was.
LEMMA SignalledType ==
    ASSUME ProcOK, NEW p \in Pid, NEW s \in Signal
    PROVE  /\ Signalled(p, s) \in Process
           /\ Signalled(p, s).pending # {} => Signalled(p, s).state \in Handling
  <1>1. proc[p] \in Process
    BY DEF ProcOK
  <1>2. CASE HandlesSignals(p)
    BY <1>1, <1>2 DEF Signalled, Process, HandlesSignals, Handling
  <1>3. CASE ~HandlesSignals(p)
    BY <1>1, <1>3 DEF Signalled, Process
  <1> QED
    BY <1>2, <1>3

LEMMA ClientGoes ==
    ASSUME ClientOK, NEW c \in Client, NEW pc, NEW pid, Goes(c, pc, pid),
           [pc |-> pc, pid |-> pid] \in ClientState,
           pid = None <=> pc \in {"idle", "spawn"}
    PROVE  ClientOK'
  BY DEF ClientOK, Goes

LEMMA ClientEnds ==
    ASSUME ClientOK, NEW c \in Client, Ends(c)
    PROVE  ClientOK'
  BY DEF ClientOK, Ends, Idle, ClientState

\* Whoever truncates, writes or removes the file: what is open exists.
LEMMA FileChanges ==
    ASSUME FileOK,
           \/ UNCHANGED pidFile \/ pidFile' = NoFile
           \/ \E w \in Pid \cup Client : pidFile' = Truncated(w)
           \/ \E w \in Pid \cup Client, p \in Pid : pidFile' = Written(w, p)
    PROVE  FileOK'
  BY DEF FileOK, NoFile, Truncated, Written

LEMMA InitType == Init => TypeOK
  BY DEF Init, TypeOK, Process, ClientState, Idle, In, Signal, NoFile

\* A step of a process leaves the commands alone.
LEMMA ProcessStepType ==
    ASSUME ProcOK, NEW p \in Pid, Healer(p) \/ RequestRestart(p) \/ Crash(p) \/ Reuse(p)
    PROVE  ProcOK' /\ UNCHANGED client
  <1>0. proc[p] \in Process /\ (proc[p].pending # {} => proc[p].state \in Handling)
    BY DEF ProcOK
  <1>1. UNCHANGED client
    BY DEF Healer, TruncatePIDFile, WritePIDFile, SetUpSignals, Shutdown, RunFullCRDCleanup,
           CleanupCompleted, CreateSummary, PrintCRDCleanupSummaryTo, Exit, RequestRestart, Crash, Reuse
  <1> DEFINE Good(r) == /\ r \in Process
                        /\ r.pending # {} => r.state \in Handling
                        /\ proc' = [proc EXCEPT ![p] = r]
  <1>2. \E r : Good(r)
    <2>1. ASSUME NEW s, proc' = [proc EXCEPT ![p].state = s], s \in Handling \cup {"writing", "named"},
                 s \in Handling \/ proc[p].pending = {}
          PROVE  Good([proc[p] EXCEPT !.state = s])
      BY <1>0, <2>1 DEF Process, Handling
    <2>2. CASE TruncatePIDFile(p)
      <3>1. proc' = [proc EXCEPT ![p].state = "writing"] /\ proc[p].pending = {}
        BY <1>0, <2>2 DEF TruncatePIDFile, In, Handling
      <3> QED  BY <2>1, <3>1
    <2>3. CASE WritePIDFile(p)
      <3>1. proc' = [proc EXCEPT ![p].state = "named"] /\ proc[p].pending = {}
        BY <1>0, <2>3 DEF WritePIDFile, In, Handling
      <3> QED  BY <2>1, <3>1
    <2>4. CASE SetUpSignals(p) \/ CleanupCompleted(p) \/ PrintCRDCleanupSummaryTo(p)
      <3>1. proc' = [proc EXCEPT ![p].state = "running"] /\ "running" \in Handling
        BY <2>4 DEF SetUpSignals, CleanupCompleted, PrintCRDCleanupSummaryTo, Handling
      <3> QED  BY <2>1, <3>1
    <2>5. CASE Shutdown(p)
      <3>1. PICK s \in proc[p].pending \cap {"TERM", "RESTART"} :
              proc' = [proc EXCEPT ![p] =
                         [state |-> "stopping",
                          pending |-> IF s = "TERM" THEN proc[p].pending \ {s} ELSE proc[p].pending]]
        BY <2>5 DEF Shutdown
      <3>2. Good([state |-> "stopping",
                  pending |-> IF s = "TERM" THEN proc[p].pending \ {s} ELSE proc[p].pending])
        BY <1>0, <3>1 DEF Process, Handling
      <3> QED  BY <3>2
    <2>6. CASE RunFullCRDCleanup(p)
      <3>1. Good([state |-> "cleaning", pending |-> proc[p].pending \ {"USR1"}])
        BY <1>0, <2>6 DEF RunFullCRDCleanup, Process, Handling
      <3> QED  BY <3>1
    <2>7. CASE CreateSummary(p)
      <3>1. Good([state |-> "summary", pending |-> proc[p].pending \ {"USR2"}])
        BY <1>0, <2>7 DEF CreateSummary, Process, Handling
      <3> QED  BY <3>1
    <2>8. CASE Exit(p) \/ Crash(p)
      <3>1. Good([state |-> "dead", pending |-> {}])
        BY <2>8 DEF Exit, Crash, Process
      <3> QED  BY <3>1
    <2>9. CASE RequestRestart(p)
      <3>1. Good([proc[p] EXCEPT !.pending = proc[p].pending \cup {"RESTART"}])
        BY <1>0, <2>9 DEF RequestRestart, HandlesSignals, Process, Signal, Handling
      <3> QED  BY <3>1
    <2>10. CASE Reuse(p)
      <3>1. PICK s \in {"unused", "foreign"} : proc' = [proc EXCEPT ![p].state = s]
        BY <2>10 DEF Reuse
      <3>2. Good([proc[p] EXCEPT !.state = s])
        BY <1>0, <2>10, <3>1 DEF Reuse, In, Process, Handling
      <3> QED  BY <3>2
    <2> QED
      BY <2>2, <2>3, <2>4, <2>5, <2>6, <2>7, <2>8, <2>9, <2>10 DEF Healer
  <1> QED
    BY <1>1, <1>2, ProcessReplaced

\* A command changes a process by a signal, or by bringing it up.
LEMMA ShellProcessType ==
    ASSUME ProcOK, ClientOK, NEW c \in Client, Shell(c)
    PROVE  ProcOK'
  <1> DEFINE p == client[c].pid
  <1>1. client[c].pc \notin {"idle", "spawn"} => p \in Pid
    BY DEF ClientOK, ClientState
  <1>2. ASSUME NEW q \in Pid, In(q, "unused"), proc' = [proc EXCEPT ![q].state = "booting"]
        PROVE  ProcOK'
    BY <1>2 DEF ProcOK, Process, In, Handling
  <1>3. CASE Spawn(c) \/ RunForeground(c)
    BY <1>2, <1>3 DEF Spawn, RunForeground
  <1>4. ASSUME NEW s \in Signal, p \in Pid, proc' = [proc EXCEPT ![p] = Signalled(p, s)]
        PROVE  ProcOK'
    BY <1>4, SignalledType, ProcessReplaced
  <1>5. CASE SendTerm(c) \/ SendUsr1(c) \/ SendUsr2(c)
    <2>1. p \in Pid
      BY <1>1, <1>5 DEF SendTerm, SendUsr1, SendUsr2, At
    <2>2. \/ UNCHANGED proc
          \/ \E s \in {"TERM", "USR1", "USR2"} : proc' = [proc EXCEPT ![p] = Signalled(p, s)]
      BY <1>5 DEF SendTerm, SendUsr1, SendUsr2
    <2> QED
      BY <1>4, <2>1, <2>2 DEF Signal, ProcOK
  <1>6. CASE KillIfAlive(c)
    <2>1. p \in Pid /\ [state |-> "dead", pending |-> {}] \in Process
      BY <1>1, <1>6 DEF KillIfAlive, At, Process
    <2> QED
      BY <1>6, <2>1, ProcessReplaced DEF KillIfAlive, ProcOK
  <1>7. CASE UNCHANGED proc
    BY <1>7 DEF ProcOK
  <1> QED
    BY <1>3, <1>5, <1>6, <1>7 DEF Shell, CheckNotRunning, TruncateForSpawned, WriteSpawned,
       ReadPIDFile, RemovePIDFile, Probe, ReadSummary

LEMMA ShellClientType ==
    ASSUME ClientOK, FileOK, NEW c \in Client, Shell(c)
    PROVE  ClientOK'
  <1> DEFINE p == client[c].pid
  <1>1. client[c].pc \notin {"idle", "spawn"} => p \in Pid
    BY DEF ClientOK, ClientState
  <1>2. ASSUME NEW q \in Pid, NEW pc, Goes(c, pc, q),
               pc \in {"open", "write", "term", "wait", "remove", "probe", "prune", "usr1", "usr2", "read"}
        PROVE  ClientOK'
    <2>1. [pc |-> pc, pid |-> q] \in ClientState
      BY <1>2 DEF ClientState
    <2> QED
      BY <1>2, <2>1, ClientGoes
  <1>3. CASE CheckNotRunning(c)
    <2>1. [pc |-> "spawn", pid |-> None] \in ClientState
      BY DEF ClientState
    <2> QED
      BY <1>3, <2>1, ClientGoes DEF CheckNotRunning
  <1>4. CASE Spawn(c)
    BY <1>2, <1>4 DEF Spawn
  <1>5. CASE ReadPIDFile(c)
    <2>1. PICK command \in DOMAIN FirstStep : Goes(c, FirstStep[command], pidFile.pid)
      BY <1>5 DEF ReadPIDFile
    <2>2. FirstStep[command] \in {"term", "probe", "usr1", "usr2"} /\ pidFile.pid \in Pid
      BY <1>5, <2>1 DEF FirstStep, ReadPIDFile
    <2> QED
      BY <1>2, <2>1, <2>2
  <1>6. CASE Ends(c) \/ UNCHANGED client
    BY <1>6, ClientEnds DEF ClientOK
  <1>7. ASSUME Goes(c, "write", p) \/ Goes(c, "wait", p) \/ Goes(c, "remove", p)
                 \/ Goes(c, "prune", p) \/ Goes(c, "read", p),
               client[c].pc \notin {"idle", "spawn"}
        PROVE  ClientOK'
    BY <1>1, <1>2, <1>7
  <1> QED
    BY <1>3, <1>4, <1>5, <1>6, <1>7 DEF Shell, TruncateForSpawned, WriteSpawned, RunForeground,
       SendTerm, KillIfAlive, RemovePIDFile, Probe, SendUsr1, SendUsr2, ReadSummary, At

LEMMA FileStepType ==
    ASSUME FileOK, ClientOK, Step
    PROVE  FileOK' /\ (summary \in {"none", "empty", "full"} => summary' \in {"none", "empty", "full"})
  <1>1. ASSUME NEW p \in Pid, Healer(p) \/ RequestRestart(p) \/ Crash(p) \/ Reuse(p)
        PROVE  /\ \/ UNCHANGED pidFile \/ pidFile' = NoFile
                  \/ pidFile' = Truncated(p) \/ pidFile' = Written(p, p)
               /\ summary' \in {summary, "none", "empty", "full"}
    BY <1>1 DEF Healer, TruncatePIDFile, WritePIDFile, SetUpSignals, Shutdown, RunFullCRDCleanup,
       CleanupCompleted, CreateSummary, PrintCRDCleanupSummaryTo, Exit, RequestRestart, Crash, Reuse
  <1>2. ASSUME NEW c \in Client, Shell(c)
        PROVE  /\ \/ UNCHANGED pidFile \/ pidFile' = NoFile
                  \/ pidFile' = Truncated(c) \/ \E p \in Pid : pidFile' = Written(c, p)
               /\ summary' \in {summary, "none"}
    <2>1. client[c].pc = "write" => client[c].pid \in Pid
      BY DEF ClientOK, ClientState
    <2> QED
      BY <1>2, <2>1 DEF Shell, CheckNotRunning, Spawn, TruncateForSpawned, WriteSpawned, RunForeground,
         ReadPIDFile, SendTerm, KillIfAlive, RemovePIDFile, Probe, SendUsr1, SendUsr2, ReadSummary, At
  <1> QED
    BY <1>1, <1>2, FileChanges DEF Step

\* The type invariant holds whatever the shells do.
THEOREM TypeCorrect == Spec => []TypeOK
  <1>1. TypeOK /\ [Next]_vars => TypeOK'
    <2> SUFFICES ASSUME TypeOK, [Next]_vars PROVE TypeOK'
      OBVIOUS
    <2>1. ProcOK /\ FileOK /\ ClientOK /\ summary \in {"none", "empty", "full"}
            /\ ended \in [Client -> BOOLEAN]
      BY TypeParts
    <2>2. CASE Next
      <3>1. Step /\ Record
        BY <2>2 DEF Next
      <3>2. ProcOK' /\ ClientOK'
        BY <2>1, <3>1, ProcessStepType, ShellProcessType, ShellClientType DEF Step, ClientOK
      <3>3. FileOK' /\ summary' \in {"none", "empty", "full"}
        BY <2>1, <3>1, FileStepType
      <3>4. ended' \in [Client -> BOOLEAN]
        BY <3>1 DEF Record
      <3> QED
        BY <3>2, <3>3, <3>4
        DEF TypeOK, ProcOK, FileOK, ClientOK, HandlesSignals, Handling, In
    <2>3. ASSUME UNCHANGED vars PROVE TypeOK'
      BY <2>3 DEF vars, world, TypeOK, HandlesSignals, In
    <2> QED
      BY <2>2, <2>3
  <1> QED
    BY InitType, <1>1, PTL DEF Spec

-----------------------------------------------------------------------------
(* stop *)

\* To a command that has read a number, nothing living under it means that its
\* process has ended.
LEMMA EndIsSeen ==
    ASSUME Record, NEW c \in Client, client'[c].pid \in Pid, ~Alive(client[c].pid)'
    PROVE  ended'[c]
  <1>1. PICK p \in Pid : p = client'[c].pid
    OBVIOUS
  <1>2. ~Alive(p)'
    BY <1>1 DEF Alive
  <1> QED
    BY <1>1, <1>2 DEF Record

LEMMA StoppedHasEndedStep ==
    ASSUME TypeOK, TypeOK', StoppedHasEnded, [Next]_vars
    PROVE  StoppedHasEnded'
  <1>1. CASE UNCHANGED vars
    BY <1>1 DEF vars, world, StoppedHasEnded
  <1>2. CASE Next
    <2> SUFFICES ASSUME NEW c \in Client, client'[c].pc = "remove" PROVE ended'[c]
      BY DEF StoppedHasEnded
    <2>0. Step /\ Record
      BY <1>2 DEF Next
    <2>1. client'[c].pid \in Pid
      BY DEF TypeOK, ClientState
    <2>2. CASE client'[c] = client[c]
      BY <2>0, <2>1, <2>2 DEF Record, StoppedHasEnded
    <2>3. CASE client'[c] # client[c]
      <3>1. PICK d \in Client : Shell(d)
        BY <2>0, <2>3, TypeParts, ProcessStepType DEF Step
      <3>2. c = d /\ ((SendTerm(c) /\ ~Alive(client[c].pid)) \/ KillIfAlive(c))
        BY <2>3, <3>1 DEF TypeOK, Shell, CheckNotRunning, Spawn, TruncateForSpawned, WriteSpawned,
           RunForeground, ReadPIDFile, FirstStep, SendTerm, KillIfAlive, RemovePIDFile, Probe,
           SendUsr1, SendUsr2, ReadSummary, Goes, Ends, Idle
      <3>3. client'[c].pid = client[c].pid
        BY <3>2 DEF TypeOK, SendTerm, KillIfAlive, Goes
      <3>4. ~Alive(client[c].pid)'
        BY <2>1, <3>2, <3>3 DEF TypeOK, SendTerm, KillIfAlive, Alive
      <3> QED
        BY <2>0, <2>1, <3>4, EndIsSeen
    <2> QED
      BY <2>2, <2>3
  <1> QED
    BY <1>1, <1>2

\* "k8s-healer daemon stopped": when stop says so the process it addressed has
\* ended, whatever other shells do, whether it took the SIGTERM or was killed,
\* and whoever was given its number meanwhile.
THEOREM StopStops == Spec => StopMeansStopped
  <1>1. Init => StoppedHasEnded
    BY DEF Init, StoppedHasEnded, Idle
  <1>2. TypeOK /\ TypeOK' /\ StoppedHasEnded /\ [Next]_vars => StoppedHasEnded'
    BY StoppedHasEndedStep
  <1>3. StoppedHasEnded => [\A c \in Client :
            client[c].pc = "remove" /\ client'[c].pc = "idle" => ended[c]]_vars
    BY DEF StoppedHasEnded
  <1> QED
    BY <1>1, <1>2, <1>3, TypeCorrect, PTL DEF Spec, StopMeansStopped
=============================================================================
