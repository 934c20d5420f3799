------------------------------ MODULE Lifecycle ------------------------------
(***************************************************************************)
(* The life of healer processes (main.startHealer), the commands that start *)
(* and address them (pkg/daemon and the sub-commands of main) and the two  *)
(* files between them: the PID file and the summary file.                  *)
(*                                                                         *)
(* A command reads the PID file and acts on the number later; a process    *)
(* loads its configuration and warms up before it handles signals, and     *)
(* until then every signal ends it.  Each signal has a channel of capacity *)
(* one, so a process has a set of pending signals, and the request of the  *)
(* memory guard is one more.  A file is truncated in one step and written  *)
(* in another.  A PID may be used again as soon as its process has ended,  *)
(* whatever still names it, by a healer or by any other program.  The 2 s  *)
(* that stop waits and the 400 ms that summary waits may be long or short   *)
(* against what the process does meanwhile.                                 *)
(***************************************************************************)
EXTENDS Naturals, FiniteSets

CONSTANTS
    Pid,            \* processes there can be
    Client,         \* shells in which commands are given, one after the other
    Commands,       \* Commands[c]: the commands given in shell c
    MemoryLimited,  \* MemoryLimitMB > 0 and RestartOnMemoryLimit
    Crashes,        \* processes may be killed from outside, or fail to start
    None,           \* no PID, or no file
    Empty           \* a file that has been truncated and not been written

Command == {"start", "run", "stop", "status", "cleanup", "summary"}

ASSUME LifecycleAssumption ==
    /\ Commands \in [Client -> SUBSET Command]
    /\ {MemoryLimited, Crashes} \subseteq BOOLEAN
    /\ None \notin Pid /\ Empty \notin Pid /\ None # Empty
    /\ Pid \cap Client = {}

VARIABLES
    proc,       \* proc[p]: where startHealer of process p is, and what is pending
    pidFile,    \* what is in the PID file, and who has it open to write to it
    summary,    \* the summary file: "none", "empty" (just created) or "full"
    client,     \* client[c]: where the command given in shell c is
    ended       \* history: ended[c], the process that the command of shell c read
                \* from the file has ended, whoever has its number now

world == <<proc, pidFile, summary, client>>
vars == <<world, ended>>

Signal == {"TERM", "USR1", "USR2", "RESTART"}
Process ==
    [state : {"unused", "booting", "writing", "named", "running", "cleaning", "summary", "stopping", "dead", "foreign"},
     pending : SUBSET Signal]

ClientState ==
    [pc : {"idle", "spawn", "open", "write", "term", "wait", "remove", "probe", "prune", "usr1", "usr2", "read"},
     pid : Pid \cup {None}]
Idle == [pc |-> "idle", pid |-> None]

\* Signal 0 tells whether some process has the number.
Alive(p) == proc[p].state \notin {"unused", "dead"}
Healing(p) == Alive(p) /\ proc[p].state # "foreign"

\* Before signal.Notify a signal has its default action.
HandlesSignals(p) == proc[p].state \in {"running", "cleaning", "summary", "stopping"}

-----------------------------------------------------------------------------
(* startHealer *)

In(p, state) == proc[p].state = state

\* The PID file: created or truncated by OpenFile, then written by Fprintf, unseen
\* if somebody removed the file in between.  PIDs have equally many digits.
NoFile == [pid |-> None, open |-> {}]
Truncated(w) == [pid |-> Empty, open |-> pidFile.open \cup {w}]
Written(w, p) == [pid |-> IF w \in pidFile.open THEN p ELSE pidFile.pid,
                  open |-> pidFile.open \ {w}]

\* Warm-up is over: the PID file, so far written by "start" only, is written.
TruncatePIDFile(p) ==
    /\ In(p, "booting")
    /\ proc' = [proc EXCEPT ![p].state = "writing"]
    /\ pidFile' = Truncated(p)
    /\ UNCHANGED <<summary, client>>

WritePIDFile(p) ==
    /\ In(p, "writing")
    /\ proc' = [proc EXCEPT ![p].state = "named"]
    /\ pidFile' = Written(p, p)
    /\ UNCHANGED <<summary, client>>

\* signal.Notify, three times, and Watch in its goroutine.
SetUpSignals(p) ==
    /\ In(p, "named")
    /\ proc' = [proc EXCEPT ![p].state = "running"]
    /\ UNCHANGED <<pidFile, summary, client>>

\* The cases of the main select: one of those that are ready is taken.
ShutdownMut(p) ==
    /\ In(p, "running") /\ proc[p].pending = {"TERM"}
    /\ proc' = [proc EXCEPT ![p] = [state |-> "stopping", pending |-> {}]]
    /\ UNCHANGED <<pidFile, summary, client>>

Shutdown(p) ==
    /\ In(p, "running") /\ proc[p].pending \cap {"TERM", "RESTART"} # {}
    /\ \E s \in proc[p].pending \cap {"TERM", "RESTART"} :
         proc' = [proc EXCEPT ![p] = [state |-> "stopping",
                                      pending |-> IF s = "TERM" THEN @.pending \ {s} ELSE @.pending]]
    /\ UNCHANGED <<pidFile, summary, client>>

RunFullCRDCleanup(p) ==
    /\ In(p, "running") /\ "USR1" \in proc[p].pending
    /\ proc' = [proc EXCEPT ![p] = [state |-> "cleaning", pending |-> @.pending \ {"USR1"}]]
    /\ UNCHANGED <<pidFile, summary, client>>

\* The select is reached again only when all types have been cleaned.
CleanupCompletedMut(p) ==
    /\ In(p, "cleaning")
    /\ proc' = [proc EXCEPT ![p] = [state |-> "running", pending |-> @.pending \ {"USR1"}]]
    /\ UNCHANGED <<pidFile, summary, client>>

CleanupCompleted(p) ==
    /\ In(p, "cleaning")
    /\ proc' = [proc EXCEPT ![p].state = "running"]
    /\ UNCHANGED <<pidFile, summary, client>>

\* os.Create truncates the file.
CreateSummary(p) ==
    /\ In(p, "running") /\ "USR2" \in proc[p].pending
    /\ proc' = [proc EXCEPT ![p] = [state |-> "summary", pending |-> @.pending \ {"USR2"}]]
    /\ summary' = "empty"
    /\ UNCHANGED <<pidFile, client>>

\* A file that was removed since it was created is written unseen.
PrintCRDCleanupSummaryTo(p) ==
    /\ In(p, "summary")
    /\ proc' = [proc EXCEPT ![p].state = "running"]
    /\ summary' = IF summary = "none" THEN "none" ELSE "full"
    /\ UNCHANGED <<pidFile, client>>

\* StopCh is closed and Watch has returned.  os.Exit runs no deferred call, so
\* the PID file is removed only when no restart was requested.
Exit(p) ==
    /\ In(p, "stopping")
    /\ proc' = [proc EXCEPT ![p] = [state |-> "dead", pending |-> {}]]
    /\ pidFile' = IF "RESTART" \in proc[p].pending THEN pidFile ELSE NoFile
    /\ UNCHANGED <<summary, client>>

\* checkMemory is still over the limit after SanitizeReferences: the flag is set
\* and the channel closed, once.  The guard may have begun its check when StopCh
\* was closed.
RequestRestart(p) ==
    /\ MemoryLimited
    /\ HandlesSignals(p) /\ "RESTART" \notin proc[p].pending
    /\ proc' = [proc EXCEPT ![p].pending = @ \cup {"RESTART"}]
    /\ UNCHANGED <<pidFile, summary, client>>

\* The configuration is refused, or the process is killed.
Crash(p) ==
    /\ Crashes /\ Alive(p)
    /\ proc' = [proc EXCEPT ![p] = [state |-> "dead", pending |-> {}]]
    /\ UNCHANGED <<pidFile, summary, client>>

\* The operating system may give the number to a new process: to a healer, or to
\* another program of the same user.
Reuse(p) ==
    /\ In(p, "dead")
    /\ \E next \in {"unused", "foreign"} : proc' = [proc EXCEPT ![p].state = next]
    /\ UNCHANGED <<pidFile, summary, client>>

Healer(p) ==
    \/ TruncatePIDFile(p) \/ WritePIDFile(p) \/ SetUpSignals(p) \/ Shutdown(p) 
    \/ RunFullCRDCleanup(p) \/ CleanupCompleted(p) \/ CreateSummary(p) \/ PrintCRDCleanupSummaryTo(p) \/ Exit(p)

-----------------------------------------------------------------------------
(* The commands *)

\* What process p is after signal s, which ends it by default.
Signalled(p, s) ==
    IF HandlesSignals(p) THEN [proc[p] EXCEPT !.pending = @ \cup {s}]
                         ELSE [state |-> "dead", pending |-> {}]

At(c, pc) == client[c].pc = pc
Gives(c, command) == At(c, "idle") /\ command \in Commands[c]
Goes(c, pc, pid) == client' = [client EXCEPT ![c] = [pc |-> pc, pid |-> pid]]
Ends(c) == client' = [client EXCEPT ![c] = Idle]

\* The file can be read and names a process that lives.
IsRunning == pidFile.pid \in Pid /\ Alive(pidFile.pid)

\* start: StartDaemon.
CheckNotRunning(c) ==
    /\ Gives(c, "start") /\ ~IsRunning
    /\ Goes(c, "spawn", None)
    /\ UNCHANGED <<proc, pidFile, summary>>

Spawn(c) ==
    /\ At(c, "spawn")
    /\ \E p \in Pid :
         /\ In(p, "unused")
         /\ proc' = [proc EXCEPT ![p].state = "booting"]
         /\ Goes(c, "open", p)
    /\ UNCHANGED <<pidFile, summary>>

TruncateForSpawned(c) ==
    /\ At(c, "open")
    /\ pidFile' = Truncated(c)
    /\ Goes(c, "write", client[c].pid)
    /\ UNCHANGED <<proc, summary>>

WriteSpawned(c) ==
    /\ At(c, "write")
    /\ pidFile' = Written(c, client[c].pid)
    /\ Ends(c)
    /\ UNCHANGED <<proc, summary>>

\* No sub-command: the healer runs in the foreground, unasked.
RunForeground(c) ==
    /\ Gives(c, "run")
    /\ \E p \in Pid : In(p, "unused") /\ proc' = [proc EXCEPT ![p].state = "booting"]
    /\ UNCHANGED <<pidFile, summary, client>>

\* ReadPIDFile, with which stop, status, cleanup and summary begin.  Without the
\* file, or with an empty one, they end with an error.
FirstStep == [stop |-> "term", status |-> "probe", cleanup |-> "usr1", summary |-> "usr2"]
ReadPIDFileMut(c) ==
    /\ \E command \in DOMAIN FirstStep :
         Gives(c, command) /\ Goes(c, FirstStep[command], pidFile.pid)
    /\ UNCHANGED <<proc, pidFile, summary>>

ReadPIDFile(c) ==
    /\ pidFile.pid \in Pid
    /\ \E command \in DOMAIN FirstStep :
         Gives(c, command) /\ Goes(c, FirstStep[command], pidFile.pid)
    /\ UNCHANGED <<proc, pidFile, summary>>

\* stop: StopDaemon.
SendTerm(c) ==
    LET p == client[c].pid IN
    /\ At(c, "term")
    /\ IF Alive(p) THEN proc' = [proc EXCEPT ![p] = Signalled(p, "TERM")] /\ Goes(c, "wait", p)
                   ELSE Goes(c, "remove", p) /\ UNCHANGED proc
    /\ UNCHANGED <<pidFile, summary>>

KillIfAliveMut(c) ==
    /\ At(c, "wait")
    /\ Goes(c, "remove", client[c].pid)
    /\ UNCHANGED <<proc, pidFile, summary>>

KillIfAlive(c) ==
    LET p == client[c].pid IN
    /\ At(c, "wait")
    /\ proc' = IF Alive(p) THEN [proc EXCEPT ![p] = [state |-> "dead", pending |-> {}]] ELSE proc
    /\ Goes(c, "remove", p)
    /\ UNCHANGED <<pidFile, summary>>

RemovePIDFile(c) ==
    /\ client[c].pc \in {"remove", "prune"}
    /\ pidFile' = NoFile
    /\ Ends(c)
    /\ UNCHANGED <<proc, summary>>

\* status: StatusDaemon.
Probe(c) ==
    /\ At(c, "probe")
    /\ IF Alive(client[c].pid) THEN Ends(c) ELSE Goes(c, "prune", client[c].pid)
    /\ UNCHANGED <<proc, pidFile, summary>>

\* cleanup and summary: SendSignal; then summary waits for the file.
SendUsr1(c) ==
    LET p == client[c].pid IN
    /\ At(c, "usr1")
    /\ proc' = IF Alive(p) THEN [proc EXCEPT ![p] = Signalled(p, "USR1")] ELSE proc
    /\ Ends(c)
    /\ UNCHANGED <<pidFile, summary>>

SendUsr2(c) ==
    LET p == client[c].pid IN
    /\ At(c, "usr2")
    /\ IF Alive(p) THEN proc' = [proc EXCEPT ![p] = Signalled(p, "USR2")] /\ Goes(c, "read", p)
                   ELSE Ends(c) /\ UNCHANGED proc
    /\ UNCHANGED <<pidFile, summary>>

\* The file is printed and removed, if there is one.
ReadSummary(c) ==
    /\ At(c, "read")
    /\ summary' = "none"
    /\ Ends(c)
    /\ UNCHANGED <<proc, pidFile>>

Shell(c) ==
    \/ CheckNotRunning(c) \/ Spawn(c) \/ TruncateForSpawned(c) \/ WriteSpawned(c)
    \/ RunForeground(c) \/ ReadPIDFile(c)
    \/ SendTerm(c) \/ KillIfAlive(c) \/ RemovePIDFile(c) \/ Probe(c)
    \/ SendUsr1(c) \/ SendUsr2(c) \/ ReadSummary(c)

-----------------------------------------------------------------------------

Init ==
    /\ proc = [p \in Pid |-> [state |-> "unused", pending |-> {}]]
    /\ pidFile = NoFile
    /\ summary = "none"
    /\ client = [c \in Client |-> Idle]
    /\ ended = [c \in Client |-> FALSE]

Step ==
    \/ \E p \in Pid : Healer(p) \/ RequestRestart(p) \/ Crash(p) \/ Reuse(p)
    \/ \E c \in Client : Shell(c)

\* A process is seen to end: between its end and the reuse of its number nothing
\* has that number.
Record ==
    ended' = [c \in Client |->
                \E p \in Pid : /\ client'[c].pid = p
                              /\ ((ended[c] /\ client[c].pid = p) \/ ~Alive(p)')]

Next == Step /\ Record

Spec == Init /\ [][Next]_vars

\* Processes run, and a select that comes back for ever takes each ready case
\* some time: Go chooses among them at random.
Fairness ==
    \A p \in Pid :
        /\ WF_world(Healer(p))
        /\ SF_world(Shutdown(p)) /\ SF_world(RunFullCRDCleanup(p)) /\ SF_world(CreateSummary(p))

FairSpec == Spec /\ Fairness

-----------------------------------------------------------------------------
(* Properties *)

\* The state has its shape: signals are pending only where they are handled,
\* and only a file that exists is open under its name.
TypeOK ==
    /\ proc \in [Pid -> Process]
    /\ pidFile \in [pid : Pid \cup {None, Empty}, open : SUBSET (Pid \cup Client)]
    /\ summary \in {"none", "empty", "full"}
    /\ client \in [Client -> ClientState]
    /\ ended \in [Client -> BOOLEAN]
    /\ \A p \in Pid : proc[p].pending # {} => HandlesSignals(p)
    /\ pidFile.pid = None => pidFile.open = {}
    /\ \A c \in Client : client[c].pid = None <=> client[c].pc \in {"idle", "spawn"}

\* "k8s-healer daemon stopped" (daemon.go:127): when stop reports it, the process
\* whose number it read from the file has ended, whatever that process was doing
\* and whoever has the number by then.
StopMeansStopped ==
    [][\A c \in Client : client[c].pc = "remove" /\ client'[c].pc = "idle" => ended[c]]_vars

\* What makes it inductive: stop reports what it has seen or made to end.
StoppedHasEnded == \A c \in Client : client[c].pc = "remove" => ended[c]

\* A clean-up asked for while another one runs is not lost with it: one that
\* begins after the request follows, or the process ends.
CleanupServed ==
    \A p \in Pid : "USR1" \in proc[p].pending ~>
        \/ In(p, "cleaning") /\ "USR1" \notin proc[p].pending
        \/ proc[p].state \in {"stopping", "dead"}

\* SIGTERM ends the process although clean-ups and summaries keep being asked
\* for and although it was running one when the signal came.
TermServed == \A p \in Pid : "TERM" \in proc[p].pending ~> ~Healing(p)

\* "Check if already running" (daemon.go:33), of a shell that gives one command
\* after the other: start never brings up a healer beside another one.  The child
\* truncates the file that its parent wrote, and until it has written it again
\* another start finds nothing in it.
OneHealer == \A p, q \in Pid : Healing(p) /\ Healing(q) => p = q

\* "A PID file is created ... for process management. With -p, the path is used in
\* both foreground and daemon mode" (README.md:798): while a healer is past its
\* warm-up, some healer can be found in the file, or is being written there.
Reachable ==
    (\E p \in Pid : Healing(p) /\ proc[p].state \notin {"booting", "writing"}) =>
        \/ pidFile.pid \in Pid /\ Healing(pidFile.pid)
        \/ pidFile.open # {}
        \/ \E c \in Client : client[c].pc = "open"

\* "Send `SIGUSR1` to run a one-off full CRD cleanup" (README.md:85-86): asking a
\* healer for a clean-up or a summary does not end it.
RequestsAreHarmless ==
    [][\A c \in Client : \A p \in Pid :
         client[c].pc \in {"usr1", "usr2"} /\ client'[c] # client[c] /\ Healing(p) => Healing(p)']_vars

\* "SendSignal sends a signal to the daemon process" (daemon.go:158), stop to "the
\* running daemon" (daemon.go:90): no command ends another program's process.
OthersAreSpared ==
    [][\A c \in Client : \A p \in Pid :
         client'[c] # client[c] /\ In(p, "foreign") => In(p, "foreign")']_vars
=============================================================================
