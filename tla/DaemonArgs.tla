----------------------------- MODULE DaemonArgs -----------------------------
(***************************************************************************)
(* The flags of the healer.  "k8s-healer start" runs the healer in a child *)
(* process and rebuilds the flags for it (getDaemonArgs), so that what the  *)
(* child works with is the parse of a print of what was given to start.    *)
(*                                                                         *)
(* Durations are in the unit of their defaults, the strain threshold is in *)
(* hundredths of a percent, lists are sequences.                           *)
(***************************************************************************)
EXTENDS Naturals, Sequences

CONSTANTS
    Given,      \* Given[f]: the value of flag f on the command line
    Daemon,     \* was the command "start"?
    Wildcard    \* the namespace arguments that contain a "*"

Default ==
    [kubeconfig |-> "", namespaces |-> <<>>, excludeNamespaces |-> <<>>,
     healCooldown |-> 10, enableVMHealing |-> TRUE, enableCRDCleanup |-> TRUE,
     crdResources |-> <<>>, staleAge |-> 6, cleanupFinalizers |-> TRUE,
     enableNamespacePolling |-> TRUE, namespacePattern |-> "", namespacePollInterval |-> 5,
     enableResourceOptimization |-> TRUE, strainThreshold |-> 3000,
     enableResourceCreationThrottling |-> TRUE, warmupTimeout |-> 30,
     memoryLimitMB |-> 40, memoryCheckInterval |-> 1, restartOnMemoryLimit |-> TRUE]

ASSUME FlagAssumption ==
    /\ DOMAIN Given \subseteq DOMAIN Default
    /\ Daemon \in BOOLEAN

\* As the command line has them.
Flags == [f \in DOMAIN Default |-> IF f \in DOMAIN Given THEN Given[f] ELSE Default[f]]

\* The flags getDaemonArgs prints when they differ from their defaults.
ReconstructedMut ==
    {"kubeconfig", "excludeNamespaces", "healCooldown", "enableVMHealing",
     "enableCRDCleanup", "crdResources", "staleAge", "cleanupFinalizers",
     "enableResourceOptimization", "strainThreshold"}

Reconstructed ==
    {"kubeconfig", "namespaces", "excludeNamespaces", "healCooldown", "enableVMHealing",
     "enableCRDCleanup", "crdResources", "staleAge", "cleanupFinalizers",
     "enableResourceOptimization", "strainThreshold"}

\* Those of the memory guard are printed unless the limit is 0, "disabled".
getDaemonArgs ==
    {f \in Reconstructed : Flags[f] # Default[f]}
        \cup {f \in {"memoryLimitMB", "memoryCheckInterval", "restartOnMemoryLimit"} :
                Flags.memoryLimitMB > 0}

\* "%.1f" rounds the strain threshold to tenths.
Printed(f) == IF f = "strainThreshold" THEN 10 * ((Flags[f] + 5) \div 10) ELSE Flags[f]

\* The flags the healer works with.
Effective ==
    IF ~Daemon THEN Flags
    ELSE [f \in DOMAIN Default |-> IF f \in getDaemonArgs THEN Printed(f) ELSE Default[f]]

\* startHealer: with polling and without a pattern, the first wildcard is the
\* pattern.
NamespacePattern(flags) ==
    LET wildcards == SelectSeq(flags.namespaces, LAMBDA n : n \in Wildcard) IN
      IF flags.enableNamespacePolling /\ flags.namespacePattern = "" /\ wildcards # <<>>
      THEN Head(wildcards) ELSE flags.namespacePattern
=============================================================================
