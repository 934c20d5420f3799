---------------------------- MODULE MCLifecycle -----------------------------
(* Small instances of Lifecycle. *)
EXTENDS Lifecycle, TLC

CONSTANTS p1, p2, c1, c2

OnePid == {p1}
TwoPids   == {p1, p2}
TwoShells == {c1, c2}

OneShell  == {c1}
\* One shell that gives start after start.
Starts    == c1 :> {"start"}
\* One shell manages the daemon, in the other the healer runs in the foreground.
Managed   == c1 :> {"start", "stop", "status"} @@ c2 :> {"run"}
\* One starts the daemon and asks for clean-ups, the other for summaries.
Requests  == c1 :> {"start", "cleanup"} @@ c2 :> {"summary"}
\* Both shells start healers, one of them in the foreground, both stop them, and
\* they ask for summaries, clean-ups and the status.
TwoStops == c1 :> {"start", "stop", "summary"} @@ c2 :> {"run", "stop", "status", "cleanup"}
=============================================================================
