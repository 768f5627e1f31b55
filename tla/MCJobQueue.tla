----------------------------- MODULE MCJobQueue -----------------------------
(* Instances of JobQueue: the classes of the jobs of each run. *)
EXTENDS JobQueueInv

CONSTANTS j1, j2, j3, j4

NoSubJobs == [j \in Jobs |-> <<>>]

\* InstallPups of two pups, and a job of the main loop.
RaceKind == (j1 :> "batch") @@ (j2 :> "pup") @@ (j3 :> "pup") @@ (j4 :> "direct")
RaceSubJobs == [j \in Jobs |-> IF j = j1 THEN <<j2, j3>> ELSE <<>>]

\* A system update, a configuration change, a row made by the dev endpoint.
CrashKind == Restrict((j1 :> "update") @@ (j2 :> "config") @@ (j3 :> "debug"), Jobs)

\* Nix cache updates around a job of the main loop.
NixKind == Restrict((j1 :> "nix") @@ (j2 :> "direct") @@ (j3 :> "nix"), Jobs)
=============================================================================
