--------------------------- MODULE MCPupLifecycle ---------------------------
(* Instances of PupLifecycle: what the files of NixDir can hold. *)
EXTENDS PupLifecycle

MCContents == {Missing} \cup [Pups -> BOOLEAN]
              \cup [enabled : BOOLEAN, version : Versions \cup {0}]
FoundAny == {NoPup, [inst |-> "ready", enabled |-> TRUE, version |-> 1],
             [inst |-> "uninstalled", enabled |-> FALSE, version |-> 1]}
FoundMore == FoundAny \cup {[inst |-> "ready", enabled |-> FALSE, version |-> 2],
                            [inst |-> "broken", enabled |-> FALSE, version |-> 2]}
MCFiles == Pups \cup {Includes}
=============================================================================
