---------------------------- MODULE MCArtifactTransfer ----------------------------
(* Instances of ArtifactTransfer for TLC.                                   *)
EXTENDS ArtifactTransfer

CONSTANTS text, raw, summary, evidence, c1, c2

OneText  == {text}
OneRaw   == {raw}
TwoCalls == {c1, c2}

Bundled   == [bundling |-> TRUE, evict |-> TRUE, large |-> {},
              faults |-> {"agent", "server", "net", "elab", "disk"}]
Unbundled == [bundling |-> FALSE, evict |-> FALSE, large |-> {raw}, faults |-> {"net", "agent"}]

AnyAgent     == {Bundled, Unbundled}
OnlyNetFails == {[Bundled EXCEPT !.faults = {"net"}]}
===============================================================================
