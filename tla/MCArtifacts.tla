---------------------------- MODULE MCArtifacts ----------------------------
(* A small instance of Artifacts for TLC. *)
EXTENDS Artifacts, TLC

\* Two revisions of one model share their blob, which another tool's entry
\* names too; a projector from elsewhere is its companion.
MCPaths == {"rev1", "rev2", "other", "proj", "flat"}
MCCached == {"rev1", "rev2", "other"}
MCFlat == [p \in MCPaths |-> IF p = "proj" THEN "proj" ELSE "flat"]
MCContent == [p \in MCPaths |-> IF p = "proj" THEN "small" ELSE "large"]
MCSize == [b \in {"small", "large"} |-> IF b = "small" THEN 1 ELSE 2]

\* A model whose announced size is right with a companion of unknown size, a
\* download of unknown size, and one that is larger than announced.
MCRequests == {<<[path |-> "rev1", max |-> 2], [path |-> "proj", max |-> 0]>>,
               <<[path |-> "rev2", max |-> 0]>>,
               <<[path |-> "rev2", max |-> 1]>>}

Symmetry == Permutations(Jobs)
=============================================================================
