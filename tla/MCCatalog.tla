----------------------------- MODULE MCCatalog -----------------------------
(* A small instance of Catalog for TLC. *)
EXTENDS Catalog

MCArtifactID == [f \in Files |-> "art"]
=============================================================================
