----------------------------- MODULE MCTaxonomy -----------------------------
EXTENDS Taxonomy, TLC

Symmetric == Permutations(Services) \cup Permutations(Categories)
=============================================================================
