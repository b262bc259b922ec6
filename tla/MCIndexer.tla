----------------------------- MODULE MCIndexer -----------------------------
EXTENDS Indexer, TLC

PrepPermutations == Permutations(PrepIds)
=============================================================================
