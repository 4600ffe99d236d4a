---------------------------- MODULE MCDesignImport ----------------------------
\* DesignImport, whose imports and saves are alike.
EXTENDS DesignImport, TLC

Alike == Permutations(Imports) \cup Permutations(Saves)
=============================================================================
