------------------------------ MODULE MCCatalog ------------------------------
\* Values for checking Catalog.
EXTENDS Catalog, TLC

CONSTANTS x1, x2, c1

OneCategory == [x \in Exts |-> c1]
==============================================================================
