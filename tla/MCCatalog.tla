----------------------------- MODULE MCCatalog -----------------------------
\* Every kind of reference, two writes beside each other and one reader.
EXTENDS Catalog
=============================================================================
