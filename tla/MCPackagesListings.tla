------------------------- MODULE MCPackagesListings -------------------------
\* PackagesListings on the small instances of MCPackagesStore.
EXTENDS MCPackagesStore, PackagesListings
=============================================================================
