--------------------------- MODULE MCFleetBatches ---------------------------
EXTENDS FleetBatches
CONSTANTS A, B
MCReplicas == {A, B}
=============================================================================
