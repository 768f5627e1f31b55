------------------------------ MODULE MCSetup ------------------------------
EXTENDS SetupWizard
CONSTANTS w, p
BothClients == {w, p}
OnlyWizardWatches == {w}
=============================================================================
