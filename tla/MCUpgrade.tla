------------------------------ MODULE MCUpgrade ------------------------------
EXTENDS Upgrade

FoundBoxes == {[release |-> 0, flake |-> 1], [release |-> 1, flake |-> 0],
               [release |-> 1, flake |-> 1], [release |-> 2, flake |-> 1]}
Bounds == {[requests |-> 2, trouble |-> 0], [requests |-> 1, trouble |-> 1]}
=============================================================================
