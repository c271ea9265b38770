---------------------------- MODULE MCActivation ----------------------------
EXTENDS Activation

CONSTANTS w1, w2

MCFlows == {w1, w2}
MCConflicts == {{w1, w2}}
=============================================================================
