---- MODULE MC_TProbe ----
EXTENDS TProbe

\* Floors in order; with a negative intercept; in the wrong order.
MCRaws == {[low |-> 320, high |-> 26000], [low |-> 3, high |-> 26000],
           [low |-> 320, high |-> 40]}

=============================================================================
