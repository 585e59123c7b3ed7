-------------------------- MODULE MCSessionDispatch --------------------------
EXTENDS SessionDispatch

CONSTANTS s1, s2, t4

\* Everything in session s1, but for turn t4.
OneSession == [y \in Turns \union Stops |-> IF y = t4 THEN s2 ELSE s1]
=============================================================================
