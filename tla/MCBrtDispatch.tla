---------------------------- MODULE MCBrtDispatch ----------------------------
\* BrtDispatch on small instances.
EXTENDS BrtDispatch

\* Nothing at all, what fits a pipe of two writes, and more than that with a 0 at the end.
SomeOutputs == {[writes |-> 0, zero |-> FALSE], [writes |-> 2, zero |-> FALSE],
                [writes |-> 3, zero |-> TRUE]}
=============================================================================
