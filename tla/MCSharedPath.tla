---------------------------- MODULE MCSharedPath -----------------------------
\* Small instances of SharedPath.
EXTENDS SharedPath

MCSavers == 1 .. 2
\* The first call makes a checkpoint while it runs, both make a last one.
MCTicks == [c \in MCSavers |-> IF c = 1 THEN 1 ELSE 0]
MCStates == [ver : 1 .. MaxVersion, at : 0 .. Size]
==============================================================================
