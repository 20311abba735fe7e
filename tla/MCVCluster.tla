---------------------------- MODULE MCVCluster ----------------------------
\* The vCluster manager on small instances, for TLC.
EXTENDS VCluster

Delegated == [user |-> 0, group |-> 0, fsGroup |-> 0,
              request |-> 1, limit |-> 2, queue |-> FALSE]

\* Settings left to the platform, the same with a queue, the default numeric
\* identity, and two that do not validate.
MCOptions ==
    {Delegated, [Delegated EXCEPT !.queue = TRUE],
     [Delegated EXCEPT !.user = 1, !.group = 1, !.fsGroup = 1],
     [Delegated EXCEPT !.user = 1], [Delegated EXCEPT !.limit = 0]}

\* The defaults of the controller's flags.
DefaultOptions == {[Delegated EXCEPT !.user = 1, !.group = 1, !.fsGroup = 1]}

===========================================================================
