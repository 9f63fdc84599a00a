------------------------------ MODULE MCProcess ------------------------------
EXTENDS Process

Default ==
    [migrateOnly |-> FALSE, production |-> FALSE, key |-> TRUE, port |-> <<>>,
     enabled |-> TRUE, interval |-> <<>>, grace |-> <<>>, timeout |-> <<>>, batch |-> <<>>]

\* The defaults, values that New replaces, values validate refuses, a process
\* without a reconciler and one that only migrates.
MCEnvironments ==
    {Default,
     [Default EXCEPT !.interval = <<0>>, !.grace = <<1>>, !.batch = <<0>>],
     [Default EXCEPT !.interval = <<0>>, !.grace = <<0>>],
     [Default EXCEPT !.interval = <<3>>, !.grace = <<1>>],
     [Default EXCEPT !.port = <<0>>],
     [Default EXCEPT !.production = TRUE, !.key = FALSE],
     [Default EXCEPT !.enabled = FALSE, !.interval = <<3>>, !.grace = <<1>>],
     [Default EXCEPT !.migrateOnly = TRUE]}
=============================================================================
