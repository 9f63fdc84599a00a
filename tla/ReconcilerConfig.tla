-------------------------- MODULE ReconcilerConfig --------------------------
(***************************************************************************)
(* From environment to reconciler options: config.Load with its validate,  *)
(* and reconciler.New, which puts defaults in the place of options that    *)
(* are not positive.  Durations are in half minutes.  A variable is <<n>>  *)
(* when it parses to n and <<>> when it is unset, empty or does not parse, *)
(* which getDuration and getInt treat alike.                               *)
(***************************************************************************)
EXTENDS Integers, Sequences

Raw == {s \in Seq(Int) : Len(s) <= 1}

\* The environment variables that decide something, and the command line's
\* -migrate-only.
Environment ==
    [migrateOnly : BOOLEAN, production : BOOLEAN, key : BOOLEAN, port : Raw,
     enabled : BOOLEAN, interval : Raw, grace : Raw, timeout : Raw, batch : Raw]

\* getDuration and getInt.
Parsed(raw, fallback) == IF raw = <<>> THEN fallback ELSE raw[1]

\* The part of Load that reads the environment.  POSTGRES_DB and RABBITMQ_URL
\* fall back when empty, so validate never finds them empty.
Loaded(e) ==
    [migrateOnly |-> e.migrateOnly, production |-> e.production, key |-> e.key,
     port |-> Parsed(e.port, 8080), enabled |-> e.enabled,
     interval |-> Parsed(e.interval, 2), grace |-> Parsed(e.grace, 10),
     timeout |-> Parsed(e.timeout, 20), batch |-> Parsed(e.batch, 100)]

\* validate.
Valid(c) ==
    /\ c.port > 0 /\ c.port <= 65535
    /\ c.production => c.key
    /\ c.enabled => c.grace >= c.interval

\* Mutant: only a negative option is replaced.
OrDefault_Negative(value, default) == IF value < 0 THEN default ELSE value

OrDefault(value, default) == IF value <= 0 THEN default ELSE value

\* Mutant: New's own grace window is half a minute.
Options_ShortDefault(c) ==
    [interval |-> OrDefault(c.interval, 2), grace |-> OrDefault(c.grace, 1),
     timeout |-> OrDefault(c.timeout, 20), batch |-> OrDefault(c.batch, 100)]

\* reconciler.New.
Options(c) ==
    [interval |-> OrDefault(c.interval, 2), grace |-> OrDefault(c.grace, 10),
     timeout |-> OrDefault(c.timeout, 20), batch |-> OrDefault(c.batch, 100)]

NoOptions == [interval |-> 0, grace |-> 0, timeout |-> 0, batch |-> 0]

OptionsType == [interval : Int, grace : Int, timeout : Int, batch : Int]
=============================================================================
