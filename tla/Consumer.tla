------------------------------- MODULE Consumer -------------------------------
(***************************************************************************)
(* broker.Consumer: the goroutine of run around consumeOnce, and Stop.     *)
(* run opens a channel, takes deliveries one at a time until the channel   *)
(* fails, waits and opens the next, at most MaxAttempts times in the life  *)
(* of the process; neither the count nor the backoff starts again after a  *)
(* channel that worked.  The length of the backoff and the two minutes a   *)
(* handler has are abstracted: a wait may end at any time, and ends.       *)
(***************************************************************************)
EXTENDS Naturals, Broker

CONSTANTS
    MaxAttempts,  \* run's maxAttempts
    MaxFailures   \* bound: channels that fail while the connection stands

ASSUME ConsumerAssumption == MaxAttempts \in Nat \ {0} /\ MaxFailures \in Nat

VARIABLES
    loop,         \* where run is; "none" before it starts, "gone" after it returns
    attempt,      \* the loop variable of run
    channelUp,    \* whether the channel of consumeOnce is open
    stopped,      \* stop is closed
    failuresLeft  \* failures that may still happen

consumerVars == <<loop, attempt, channelUp, stopped, failuresLeft>>

ConsumerTypeOK ==
    /\ loop \in {"none", "open", "select", "handling", "backoff", "gone"}
    /\ attempt \in 1..MaxAttempts + 1
    /\ channelUp \in BOOLEAN
    /\ stopped \in BOOLEAN
    /\ failuresLeft \in 0..MaxFailures

ConsumerInit ==
    /\ loop = "none"
    /\ attempt = 1
    /\ channelUp = FALSE
    /\ stopped = FALSE
    /\ failuresLeft = MaxFailures

Failure == failuresLeft > 0 /\ failuresLeft' = failuresLeft - 1

NewConsumer ==
    /\ loop' = "open"
    /\ UNCHANGED <<attempt, channelUp, stopped, failuresLeft>>

\* consumeOnce up to its loop: channel, topology, Qos, Consume.
OpenChannel ==
    /\ loop = "open"
    /\ \/ conn = "open" /\ loop' = "select" /\ channelUp' = TRUE /\ UNCHANGED failuresLeft
       \/ conn # "open" /\ loop' = "backoff" /\ UNCHANGED <<channelUp, failuresLeft>>
       \/ Failure /\ loop' = "backoff" /\ UNCHANGED channelUp
    /\ UNCHANGED <<attempt, stopped>>

\* A delivery; the select may prefer it although stop is closed.
Receive ==
    /\ loop = "select"
    /\ channelUp
    /\ loop' = "handling"
    /\ UNCHANGED <<attempt, channelUp, stopped, failuresLeft>>

\* The handler returns and the delivery is acked, retried or dead-lettered.
Settle ==
    /\ loop = "handling"
    /\ loop' = "select"
    /\ UNCHANGED <<attempt, channelUp, stopped, failuresLeft>>

\* The server closes the channel, and not the connection.
ChannelCloses ==
    /\ channelUp
    /\ Failure
    /\ channelUp' = FALSE
    /\ UNCHANGED <<loop, attempt, stopped>>

\* The select finds the deliveries closed: consumeOnce returns an error.
SeeClosed ==
    /\ loop = "select"
    /\ ~channelUp
    /\ loop' = "backoff"
    /\ UNCHANGED <<attempt, channelUp, stopped, failuresLeft>>

\* The select, or the wait for the backoff, finds stop closed: run returns.
SeeStop ==
    /\ loop \in {"select", "backoff"}
    /\ stopped
    /\ loop' = "gone"
    /\ channelUp' = FALSE
    /\ UNCHANGED <<attempt, stopped, failuresLeft>>

\* Mutants: run gives up one attempt early; it never gives up.
BackoffOver_OneShort ==
    /\ loop = "backoff"
    /\ attempt' = attempt + 1
    /\ loop' = IF attempt + 1 < MaxAttempts THEN "open" ELSE "gone"
    /\ UNCHANGED <<channelUp, stopped, failuresLeft>>
BackoffOver_NoLimit ==
    /\ loop = "backoff"
    /\ attempt' = attempt + 1
    /\ loop' = "open"
    /\ UNCHANGED <<channelUp, stopped, failuresLeft>>

\* The next attempt, or none: run returns after the last.
BackoffOver ==
    /\ loop = "backoff"
    /\ attempt' = attempt + 1
    /\ loop' = IF attempt < MaxAttempts THEN "open" ELSE "gone"
    /\ UNCHANGED <<channelUp, stopped, failuresLeft>>

\* Stop up to its Wait; a second call finds the flag and does not wait.
CloseStop ==
    /\ stopped' = TRUE
    /\ UNCHANGED <<loop, attempt, channelUp, failuresLeft>>
===============================================================================
