-------------------------------- MODULE Broker --------------------------------
(***************************************************************************)
(* broker.Broker in one process: the AMQP connection, the publish channel  *)
(* that mu protects, and what Publish goes through.  Publish takes mu,     *)
(* sends and, still holding mu, waits for the broker's confirm or for the  *)
(* end of its context; the wait for mu itself heeds no context.  RabbitMQ  *)
(* may withhold a confirm for as long as it likes (a memory or disk alarm).*)
(***************************************************************************)
CONSTANTS
    Publisher,  \* goroutines that call Publish
    Nobody      \* holder of a free mutex

ASSUME PublisherAssumption == Nobody \notin Publisher

VARIABLES
    conn,    \* the connection: none yet, open, lost to the network, closed by Close
    closed,  \* the flag Close sets
    mu,      \* holder of the mutex
    pub      \* where each publisher is in Publish

brokerVars == <<conn, closed, mu, pub>>

BrokerTypeOK ==
    /\ conn \in {"none", "open", "lost", "closed"}
    /\ closed \in BOOLEAN
    /\ mu \in Publisher \cup {Nobody}
    /\ pub \in [Publisher -> {"idle", "lock", "confirm"}]

BrokerInit ==
    /\ conn = "none"
    /\ closed = FALSE
    /\ mu = Nobody
    /\ pub = [p \in Publisher |-> "idle"]

CallPublish(p) ==
    /\ pub[p] = "idle"
    /\ pub' = [pub EXCEPT ![p] = "lock"]
    /\ UNCHANGED <<conn, closed, mu>>

\* Mutant: the error return of a closed broker leaves mu locked.
Publish_KeepsLock(p) ==
    /\ pub[p] = "lock"
    /\ mu = Nobody
    /\ mu' = p
    /\ \/ ~closed /\ conn = "open" /\ pub' = [pub EXCEPT ![p] = "confirm"]
       \/ (closed \/ conn # "open") /\ pub' = [pub EXCEPT ![p] = "idle"]
    /\ UNCHANGED <<conn, closed>>

\* Mutant: the flag is not looked at.
Publish_AfterClose(p) ==
    /\ pub[p] = "lock"
    /\ mu = Nobody
    /\ mu' = p
    /\ pub' = [pub EXCEPT ![p] = "confirm"]
    /\ UNCHANGED <<conn, closed>>

\* Lock, the flag, the send; a broker that is closed or cut off is an error.
Publish(p) ==
    /\ pub[p] = "lock"
    /\ mu = Nobody
    /\ \/ /\ ~closed /\ conn = "open"
          /\ mu' = p
          /\ pub' = [pub EXCEPT ![p] = "confirm"]
       \/ /\ closed \/ conn # "open"
          /\ pub' = [pub EXCEPT ![p] = "idle"]
          /\ UNCHANGED mu
    /\ UNCHANGED <<conn, closed>>

EndWait(p) ==
    /\ pub[p] = "confirm"
    /\ pub' = [pub EXCEPT ![p] = "idle"]
    /\ mu' = Nobody
    /\ UNCHANGED <<conn, closed>>

\* The server acks or nacks; Publish returns and unlocks.
Confirm(p) == conn = "open" /\ EndWait(p)

\* The library ends the wait of a connection that is gone.
ConfirmsClosed(p) == conn # "open" /\ EndWait(p)

\* Mutant: the wait takes no context.
Abandon_Never(p, over) == FALSE /\ over /\ EndWait(p)

\* WaitContext returns when the caller's context is over.
Abandon(p, over) == over /\ EndWait(p)

\* Close takes mu for the flag only.
MarkClosed ==
    /\ mu = Nobody
    /\ closed' = TRUE
    /\ UNCHANGED <<conn, mu, pub>>

\* The rest of Close, when the server has answered both closes.
CloseConnection ==
    /\ conn' = "closed"
    /\ UNCHANGED <<closed, mu, pub>>
===============================================================================
