----------------------------- MODULE AmqpProbe -----------------------------
(***************************************************************************)
(* check_rabbitmq.py, the check Nagios runs against the broker: it sends   *)
(* some test messages and then QUIT to an exchange and waits until they    *)
(* come back.                                                              *)
(*                                                                         *)
(* With "ssl" on, a virtual host has two checks, one with TLS and one      *)
(* without, that use the same exchange and the same queue, and nothing     *)
(* keeps Nagios from running them at the same time.  Each call to the      *)
(* broker is a step.  The exchange and the queue outlive a run of the      *)
(* check, but not the broker.                                              *)
(***************************************************************************)
EXTENDS Naturals, Sequences

CONSTANTS
    Probes,    \* the checks of one virtual host
    Messages,  \* options.messages
    MaxRuns    \* bound on the runs of each check

VARIABLES
    exchange,  \* the exchange has been declared
    bound,     \* the queue has been declared and bound to it
    queue,     \* the messages in the queue
    pc,        \* pc[p]: where check p is
    seen,      \* seen[p]: setup_exchange got 404
    sent,      \* sent[p]: the test messages sent in this run
    inbox,     \* inbox[p]: what the broker has pushed to the consumer
    got,       \* got[p]: the test messages of this run that came back
    run,       \* run[p]: the number of the run
    verdict,   \* verdict[p]: what the last run reported
    shared     \* shared[p]: another check has run during this run

vars == <<exchange, bound, queue, pc, seen, sent, inbox, got, run, verdict, shared>>

\* What Nagios is told: OK, WARNING for what ends the process otherwise, CRITICAL, UNKNOWN.
exit_code(v) == [ok |-> 0, timeout |-> 1, error |-> 1, critical |-> 2, unknown |-> 3][v]

Running == {p \in Probes : pc[p] # "idle"}
Message(p, quit) == [by |-> p, run |-> run[p], quit |-> quit]

Init ==
    /\ exchange = FALSE /\ bound = FALSE /\ queue = <<>>
    /\ pc = [p \in Probes |-> "idle"]
    /\ seen = [p \in Probes |-> FALSE]
    /\ sent = [p \in Probes |-> 0]
    /\ inbox = [p \in Probes |-> <<>>]
    /\ got = [p \in Probes |-> 0]
    /\ run = [p \in Probes |-> 0]
    /\ verdict = [p \in Probes |-> "none"]
    /\ shared = [p \in Probes |-> FALSE]

Goto(p, l) == pc' = [pc EXCEPT ![p] = l]

\* The process ends, and with it its consumer.
Exit(p, v) ==
    /\ Goto(p, "idle")
    /\ verdict' = [verdict EXCEPT ![p] = v]
    /\ inbox' = [inbox EXCEPT ![p] = <<>>]

\* Nagios starts the check, which connects or fails to.
get_connection(p) ==
    /\ pc[p] = "idle" /\ run[p] < MaxRuns
    /\ run' = [run EXCEPT ![p] = @ + 1]
    /\ sent' = [sent EXCEPT ![p] = 0]
    /\ got' = [got EXCEPT ![p] = 0]
    /\ \/ /\ Goto(p, "exchange")
          /\ shared' = [q \in Probes |-> IF q = p THEN Running # {}
                                         ELSE q \in Running \/ shared[q]]
          /\ verdict' = [verdict EXCEPT ![p] = "none"]
       \/ /\ \E v \in {"critical", "unknown"} : verdict' = [verdict EXCEPT ![p] = v]
          /\ UNCHANGED <<pc, shared>>
    /\ UNCHANGED <<exchange, bound, queue, seen, inbox>>

\* Is the exchange there; if not, declare it.
setup_exchange(p) ==
    /\ \/ /\ pc[p] = "exchange"
          /\ seen' = [seen EXCEPT ![p] = ~exchange]
          /\ Goto(p, IF exchange THEN "declare" ELSE "create")
          /\ UNCHANGED exchange
       \/ /\ pc[p] = "create"
          /\ exchange' = TRUE
          /\ Goto(p, "declare")
          /\ UNCHANGED seen
    /\ UNCHANGED <<bound, queue, sent, inbox, got, run, verdict, shared>>

\* Mutant of Consumer_setup: the queue is not purged.
Consumer_setup_only(p) ==
    /\ \/ pc[p] = "declare" /\ bound' = TRUE /\ Goto(p, "purge")
       \/ pc[p] = "purge" /\ Goto(p, "send") /\ UNCHANGED bound
    /\ UNCHANGED <<exchange, queue, seen, sent, inbox, got, run, verdict, shared>>

\* Consumer.setup: declare and bind the queue, then purge it.
Consumer_setup(p) ==
    /\ \/ pc[p] = "declare" /\ bound' = TRUE /\ Goto(p, "purge") /\ UNCHANGED queue
       \/ pc[p] = "purge" /\ queue' = <<>> /\ Goto(p, "send") /\ UNCHANGED bound
    /\ UNCHANGED <<exchange, seen, sent, inbox, got, run, verdict, shared>>

send_message(p) ==
    /\ pc[p] = "send"
    /\ queue' = Append(queue, Message(p, sent[p] = Messages))
    /\ IF sent[p] = Messages
       THEN Goto(p, "consume") /\ UNCHANGED sent
       ELSE sent' = [sent EXCEPT ![p] = @ + 1] /\ UNCHANGED pc
    /\ UNCHANGED <<exchange, bound, seen, inbox, got, run, verdict, shared>>

\* Consumer.loop: basic_consume, and the alarm is set.
Consumer_loop(p) ==
    /\ pc[p] = "consume"
    /\ Goto(p, "loop")
    /\ UNCHANGED <<exchange, bound, queue, seen, sent, inbox, got, run, verdict, shared>>

\* The broker gives the next message to one of the consumers, and forgets it (no_ack).
Push(p) ==
    /\ pc[p] = "loop" /\ queue # <<>>
    /\ inbox' = [inbox EXCEPT ![p] = Append(@, Head(queue))]
    /\ queue' = Tail(queue)
    /\ UNCHANGED <<exchange, bound, pc, seen, sent, got, run, verdict, shared>>

\* chan.wait() and the callback: QUIT, whoever sent it, ends the loop.
callback(p) ==
    /\ pc[p] = "loop" /\ inbox[p] # <<>>
    /\ LET m == Head(inbox[p]) IN
       /\ got' = IF m.by = p /\ m.run = run[p] /\ ~m.quit THEN [got EXCEPT ![p] = @ + 1]
                 ELSE got
       /\ IF m.quit THEN Exit(p, "ok")
          ELSE inbox' = [inbox EXCEPT ![p] = Tail(@)] /\ UNCHANGED <<pc, verdict>>
    /\ UNCHANGED <<exchange, bound, queue, seen, sent, run, shared>>

alarm_handler(p) ==
    /\ pc[p] = "loop"
    /\ Exit(p, "timeout")
    /\ UNCHANGED <<exchange, bound, queue, seen, sent, got, run, shared>>

\* The broker restarts: what is not durable is gone, and the checks lose their connection.
RestartBroker ==
    /\ exchange \/ bound
    /\ exchange' = FALSE /\ bound' = FALSE /\ queue' = <<>>
    /\ pc' = [p \in Probes |-> "idle"]
    /\ inbox' = [p \in Probes |-> <<>>]
    /\ verdict' = [p \in Probes |-> IF p \in Running THEN "error" ELSE verdict[p]]
    /\ UNCHANGED <<seen, sent, got, run, shared>>

Next ==
    \/ \E p \in Probes :
         \/ get_connection(p) \/ setup_exchange(p) \/ Consumer_setup(p) \/ send_message(p)
         \/ Consumer_loop(p) \/ Push(p) \/ callback(p) \/ alarm_handler(p)
    \/ RestartBroker

Spec == Init /\ [][Next]_vars

-----------------------------------------------------------------------------
TypeOK ==
    /\ {exchange, bound} \subseteq BOOLEAN
    /\ \A p \in Probes :
         /\ pc[p] \in {"idle", "exchange", "create", "declare", "purge", "send", "consume",
                       "loop"}
         /\ sent[p] \in 0..Messages /\ got[p] \in 0..Messages
         /\ run[p] \in 0..MaxRuns
         /\ verdict[p] \in {"none", "ok", "critical", "unknown", "timeout", "error"}

\* "Ok: sent and received {} test messages" is true: a run that reports it has got all its
\* test messages back, whatever an earlier run that timed out has left in the queue.  Not
\* so if the virtual host's other check ran meanwhile: its QUIT may end this run, and
\* each may take or purge the messages of the other.
OkMeansDelivered ==
    \A p \in Probes :
      /\ verdict[p] # "none" /\ exit_code(verdict[p]) = 0
      /\ ~shared[p]
      => got[p] = Messages
=============================================================================
