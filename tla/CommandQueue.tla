---------------------------- MODULE CommandQueue ----------------------------
(***************************************************************************)
(* What the ring buffer, the driver that fills it and the command          *)
(* processor that drains it promise together: a first-in first-out queue   *)
(* of commands.  The recorded batch enters the queue whole and in order,   *)
(* the processor executes the oldest command and nothing else, each        *)
(* command once, and a submission made while the processor is switched on  *)
(* returns only when the queue is empty.  There are no addresses here, no  *)
(* padding and no wrapping.                                                *)
(***************************************************************************)
EXTENDS Naturals, Sequences

CONSTANT
  Commands    \* the commands a client can record

VARIABLES
  recorded,   \* commands recorded and not submitted yet
  queue,      \* commands submitted and not executed yet, oldest first
  executed,   \* commands executed since the submission being served
  enabled,    \* TRUE iff the command processor is switched on
  busy        \* TRUE while a submission is being served

queueVars == <<recorded, queue, executed, enabled, busy>>

QueueInit ==
  /\ recorded = <<>>
  /\ queue = <<>>
  /\ executed = <<>>
  /\ enabled = FALSE
  /\ busy = FALSE

Record(cmd) ==
  /\ ~busy
  /\ recorded' = Append(recorded, cmd)
  /\ UNCHANGED <<queue, executed, enabled, busy>>

Discard ==
  /\ ~busy
  /\ recorded' = <<>>
  /\ UNCHANGED <<queue, executed, enabled, busy>>

\* The batch goes behind everything that waits.  Commands submitted while the
\* processor is off stay queued until a submission finds it on.
Submit ==
  /\ ~busy
  /\ recorded # <<>>
  /\ queue' = queue \o recorded
  /\ recorded' = <<>>
  /\ busy' = enabled
  /\ UNCHANGED <<executed, enabled>>

Execute ==
  /\ busy
  /\ queue # <<>>
  /\ executed' = Append(executed, Head(queue))
  /\ queue' = Tail(queue)
  /\ UNCHANGED <<recorded, enabled, busy>>

\* The submission returns to the driver: nothing is left behind.
Return ==
  /\ busy
  /\ queue = <<>>
  /\ executed' = <<>>
  /\ busy' = FALSE
  /\ UNCHANGED <<recorded, queue, enabled>>

SwitchProcessor(on) ==
  /\ ~busy
  /\ enabled' = on
  /\ UNCHANGED <<recorded, queue, executed, busy>>

\* The guest restarts: what it recorded and what was queued is forgotten, the
\* device keeps running.
Restart ==
  /\ busy => queue = <<>>
  /\ recorded' = <<>>
  /\ queue' = <<>>
  /\ executed' = <<>>
  /\ busy' = FALSE
  /\ UNCHANGED enabled

QueueNext ==
  \/ \E cmd \in Commands : Record(cmd)
  \/ Discard
  \/ Submit
  \/ Execute
  \/ Return
  \/ \E on \in BOOLEAN : SwitchProcessor(on)
  \/ Restart

QueueSpec == QueueInit /\ [][QueueNext]_queueVars
=============================================================================
