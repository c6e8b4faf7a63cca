---------------------------- MODULE EventStream ----------------------------
(***************************************************************************)
(* GET /api/v1/stream (api/routes/stream.py): StreamGate admits at most    *)
(* Limit generators, each with a subscription of its own; the permit goes  *)
(* back in the generator's finally, the subscription in a task that        *)
(* outlives a cancelled request.  Messages reach who is subscribed.        *)
(***************************************************************************)
EXTENDS LiveConstants

VARIABLES
  active,     \* StreamGate.active
  conn,       \* conn[c]: the generator that serves tab c
  inbox,      \* inbox[c]: messages of its subscription not yet yielded
  zombies,    \* generators whose client is gone, not cancelled yet
  teardowns,  \* detached _close_pubsub tasks
  unsent      \* verdicts committed and not published yet

streamVars == <<active, conn, inbox, zombies, teardowns, unsent>>

StreamTypeOK ==
  /\ active \in Nat
  /\ conn \in [Tabs -> {"none", "started", "subscribed", "closing"}]
  /\ inbox \in [Tabs -> Nat]
  /\ zombies \in Nat
  /\ teardowns \in Nat
  /\ unsent \in Nat

StreamInit ==
  /\ active = 0
  /\ conn = [c \in Tabs |-> "none"]
  /\ inbox = [c \in Tabs |-> 0]
  /\ zombies = 0
  /\ teardowns = 0
  /\ unsent = 0

Becomes(c, there) == conn' = [conn EXCEPT ![c] = there]

Forgets(c) == inbox' = [inbox EXCEPT ![c] = 0]

\* StreamGate.acquire
Acquire == active < Limit /\ active' = active + 1

\* StreamGate.release, clamped at zero.
Release == active' = IF active = 0 THEN 0 ELSE active - 1

\* stream_verdicts: a permit, and a generator that has not run yet.
Admits(c) ==
  /\ conn[c] = "none"
  /\ Acquire
  /\ Becomes(c, "started")
  /\ UNCHANGED <<inbox, zombies, teardowns, unsent>>

\* 429, or 503 when no Redis is wired.
Refuses(c) ==
  /\ conn[c] = "none"
  /\ active >= Limit
  /\ UNCHANGED streamVars

Subscribes(c) ==
  /\ conn[c] = "started"
  /\ Becomes(c, "subscribed")
  /\ UNCHANGED <<active, inbox, zombies, teardowns, unsent>>

\* the subscription is made before the try that releases the permit
SubscribeLeaks(c) ==
  /\ "redis" \in Faults
  /\ conn[c] = "started"
  /\ Becomes(c, "none")
  /\ UNCHANGED <<active, inbox, zombies, teardowns, unsent>>

\* pubsub() or subscribe() raises: both finally blocks run, the body aborts.
SubscribeFails(c) ==
  /\ "redis" \in Faults
  /\ conn[c] = "started"
  /\ Release
  /\ Becomes(c, "none")
  /\ UNCHANGED <<inbox, zombies, teardowns, unsent>>

\* get_message raises a RedisError: the generator returns and awaits its
\* teardown, ...
StreamEnds(c) ==
  /\ "redis" \in Faults
  /\ conn[c] = "subscribed"
  /\ Becomes(c, "closing")
  /\ Forgets(c)
  /\ UNCHANGED <<active, zombies, teardowns, unsent>>

\* ... which may raise as well, and gives the permit back.
StreamCloses(c) ==
  /\ conn[c] = "closing"
  /\ Release
  /\ Becomes(c, "none")
  /\ UNCHANGED <<inbox, zombies, teardowns, unsent>>

\* The client is gone; the server has not noticed.
Abandons(c) ==
  /\ zombies' = zombies + (IF conn[c] = "none" THEN 0 ELSE 1)
  /\ Becomes(c, "none")
  /\ Forgets(c)
  /\ UNCHANGED <<active, teardowns, unsent>>

\* the teardown is awaited where the cancellation lands: the permit is kept
CancelledInTeardown ==
  /\ zombies > 0
  /\ teardowns < MaxTeardowns
  /\ zombies' = zombies - 1
  /\ teardowns' = teardowns + 1
  /\ UNCHANGED <<active, conn, inbox, unsent>>

\* The request is cancelled: the shielded await raises, the permit goes
\* back, and the teardown runs on by itself.
NoticesGone ==
  /\ zombies > 0
  /\ teardowns < MaxTeardowns
  /\ zombies' = zombies - 1
  /\ teardowns' = teardowns + 1
  /\ Release
  /\ UNCHANGED <<conn, inbox, unsent>>

\* _close_pubsub returns the connection to the pool.
TeardownEnds ==
  /\ teardowns > 0
  /\ teardowns' = teardowns - 1
  /\ UNCHANGED <<active, conn, inbox, zombies, unsent>>

\* publish_verdict_created: to the subscriptions there are, and to no other.
Publishes ==
  /\ unsent > 0
  /\ unsent' = unsent - 1
  /\ inbox' = [c \in Tabs |-> IF conn[c] = "subscribed" THEN inbox[c] + 1 ELSE inbox[c]]
  /\ UNCHANGED <<active, conn, zombies, teardowns>>

\* A publish that fails is logged and forgotten.
PublishFails ==
  /\ "redis" \in Faults
  /\ unsent > 0
  /\ unsent' = unsent - 1
  /\ UNCHANGED <<active, conn, inbox, zombies, teardowns>>

\* The generator yields the frame of its next message.
Yields(c) ==
  /\ conn[c] = "subscribed"
  /\ inbox[c] > 0
  /\ inbox' = [inbox EXCEPT ![c] = @ - 1]
  /\ UNCHANGED <<active, conn, zombies, teardowns, unsent>>

ServerStep ==
  \/ NoticesGone
  \/ TeardownEnds
  \/ Publishes
  \/ PublishFails
  \/ \E c \in Tabs : Subscribes(c)
=============================================================================
