-------------------------------- MODULE Bus --------------------------------
(***************************************************************************)
(* The message bus of main/cirvane_os.c: a pool of slots with a mask of    *)
(* the free ones, and a bounded FreeRTOS queue per service that holds the  *)
(* slots sent to it.  The console publishes (main/cirvane.c cmd_led,       *)
(* cmd_scan), one copy per subscriber; a service takes a message from its  *)
(* queue, works on it and gives the slot back.  An action is what runs     *)
(* under the bus lock, or one queue call: tasks are switched in between.   *)
(*                                                                         *)
(* A service task can be deleted with a message in its hand (by the        *)
(* supervisor or by svcctl): nobody gives that slot back.  `lost' records  *)
(* these slots; the code keeps no such record.  Left out: peak_used, which *)
(* nothing reads back.                                                     *)
(***************************************************************************)
EXTENDS Integers, Sequences, FiniteSetsExt

CONSTANTS
  ServiceCount,  \* s_service_count
  PoolSlots,     \* CIRVANE_MSG_POOL_SLOTS
  MailboxDepth,  \* CIRVANE_MAILBOX_DEPTH
  Message,       \* what a slot holds: type and payload
  Blank,         \* the message of a slot just allocated: zeroes, no type
  Subscribers,   \* s_subscribers, by message: fixed before the tasks start
  StatMax,       \* bound of alloc_fails and total_drops in the model
  None           \* NULL

VARIABLES
  free,     \* s_msg_free_mask, as the set of its slots
  pool,     \* s_msg_pool
  mailbox,  \* per service, the queue of slots
  hand,     \* per service, the slot its tick works on
  shell,    \* the locals of cirvane_bus_publish in the console task
  stats,    \* s_bus_stats
  lost      \* slots whose holder was deleted

busVars == <<free, pool, mailbox, hand, shell, stats, lost>>

Service == 0 .. ServiceCount - 1
Slot    == 0 .. PoolSlots - 1

ASSUME BusAssumption ==
  /\ ServiceCount \in Nat \ {0} /\ PoolSlots \in Nat \ {0}
  /\ MailboxDepth \in Nat \ {0} /\ StatMax \in Nat
  /\ Subscribers \in [Message -> SUBSET Service]
  /\ Blank \in Message /\ Subscribers[Blank] = {}
  /\ None \notin Slot \cup Message

\* With the two services cirvane.c registers: 32 > 2 * (4 + 1) + 1, a slot for each
\* place of each queue, for the message each task works on and for the console's.
ASSUME PoolAssumption == PoolSlots > ServiceCount * (MailboxDepth + 1) + 1

BusType ==
  /\ free \subseteq Slot /\ lost \subseteq Slot
  /\ pool \in [Slot -> Message]
  /\ mailbox \in [Service -> Seq(Slot)]
  /\ hand \in [Service -> Slot \cup {None}]
  /\ shell \in [msg : Slot \cup {None}, copy : Slot \cup {None}, next : 0 .. ServiceCount]
  /\ stats \in [alloc_fails : 0 .. StatMax, total_drops : 0 .. StatMax]

BusInit ==
  /\ free = Slot
  /\ pool = [i \in Slot |-> Blank]
  /\ mailbox = [s \in Service |-> <<>>]
  /\ hand = [s \in Service |-> None]
  /\ shell = [msg |-> None, copy |-> None, next |-> 0]
  /\ stats = [alloc_fails |-> 0, total_drops |-> 0]
  /\ lost = {}

-----------------------------------------------------------------------------
(* cirvane_bus_alloc and cirvane_bus_free.                                 *)

\* The lowest free slot is taken; its new owner writes m into it.
Alloc(i, m) ==
  /\ free # {}
  /\ i = Min(free)
  /\ free' = free \ {i}
  /\ pool' = [pool EXCEPT ![i] = m]
  /\ UNCHANGED stats

AllocFails ==
  /\ free = {}
  /\ stats.alloc_fails < StatMax
  /\ stats' = [stats EXCEPT !.alloc_fails = @ + 1]
  /\ UNCHANGED <<free, pool>>

-----------------------------------------------------------------------------
(* cirvane_bus_publish, run by the console.                                *)

\* cmd_led or cmd_scan allocates, fills in the message and calls publish.
\* cmd_selftest allocates and frees a slot at once: a message for nobody, as
\* publish makes of one without a type.
Post(m) ==
  /\ shell.msg = None
  /\ \/ \E i \in free : Alloc(i, m) /\ shell' = [shell EXCEPT !.msg = i, !.next = 0]
     \/ AllocFails /\ UNCHANGED shell
  /\ UNCHANGED <<mailbox, hand, lost>>

UnservedUnmasked ==
  IF shell.msg = None THEN {} ELSE {s \in Service : s >= shell.next}

\* The subscribers of the message the loop has not come to yet.
Unserved ==
  IF shell.msg = None THEN {} ELSE {s \in Subscribers[pool[shell.msg]] : s >= shell.next}

\* The copy for the next subscriber, who goes without when the pool is empty.
Copy ==
  /\ shell.copy = None
  /\ \E s \in Unserved :
       /\ \A t \in Unserved : s <= t
       /\ \/ \E i \in free : Alloc(i, pool[shell.msg])
                             /\ shell' = [shell EXCEPT !.copy = i, !.next = s]
          \/ AllocFails /\ shell' = [shell EXCEPT !.next = s + 1]
  /\ UNCHANGED <<mailbox, hand, lost>>

SendKeepingDropped ==
  /\ shell.copy # None
  /\ IF Len(mailbox[shell.next]) < MailboxDepth
     THEN mailbox' = [mailbox EXCEPT ![shell.next] = Append(@, shell.copy)] /\ UNCHANGED stats
     ELSE stats' = [stats EXCEPT !.total_drops = @ + 1] /\ UNCHANGED mailbox
  /\ shell' = [shell EXCEPT !.copy = None, !.next = @ + 1]
  /\ UNCHANGED <<free, pool, hand, lost>>

SendFreeing ==
  /\ shell.copy # None
  /\ IF Len(mailbox[shell.next]) < MailboxDepth
     THEN mailbox' = [mailbox EXCEPT ![shell.next] = Append(@, shell.copy)] /\ UNCHANGED stats
     ELSE stats' = [stats EXCEPT !.total_drops = @ + 1] /\ UNCHANGED mailbox
  /\ free' = free \cup {shell.copy}
  /\ shell' = [shell EXCEPT !.copy = None, !.next = @ + 1]
  /\ UNCHANGED <<pool, hand, lost>>

\* The copy goes to the back of the queue, or back to the pool when that is full.
Send ==
  /\ shell.copy # None
  /\ \/ /\ Len(mailbox[shell.next]) < MailboxDepth
        /\ mailbox' = [mailbox EXCEPT ![shell.next] = Append(@, shell.copy)]
        /\ UNCHANGED <<free, stats>>
     \/ /\ Len(mailbox[shell.next]) = MailboxDepth
        /\ stats.total_drops < StatMax
        /\ stats' = [stats EXCEPT !.total_drops = @ + 1]
        /\ free' = free \cup {shell.copy}
        /\ UNCHANGED mailbox
  /\ shell' = [shell EXCEPT !.copy = None, !.next = @ + 1]
  /\ UNCHANGED <<pool, hand, lost>>

\* The last statement of publish: the original goes back.
EndPost ==
  /\ shell.msg # None
  /\ shell.copy = None
  /\ Unserved = {}
  /\ free' = free \cup {shell.msg}
  /\ shell' = [shell EXCEPT !.msg = None, !.next = 0]
  /\ UNCHANGED <<pool, mailbox, hand, stats, lost>>

-----------------------------------------------------------------------------
(* A service's tick (led_service_tick, wifi_service_tick).                 *)

\* The slot goes back at the start of the work on it.
RecvFreeing(s) ==
  /\ hand[s] = None
  /\ mailbox[s] # <<>>
  /\ hand' = [hand EXCEPT ![s] = Head(mailbox[s])]
  /\ mailbox' = [mailbox EXCEPT ![s] = Tail(@)]
  /\ free' = free \cup {Head(mailbox[s])}
  /\ UNCHANGED <<pool, shell, stats, lost>>

\* cirvane_bus_recv with no wait.
Recv(s) ==
  /\ hand[s] = None
  /\ mailbox[s] # <<>>
  /\ hand' = [hand EXCEPT ![s] = Head(mailbox[s])]
  /\ mailbox' = [mailbox EXCEPT ![s] = Tail(@)]
  /\ UNCHANGED <<free, pool, shell, stats, lost>>

\* cirvane_bus_free at the end of the work.
Release(s) ==
  /\ hand[s] # None
  /\ free' = free \cup {hand[s]}
  /\ hand' = [hand EXCEPT ![s] = None]
  /\ UNCHANGED <<pool, mailbox, shell, stats, lost>>

\* vTaskDelete of the service's task.  Its queue and what waits in it stay,
\* for the task that a restart creates.
Delete(s) ==
  /\ lost' = lost \cup ({hand[s]} \ {None})
  /\ hand' = [hand EXCEPT ![s] = None]
  /\ UNCHANGED <<free, pool, mailbox, shell, stats>>

BusNext ==
  \/ Copy \/ Send \/ EndPost
  \/ \E m \in Message : Post(m)
  \/ \E s \in Service : Recv(s) \/ Release(s) \/ Delete(s)

BusSpec == BusInit /\ [][BusNext]_busVars

-----------------------------------------------------------------------------
(* Properties.                                                             *)

Waiting(s) == {mailbox[s][n] : n \in 1 .. Len(mailbox[s])}
Hands      == {hand[s] : s \in Service} \cup {shell.msg, shell.copy}

\* Every slot is free, lost with a deleted task, or in exactly one of the
\* queues and hands, and in a queue once: no slot is freed or sent twice, and
\* none leaves the pool except with a deleted task.
EverySlotHasOneOwner ==
  /\ free \cap lost = {}
  /\ Slot = free \cup lost \cup (Hands \ {None}) \cup UNION {Waiting(s) : s \in Service}
  /\ \A s \in Service :
       /\ \A m, n \in 1 .. Len(mailbox[s]) : mailbox[s][m] = mailbox[s][n] => m = n
       /\ Waiting(s) \cap (free \cup lost \cup Hands) = {}
       /\ \A t \in Service \ {s} : Waiting(s) \cap Waiting(t) = {}
  /\ (free \cup lost) \cap Hands = {}
  /\ shell.msg # None => shell.msg # shell.copy
  /\ \A s \in Service : hand[s] # None =>
       /\ hand[s] \notin {shell.msg, shell.copy}
       /\ \A t \in Service \ {s} : hand[s] # hand[t]

\* The pool is never found empty unless tasks were deleted with a message in
\* hand: with a slot for every place a message can be in, backpressure comes
\* from full mailboxes alone, and an alloc that fails tells of a leak.
ExhaustionTellsOfLoss == stats.alloc_fails > 0 => lost # {}

\* A service works on messages of types it subscribed to only: no slot is given
\* to another message between the copy made for a subscriber and the end of the
\* work on it, whoever posts, drops or dies in between.
ServicesReadTheirOwn ==
  \A s \in Service : hand[s] # None => s \in Subscribers[pool[hand[s]]]

\* The messages behind slots: in a hand, and in a queue under a content p of
\* the pool.
ContentOf(slot) == IF slot = None THEN None ELSE pool[slot]
Contents(q, p)  == [n \in 1 .. Len(q) |-> p[q[n]]]

Posted  == ContentOf(shell.msg)
Inbox   == [s \in Service |-> Contents(mailbox[s], pool)]
Reading == [s \in Service |-> ContentOf(hand[s])]

\* What the services see of the pool is what Mailboxes promises: no slot is
\* given to another message while one still waits in it or is worked on.
Abstract == INSTANCE Mailboxes WITH
  posted <- Posted, owed <- Unserved, inbox <- Inbox, reading <- Reading

ImplementsMailboxes == Abstract!Spec

=============================================================================
