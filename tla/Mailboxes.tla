----------------------------- MODULE Mailboxes -----------------------------
(***************************************************************************)
(* What the message bus promises its users (main/cirvane_os.h:96-137),     *)
(* with no pool behind it: a message posted reaches each subscriber of its *)
(* type at most once, as it was posted and in the order of posting.  It    *)
(* may be lost to any of them, and no subscriber is shown one that was not *)
(* meant for it.                                                           *)
(***************************************************************************)
EXTENDS Sequences

CONSTANTS
  Service, Message,
  Subscribers,  \* of each message, the services that receive its type
  None

VARIABLES
  posted,   \* the message being delivered, or None
  owed,     \* the subscribers it has not been offered to
  inbox,    \* per service, the messages that wait, oldest first
  reading   \* per service, the message it works on, or None

vars == <<posted, owed, inbox, reading>>

Init ==
  /\ posted = None
  /\ owed = {}
  /\ inbox = [s \in Service |-> <<>>]
  /\ reading = [s \in Service |-> None]

Post(m) ==
  /\ posted = None
  /\ posted' = m
  /\ owed' = Subscribers[m]
  /\ UNCHANGED <<inbox, reading>>

Deliver(s) ==
  /\ s \in owed
  /\ owed' = owed \ {s}
  /\ inbox' = [inbox EXCEPT ![s] = Append(@, posted)]
  /\ UNCHANGED <<posted, reading>>

Lose(s) == s \in owed /\ owed' = owed \ {s} /\ UNCHANGED <<posted, inbox, reading>>

Close == owed = {} /\ posted' = None /\ UNCHANGED <<owed, inbox, reading>>

Read(s) ==
  /\ reading[s] = None
  /\ inbox[s] # <<>>
  /\ reading' = [reading EXCEPT ![s] = Head(inbox[s])]
  /\ inbox' = [inbox EXCEPT ![s] = Tail(@)]
  /\ UNCHANGED <<posted, owed>>

Finish(s) ==
  reading' = [reading EXCEPT ![s] = None] /\ UNCHANGED <<posted, owed, inbox>>

Next ==
  \/ Close
  \/ \E m \in Message : Post(m)
  \/ \E s \in Service : Deliver(s) \/ Lose(s) \/ Read(s) \/ Finish(s)

Spec == Init /\ [][Next]_vars

=============================================================================
