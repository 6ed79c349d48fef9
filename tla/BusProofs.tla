------------------------------ MODULE BusProofs ------------------------------
(***************************************************************************)
(* Theorems about Bus, for any number of services, slots and places in the *)
(* mailboxes.                                                              *)
(***************************************************************************)
EXTENDS Bus, SequenceTheorems, FiniteSetTheorems, TLAPS

-----------------------------------------------------------------------------
(* Queues of slots.                                                        *)

Entries(q)  == {q[n] : n \in 1 .. Len(q)}
OneToOne(q) == \A m, n \in 1 .. Len(q) : q[m] = q[n] => m = n

\* What a queue holds once a slot that was not in it is put at its back.
LEMMA Appended ==
  ASSUME NEW q \in Seq(Slot), NEW i \in Slot, i \notin Entries(q), OneToOne(q)
  PROVE  /\ Append(q, i) \in Seq(Slot)
         /\ Entries(Append(q, i)) = Entries(q) \cup {i}
         /\ OneToOne(Append(q, i))
<1>1. /\ Append(q, i) \in Seq(Slot)
      /\ Len(q) \in Nat
      /\ Len(Append(q, i)) = Len(q) + 1
      /\ \A n \in 1 .. Len(q) : Append(q, i)[n] = q[n]
      /\ Append(q, i)[Len(q) + 1] = i
  BY AppendProperties, LenProperties
<1>2. 1 .. Len(q) + 1 = 1 .. Len(q) \cup {Len(q) + 1}
  BY <1>1
<1>3. Entries(Append(q, i)) = Entries(q) \cup {i}
  <2>1. ASSUME NEW x \in Entries(Append(q, i)) PROVE x \in Entries(q) \cup {i}
    BY <1>1, <1>2 DEF Entries
  <2>2. ASSUME NEW x \in Entries(q) \cup {i} PROVE x \in Entries(Append(q, i))
    <3>1. CASE x = i
      BY <3>1, <1>1, <1>2 DEF Entries
    <3>2. CASE x \in Entries(q)
      <4>1. PICK n \in 1 .. Len(q) : x = q[n]
        BY <3>2 DEF Entries
      <4>2. n \in 1 .. Len(Append(q, i)) /\ x = Append(q, i)[n]
        BY <4>1, <1>1
      <4>3. QED
        BY <4>2 DEF Entries
    <3>3. QED
      BY <2>2, <3>1, <3>2
  <2>3. QED
    BY <2>1, <2>2
<1>4. OneToOne(Append(q, i))
  <2> SUFFICES ASSUME NEW m \in 1 .. Len(q) + 1, NEW n \in 1 .. Len(q) + 1,
                      Append(q, i)[m] = Append(q, i)[n]
               PROVE  m = n
    BY <1>1 DEF OneToOne
  <2>1. \A k \in 1 .. Len(q) : Append(q, i)[k] \in Entries(q)
    BY <1>1 DEF Entries
  <2>2. CASE m = Len(q) + 1 \/ n = Len(q) + 1
    BY <2>1, <2>2, <1>1, <1>2
  <2>3. CASE m \in 1 .. Len(q) /\ n \in 1 .. Len(q)
    BY <2>3, <1>1 DEF OneToOne
  <2>4. QED
    BY <2>2, <2>3, <1>2
<1>5. QED
  BY <1>1, <1>3, <1>4

\* What a queue holds once the slot at its front is taken.
LEMMA Taken ==
  ASSUME NEW q \in Seq(Slot), q # <<>>, OneToOne(q)
  PROVE  /\ Tail(q) \in Seq(Slot)
         /\ Head(q) \in Entries(q)
         /\ Entries(Tail(q)) = Entries(q) \ {Head(q)}
         /\ OneToOne(Tail(q))
<1>1. /\ Tail(q) \in Seq(Slot)
      /\ Len(q) \in Nat \ {0}
      /\ Len(Tail(q)) = Len(q) - 1
      /\ \A n \in 1 .. Len(Tail(q)) : Tail(q)[n] = q[n + 1]
      /\ Head(q) = q[1]
  BY HeadTailProperties, LenProperties, EmptySeq
<1>2. Head(q) \in Entries(q)
  BY <1>1 DEF Entries
<1>3. ASSUME NEW x \in Entries(Tail(q)) PROVE x \in Entries(q) \ {Head(q)}
  <2>1. PICK n \in 1 .. Len(q) - 1 : x = q[n + 1]
    BY <1>1, <1>3 DEF Entries
  <2>2. n + 1 \in 1 .. Len(q) /\ 1 \in 1 .. Len(q) /\ n + 1 # 1
    BY <2>1, <1>1
  <2>3. QED
    BY <2>1, <2>2, <1>1 DEF Entries, OneToOne
<1>4. ASSUME NEW x \in Entries(q) \ {Head(q)} PROVE x \in Entries(Tail(q))
  <2>1. PICK n \in 1 .. Len(q) : x = q[n]
    BY <1>4 DEF Entries
  <2>2. n - 1 \in 1 .. Len(Tail(q))
    BY <2>1, <1>4, <1>1
  <2>3. Tail(q)[n - 1] = x
    BY <2>1, <2>2, <1>1
  <2>4. QED
    BY <2>2, <2>3 DEF Entries
<1>5. OneToOne(Tail(q))
  <2> SUFFICES ASSUME NEW m \in 1 .. Len(Tail(q)), NEW n \in 1 .. Len(Tail(q)),
                      Tail(q)[m] = Tail(q)[n]
               PROVE  m = n
    BY DEF OneToOne
  <2>1. m + 1 \in 1 .. Len(q) /\ n + 1 \in 1 .. Len(q) /\ q[m + 1] = q[n + 1]
    BY <1>1
  <2>2. m + 1 = n + 1
    BY <2>1 DEF OneToOne
  <2>3. QED
    BY <2>2, <1>1
<1>6. QED
  BY <1>1, <1>2, <1>3, <1>4, <1>5

-----------------------------------------------------------------------------
(* The invariant: types and ownership, and what the console holds between   *)
(* two steps of a publish.                                                 *)

\* EverySlotHasOneOwner, said of the contents of the queues.
SlotsOwned ==
  /\ free \cap lost = {}
  /\ Slot = free \cup lost \cup (Hands \ {None}) \cup UNION {Entries(mailbox[s]) : s \in Service}
  /\ \A s \in Service :
       /\ OneToOne(mailbox[s])
       /\ Entries(mailbox[s]) \cap (free \cup lost \cup Hands) = {}
       /\ \A t \in Service \ {s} : Entries(mailbox[s]) \cap Entries(mailbox[t]) = {}
  /\ (free \cup lost) \cap Hands = {}
  /\ shell.msg # None => shell.msg # shell.copy
  /\ \A s \in Service : hand[s] # None =>
       /\ hand[s] \notin {shell.msg, shell.copy}
       /\ \A t \in Service \ {s} : hand[s] # hand[t]

ShellInOrder ==
  shell.copy # None => shell.msg # None /\ shell.next \in Unserved

\* The copy holds what is being posted.
CopyOfPosted == shell.copy # None => pool[shell.copy] = pool[shell.msg]

BusInv == BusType /\ SlotsOwned /\ ShellInOrder /\ CopyOfPosted

LEMMA OwnedByOne == SlotsOwned => EverySlotHasOneOwner
BY DEF SlotsOwned, EverySlotHasOneOwner, OneToOne, Waiting, Entries

LEMMA BusInitInv == ASSUME BusInit PROVE BusInv
<1> USE BusAssumption DEF BusInit
<1>1. BusType
  BY EmptySeq DEF BusType, Service
<1>2. SlotsOwned
  <2>1. \A s \in Service : Entries(mailbox[s]) = {} /\ OneToOne(mailbox[s])
    BY DEF Entries, OneToOne
  <2>2. Hands \subseteq {None}
    BY DEF Hands
  <2>3. QED
    BY <2>1, <2>2 DEF SlotsOwned
<1>3. ShellInOrder
  BY DEF ShellInOrder, Unserved
<1>4. QED
  BY <1>1, <1>2, <1>3 DEF BusInv, BusInit, CopyOfPosted

ShellType == [msg : Slot \cup {None}, copy : Slot \cup {None}, next : 0 .. ServiceCount]

LEMMA AllocType ==
  ASSUME BusType, NEW m \in Message, NEW i \in free, Alloc(i, m), shell' \in ShellType,
         mailbox' = mailbox, hand' = hand, lost' = lost
  PROVE  BusType'
BY DEF Alloc, BusType, ShellType

\* What an action does that takes a slot from the pool into the console's hands.
LEMMA AllocOwned ==
  ASSUME BusInv, NEW m \in Message, NEW i \in free, Alloc(i, m),
         mailbox' = mailbox, hand' = hand, lost' = lost,
         \/ shell.msg = None /\ shell'.msg = i /\ shell'.copy = shell.copy
         \/ shell.copy = None /\ shell'.copy = i /\ shell'.msg = shell.msg
  PROVE  SlotsOwned'
<1> USE BusAssumption DEF BusInv
<1>1. i \in Slot /\ i # None /\ free' = free \ {i}
  BY DEF BusType, Alloc
<1>2. Hands' \ {None} = (Hands \ {None}) \cup {i} /\ Hands' \subseteq Hands \cup {i, None}
  BY <1>1 DEF Hands
<1>3. \A s \in Service : Entries(mailbox'[s]) = Entries(mailbox[s]) /\ i \notin Entries(mailbox[s]) /\ None \notin Entries(mailbox[s])
  BY DEF SlotsOwned, Entries, BusType
<1>4. i \notin Hands /\ i \notin lost
  BY DEF SlotsOwned
<1>5. None \notin free \cup lost
  BY DEF BusType
<1>6. shell'.msg # None => shell'.msg # shell'.copy
  BY <1>1, <1>4 DEF SlotsOwned, Hands
<1>7. \A s \in Service : hand[s] # None =>
         /\ hand[s] \notin {shell'.msg, shell'.copy}
         /\ \A t \in Service \ {s} : hand[s] # hand[t]
  BY <1>4 DEF SlotsOwned, Hands
<1>8. QED
  BY <1>1, <1>2, <1>3, <1>4, <1>5, <1>6, <1>7 DEF SlotsOwned

LEMMA AllocFailsInv ==
  ASSUME BusInv, AllocFails, mailbox' = mailbox, hand' = hand, lost' = lost,
         shell' \in ShellType, shell'.msg = shell.msg, shell'.copy = shell.copy,
         shell.copy = None
  PROVE  BusInv'
<1> USE DEF BusInv
<1>1. BusType'
  <2>1. stats.alloc_fails + 1 \in 0 .. StatMax
    BY BusAssumption DEF AllocFails, BusType
  <2>2. stats' \in [alloc_fails : 0 .. StatMax, total_drops : 0 .. StatMax]
    BY <2>1 DEF AllocFails, BusType
  <2>3. QED
    BY <2>2 DEF AllocFails, BusType, ShellType
<1>2. SlotsOwned'
  BY DEF AllocFails, SlotsOwned, Hands
<1>3. QED
  BY <1>1, <1>2 DEF AllocFails, ShellInOrder, CopyOfPosted

LEMMA PostInv == ASSUME BusInv, NEW m \in Message, Post(m) PROVE BusInv'
<1> USE BusAssumption DEF BusInv
<1>1. shell \in ShellType /\ shell.msg = None /\ shell.copy = None
  BY DEF Post, BusType, ShellType, ShellInOrder
<1>2. CASE AllocFails /\ UNCHANGED shell
  BY <1>1, <1>2, AllocFailsInv DEF Post
<1>3. ASSUME NEW i \in free, Alloc(i, m), shell' = [shell EXCEPT !.msg = i, !.next = 0]
      PROVE  BusInv'
  <2>1. i \in Slot /\ 0 \in 0 .. ServiceCount
    BY DEF BusType
  <2>2. shell' \in ShellType /\ shell'.msg = i /\ shell'.copy = None
    <3> USE <1>1, <1>3, <2>1 DEF ShellType
    <3>1. shell' \in ShellType
      OBVIOUS
    <3>2. shell'.msg = i
      OBVIOUS
    <3>3. shell'.copy = None
      OBVIOUS
    <3>4. QED
      BY <3>1, <3>2, <3>3
  <2>3. BusType'
    BY <1>3, <2>1, <2>2, AllocType DEF Post
  <2>4. SlotsOwned'
    BY <1>1, <1>3, <2>2, AllocOwned DEF Post
  <2>5. ShellInOrder'
    BY <2>2 DEF ShellInOrder
  <2>6. QED
    BY <2>2, <2>3, <2>4, <2>5 DEF CopyOfPosted
<1>4. QED
  BY <1>2, <1>3 DEF Post

LEMMA CopyInv == ASSUME BusInv, Copy PROVE BusInv'
<1> USE BusAssumption DEF BusInv
<1>1. PICK s \in Unserved :
        \/ \E i \in free : Alloc(i, pool[shell.msg]) /\ shell' = [shell EXCEPT !.copy = i, !.next = s]
        \/ AllocFails /\ shell' = [shell EXCEPT !.next = s + 1]
  BY DEF Copy
<1>2. /\ shell \in ShellType /\ shell.msg \in Slot /\ shell.msg # None
      /\ pool[shell.msg] \in Message /\ s \in Service /\ s \in Subscribers[pool[shell.msg]]
  BY DEF BusType, ShellType, Unserved
<1>3. /\ shell.copy = None /\ s \in 0 .. ServiceCount /\ s + 1 \in 0 .. ServiceCount
      /\ mailbox' = mailbox /\ hand' = hand /\ lost' = lost
  <2>1. s \in 0 .. ServiceCount /\ s + 1 \in 0 .. ServiceCount
    BY <1>2 DEF Service
  <2>2. shell.copy = None /\ mailbox' = mailbox /\ hand' = hand /\ lost' = lost
    BY DEF Copy
  <2>3. QED
    BY <2>1, <2>2
<1>4. CASE AllocFails /\ shell' = [shell EXCEPT !.next = s + 1]
  <2>1. shell' \in ShellType
    BY <1>2, <1>3, <1>4 DEF ShellType
  <2>2. shell'.msg = shell.msg /\ shell'.copy = shell.copy
    BY <1>2, <1>4 DEF ShellType
  <2>3. QED
    BY <1>3, <1>4, <2>1, <2>2, AllocFailsInv
<1>5. ASSUME NEW i \in free, Alloc(i, pool[shell.msg]), shell' = [shell EXCEPT !.copy = i, !.next = s]
      PROVE  BusInv'
  <2>0. i \in Slot
    BY DEF BusType
  <2>1. shell' \in ShellType /\ shell'.msg = shell.msg /\ shell'.copy = i /\ shell'.next = s
    <3> USE <1>2, <1>3, <1>5, <2>0 DEF ShellType
    <3>1. shell' \in ShellType
      OBVIOUS
    <3>2. shell'.msg = shell.msg
      OBVIOUS
    <3>3. shell'.copy = i
      OBVIOUS
    <3>4. shell'.next = s
      OBVIOUS
    <3>5. QED
      BY <3>1, <3>2, <3>3, <3>4
  <2>2. BusType'
    BY <1>2, <1>3, <1>5, <2>1, AllocType
  <2>3. SlotsOwned'
    BY <1>2, <1>3, <1>5, <2>1, AllocOwned
  <2>4. pool'[shell.msg] = pool[shell.msg]
    <3>1. shell.msg \notin free
      BY DEF SlotsOwned, Hands
    <3>2. QED
      BY <1>2, <1>5, <3>1 DEF Alloc, BusType
  <2>5. s \in Unserved'
    BY <1>2, <2>1, <2>4 DEF Unserved, Service
  <2>6. ShellInOrder'
    BY <1>2, <2>1, <2>5 DEF ShellInOrder
  <2>7. CopyOfPosted'
    <3>1. pool'[i] = pool[shell.msg]
      BY <1>2, <1>5, <2>0 DEF Alloc, BusType
    <3>2. QED
      BY <2>1, <2>4, <3>1 DEF CopyOfPosted
  <2>8. QED
    BY <2>2, <2>3, <2>6, <2>7
<1>6. QED
  BY <1>1, <1>4, <1>5

\* Nobody but the console holds what it holds.
LEMMA ShellHolds ==
  ASSUME BusInv, NEW x \in {shell.msg, shell.copy}, x # None
  PROVE  /\ x \in Slot /\ x \notin free /\ x \notin lost
         /\ \A s \in Service : x \notin Entries(mailbox[s]) /\ hand[s] # x
<1>1. x \in Hands
  BY DEF Hands
<1>2. QED
  BY <1>1 DEF BusInv, BusType, SlotsOwned

\* Nobody but a service holds what its task works on.
LEMMA TaskHolds ==
  ASSUME BusInv, NEW t \in Service, hand[t] # None
  PROVE  /\ hand[t] \in Slot /\ hand[t] \notin free /\ hand[t] \notin lost
         /\ hand[t] \notin {shell.msg, shell.copy}
         /\ \A s \in Service : hand[t] \notin Entries(mailbox[s]) /\ (s # t => hand[s] # hand[t])
<1>1. hand[t] \in Hands
  BY DEF Hands
<1>2. QED
  BY <1>1 DEF BusInv, BusType, SlotsOwned

LEMMA SendInv == ASSUME BusInv, Send PROVE BusInv'
<1> USE BusAssumption DEF BusInv
<1> DEFINE s == shell.next
           x == shell.copy
<1>1. /\ shell \in ShellType /\ x # None /\ shell.msg # None /\ s \in Unserved
      /\ pool' = pool /\ hand' = hand /\ lost' = lost
  BY DEF Send, BusType, ShellType, ShellInOrder
<1>2. s \in Service /\ s + 1 \in 0 .. ServiceCount
  <2>1. s \in Service
    BY <1>1 DEF Unserved, BusType, ShellType
  <2>2. QED
    BY <2>1 DEF Service
<1>3. x \in Slot /\ x \notin free \cup lost /\ \A t \in Service : x \notin Entries(mailbox[t]) /\ hand[t] # x
  BY <1>1, ShellHolds
<1>4. shell' \in ShellType /\ shell'.msg = shell.msg /\ shell'.copy = None
  <2> USE <1>1, <1>2 DEF ShellType, Send
  <2>1. shell' \in ShellType
    OBVIOUS
  <2>2. shell'.msg = shell.msg
    OBVIOUS
  <2>3. shell'.copy = None
    OBVIOUS
  <2>4. QED
    BY <2>1, <2>2, <2>3
<1>5. Hands \ {None} = (Hands' \ {None}) \cup {x} /\ x \notin Hands' /\ Hands' \subseteq Hands \cup {None}
  BY <1>1, <1>3, <1>4 DEF Hands, SlotsOwned
<1>6. CASE mailbox' = [mailbox EXCEPT ![s] = Append(@, x)] /\ UNCHANGED <<free, stats>>
  <2>1. /\ mailbox[s] \in Seq(Slot) /\ OneToOne(mailbox[s]) /\ x \notin Entries(mailbox[s])
        /\ mailbox'[s] = Append(mailbox[s], x)
        /\ \A t \in Service \ {s} : mailbox'[t] = mailbox[t]
    BY <1>2, <1>3, <1>6 DEF BusType, SlotsOwned
  <2>2. /\ mailbox'[s] \in Seq(Slot) /\ OneToOne(mailbox'[s])
        /\ Entries(mailbox'[s]) = Entries(mailbox[s]) \cup {x}
        /\ \A t \in Service \ {s} : Entries(mailbox'[t]) = Entries(mailbox[t])
    BY <2>1, <1>2, <1>3, Appended
  <2>3. BusType'
    BY <1>1, <1>2, <1>4, <1>6, <2>2 DEF BusType, ShellType
  <2>4. SlotsOwned'
    <3>1. /\ free' \cap lost' = {} /\ (free' \cup lost') \cap Hands' = {}
          /\ None \notin free' \cup lost'
      BY <1>1, <1>5, <1>6 DEF SlotsOwned, BusType
    <3>2. Slot = free' \cup lost' \cup (Hands' \ {None}) \cup UNION {Entries(mailbox'[t]) : t \in Service}
      <4>1. UNION {Entries(mailbox'[t]) : t \in Service} = {x} \cup UNION {Entries(mailbox[t]) : t \in Service}
        BY <1>2, <2>2
      <4>2. QED
        BY <1>1, <1>5, <1>6, <4>1 DEF SlotsOwned
    <3>3. \A t \in Service :
            OneToOne(mailbox'[t]) /\ Entries(mailbox'[t]) \cap (free' \cup lost' \cup Hands') = {}
      <4>1. \A t \in Service : None \notin Entries(mailbox[t])
        BY DEF SlotsOwned, Entries, BusType
      <4>2. QED
        BY <1>1, <1>3, <1>5, <1>6, <2>1, <2>2, <4>1 DEF SlotsOwned
    <3>4. \A t \in Service : \A u \in Service \ {t} : Entries(mailbox'[t]) \cap Entries(mailbox'[u]) = {}
      BY <1>3, <2>2 DEF SlotsOwned
    <3>5. \A t \in Service : hand'[t] # None =>
            /\ hand'[t] \notin {shell'.msg, shell'.copy}
            /\ \A u \in Service \ {t} : hand'[t] # hand'[u]
      BY <1>1, <1>4 DEF SlotsOwned
    <3>6. QED
      BY <1>1, <1>4, <3>1, <3>2, <3>3, <3>4, <3>5 DEF SlotsOwned
  <2>5. QED
    BY <2>3, <2>4, <1>4 DEF ShellInOrder, CopyOfPosted
<1>7. CASE /\ stats.total_drops < StatMax
           /\ stats' = [stats EXCEPT !.total_drops = @ + 1]
           /\ free' = free \cup {x} /\ UNCHANGED mailbox
  <2>1. BusType'
    <3>1. stats.total_drops + 1 \in 0 .. StatMax
      BY <1>7 DEF BusType
    <3>2. stats' \in [alloc_fails : 0 .. StatMax, total_drops : 0 .. StatMax]
      BY <1>7, <3>1 DEF BusType
    <3>3. QED
      BY <1>1, <1>3, <1>4, <1>7, <3>2 DEF BusType, ShellType
  <2>2. SlotsOwned'
    BY <1>1, <1>3, <1>4, <1>5, <1>7 DEF SlotsOwned
  <2>3. QED
    BY <2>1, <2>2, <1>4 DEF ShellInOrder, CopyOfPosted
<1>8. QED
  BY <1>6, <1>7 DEF Send

LEMMA EndPostInv == ASSUME BusInv, EndPost PROVE BusInv'
<1> USE BusAssumption DEF BusInv
<1>1. /\ shell \in ShellType /\ shell.copy = None /\ shell.msg # None
      /\ free' = free \cup {shell.msg}
      /\ pool' = pool /\ hand' = hand /\ lost' = lost /\ mailbox' = mailbox /\ stats' = stats
  BY DEF EndPost, BusType, ShellType
<1>2. shell.msg \in Slot /\ shell.msg \notin free \cup lost
      /\ \A t \in Service : shell.msg \notin Entries(mailbox[t]) /\ hand[t] # shell.msg
  BY <1>1, ShellHolds
<1>3. shell' \in ShellType /\ shell'.msg = None /\ shell'.copy = None
  <2> USE <1>1 DEF ShellType, EndPost
  <2>1. shell' \in ShellType
    <3>1. 0 \in 0 .. ServiceCount
      OBVIOUS
    <3>2. QED
      BY <3>1
  <2>2. shell'.msg = None
    OBVIOUS
  <2>3. shell'.copy = None
    OBVIOUS
  <2>4. QED
    BY <2>1, <2>2, <2>3
<1>4. BusType'
  BY <1>1, <1>2, <1>3 DEF BusType, ShellType
<1>5. /\ Hands \ {None} = (Hands' \ {None}) \cup {shell.msg} /\ shell.msg \notin Hands'
      /\ Hands' \subseteq Hands \cup {None}
  BY <1>1, <1>2, <1>3 DEF Hands
<1>6. SlotsOwned'
  BY <1>1, <1>2, <1>3, <1>5 DEF SlotsOwned
<1>7. QED
  BY <1>4, <1>6, <1>3 DEF ShellInOrder, CopyOfPosted

LEMMA RecvInv == ASSUME BusInv, NEW s \in Service, Recv(s) PROVE BusInv'
<1> USE BusAssumption DEF BusInv
<1> DEFINE x == Head(mailbox[s])
<1>1. /\ hand[s] = None /\ mailbox[s] \in Seq(Slot) /\ mailbox[s] # <<>> /\ OneToOne(mailbox[s])
      /\ free' = free /\ pool' = pool /\ shell' = shell /\ stats' = stats /\ lost' = lost
  BY DEF Recv, BusType, SlotsOwned
<1>2. /\ hand'[s] = x /\ mailbox'[s] = Tail(mailbox[s])
      /\ \A t \in Service \ {s} : hand'[t] = hand[t] /\ mailbox'[t] = mailbox[t]
  BY DEF Recv, BusType
<1>3. /\ Tail(mailbox[s]) \in Seq(Slot) /\ OneToOne(mailbox'[s])
      /\ x \in Entries(mailbox[s]) /\ Entries(mailbox'[s]) = Entries(mailbox[s]) \ {x}
      /\ \A t \in Service \ {s} : Entries(mailbox'[t]) = Entries(mailbox[t])
  BY <1>1, <1>2, Taken
<1>4. x \in Slot /\ x \notin free \cup lost \cup Hands /\ \A t \in Service \ {s} : x \notin Entries(mailbox[t])
  <2>1. x \in Slot
    BY <1>1, HeadTailProperties
  <2>2. QED
    BY <2>1, <1>3 DEF SlotsOwned
<1>5. BusType'
  BY <1>1, <1>3, <1>4 DEF Recv, BusType
<1>6. Hands' \ {None} = (Hands \ {None}) \cup {x} /\ Hands' \subseteq Hands \cup {x}
  BY <1>1, <1>2, <1>4 DEF Hands
<1>7. \A t \in Service : hand[t] # x /\ x \notin {shell.msg, shell.copy} /\ x # None
  BY <1>4 DEF Hands
<1>8. SlotsOwned'
  <2>1. \A t \in Service : None \notin Entries(mailbox[t])
    BY DEF SlotsOwned, Entries, BusType
  <2>2. Slot = free' \cup lost' \cup (Hands' \ {None}) \cup UNION {Entries(mailbox'[t]) : t \in Service}
    <3>1. UNION {Entries(mailbox[t]) : t \in Service} = {x} \cup UNION {Entries(mailbox'[t]) : t \in Service}
      BY <1>3
    <3>2. QED
      BY <1>1, <1>6, <3>1 DEF SlotsOwned
  <2>3. \A t \in Service :
          OneToOne(mailbox'[t]) /\ Entries(mailbox'[t]) \cap (free' \cup lost' \cup Hands') = {}
    BY <1>1, <1>2, <1>3, <1>4, <1>6, <2>1 DEF SlotsOwned
  <2>4. \A t \in Service : \A u \in Service \ {t} : Entries(mailbox'[t]) \cap Entries(mailbox'[u]) = {}
    BY <1>3 DEF SlotsOwned
  <2>5. (free' \cup lost') \cap Hands' = {}
    BY <1>1, <1>4, <1>6 DEF SlotsOwned
  <2>6. \A t \in Service : hand'[t] # None =>
          /\ hand'[t] \notin {shell'.msg, shell'.copy}
          /\ \A u \in Service \ {t} : hand'[t] # hand'[u]
    BY <1>1, <1>2, <1>7 DEF SlotsOwned
  <2>7. QED
    BY <1>1, <2>2, <2>3, <2>4, <2>5, <2>6 DEF SlotsOwned
<1>9. ShellInOrder'
  BY <1>1 DEF ShellInOrder, Unserved
<1>10. QED
  BY <1>1, <1>5, <1>8, <1>9 DEF CopyOfPosted

\* What Release and Delete have in common: the hand of a task is emptied.
LEMMA HandEmptied ==
  ASSUME BusInv, NEW s \in Service, hand' = [hand EXCEPT ![s] = None],
         pool' = pool, mailbox' = mailbox, shell' = shell, stats' = stats,
         free' \cup lost' = free \cup lost \cup ({hand[s]} \ {None}), free' \cap lost' = {}
  PROVE  BusInv'
<1> USE BusAssumption DEF BusInv
<1>1. hand'[s] = None /\ \A t \in Service \ {s} : hand'[t] = hand[t]
  BY DEF BusType
<1>2. hand[s] # None =>
        /\ hand[s] \in Slot /\ hand[s] \notin {shell.msg, shell.copy}
        /\ \A t \in Service : hand[s] \notin Entries(mailbox[t]) /\ (t # s => hand[t] # hand[s])
  BY TaskHolds
<1>3. /\ Hands' \cup {hand[s], None} = Hands \cup {None}
      /\ hand[s] # None => hand[s] \notin Hands'
  BY <1>1, <1>2 DEF Hands
<1>4. BusType'
  BY <1>2 DEF BusType
<1>5. SlotsOwned'
  <2>1. Slot = free' \cup lost' \cup (Hands' \ {None}) \cup UNION {Entries(mailbox[t]) : t \in Service}
    BY <1>3 DEF SlotsOwned
  <2>2. \A t \in Service : Entries(mailbox'[t]) = Entries(mailbox[t])
    OBVIOUS
  <2>3. (free' \cup lost') \cap Hands' = {}
    BY <1>2, <1>3 DEF SlotsOwned, BusType
  <2>4. \A t \in Service : Entries(mailbox[t]) \cap (free' \cup lost' \cup Hands') = {}
    <3>1. \A t \in Service : None \notin Entries(mailbox[t])
      BY DEF SlotsOwned, Entries, BusType
    <3>2. QED
      BY <1>2, <1>3, <3>1 DEF SlotsOwned
  <2>5. QED
    BY <1>1, <1>2, <2>1, <2>2, <2>3, <2>4 DEF SlotsOwned
<1>6. ShellInOrder'
  BY DEF ShellInOrder, Unserved
<1>7. QED
  BY <1>4, <1>5, <1>6 DEF CopyOfPosted

LEMMA BusNextInv == ASSUME BusInv, [BusNext]_busVars PROVE BusInv'
<1>1. ASSUME NEW m \in Message, Post(m) PROVE BusInv'
  BY <1>1, PostInv
<1>2. CASE Copy
  BY <1>2, CopyInv
<1>3. CASE Send
  BY <1>3, SendInv
<1>4. CASE EndPost
  BY <1>4, EndPostInv
<1>5. ASSUME NEW s \in Service, Recv(s) PROVE BusInv'
  BY <1>5, RecvInv
<1>6. ASSUME NEW s \in Service, Release(s) PROVE BusInv'
  <2>1. hand[s] # None /\ free' = free \cup {hand[s]} /\ lost' = lost
    BY <1>6 DEF Release
  <2>2. hand[s] \notin lost /\ free \cap lost = {}
    BY <2>1, TaskHolds DEF BusInv, SlotsOwned
  <2>3. /\ free' \cup lost' = free \cup lost \cup ({hand[s]} \ {None})
        /\ free' \cap lost' = {}
    BY <2>1, <2>2
  <2>4. /\ hand' = [hand EXCEPT ![s] = None] /\ pool' = pool /\ mailbox' = mailbox
        /\ shell' = shell /\ stats' = stats
    BY <1>6 DEF Release
  <2>5. QED
    BY <2>3, <2>4, HandEmptied
<1>7. ASSUME NEW s \in Service, Delete(s) PROVE BusInv'
  <2>1. hand[s] # None => hand[s] \notin free
    BY TaskHolds
  <2>2. free \cap lost = {}
    BY DEF BusInv, SlotsOwned
  <2>3. /\ free' \cup lost' = free \cup lost \cup ({hand[s]} \ {None})
        /\ free' \cap lost' = {}
    BY <1>7, <2>1, <2>2 DEF Delete
  <2>4. /\ hand' = [hand EXCEPT ![s] = None] /\ pool' = pool /\ mailbox' = mailbox
        /\ shell' = shell /\ stats' = stats
    BY <1>7 DEF Delete
  <2>5. QED
    BY <2>3, <2>4, HandEmptied
<1>8. CASE UNCHANGED busVars
  BY <1>8 DEF busVars, BusInv, BusType, SlotsOwned, ShellInOrder, CopyOfPosted, Unserved, Hands
<1>9. QED
  BY <1>1, <1>2, <1>3, <1>4, <1>5, <1>6, <1>7, <1>8 DEF BusNext

-----------------------------------------------------------------------------
(* What the services see of the pool.                                      *)

LEMMA ContentsAreSeq ==
  ASSUME NEW q \in Seq(Slot), NEW p \in [Slot -> Message]
  PROVE  /\ Contents(q, p) \in Seq(Message)
         /\ Len(Contents(q, p)) = Len(q)
         /\ \A n \in 1 .. Len(q) : Contents(q, p)[n] = p[q[n]]
<1>1. Len(q) \in Nat /\ \A n \in 1 .. Len(q) : q[n] \in Slot
  BY LenProperties, ElementOfSeq
<1>2. Contents(q, p) \in [1 .. Len(q) -> Message]
  BY <1>1 DEF Contents
<1>3. QED
  BY <1>1, <1>2 DEF Contents

LEMMA ContentsAppended ==
  ASSUME NEW q \in Seq(Slot), NEW i \in Slot, NEW p \in [Slot -> Message]
  PROVE  Contents(Append(q, i), p) = Append(Contents(q, p), p[i])
<1> DEFINE c == Contents(q, p)
           d == Contents(Append(q, i), p)
<1>1. /\ Append(q, i) \in Seq(Slot) /\ Len(q) \in Nat /\ Len(Append(q, i)) = Len(q) + 1
      /\ \A n \in 1 .. Len(q) : Append(q, i)[n] = q[n]
      /\ Append(q, i)[Len(q) + 1] = i
  BY AppendProperties, LenProperties
<1>2. /\ c \in Seq(Message) /\ Len(c) = Len(q) /\ \A n \in 1 .. Len(q) : c[n] = p[q[n]]
      /\ d \in Seq(Message) /\ Len(d) = Len(q) + 1
      /\ \A n \in 1 .. Len(q) + 1 : d[n] = p[Append(q, i)[n]]
  BY <1>1, ContentsAreSeq
<1>3. /\ Append(c, p[i]) \in Seq(Message) /\ Len(Append(c, p[i])) = Len(q) + 1
      /\ \A n \in 1 .. Len(q) : Append(c, p[i])[n] = c[n]
      /\ Append(c, p[i])[Len(q) + 1] = p[i]
  BY <1>2, AppendProperties
<1>4. \A n \in 1 .. Len(q) + 1 : d[n] = Append(c, p[i])[n]
  BY <1>1, <1>2, <1>3
<1> HIDE DEF c, d
<1>5. d = Append(c, p[i])
  BY <1>2, <1>3, <1>4, SeqEqual
<1>6. QED
  BY <1>5 DEF c, d

LEMMA ContentsTaken ==
  ASSUME NEW q \in Seq(Slot), q # <<>>, NEW p \in [Slot -> Message]
  PROVE  /\ Contents(q, p) # <<>>
         /\ Head(Contents(q, p)) = p[Head(q)]
         /\ Tail(Contents(q, p)) = Contents(Tail(q), p)
<1> DEFINE c == Contents(q, p)
           d == Contents(Tail(q), p)
<1>1. /\ Tail(q) \in Seq(Slot) /\ Len(q) \in Nat \ {0} /\ Len(Tail(q)) = Len(q) - 1
      /\ \A n \in 1 .. Len(Tail(q)) : Tail(q)[n] = q[n + 1]
      /\ Head(q) = q[1]
  BY HeadTailProperties, LenProperties, EmptySeq
<1>2. /\ c \in Seq(Message) /\ Len(c) = Len(q) /\ \A n \in 1 .. Len(q) : c[n] = p[q[n]]
      /\ d \in Seq(Message) /\ Len(d) = Len(q) - 1
      /\ \A n \in 1 .. Len(q) - 1 : d[n] = p[Tail(q)[n]]
  BY <1>1, ContentsAreSeq
<1> HIDE DEF c, d
<1>3. c # <<>>
  BY <1>1, <1>2, EmptySeq
<1>4. /\ Head(c) = c[1] /\ Tail(c) \in Seq(Message) /\ Len(Tail(c)) = Len(q) - 1
      /\ \A n \in 1 .. Len(Tail(c)) : Tail(c)[n] = c[n + 1]
  BY <1>2, <1>3, HeadTailProperties
<1>5. \A n \in 1 .. Len(q) - 1 : Tail(c)[n] = d[n]
  BY <1>1, <1>2, <1>4
<1>6. Tail(c) = d
  BY <1>2, <1>4, <1>5, SeqEqual
<1>7. QED
  BY <1>1, <1>2, <1>3, <1>4, <1>6 DEF c, d

\* A slot taken from the pool changes nothing that a service can see.
LEMMA AllocUnseen ==
  ASSUME BusInv, NEW m \in Message, NEW i \in free, Alloc(i, m), mailbox' = mailbox, hand' = hand
  PROVE  /\ Inbox' = Inbox /\ Reading' = Reading
         /\ shell.msg # None => pool'[shell.msg] = pool[shell.msg]
<1>1. \A j \in Slot \ {i} : pool'[j] = pool[j]
  BY DEF Alloc, BusInv, BusType
<1>2. ASSUME NEW s \in Service PROVE Contents(mailbox[s], pool') = Contents(mailbox[s], pool)
  <2>1. i \notin Entries(mailbox[s]) /\ mailbox[s] \in Seq(Slot)
    BY DEF BusInv, SlotsOwned, BusType
  <2>2. \A n \in 1 .. Len(mailbox[s]) : mailbox[s][n] \in Slot \ {i}
    BY <2>1, ElementOfSeq DEF Entries
  <2>3. QED
    BY <1>1, <2>2 DEF Contents
<1>3. \A s \in Service : hand[s] # None => hand[s] \in Slot \ {i}
  BY TaskHolds
<1>4. shell.msg # None => shell.msg \in Slot \ {i}
  BY ShellHolds
<1>5. Inbox' = Inbox
  BY <1>2 DEF Inbox
<1>6. Reading' = Reading
  BY <1>1, <1>3 DEF Reading, ContentOf
<1>7. QED
  BY <1>1, <1>4, <1>5, <1>6

\* Serving the first of those still to be served.
LEMMA FirstServed ==
  ASSUME NEW S \in SUBSET Nat, NEW n \in Nat, NEW s \in {t \in S : t >= n},
         \A t \in {u \in S : u >= n} : s <= t
  PROVE  /\ {t \in S : t >= s} = {t \in S : t >= n}
         /\ {t \in S : t >= s + 1} = {t \in S : t >= n} \ {s}
<1>1. \A t \in S : (t >= s <=> t >= n) /\ (t >= s + 1 <=> t >= n /\ t # s)
  OBVIOUS
<1>2. QED
  BY <1>1

LEMMA PostRefines ==
  ASSUME BusInv, NEW m \in Message, Post(m)
  PROVE  \/ UNCHANGED Abstract!vars
         \/ /\ Posted = None /\ Posted' = m /\ Unserved' = Subscribers[m]
            /\ Inbox' = Inbox /\ Reading' = Reading
<1> USE BusAssumption
<1>1. shell \in ShellType /\ shell.msg = None /\ mailbox' = mailbox /\ hand' = hand
  BY DEF Post, BusInv, BusType, ShellType
<1>2. CASE AllocFails /\ UNCHANGED shell
  BY <1>1, <1>2 DEF AllocFails, Abstract!vars, Posted, ContentOf, Unserved, Inbox, Reading
<1>3. ASSUME NEW i \in free, Alloc(i, m), shell' = [shell EXCEPT !.msg = i, !.next = 0]
      PROVE  /\ Posted = None /\ Posted' = m /\ Unserved' = Subscribers[m]
             /\ Inbox' = Inbox /\ Reading' = Reading
  <2>1. i \in Slot /\ i # None /\ pool'[i] = m
    BY <1>3 DEF Alloc, BusInv, BusType
  <2>2. shell'.msg = i
    BY <1>1, <1>3 DEF ShellType
  <2>3. shell'.next = 0
    BY <1>1, <1>3 DEF ShellType
  <2>4. Subscribers[m] \subseteq Service /\ \A s \in Service : s >= 0
    BY DEF Service
  <2>5. Unserved' = Subscribers[m]
    BY <2>1, <2>2, <2>3, <2>4 DEF Unserved
  <2>6. Posted = None /\ Posted' = m
    BY <1>1, <2>1, <2>2 DEF Posted, ContentOf
  <2>7. QED
    BY <1>1, <1>3, <2>5, <2>6, AllocUnseen
<1>4. QED
  BY <1>2, <1>3 DEF Post

LEMMA CopyRefines ==
  ASSUME BusInv, Copy
  PROVE  /\ Posted' = Posted /\ Inbox' = Inbox /\ Reading' = Reading
         /\ \/ Unserved' = Unserved
            \/ \E s \in Unserved : Unserved' = Unserved \ {s}
<1> USE BusAssumption
<1>1. PICK s \in Unserved :
        /\ \A t \in Unserved : s <= t
        /\ \/ \E i \in free : Alloc(i, pool[shell.msg]) /\ shell' = [shell EXCEPT !.copy = i, !.next = s]
           \/ AllocFails /\ shell' = [shell EXCEPT !.next = s + 1]
  BY DEF Copy
<1>2. /\ shell \in ShellType /\ shell.msg \in Slot /\ shell.msg # None
      /\ pool[shell.msg] \in Message /\ s \in Service
      /\ Subscribers[pool[shell.msg]] \subseteq Service
      /\ Unserved = {t \in Subscribers[pool[shell.msg]] : t >= shell.next}
  BY DEF BusInv, BusType, ShellType, Unserved
<1>3. mailbox' = mailbox /\ hand' = hand
  BY DEF Copy
<1>4. Service \subseteq Nat /\ shell.next \in Nat
  BY <1>2 DEF Service, ShellType
<1> DEFINE S == Subscribers[pool[shell.msg]]
<1>5. {t \in S : t >= s} = Unserved /\ {t \in S : t >= s + 1} = Unserved \ {s}
  <2>1. S \in SUBSET Nat /\ s \in {t \in S : t >= shell.next} /\ \A t \in {u \in S : u >= shell.next} : s <= t
    BY <1>1, <1>2, <1>4
  <2> HIDE DEF S
  <2>2. /\ {t \in S : t >= s} = {t \in S : t >= shell.next}
        /\ {t \in S : t >= s + 1} = {t \in S : t >= shell.next} \ {s}
    BY <1>4, <2>1, FirstServed
  <2>3. QED
    BY <1>2, <2>2 DEF S
<1>6. CASE AllocFails /\ shell' = [shell EXCEPT !.next = s + 1]
  <2>1. shell'.msg = shell.msg /\ shell'.next = s + 1
    BY <1>2, <1>6 DEF ShellType
  <2>2. pool' = pool
    BY <1>6 DEF AllocFails
  <2>3. Unserved' = {t \in Subscribers[pool[shell.msg]] : t >= s + 1}
    BY <1>2, <2>1, <2>2 DEF Unserved
  <2>4. Unserved' = Unserved \ {s}
    BY <1>5, <2>3
  <2>5. QED
    BY <1>3, <2>1, <2>2, <2>4 DEF Posted, ContentOf, Inbox, Reading
<1>7. ASSUME NEW i \in free, Alloc(i, pool[shell.msg]), shell' = [shell EXCEPT !.copy = i, !.next = s]
      PROVE  Posted' = Posted /\ Unserved' = Unserved /\ Inbox' = Inbox /\ Reading' = Reading
  <2>1. shell'.msg = shell.msg
    BY <1>2, <1>7 DEF ShellType
  <2>2. shell'.next = s
    BY <1>2, <1>7 DEF ShellType
  <2>3. Inbox' = Inbox /\ Reading' = Reading /\ pool'[shell.msg] = pool[shell.msg]
    BY <1>2, <1>3, <1>7, AllocUnseen
  <2>4. Unserved' = {t \in Subscribers[pool[shell.msg]] : t >= s}
    BY <1>2, <2>1, <2>2, <2>3 DEF Unserved
  <2>5. Unserved' = Unserved
    BY <1>5, <2>4
  <2>6. QED
    BY <2>1, <2>3, <2>5 DEF Posted, ContentOf
<1>8. QED
  BY <1>1, <1>6, <1>7

LEMMA SendRefines ==
  ASSUME BusInv, Send
  PROVE  /\ Posted' = Posted /\ Reading' = Reading
         /\ \E s \in Unserved :
              /\ Unserved' = Unserved \ {s}
              /\ Inbox' = Inbox \/ Inbox' = [Inbox EXCEPT ![s] = Append(@, Posted)]
<1> USE BusAssumption
<1> DEFINE s == shell.next
<1>1. /\ shell \in ShellType /\ shell.copy # None /\ shell.msg # None /\ s \in Unserved
      /\ pool' = pool /\ hand' = hand
  BY DEF Send, BusInv, BusType, ShellType, ShellInOrder
<1>2. /\ shell.msg \in Slot /\ shell.copy \in Slot /\ s \in Service /\ s \in Nat
      /\ Subscribers[pool[shell.msg]] \subseteq Service /\ Service \subseteq Nat
      /\ Unserved = {t \in Subscribers[pool[shell.msg]] : t >= s}
  BY <1>1 DEF BusInv, BusType, ShellType, Unserved, Service
<1>3. shell'.msg = shell.msg
  BY <1>1 DEF Send, ShellType
<1>4. shell'.next = s + 1
  BY <1>1 DEF Send, ShellType
<1>5. Unserved' = Unserved \ {s}
  <2>1. Unserved' = {t \in Subscribers[pool[shell.msg]] : t >= s + 1}
    BY <1>1, <1>3, <1>4 DEF Unserved
  <2>2. QED
    BY <1>2, <2>1, FirstServed
<1>6. Posted' = Posted /\ Reading' = Reading
  BY <1>1, <1>3 DEF Posted, Reading, ContentOf
<1>7. Inbox' = Inbox \/ Inbox' = [Inbox EXCEPT ![s] = Append(@, Posted)]
  <2>1. CASE mailbox' = mailbox
    BY <1>1, <2>1 DEF Inbox
  <2>2. CASE mailbox' = [mailbox EXCEPT ![s] = Append(@, shell.copy)]
    <3>1. /\ mailbox[s] \in Seq(Slot) /\ mailbox'[s] = Append(mailbox[s], shell.copy)
          /\ \A t \in Service \ {s} : mailbox'[t] = mailbox[t]
      BY <1>2, <2>2 DEF BusInv, BusType
    <3>2. Contents(mailbox'[s], pool') = Append(Contents(mailbox[s], pool), pool[shell.copy])
      BY <1>1, <1>2, <3>1, ContentsAppended DEF BusInv, BusType
    <3>3. Posted = pool[shell.copy]
      BY <1>1 DEF BusInv, CopyOfPosted, Posted, ContentOf
    <3>4. QED
      BY <1>1, <1>2, <3>1, <3>2, <3>3 DEF Inbox
  <2>3. QED
    BY <2>1, <2>2 DEF Send
<1>8. QED
  BY <1>1, <1>5, <1>6, <1>7

LEMMA RecvRefines ==
  ASSUME BusInv, NEW s \in Service, Recv(s)
  PROVE  /\ Reading[s] = None /\ Inbox[s] # <<>>
         /\ Reading' = [Reading EXCEPT ![s] = Head(Inbox[s])]
         /\ Inbox' = [Inbox EXCEPT ![s] = Tail(@)]
         /\ Posted' = Posted /\ Unserved' = Unserved
<1>1. /\ hand[s] = None /\ mailbox[s] \in Seq(Slot) /\ mailbox[s] # <<>>
      /\ pool' = pool /\ shell' = shell /\ pool \in [Slot -> Message]
  BY DEF Recv, BusInv, BusType
<1>2. /\ hand'[s] = Head(mailbox[s]) /\ mailbox'[s] = Tail(mailbox[s])
      /\ \A t \in Service \ {s} : hand'[t] = hand[t] /\ mailbox'[t] = mailbox[t]
  BY DEF Recv, BusInv, BusType
<1>3. /\ Contents(mailbox[s], pool) # <<>>
      /\ Head(Contents(mailbox[s], pool)) = pool[Head(mailbox[s])]
      /\ Tail(Contents(mailbox[s], pool)) = Contents(Tail(mailbox[s]), pool)
      /\ Head(mailbox[s]) \in Slot /\ Head(mailbox[s]) # None
  BY <1>1, ContentsTaken, HeadTailProperties, BusAssumption
<1>4. ContentOf(hand[s]) = None
  BY <1>1, <1>2, <1>3 DEF ContentOf
<1>5. Reading' = [Reading EXCEPT ![s] = Head(Inbox[s])]
  BY <1>1, <1>2, <1>3 DEF Reading, Inbox, ContentOf
<1>6. Inbox' = [Inbox EXCEPT ![s] = Tail(@)]
  BY <1>1, <1>2, <1>3 DEF Inbox
<1>7. QED
  BY <1>1, <1>3, <1>5, <1>6 DEF Reading, Inbox, ContentOf, Posted, Unserved

LEMMA HandEmptiedRefines ==
  ASSUME BusInv, NEW s \in Service, hand' = [hand EXCEPT ![s] = None],
         pool' = pool, mailbox' = mailbox, shell' = shell
  PROVE  /\ Reading' = [Reading EXCEPT ![s] = None]
         /\ Posted' = Posted /\ Unserved' = Unserved /\ Inbox' = Inbox
<1>1. hand'[s] = None /\ \A t \in Service \ {s} : hand'[t] = hand[t]
  BY DEF BusInv, BusType
<1>2. Reading' = [Reading EXCEPT ![s] = None]
  <2>1. Reading' = [t \in Service |-> IF t = s THEN None ELSE ContentOf(hand[t])]
    BY <1>1 DEF Reading, ContentOf
  <2>2. QED
    BY <2>1 DEF Reading
<1>3. QED
  BY <1>2 DEF Posted, Unserved, Inbox, ContentOf

LEMMA EndPostRefines ==
  ASSUME BusInv, EndPost
  PROVE  /\ Unserved = {} /\ Unserved' = {} /\ Posted' = None
         /\ Inbox' = Inbox /\ Reading' = Reading
<1>1. /\ shell \in ShellType /\ Unserved = {}
      /\ pool' = pool /\ hand' = hand /\ mailbox' = mailbox
  BY DEF EndPost, BusInv, BusType, ShellType
<1>2. shell'.msg = None
  BY <1>1 DEF EndPost, ShellType
<1>3. Unserved' = {} /\ Posted' = None
  <2>1. Unserved' = {}
    BY <1>2 DEF Unserved
  <2>2. Posted' = None
    BY <1>2 DEF Posted, ContentOf
  <2>3. QED
    BY <2>1, <2>2
<1>4. Inbox' = Inbox /\ Reading' = Reading
  BY <1>1 DEF Inbox, Reading, ContentOf
<1>5. QED
  BY <1>1, <1>3, <1>4

\* Every step of the bus is one that Mailboxes allows, or one it does not see.
LEMMA BusNextRefines ==
  ASSUME BusInv, [BusNext]_busVars
  PROVE  [Abstract!Next]_(Abstract!vars)
<1>1. ASSUME NEW m \in Message, Post(m) PROVE Abstract!Next \/ UNCHANGED Abstract!vars
  BY <1>1, PostRefines DEF Abstract!Post, Abstract!Next
<1>2. CASE Copy
  <2>1. /\ Posted' = Posted /\ Inbox' = Inbox /\ Reading' = Reading
        /\ \/ Unserved' = Unserved
           \/ \E s \in Unserved : Unserved' = Unserved \ {s}
    BY <1>2, CopyRefines
  <2>2. Unserved \subseteq Service
    BY BusAssumption DEF BusInv, BusType, Unserved
  <2>3. QED
    BY <2>1, <2>2 DEF Abstract!Lose, Abstract!Next, Abstract!vars
<1>3. CASE Send
  <2>1. PICK s \in Unserved :
          /\ Posted' = Posted /\ Reading' = Reading /\ Unserved' = Unserved \ {s}
          /\ Inbox' = Inbox \/ Inbox' = [Inbox EXCEPT ![s] = Append(@, Posted)]
    BY <1>3, SendRefines
  <2>2. s \in Service
    BY BusAssumption DEF BusInv, BusType, Unserved
  <2>3. Abstract!Lose(s) \/ Abstract!Deliver(s)
    BY <2>1 DEF Abstract!Lose, Abstract!Deliver
  <2>4. QED
    BY <2>2, <2>3 DEF Abstract!Next
<1>4. CASE EndPost
  BY <1>4, EndPostRefines DEF Abstract!Close, Abstract!Next
<1>5. ASSUME NEW s \in Service, Recv(s) PROVE Abstract!Read(s)
  BY <1>5, RecvRefines DEF Abstract!Read
<1>6. ASSUME NEW s \in Service, Release(s) \/ Delete(s) PROVE Abstract!Finish(s)
  <2>1. /\ hand' = [hand EXCEPT ![s] = None]
        /\ pool' = pool /\ mailbox' = mailbox /\ shell' = shell
    BY <1>6 DEF Release, Delete
  <2>2. QED
    BY <2>1, HandEmptiedRefines DEF Abstract!Finish
<1>7. CASE UNCHANGED busVars
  BY <1>7 DEF busVars, Abstract!vars, Posted, Unserved, Inbox, Reading, ContentOf
<1>8. QED
  BY <1>1, <1>2, <1>3, <1>4, <1>5, <1>6, <1>7 DEF BusNext, Abstract!Next

LEMMA BusInitRefines == BusInit => Abstract!Init
BY DEF BusInit, Abstract!Init, Posted, Unserved, Inbox, Reading, ContentOf, Contents

-----------------------------------------------------------------------------
(* What Mailboxes is good for: nobody is shown what is not meant for him.  *)

\* Whatever is owed, waits or is worked on goes to a service that receives it.
MeantForThem ==
  /\ \A s \in Unserved : Posted \in Message /\ s \in Subscribers[Posted]
  /\ Inbox \in [Service -> Seq(Message)]
  /\ \A s \in Service : \A n \in 1 .. Len(Inbox[s]) : s \in Subscribers[Inbox[s][n]]
  /\ Reading \in [Service -> Message \cup {None}]
  /\ \A s \in Service : Reading[s] # None => s \in Subscribers[Reading[s]]

\* Empty mailboxes hold nothing for the wrong service.
LEMMA NobodyIsShownAnything == Abstract!Init => MeantForThem
BY EmptySeq DEF Abstract!Init, MeantForThem

\* A delivery is to a service that is owed the message.
LEMMA DeliverMeansIt ==
  ASSUME MeantForThem, NEW s \in Service, Abstract!Deliver(s) PROVE MeantForThem'
<1>1. /\ s \in Unserved /\ Unserved' = Unserved \ {s}
      /\ Inbox' = [Inbox EXCEPT ![s] = Append(@, Posted)]
      /\ Posted' = Posted /\ Reading' = Reading
  BY DEF Abstract!Deliver
<1>2. /\ Posted \in Message /\ s \in Subscribers[Posted]
      /\ Inbox \in [Service -> Seq(Message)] /\ Inbox[s] \in Seq(Message)
  BY <1>1 DEF MeantForThem
<1>3. /\ Append(Inbox[s], Posted) \in Seq(Message)
      /\ Len(Append(Inbox[s], Posted)) = Len(Inbox[s]) + 1 /\ Len(Inbox[s]) \in Nat
      /\ \A n \in 1 .. Len(Inbox[s]) : Append(Inbox[s], Posted)[n] = Inbox[s][n]
      /\ Append(Inbox[s], Posted)[Len(Inbox[s]) + 1] = Posted
  BY <1>2, AppendProperties, LenProperties
<1>4. Inbox' \in [Service -> Seq(Message)]
  BY <1>1, <1>2, <1>3
<1>5. ASSUME NEW t \in Service, NEW n \in 1 .. Len(Inbox'[t])
      PROVE  t \in Subscribers[Inbox'[t][n]]
  <2>1. CASE t # s
    BY <1>1, <1>2, <1>5, <2>1 DEF MeantForThem
  <2>2. CASE t = s
    <3>1. Inbox'[s] = Append(Inbox[s], Posted)
      BY <1>1, <1>2
    <3>2. n \in 1 .. Len(Inbox[s]) \/ n = Len(Inbox[s]) + 1
      BY <1>3, <1>5, <2>2, <3>1
    <3>3. CASE n \in 1 .. Len(Inbox[s])
      BY <1>3, <2>2, <3>1, <3>3 DEF MeantForThem
    <3>4. CASE n = Len(Inbox[s]) + 1
      BY <1>2, <1>3, <2>2, <3>1, <3>4
    <3>5. QED
      BY <3>2, <3>3, <3>4
  <2>3. QED
    BY <2>1, <2>2
<1>6. QED
  BY <1>1, <1>4, <1>5 DEF MeantForThem

\* What is read is the head of the reader's own mailbox.
LEMMA ReadMeansIt ==
  ASSUME MeantForThem, NEW s \in Service, Abstract!Read(s) PROVE MeantForThem'
<1>1. /\ Inbox[s] # <<>>
      /\ Inbox' = [Inbox EXCEPT ![s] = Tail(@)]
      /\ Reading' = [Reading EXCEPT ![s] = Head(Inbox[s])]
      /\ Unserved' = Unserved /\ Posted' = Posted
  BY DEF Abstract!Read
<1>2. Inbox \in [Service -> Seq(Message)] /\ Inbox[s] \in Seq(Message)
  BY DEF MeantForThem
<1>3. /\ Tail(Inbox[s]) \in Seq(Message) /\ Len(Inbox[s]) \in Nat \ {0}
      /\ Len(Tail(Inbox[s])) = Len(Inbox[s]) - 1
      /\ \A n \in 1 .. Len(Tail(Inbox[s])) : Tail(Inbox[s])[n] = Inbox[s][n + 1]
      /\ Head(Inbox[s]) \in Message /\ Head(Inbox[s]) = Inbox[s][1]
  BY <1>1, <1>2, HeadTailProperties, LenProperties, EmptySeq
<1>4. Inbox' \in [Service -> Seq(Message)]
  BY <1>1, <1>2, <1>3
<1>5. ASSUME NEW t \in Service, NEW n \in 1 .. Len(Inbox'[t])
      PROVE  t \in Subscribers[Inbox'[t][n]]
  <2>1. CASE t # s
    BY <1>1, <1>2, <1>5, <2>1 DEF MeantForThem
  <2>2. CASE t = s
    <3>1. Inbox'[s] = Tail(Inbox[s])
      BY <1>1, <1>2
    <3>2. n + 1 \in 1 .. Len(Inbox[s]) /\ Inbox'[s][n] = Inbox[s][n + 1]
      BY <1>3, <1>5, <2>2, <3>1
    <3>3. QED
      BY <2>2, <3>2 DEF MeantForThem
  <2>3. QED
    BY <2>1, <2>2
<1>6. s \in Subscribers[Head(Inbox[s])]
  <2>1. 1 \in 1 .. Len(Inbox[s])
    BY <1>3
  <2>2. QED
    BY <1>3, <2>1 DEF MeantForThem
<1>7. /\ Reading' \in [Service -> Message \cup {None}]
      /\ \A t \in Service : Reading'[t] # None => t \in Subscribers[Reading'[t]]
  BY <1>1, <1>3, <1>6 DEF MeantForThem
<1>8. QED
  BY <1>1, <1>4, <1>5, <1>7 DEF MeantForThem

\* No step of Mailboxes shows a service what is not meant for it.
LEMMA MailboxesMeanIt ==
  ASSUME MeantForThem, [Abstract!Next]_(Abstract!vars) PROVE MeantForThem'
<1>1. ASSUME NEW m \in Message, Abstract!Post(m) PROVE MeantForThem'
  BY <1>1 DEF Abstract!Post, MeantForThem
<1>2. ASSUME NEW s \in Service, Abstract!Lose(s) PROVE MeantForThem'
  BY <1>2 DEF Abstract!Lose, MeantForThem
<1>3. CASE Abstract!Close
  BY <1>3 DEF Abstract!Close, MeantForThem
<1>4. ASSUME NEW s \in Service, Abstract!Finish(s) PROVE MeantForThem'
  BY <1>4 DEF Abstract!Finish, MeantForThem
<1>5. CASE UNCHANGED Abstract!vars
  BY <1>5 DEF Abstract!vars, MeantForThem
<1>6. QED
  BY <1>1, <1>2, <1>3, <1>4, <1>5, DeliverMeansIt, ReadMeansIt DEF Abstract!Next

\* For the slots behind the messages it means what Bus says of them.
LEMMA MeantForTheirReaders ==
  ASSUME BusInv, MeantForThem PROVE ServicesReadTheirOwn
<1>1. ASSUME NEW s \in Service, hand[s] # None PROVE s \in Subscribers[pool[hand[s]]]
  <2>1. hand[s] \in Slot /\ pool[hand[s]] \in Message
    BY <1>1 DEF BusInv, BusType
  <2>2. Reading[s] = pool[hand[s]] /\ Reading[s] # None
    BY <1>1, <2>1, BusAssumption DEF Reading, ContentOf
  <2>3. QED
    BY <2>2 DEF MeantForThem
<1>2. QED
  BY <1>1 DEF ServicesReadTheirOwn

-----------------------------------------------------------------------------
(* Exhaustion: counting the places where a slot can be.                    *)

\* Where a slot can be that is neither free nor lost, while the console holds no
\* copy: place 0 of a service is its task's hand, the others are its queue; the
\* console's message is the place of a service that does not exist.
BusPlaces == (Service \X (0 .. MailboxDepth)) \cup {<<ServiceCount, 0>>}

SlotAt(p) ==
  IF p[1] = ServiceCount THEN shell.msg
  ELSE IF p[2] = 0 THEN hand[p[1]]
  ELSE mailbox[p[1]][p[2]]

QueuesBounded == \A s \in Service : Len(mailbox[s]) <= MailboxDepth

ExhaustionInv == QueuesBounded /\ ExhaustionTellsOfLoss

\* There are fewer places than slots.
LEMMA FewerPlaces ==
  IsFiniteSet(BusPlaces) /\ IsFiniteSet(Slot) /\ Cardinality(BusPlaces) < Cardinality(Slot)
<1> USE BusAssumption
<1>1. IsFiniteSet(Slot) /\ Cardinality(Slot) = PoolSlots
  BY FS_Interval DEF Slot
<1>2. IsFiniteSet(Service) /\ Cardinality(Service) = ServiceCount
  BY FS_Interval DEF Service
<1>3. IsFiniteSet(0 .. MailboxDepth) /\ Cardinality(0 .. MailboxDepth) = MailboxDepth + 1
  BY FS_Interval
<1>4. /\ IsFiniteSet(Service \X (0 .. MailboxDepth))
      /\ Cardinality(Service \X (0 .. MailboxDepth)) = ServiceCount * (MailboxDepth + 1)
  BY <1>2, <1>3, FS_Product
<1>5. <<ServiceCount, 0>> \notin Service \X (0 .. MailboxDepth)
  BY DEF Service
<1>6. /\ IsFiniteSet(BusPlaces)
      /\ Cardinality(BusPlaces) = ServiceCount * (MailboxDepth + 1) + 1
  BY <1>4, <1>5, FS_AddElement DEF BusPlaces
<1>7. QED
  BY <1>1, <1>6, PoolAssumption

\* A pool found empty while nothing was lost has every slot in a place.
LEMMA EmptyPoolTellsOfLoss ==
  ASSUME BusInv, QueuesBounded, free = {}, shell.copy = None
  PROVE  lost # {}
<1> USE BusAssumption
<1> SUFFICES ASSUME lost = {} PROVE FALSE
  OBVIOUS
<1>1. ASSUME NEW i \in Slot PROVE \E p \in BusPlaces : SlotAt(p) = i
  <2>1. i # None
    OBVIOUS
  <2>2. \/ i = shell.msg
        \/ \E s \in Service : i = hand[s]
        \/ \E s \in Service : i \in Entries(mailbox[s])
    BY <2>1 DEF BusInv, SlotsOwned, Hands
  <2>3. CASE i = shell.msg
    <3>1. SlotAt(<<ServiceCount, 0>>) = shell.msg
      BY DEF SlotAt
    <3>2. <<ServiceCount, 0>> \in BusPlaces
      BY DEF BusPlaces
    <3>3. QED
      BY <2>3, <3>1, <3>2
  <2>4. ASSUME NEW s \in Service, i = hand[s] PROVE \E p \in BusPlaces : SlotAt(p) = i
    <3>1. <<s, 0>> \in BusPlaces /\ s # ServiceCount
      BY DEF BusPlaces, Service
    <3>2. SlotAt(<<s, 0>>) = hand[s]
      BY <3>1 DEF SlotAt
    <3>3. QED
      BY <2>4, <3>1, <3>2
  <2>5. ASSUME NEW s \in Service, i \in Entries(mailbox[s]) PROVE \E p \in BusPlaces : SlotAt(p) = i
    <3>1. PICK n \in 1 .. Len(mailbox[s]) : i = mailbox[s][n]
      BY <2>5 DEF Entries
    <3>2. n \in 1 .. MailboxDepth
      BY LenProperties DEF BusInv, BusType, QueuesBounded
    <3>3. <<s, n>> \in BusPlaces /\ s # ServiceCount /\ n # 0
      BY <3>2 DEF BusPlaces, Service
    <3>4. SlotAt(<<s, n>>) = mailbox[s][n]
      BY <3>3 DEF SlotAt
    <3>5. QED
      BY <3>1, <3>3, <3>4
  <2>6. QED
    BY <2>2, <2>3, <2>4, <2>5
<1> DEFINE place == [i \in Slot |-> CHOOSE p \in BusPlaces : SlotAt(p) = i]
<1>2. \A i \in Slot : place[i] \in BusPlaces /\ SlotAt(place[i]) = i
  BY <1>1
<1>3. place \in [Slot -> BusPlaces]
  BY <1>2
<1> HIDE DEF place
<1>4. \E i, j \in Slot : i # j /\ place[i] = place[j]
  BY <1>3, FewerPlaces, FS_PigeonHole
<1>5. QED
  BY <1>2, <1>4

LEMMA ExhaustionInitInv == BusInit => ExhaustionInv
BY BusAssumption DEF BusInit, ExhaustionInv, QueuesBounded, ExhaustionTellsOfLoss

\* Nothing comes back that was lost.
LEMMA LossIsForGood == ASSUME [BusNext]_busVars, lost # {} PROVE lost' # {}
<1>1. lost \subseteq lost'
  BY DEF BusNext, Post, Copy, Send, EndPost, Recv, Release, Delete, busVars
<1>2. QED
  BY <1>1

\* Queues stay bounded, and only an alloc that meets an empty pool counts a failure.
LEMMA ExhaustionNextInv ==
  ASSUME BusInv, ExhaustionInv, [BusNext]_busVars
  PROVE  ExhaustionInv'
<1> USE BusAssumption DEF ExhaustionInv
<1>1. QueuesBounded'
  <2> SUFFICES ASSUME NEW s \in Service PROVE Len(mailbox'[s]) <= MailboxDepth
    BY DEF QueuesBounded
  <2>1. mailbox[s] \in Seq(Slot) /\ Len(mailbox[s]) \in Nat /\ Len(mailbox[s]) <= MailboxDepth
    BY LenProperties DEF BusInv, BusType, QueuesBounded
  <2>2. CASE mailbox' = mailbox
    BY <2>1, <2>2
  <2>3. CASE Send
    <3>1. CASE mailbox'[s] = mailbox[s]
      BY <2>1, <3>1
    <3>2. CASE mailbox'[s] # mailbox[s]
      <4>1. /\ Len(mailbox[s]) < MailboxDepth
            /\ mailbox'[s] = Append(mailbox[s], shell.copy)
            /\ shell.copy \in Slot
        BY <2>3, <3>2 DEF Send, BusInv, BusType
      <4>2. Len(mailbox'[s]) = Len(mailbox[s]) + 1
        BY <2>1, <4>1, AppendProperties
      <4>3. QED
        BY <2>1, <4>1, <4>2
    <3>3. QED
      BY <3>1, <3>2
  <2>4. ASSUME NEW t \in Service, Recv(t) PROVE Len(mailbox'[s]) <= MailboxDepth
    <3>1. CASE t # s
      BY <2>1, <2>4, <3>1 DEF Recv, BusInv, BusType
    <3>2. CASE t = s
      <4>1. mailbox[s] # <<>> /\ mailbox'[s] = Tail(mailbox[s])
        BY <2>4, <3>2 DEF Recv, BusInv, BusType
      <4>2. Len(mailbox'[s]) = Len(mailbox[s]) - 1
        BY <2>1, <4>1, HeadTailProperties
      <4>3. QED
        BY <2>1, <4>2
    <3>3. QED
      BY <3>1, <3>2
  <2>5. QED
    BY <2>2, <2>3, <2>4 DEF BusNext, Post, Copy, EndPost, Release, Delete, busVars
<1>2. ExhaustionTellsOfLoss'
  <2>1. CASE lost # {}
    BY <2>1, LossIsForGood DEF ExhaustionTellsOfLoss
  <2>2. CASE lost = {}
    <3>1. ~(stats.alloc_fails > 0)
      BY <2>2 DEF ExhaustionTellsOfLoss
    <3>2. ~AllocFails \/ shell.copy # None
      BY <2>2, EmptyPoolTellsOfLoss DEF AllocFails
    <3>3. ~\E m \in Message : Post(m) /\ AllocFails
      BY <3>2 DEF Post, BusInv, ShellInOrder
    <3>4. ~(Copy /\ AllocFails)
      BY <3>2 DEF Copy
    <3>5. stats'.alloc_fails = stats.alloc_fails
      <4>1. ASSUME NEW m \in Message, Post(m) PROVE stats' = stats
        BY <3>3, <4>1 DEF Post, Alloc
      <4>2. CASE Copy
        BY <3>4, <4>2 DEF Copy, Alloc
      <4>3. CASE Send
        BY <4>3 DEF Send, BusInv, BusType
      <4>4. QED
        BY <4>1, <4>2, <4>3 DEF BusNext, EndPost, Recv, Release, Delete, busVars
    <3>6. QED
      BY <3>1, <3>5 DEF ExhaustionTellsOfLoss
  <2>3. QED
    BY <2>1, <2>2
<1>3. QED
  BY <1>1, <1>2

=============================================================================
