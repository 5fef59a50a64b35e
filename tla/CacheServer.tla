---------------------------- MODULE CacheServer ----------------------------
(***************************************************************************)
(* The disk cache server on the M4 core: its mailbox interrupt             *)
(* (mbox_swint_cb), its polling loop (RTCoreMain) and its message handler  *)
(* (process_inbound_message) over the table of DiskCache.                  *)
(*                                                                         *)
(* The A7 writes a message into the shared ring and raises a software      *)
(* interrupt; the interrupt increments the counter blockDeqSema, which     *)
(* nothing ever decrements; the loop looks into the ring while the counter *)
(* is not 0.  The counter is a u8, so it comes back to 0 every             *)
(* SEMA_VALUES interrupts (256 in the code).                               *)
(***************************************************************************)
EXTENDS DiskCache

CONSTANTS
    Keys,           \* sector numbers
    Versions,       \* contents a sector is written with
    SEMA_VALUES,    \* values of the u8 blockDeqSema
    MAILBOX_SLOTS,  \* bound: messages the shared ring holds
    MaxRequests     \* bound: messages the A7 sends

ASSUME CacheServerAssumption ==
    /\ SEMA_VALUES \in Nat /\ SEMA_VALUES > 1
    /\ MAILBOX_SLOTS \in Nat \ {0}
    /\ MaxRequests \in Nat

VARIABLES
    cache,          \* the uthash table
    mailbox,        \* A7 -> M4 ring, oldest message first
    irq,            \* the software interrupt is latched
    blockDeqSema,
    reply,          \* the last message sent to the A7
    sent,           \* messages the A7 has written so far
    written,        \* ghost: written[k] is what k was last written with
    touched,        \* ghost: when k was last found or first inserted
    clock           \* ghost: touches so far

vars == <<cache, mailbox, irq, blockDeqSema, reply, sent, written, touched,
          clock>>

ghosts == <<written, touched, clock>>

Message ==
    [disk_ic_msg_type : {"DISK_IC_READ"}, sector_number : Keys]
    \cup [disk_ic_msg_type : {"DISK_IC_WRITE"}, sector_number : Keys,
          sector : Versions]

NoReply == [answers |-> "none"]

Reply ==
    {NoReply}
    \cup [answers : {"hit"}, sector_number : Keys, sector : Versions]
    \cup [answers : {"miss"}, sector_number : {0}]

Init ==
    /\ cache = <<>>
    /\ mailbox = <<>>
    /\ irq = FALSE
    /\ blockDeqSema = 0
    /\ reply = NoReply
    /\ sent = 0
    /\ written = [k \in Keys |-> "never"]
    /\ touched = [k \in Keys |-> 0]
    /\ clock = 0

-----------------------------------------------------------------------------
\* The A7 puts a message in the ring and raises the interrupt.  Two writes
\* before the interrupt is taken latch it once.
A7Publish(m) ==
    /\ sent < MaxRequests
    /\ Len(mailbox) < MAILBOX_SLOTS
    /\ mailbox' = Append(mailbox, m)
    /\ irq' = TRUE
    /\ sent' = sent + 1
    /\ UNCHANGED <<cache, blockDeqSema, reply, ghosts>>

\* mbox_swint_cb.
Interrupt ==
    /\ irq
    /\ irq' = FALSE
    /\ blockDeqSema' = (blockDeqSema + 1) % SEMA_VALUES
    /\ UNCHANGED <<cache, mailbox, reply, sent, ghosts>>

\* A hit or a first insertion makes the key the newest one; an overwrite in
\* place does not.
Touch(key) ==
    /\ clock' = clock + 1
    /\ touched' = [touched EXCEPT ![key] = clock + 1]

\* DISK_IC_READ: the sector if it is cached, four zero bytes if it is not.
ReadReply(key) ==
    IF InCache(cache, key)
    THEN [answers |-> "hit", sector_number |-> key,
          sector |-> CachedSector(cache, key)]
    ELSE [answers |-> "miss", sector_number |-> 0]

ServeRead(m) ==
    /\ m.disk_ic_msg_type = "DISK_IC_READ"
    /\ cache' = FindInCache(cache, m.sector_number)
    /\ reply' = ReadReply(m.sector_number)
    /\ IF InCache(cache, m.sector_number)
       THEN Touch(m.sector_number)
       ELSE UNCHANGED <<touched, clock>>
    /\ UNCHANGED written

\* DISK_IC_WRITE: no reply.
ServeWrite(m) ==
    /\ m.disk_ic_msg_type = "DISK_IC_WRITE"
    /\ cache' = AddToCache(cache, m.sector_number, m.sector)
    /\ IF InCache(cache, m.sector_number)
       THEN UNCHANGED <<touched, clock>>
       ELSE Touch(m.sector_number)
    /\ written' = [written EXCEPT ![m.sector_number] = m.sector]
    /\ UNCHANGED reply

\* Mutant: the loop waits for a second interrupt.
ProcessInboundLate ==
    /\ blockDeqSema > 1
    /\ mailbox # <<>>
    /\ mailbox' = Tail(mailbox)
    /\ ServeRead(Head(mailbox)) \/ ServeWrite(Head(mailbox))
    /\ UNCHANGED <<irq, blockDeqSema, sent>>

\* Mutant: the counter is taken down for every message, like a semaphore.
ProcessInboundCounted ==
    /\ blockDeqSema > 0
    /\ mailbox # <<>>
    /\ mailbox' = Tail(mailbox)
    /\ ServeRead(Head(mailbox)) \/ ServeWrite(Head(mailbox))
    /\ blockDeqSema' = blockDeqSema - 1
    /\ UNCHANGED <<irq, sent>>

\* One turn of RTCoreMain that finds a message in the ring.
ProcessInbound ==
    /\ blockDeqSema > 0
    /\ mailbox # <<>>
    /\ mailbox' = Tail(mailbox)
    /\ ServeRead(Head(mailbox)) \/ ServeWrite(Head(mailbox))
    /\ UNCHANGED <<irq, blockDeqSema, sent>>

Next ==
    \/ \E m \in Message : A7Publish(m)
    \/ Interrupt
    \/ ProcessInbound

\* The hardware delivers a latched interrupt and the loop never sleeps.
Fairness == WF_vars(Interrupt) /\ WF_vars(ProcessInbound)

Spec == Init /\ [][Next]_vars /\ Fairness

-----------------------------------------------------------------------------
\* Type invariant, the ghosts included.
TypeOK ==
    /\ cache \in Seq(CacheEntry(Keys, Versions))
    /\ mailbox \in Seq(Message)
    /\ irq \in BOOLEAN
    /\ blockDeqSema \in 0 .. SEMA_VALUES - 1
    /\ reply \in Reply
    /\ sent \in Nat
    /\ written \in [Keys -> Versions \cup {"never"}]
    /\ touched \in [Keys -> Nat]
    /\ clock \in Nat

\* The table never holds MAX_CACHE_ITEMS entries once a message is handled
\* (the M4's heap is dimensioned for that many), and never two entries for
\* one sector, of which a find would only ever see one.
CacheBounded ==
    /\ Len(cache) < MAX_CACHE_ITEMS
    /\ UniqueKeys(cache)

\* A cached sector is the one last written under its number: whatever was
\* pruned, re-inserted or overwritten in between.
CacheCoherent ==
    \A i \in DOMAIN cache :
        cache[i].sector = written[cache[i].sector_number_key]

\* Insertion order is recency of use, so that the entry the prune removes is
\* the one that was neither found nor inserted for the longest time.
OldestFirst ==
    \A i, j \in DOMAIN cache :
        i < j => touched[cache[i].sector_number_key]
                     < touched[cache[j].sector_number_key]

\* Until as many messages were sent as the counter has values, none lies in the
\* ring with nobody to look for it, although several of them can share one
\* interrupt: the loop looks into the ring, or the interrupt makes it look.
NoneLeftEarly ==
    mailbox # <<>> /\ sent < SEMA_VALUES => irq \/ blockDeqSema > 0

\* A message in the ring is handled, unless the interrupt that announced it
\* made the counter wrap to 0: then it stays there until the next one.
RequestsAreServed ==
    \A n \in 1 .. MAILBOX_SLOTS :
        (Len(mailbox) = n) ~> (Len(mailbox) < n \/ (blockDeqSema = 0 /\ ~irq))
=============================================================================
