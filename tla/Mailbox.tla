------------------------------ MODULE Mailbox -------------------------------
(***************************************************************************)
(* What message.c promises its callers: every process has a queue of       *)
(* messages; a message that is sent joins the end of one queue; it leaves  *)
(* the queue when its owner receives it, the first of all messages or the  *)
(* first from a given sender; nothing else happens to queues, and a message*)
(* is always in one place.                                                 *)
(***************************************************************************)
EXTENDS Naturals, Sequences, SequencesExt

CONSTANTS Procs, Msgs, Senders

VARIABLES
  free,    \* the messages that do not exist
  queue,   \* queue[p]: the messages p can receive, oldest first
  sender   \* who sent a message that is in a queue

mailboxVars == <<free, queue, sender>>

Queued == UNION {ToSet(queue[p]) : p \in Procs}

Init == /\ free   = Msgs
        /\ queue  = [p \in Procs |-> <<>>]
        /\ sender \in [Msgs -> Senders]

\* Someone makes a message.
Make(m) == /\ m \in free
           /\ free' = free \ {m}
           /\ UNCHANGED queue

\* Someone who has a message sends it to p.
Send(m, p) == /\ m \notin free \cup Queued
              /\ queue' = [queue EXCEPT ![p] = Append(@, m)]
              /\ UNCHANGED <<free, sender>>

\* p receives the first message that is from its sender.
Receive(p) ==
  \E i \in 1 .. Len(queue[p]) :
    /\ \A j \in 1 .. i - 1 : sender[queue[p][j]] # sender[queue[p][i]]
    /\ queue' = [queue EXCEPT ![p] = RemoveAt(@, i)]
    /\ UNCHANGED <<free, sender>>

\* Someone who has a message frees it.
Discard(m) == /\ m \notin free \cup Queued
              /\ free' = free \cup {m}
              /\ UNCHANGED queue

\* A message that is in no queue may come to have another sender.
Readdress(m) == /\ m \notin free \cup Queued
                /\ UNCHANGED <<free, queue>>

Next == /\ \/ \E m \in Msgs : Make(m) \/ Discard(m) \/ Readdress(m)
           \/ \E m \in Msgs, p \in Procs : Send(m, p)
           \/ \E p \in Procs : Receive(p)
        /\ sender' \in [Msgs -> Senders]
        /\ \A m \in Queued : sender'[m] = sender[m]

Spec == Init /\ [][Next]_mailboxVars
=============================================================================
