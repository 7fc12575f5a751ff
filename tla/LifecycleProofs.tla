-------------------------- MODULE LifecycleProofs ---------------------------
(***************************************************************************)
(* Proofs about Lifecycle, for any number of PIDs, processes, calls and    *)
(* signals: the file system's entry for a PID is not inherited, no answer  *)
(* reaches a later owner of a PID, and nobody sleeps over a signal, but    *)
(* for the exceptions that history names.                                  *)
(***************************************************************************)
EXTENDS Lifecycle, Loops

Pcs     == {"none", "run", "fork", "tell", "call", "exit", "nap", "pause", "window", "asleep"}
Actions == {"default", "ignore", "catch"}
Records == [life : Nat, pc : Pcs, exits : Nat, pending : SUBSET Signals,
            blocked : SUBSET Signals, action : [Signals -> Actions],
            delivering : BOOLEAN, handling : Int]
Letters == [from : Int, life : Nat, op : {"fork", "call", "exit"}, child : Nat, born : Nat]
Boxes   == UserPids \cup {KERNEL, SERVER}
Pasts   == [gone : SUBSET Nat, late : SUBSET Nat, orphans : SUBSET Nat,
            struck : SUBSET Nat, missed : SUBSET Nat]

LifeType ==
  /\ proc \in [UserPids -> Records] /\ mail \in [Boxes -> Seq(Letters)]
  /\ fsproc \in [UserPids -> Nat] /\ lives \in Nat \ {0} /\ next \in Nat
  /\ history \in Pasts

\* h[l] is the PID of life l: who has a life, the file system's entries and the messages
\* agree on it.
Lived(h, l, p) == l \in 1 .. lives /\ h[l] = p

WellBorn(h, m) == m.life \in 1 .. lives /\ (m.born # 0 => Lived(h, m.born, m.child))

Owners(h) ==
  /\ \A p \in UserPids : proc[p].life # 0 => Lived(h, proc[p].life, p)
  /\ \A p \in UserPids : fsproc[p] # 0 => Lived(h, fsproc[p], p)
  /\ \A x \in Boxes : \A i \in DOMAIN mail[x] : WellBorn(h, mail[x][i])
  /\ \A x \in {KERNEL, SERVER} : \A i \in DOMAIN mail[x] :
       mail[x][i].from \in UserPids /\ h[mail[x][i].life] = mail[x][i].from

\* The exit of life l is the file system's i-th message.
ExitAt(i, l) == i \in DOMAIN mail[SERVER] /\ mail[SERVER][i].op = "exit" /\ mail[SERVER][i].life = l

\* The file system has been told that life l exits.
Leaving(l) == l \in history.gone \/ \E i \in DOMAIN mail[SERVER] : ExitAt(i, l)

\* It is told first, and the kernel after it.
ToldFirst ==
  /\ \A p \in UserPids : proc[p].pc \in {"exit", "nap"} => Leaving(proc[p].life)
  /\ \A i \in DOMAIN mail[KERNEL] : mail[KERNEL][i].op = "exit" => Leaving(mail[KERNEL][i].life)

\* Whoever has died without another's doing has left the file system, or its exit is ahead
\* of whatever the next owner of its PID has said.
Ahead(l, k) == \E i \in DOMAIN mail[SERVER] : ExitAt(i, l) /\ \A j \in 1 .. i - 1 : mail[SERVER][j].life # k

Parted(h) ==
  \A l \in 1 .. lives :
    \/ l \in {proc[h[l]].life} \cup history.struck \cup history.gone
    \/ Ahead(l, proc[h[l]].life)

\* An entry that has come after its owner's exit is a late one.
Heard == \A p \in UserPids : fsproc[p] \in history.gone \ {0} => fsproc[p] \in history.late

\* Who sleeps or is about to has no signal to take but one that it missed.
Unsignalled ==
  \A p \in UserPids : proc[p].pc \in {"window", "asleep"} =>
    proc[p].life # 0 /\ (Deliverable(proc[p]) # {} => proc[p].life \in history.missed)

\* The inductive invariant.
LifeInv(h) == LifeType /\ Owners(h) /\ ToldFirst /\ Parted(h) /\ Heard /\ OwnAnswer /\ Unsignalled

-----------------------------------------------------------------------------
(* Sequences of messages, and the least of some numbers. *)

\* Min finds the least number of a set that has one.
LEMMA LeastFound ==
  ASSUME NEW S, S \subseteq Nat, S # {}
  PROVE  Min(S) \in S /\ \A y \in S : Min(S) <= y
<1>1. \E x \in S : \A y \in S : x <= y
  BY Least
<1> QED
  BY <1>1 DEF Min

\* A mailbox is a function on 1 .. Len.
LEMMA Elements ==
  ASSUME NEW s \in Seq(Letters)
  PROVE  Len(s) \in Nat /\ DOMAIN s = 1 .. Len(s) /\ \A i \in DOMAIN s : s[i] \in Letters
  OBVIOUS

\* A message that is sent comes after all the others.
LEMMA Appended ==
  ASSUME NEW s \in Seq(Letters), NEW m \in Letters
  PROVE  /\ Append(s, m) \in Seq(Letters) /\ Len(Append(s, m)) = Len(s) + 1
         /\ \A i \in DOMAIN s : i \in DOMAIN Append(s, m) /\ Append(s, m)[i] = s[i]
         /\ Len(s) + 1 \in DOMAIN Append(s, m) /\ Append(s, m)[Len(s) + 1] = m
         /\ \A i \in DOMAIN Append(s, m) : i \in DOMAIN s \/ i = Len(s) + 1
  OBVIOUS

\* When the first message leaves, the others move up.
LEMMA HeadAndTail ==
  ASSUME NEW s \in Seq(Letters), s # <<>>
  PROVE  /\ Head(s) = s[1] /\ 1 \in DOMAIN s
         /\ Tail(s) \in Seq(Letters) /\ Len(Tail(s)) = Len(s) - 1
         /\ \A i \in DOMAIN Tail(s) : i + 1 \in DOMAIN s /\ Tail(s)[i] = s[i + 1]
         /\ \A i \in DOMAIN s : i # 1 => i - 1 \in DOMAIN Tail(s) /\ Tail(s)[i - 1] = s[i]
  OBVIOUS

\* t has nothing that s does not have.
Fewer(s, t) == t \in Seq(Letters) /\ \A i \in DOMAIN t : \E j \in DOMAIN s : t[i] = s[j]

\* Removing one message leaves the others.
LEMMA Removed ==
  ASSUME NEW s \in Seq(Letters), NEW k \in DOMAIN s
  PROVE  Fewer(s, RemoveAt(s, k))
<1> DEFINE a == SubSeq(s, 1, k - 1)
           b == SubSeq(s, k + 1, Len(s))
<1>1. k \in 1 .. Len(s) /\ Len(s) \in Nat
  BY Elements
<1>2. /\ a \in Seq(Letters) /\ Len(a) = k - 1
      /\ \A i \in 1 .. k - 1 : a[i] = s[i]
  BY <1>1
<1>3. /\ b \in Seq(Letters) /\ Len(b) = Len(s) - k
      /\ \A i \in 1 .. Len(s) - k : b[i] = s[k + i]
  BY <1>1
<1>4. RemoveAt(s, k) = a \o b
  BY DEF RemoveAt
<1> HIDE DEF a, b
<1>5. ASSUME NEW u \in Seq(Letters), NEW v \in Seq(Letters)
      PROVE  /\ u \o v \in Seq(Letters) /\ Len(u \o v) = Len(u) + Len(v)
             /\ \A i \in 1 .. Len(u) : (u \o v)[i] = u[i]
             /\ \A i \in Len(u) + 1 .. Len(u) + Len(v) : (u \o v)[i] = v[i - Len(u)]
  OBVIOUS
<1>6. a \o b \in Seq(Letters) /\ Len(a \o b) = Len(s) - 1
  <2>1. a \o b \in Seq(Letters) /\ Len(a \o b) = Len(a) + Len(b)
    BY <1>2, <1>3, <1>5
  <2> QED
    BY <1>1, <1>2, <1>3, <2>1
<1>7. ASSUME NEW i \in 1 .. Len(s) - 1 PROVE \E j \in 1 .. Len(s) : (a \o b)[i] = s[j]
  <2>1. CASE i <= k - 1
    <3>1. (a \o b)[i] = a[i]
      BY <1>1, <1>2, <1>3, <1>5, <2>1
    <3>2. a[i] = s[i] /\ i \in 1 .. Len(s)
      BY <1>1, <1>2, <2>1
    <3> QED
      BY <3>1, <3>2
  <2>2. CASE i > k - 1
    <3>1. (a \o b)[i] = b[i - (k - 1)]
      <4>1. i \in Len(a) + 1 .. Len(a) + Len(b)
        BY <1>1, <1>2, <1>3, <2>2
      <4>2. (a \o b)[i] = b[i - Len(a)]
        BY <1>2, <1>3, <1>5, <4>1
      <4> QED
        BY <1>2, <4>2
    <3>2. i - (k - 1) \in 1 .. Len(s) - k /\ i + 1 \in 1 .. Len(s)
      BY <1>1, <2>2
    <3>3. b[i - (k - 1)] = s[k + (i - (k - 1))] /\ k + (i - (k - 1)) = i + 1
      BY <1>1, <1>3, <3>2
    <3> QED
      BY <3>1, <3>2, <3>3
  <2>3. i <= k - 1 \/ i > k - 1
    BY <1>1
  <2> QED
    BY <2>1, <2>2, <2>3
<1> QED
  BY <1>4, <1>6, <1>7, Elements DEF Fewer

\* Nothing needs to be removed.
LEMMA FewerSame ==
  ASSUME NEW s \in Seq(Letters)
  PROVE  Fewer(s, s)
  BY DEF Fewer

\* A process that receives takes one message out of its mailbox.
LEMMA Received ==
  ASSUME LifeType, NEW p \in UserPids, NEW x, HasFrom(p, x)
  PROVE  /\ FirstFrom(p, x) \in DOMAIN mail[p]
         /\ Without(p, x) \in [Boxes -> Seq(Letters)]
         /\ \A y \in Boxes \ {p} : Without(p, x)[y] = mail[y]
         /\ \A q \in UserPids : Fewer(mail[q], Without(p, x)[q])
<1> DEFINE s == mail[p]
           I == {i \in 1 .. Len(s) : s[i].from = x}
<1>1. s \in Seq(Letters) /\ p \in Boxes /\ \A q \in UserPids : mail[q] \in Seq(Letters)
  BY DEF LifeType, Boxes
<1>2. DOMAIN s = 1 .. Len(s) /\ Len(s) \in Nat
  BY <1>1, Elements
<1>3. I # {} /\ I \subseteq Nat
  BY <1>2 DEF HasFrom
<1>4. FirstFrom(p, x) = Min(I)
  BY <1>3 DEF FirstFrom, SelectInSeq
<1>5. Min(I) \in I
  BY <1>3, LeastFound
<1>6. FirstFrom(p, x) \in DOMAIN s
  BY <1>2, <1>4, <1>5
<1>7. Fewer(s, RemoveAt(s, FirstFrom(p, x)))
  BY <1>1, <1>6, Removed
<1>8. Without(p, x) = [mail EXCEPT ![p] = RemoveAt(s, FirstFrom(p, x))]
  BY DEF Without
<1> HIDE DEF s, I
<1>9. RemoveAt(s, FirstFrom(p, x)) \in Seq(Letters)
  BY <1>7 DEF Fewer
<1>10. \A q \in UserPids : Fewer(mail[q], Without(p, x)[q])
  BY <1>1, <1>7, <1>8, FewerSame DEF s, LifeType, Boxes
<1> QED
  BY <1>1, <1>6, <1>8, <1>9, <1>10 DEF s, LifeType

-----------------------------------------------------------------------------
(* What a step does to a process. *)

\* s comes from r without another signal to take where r sleeps or is about to.
Calmer(r, s) ==
  s.pc \in {"window", "asleep"} =>
    \/ r.pc \in {"window", "asleep"} /\ Deliverable(s) \subseteq Deliverable(r)
    \/ s.life # 0 /\ Deliverable(s) = {}

Follows(r, s) == s \in Records /\ s.life = r.life /\ Calmer(r, s)

Exiting(r) == r.pc \in {"exit", "nap"}

\* A process that stays as it is follows.
LEMMA FollowsItself ==
  ASSUME NEW r \in Records
  PROVE  Follows(r, r)
  BY DEF Follows, Calmer

\* Going elsewhere, but not to sleep.
LEMMA GoesOn ==
  ASSUME NEW r \in Records, NEW v \in Pcs \ {"window", "asleep"}
  PROVE  Follows(r, [r EXCEPT !.pc = v]) /\ [r EXCEPT !.pc = v].pc = v
  BY DEF Follows, Calmer, Records

\* So does one that sleeps after its test,
LEMMA FallsAsleep ==
  ASSUME NEW r \in Records, r.pc = "window"
  PROVE  Follows(r, [r EXCEPT !.pc = "asleep"]) /\ ~Exiting([r EXCEPT !.pc = "asleep"])
  BY DEF Follows, Calmer, Records, Pcs, Exiting, Deliverable

\* one that passes the test without a signal to take,
LEMMA Tests ==
  ASSUME NEW r \in Records, r.life # 0, Deliverable(r) = {}
  PROVE  Follows(r, [r EXCEPT !.pc = "window"]) /\ ~Exiting([r EXCEPT !.pc = "window"])
  BY DEF Follows, Calmer, Records, Pcs, Exiting, Deliverable

\* one whose signals start or cease to be delivered,
LEMMA Delivers ==
  ASSUME NEW r \in Records, NEW v \in BOOLEAN
  PROVE  /\ Follows(r, [r EXCEPT !.delivering = v])
         /\ [r EXCEPT !.delivering = v].pc = r.pc /\ [r EXCEPT !.delivering = v].life = r.life
  BY DEF Follows, Calmer, Records, Deliverable

\* one whose handler starts or returns,
LEMMA Handles ==
  ASSUME NEW r \in Records, NEW v \in Int
  PROVE  Follows(r, [r EXCEPT !.handling = v]) /\ [r EXCEPT !.handling = v].pc = r.pc
  BY DEF Follows, Calmer, Records, Deliverable

\* and one whose signal is not pending any more.
LEMMA Takes ==
  ASSUME NEW r \in Records, NEW S
  PROVE  Follows(r, [r EXCEPT !.pending = @ \ S]) /\ [r EXCEPT !.pending = @ \ S].pc = r.pc
  BY DEF Follows, Calmer, Records, Deliverable

\* Two changes in a row.
LEMMA FollowsBoth ==
  ASSUME NEW r, NEW s, NEW t, Follows(r, s), Follows(s, t)
  PROVE  Follows(r, t)
  BY DEF Follows, Calmer

\* do_sigaction() follows too,
LEMMA SetsAction ==
  ASSUME NEW r \in Records, NEW s \in Signals, NEW a \in Actions
  PROVE  Follows(r, [r EXCEPT !.action[s] = a]) /\ [r EXCEPT !.action[s] = a].pc = r.pc
  BY DEF Follows, Calmer, Records, Deliverable

\* and do_sigprocmask(), in a process that runs,
LEMMA SetsBlocked ==
  ASSUME NEW r \in Records, NEW B \in SUBSET Signals, r.pc = "run"
  PROVE  Follows(r, [r EXCEPT !.blocked = B]) /\ [r EXCEPT !.blocked = B].pc = r.pc
  BY DEF Follows, Calmer, Records

\* and proc_wakeup(),
LEMMA Wakes ==
  ASSUME NEW r \in Records
  PROVE  /\ Follows(r, woken(r)) /\ woken(r).pc = (IF r.pc = "asleep" THEN "pause" ELSE r.pc)
         /\ woken(r).pending = r.pending /\ woken(r).blocked = r.blocked
  BY DEF woken, Follows, Calmer, Records, Pcs

\* and do_exit().
LEMMA Exits ==
  ASSUME NEW r \in Records, NEW n \in Nat
  PROVE  LET t == [r EXCEPT !.pc = "exit", !.exits = n, !.delivering = FALSE]
         IN Follows(r, t) /\ t.pc = "exit"
<1> DEFINE a == [r EXCEPT !.pc = "exit"]
           b == [a EXCEPT !.exits = n]
<1>1. Follows(r, a) /\ a.pc = "exit" /\ a \in Records
  BY GoesOn DEF Pcs, Follows
<1>2. b \in Records /\ b.life = a.life /\ b.pc = a.pc
  BY <1>1 DEF Records
<1>3. Follows(a, b)
  BY <1>1, <1>2 DEF Follows, Calmer
<1>4. [b EXCEPT !.delivering = FALSE] = [r EXCEPT !.pc = "exit", !.exits = n, !.delivering = FALSE]
  OBVIOUS
<1> HIDE DEF a, b
<1>5. Follows(b, [b EXCEPT !.delivering = FALSE]) /\ [b EXCEPT !.delivering = FALSE].pc = b.pc
  BY <1>2, Delivers
<1> QED
  BY <1>1, <1>2, <1>3, <1>4, <1>5, FollowsBoth

\* One process follows, the others stay as they are.
LEMMA OneFollows ==
  ASSUME LifeType, NEW p \in UserPids, NEW r, Follows(proc[p], r), proc' = [proc EXCEPT ![p] = r]
  PROVE  /\ proc' \in [UserPids -> Records] /\ proc'[p] = r
         /\ \A q \in UserPids : Follows(proc[q], proc'[q]) /\ (q # p => proc'[q] = proc[q])
  BY FollowsItself DEF LifeType, Follows

\* sig_send() wakes a sleeper that has a signal to take then.
LEMMA Sends ==
  ASSUME NEW r \in Records, NEW s \in Signals
  PROVE  LET t == sig_send(r, s) IN
         /\ t \in Records /\ t.life = r.life
         /\ t.pc \in {r.pc, "pause"} /\ (t.pc = "pause" => r.pc \in {"asleep", "pause"})
         /\ t.pc = "asleep" => Deliverable(t) \subseteq Deliverable(r)
<1> DEFINE S == IF s \in Stops THEN {SIGCONT} ELSE IF s = SIGCONT THEN Stops ELSE {}
           t == [r EXCEPT !.pending = @ \ S]
           u == IF s = SIGCONT THEN woken(t) ELSE t
           v == [u EXCEPT !.pending = @ \cup {s}]
<1>1. Follows(r, t) /\ t.pc = r.pc /\ t \in Records /\ t.life = r.life
      /\ Deliverable(t) \subseteq Deliverable(r)
  <2>1. Deliverable(t) \subseteq Deliverable(r)
    BY DEF Deliverable, Records
  <2> HIDE DEF S
  <2> QED
    BY <2>1, Takes DEF Follows
<1>2. sig_send(r, s) = IF sig_action(u, s) = "ignore" THEN u
                       ELSE IF Deliverable(v) # {} THEN woken(v) ELSE v
  BY DEF sig_send
<1> HIDE DEF t
<1>3. /\ u \in Records /\ u.life = r.life /\ Deliverable(u) \subseteq Deliverable(r)
      /\ u.pc \in {r.pc, "pause"} /\ (u.pc = "pause" => r.pc \in {"asleep", "pause"})
  BY <1>1, Wakes DEF Follows, Deliverable
<1> HIDE DEF u
<1>4. v \in Records /\ v.life = u.life /\ v.pc = u.pc
  BY <1>3 DEF Records
<1> HIDE DEF v
<1>5. CASE sig_action(u, s) = "ignore"
  BY <1>2, <1>3, <1>5
<1>6. CASE sig_action(u, s) # "ignore" /\ Deliverable(v) # {}
  BY <1>2, <1>3, <1>4, <1>6, Wakes DEF Follows
<1>7. CASE sig_action(u, s) # "ignore" /\ Deliverable(v) = {}
  BY <1>2, <1>3, <1>4, <1>7
<1> QED
  BY <1>5, <1>6, <1>7

-----------------------------------------------------------------------------
(* What a step does to the invariant, by its effect on the mailboxes of the  *)
(* kernel and of the file system.                                            *)

Core(h) == Owners(h) /\ ToldFirst /\ Parted(h) /\ Heard /\ OwnAnswer

\* The kernel and the file system are not user processes.
LEMMA Places ==
  /\ KERNEL \in Boxes /\ SERVER \in Boxes /\ KERNEL # SERVER
  /\ KERNEL \notin UserPids /\ SERVER \notin UserPids /\ UserPids \subseteq Boxes
  /\ UserPids \subseteq Nat
  BY LifecycleAssumption DEF Boxes, KERNEL, SERVER

\* What the mailboxes hold, before a step
LEMMA Mailboxes ==
  ASSUME LifeType, NEW x \in Boxes
  PROVE  /\ mail[x] \in Seq(Letters) /\ Len(mail[x]) \in Nat /\ DOMAIN mail[x] = 1 .. Len(mail[x])
         /\ \A i \in DOMAIN mail[x] : mail[x][i] \in Letters
  BY Elements DEF LifeType

\* and after it.
LEMMA MailboxesNext ==
  ASSUME LifeType', NEW x \in Boxes
  PROVE  /\ mail'[x] \in Seq(Letters) /\ Len(mail'[x]) \in Nat /\ DOMAIN mail'[x] = 1 .. Len(mail'[x])
         /\ \A i \in DOMAIN mail'[x] : mail'[x][i] \in Letters
  BY Elements DEF LifeType

Longer(s, t) == \A i \in DOMAIN s : i \in DOMAIN t /\ t[i] = s[i]

\* What the file system has been told it still knows when it is told more.
LEMMA MoreTold ==
  ASSUME LifeType, Longer(mail[SERVER], mail'[SERVER]), history'.gone = history.gone
  PROVE  /\ \A l \in Nat : Leaving(l) => Leaving(l)'
         /\ \A l, k \in Nat : Ahead(l, k) => Ahead(l, k)'
<1>1. \A l \in Nat : \A i \in DOMAIN mail[SERVER] : ExitAt(i, l) => i \in DOMAIN mail'[SERVER] /\ ExitAt(i, l)'
  BY DEF Longer, ExitAt
<1>2. ASSUME NEW l \in Nat, Leaving(l) PROVE Leaving(l)'
  BY <1>1, <1>2 DEF Leaving
<1>3. ASSUME NEW l \in Nat, NEW k \in Nat, Ahead(l, k) PROVE Ahead(l, k)'
  <2>1. PICK i \in DOMAIN mail[SERVER] : ExitAt(i, l) /\ \A j \in 1 .. i - 1 : mail[SERVER][j].life # k
    BY <1>3 DEF Ahead
  <2>2. \A j \in 1 .. i - 1 : mail'[SERVER][j].life # k
    <3>1. DOMAIN mail[SERVER] = 1 .. Len(mail[SERVER]) /\ Len(mail[SERVER]) \in Nat
      BY Mailboxes, Places
    <3>2. \A j \in 1 .. i - 1 : j \in DOMAIN mail[SERVER]
      BY <3>1
    <3> QED
      BY <2>1, <3>2 DEF Longer
  <2>3. i \in DOMAIN mail'[SERVER] /\ ExitAt(i, l)'
    BY <1>1, <2>1
  <2> QED
    BY <2>2, <2>3 DEF Ahead
<1> QED
  BY <1>2, <1>3

\* When it handles its first message, an exit that it was told of stays ahead, or was that one.
LEMMA OneHandled ==
  ASSUME LifeType, mail[SERVER] # <<>>, mail'[SERVER] = Tail(mail[SERVER]),
         history.gone \subseteq history'.gone,
         Head(mail[SERVER]).op = "exit" => Head(mail[SERVER]).life \in history'.gone
  PROVE  /\ \A l \in Nat : Leaving(l) => Leaving(l)'
         /\ \A l, k \in Nat : Ahead(l, k) => l \in history'.gone \/ Ahead(l, k)'
<1> DEFINE s == mail[SERVER]
<1>1. /\ Head(s) = s[1] /\ 1 \in DOMAIN s /\ Len(Tail(s)) = Len(s) - 1
      /\ \A i \in DOMAIN Tail(s) : i + 1 \in DOMAIN s /\ Tail(s)[i] = s[i + 1]
      /\ \A i \in DOMAIN s : i # 1 => i - 1 \in DOMAIN Tail(s) /\ Tail(s)[i - 1] = s[i]
  BY Mailboxes, Places, HeadAndTail
<1>2. DOMAIN s = 1 .. Len(s) /\ Len(s) \in Nat
  BY Mailboxes, Places
<1>3. ASSUME NEW l \in Nat, NEW i \in DOMAIN s, ExitAt(i, l)
      PROVE  l \in history'.gone \/ (i # 1 /\ i - 1 \in DOMAIN mail'[SERVER] /\ ExitAt(i - 1, l)')
  <2>1. CASE i = 1
    BY <1>1, <1>3, <2>1 DEF ExitAt
  <2>2. CASE i # 1
    BY <1>1, <1>3, <2>2 DEF ExitAt
  <2> QED
    BY <2>1, <2>2
<1> HIDE DEF s
<1>4. ASSUME NEW l \in Nat, Leaving(l) PROVE Leaving(l)'
  BY <1>3, <1>4 DEF Leaving, s
<1>5. ASSUME NEW l \in Nat, NEW k \in Nat, Ahead(l, k) PROVE l \in history'.gone \/ Ahead(l, k)'
  <2>1. PICK i \in DOMAIN s : ExitAt(i, l) /\ \A j \in 1 .. i - 1 : s[j].life # k
    BY <1>5 DEF Ahead, s
  <2>2. CASE l \in history'.gone
    BY <2>2
  <2>3. CASE i # 1 /\ i - 1 \in DOMAIN mail'[SERVER] /\ ExitAt(i - 1, l)'
    <3>1. ASSUME NEW j \in 1 .. (i - 1) - 1 PROVE mail'[SERVER][j].life # k
      <4>1. j + 1 \in 1 .. i - 1 /\ j + 1 \in DOMAIN s /\ j + 1 # 1 /\ (j + 1) - 1 = j
        BY <1>2, <2>1
      <4>2. Tail(s)[(j + 1) - 1] = s[j + 1]
        BY <1>1, <4>1
      <4> QED
        BY <2>1, <4>1, <4>2 DEF s
    <3> QED
      BY <2>3, <3>1 DEF Ahead
  <2> QED
    BY <1>3, <2>1, <2>2, <2>3
<1> QED
  BY <1>4, <1>5

Unmoved == fsproc' = fsproc /\ lives' = lives
SamePast == /\ history'.gone = history.gone /\ history'.late = history.late
            /\ history'.orphans = history.orphans /\ history'.struck = history.struck

\* Process p says this of itself, and of its child.
Said(h, p, m) ==
  /\ m.from = p /\ proc[p].life # 0 /\ m.life = proc[p].life
  /\ m.born # 0 => Lived(h, m.born, m.child)

\* A step of processes that send nothing, or of p that sends.
LEMMA ProcessStep ==
  ASSUME NEW h \in [Nat -> UserPids], LifeType, LifeType', Core(h), Unmoved, SamePast,
         NEW p \in UserPids,
         \A q \in UserPids :
           /\ proc'[q].life = proc[q].life
           /\ Exiting(proc'[q]) => Exiting(proc[q]) \/ Leaving(proc[q].life)',
         \A q \in UserPids : Fewer(mail[q], mail'[q]),
         \A x \in {KERNEL, SERVER} :
           /\ Longer(mail[x], mail'[x])
           /\ \A i \in DOMAIN mail'[x] : i \in DOMAIN mail[x] \/ Said(h, p, mail'[x][i]),
         \A i \in DOMAIN mail'[KERNEL] :
           i \in DOMAIN mail[KERNEL] \/ (mail'[KERNEL][i].op = "exit" => Leaving(proc[p].life)')
  PROVE  Core(h)'
<1>1. /\ \A l \in Nat : Leaving(l) => Leaving(l)'
      /\ \A l, k \in Nat : Ahead(l, k) => Ahead(l, k)'
  BY MoreTold DEF SamePast
<1>2. \A q \in UserPids : proc[q].life \in Nat /\ fsproc[q] \in Nat
  BY DEF LifeType, Records
<1>3. Owners(h)'
  <2>1. \A q \in UserPids : proc'[q].life # 0 => Lived(h, proc[q].life, q)'
    BY DEF Core, Owners, Unmoved, Lived
  <2>2. \A q \in UserPids : fsproc'[q] # 0 => Lived(h, fsproc[q], q)'
    BY DEF Core, Owners, Unmoved, Lived
  <2>3. ASSUME NEW x \in Boxes, NEW i \in DOMAIN mail'[x] PROVE WellBorn(h, mail[x][i])'
    <3>1. CASE x \in UserPids
      BY <3>1, Places DEF Core, Owners, Fewer, WellBorn, Lived, Unmoved
    <3>2. CASE x \in {KERNEL, SERVER} /\ i \in DOMAIN mail[x]
      BY <3>2 DEF Core, Owners, Longer, WellBorn, Lived, Unmoved
    <3>3. CASE x \in {KERNEL, SERVER} /\ Said(h, p, mail'[x][i])
      BY <3>3 DEF Core, Owners, Said, WellBorn, Lived, Unmoved
    <3> QED
      BY <3>1, <3>2, <3>3 DEF Boxes
  <2>4. ASSUME NEW x \in {KERNEL, SERVER}, NEW i \in DOMAIN mail'[x]
        PROVE  mail'[x][i].from \in UserPids /\ h[mail'[x][i].life] = mail'[x][i].from
    <3>1. CASE i \in DOMAIN mail[x]
      BY <3>1 DEF Core, Owners, Longer
    <3>2. CASE Said(h, p, mail'[x][i])
      BY <3>2 DEF Core, Owners, Said, Lived
    <3> QED
      BY <3>1, <3>2
  <2> QED
    BY <2>1, <2>2, <2>3, <2>4 DEF Owners
<1>4. ToldFirst'
  <2>1. ASSUME NEW q \in UserPids, proc'[q].pc \in {"exit", "nap"} PROVE Leaving(proc[q].life)'
    BY <1>1, <1>2, <2>1 DEF Core, ToldFirst, Exiting
  <2>2. ASSUME NEW i \in DOMAIN mail'[KERNEL], mail'[KERNEL][i].op = "exit"
        PROVE  Leaving(mail[KERNEL][i].life)'
    <3>1. CASE i \in DOMAIN mail[KERNEL]
      <4>1. mail'[KERNEL][i] = mail[KERNEL][i] /\ mail[KERNEL][i].life \in Nat
        BY <3>1, Mailboxes, Places DEF Longer, Letters
      <4> QED
        BY <1>1, <2>2, <3>1, <4>1 DEF Core, ToldFirst
    <3>2. CASE i \notin DOMAIN mail[KERNEL]
      BY <2>2, <3>2 DEF Said
    <3> QED
      BY <3>1, <3>2
  <2> QED
    BY <2>1, <2>2 DEF ToldFirst
<1>5. Parted(h)'
  <2> SUFFICES ASSUME NEW l \in 1 .. lives
               PROVE  \/ l \in {proc'[h[l]].life} \cup history'.struck \cup history'.gone
                      \/ Ahead(l, proc[h[l]].life)'
    BY DEF Parted, Unmoved
  <2>1. l \in Nat /\ h[l] \in UserPids
    BY DEF LifeType
  <2>2. \/ l \in {proc[h[l]].life} \cup history.struck \cup history.gone
        \/ Ahead(l, proc[h[l]].life)
    BY DEF Core, Parted
  <2>3. proc'[h[l]].life = proc[h[l]].life /\ proc[h[l]].life \in Nat
    BY <1>2, <2>1
  <2>4. PICK k \in Nat : k = proc[h[l]].life
    BY <2>3
  <2>5. Ahead(l, k) => Ahead(l, k)'
    BY <1>1, <2>1
  <2> QED
    BY <2>2, <2>3, <2>4, <2>5 DEF SamePast
<1>6. Heard'
  BY DEF Core, Heard, Unmoved, SamePast
<1>7. OwnAnswer'
  BY DEF Core, OwnAnswer, Fewer, SamePast
<1> QED
  BY <1>3, <1>4, <1>5, <1>6, <1>7 DEF Core

\* Following, nobody comes to sleep over a signal.
LEMMA CalmStep ==
  ASSUME LifeType, Unsignalled, \A q \in UserPids : Follows(proc[q], proc'[q]),
         history'.missed = history.missed
  PROVE  Unsignalled'
  BY DEF Unsignalled, Follows, Calmer

\* Post() adds a message to one mailbox.
LEMMA Posted ==
  ASSUME NEW b \in [Boxes -> Seq(Letters)], NEW x \in Boxes, NEW m \in Letters
  PROVE  /\ Post(b, x, m) \in [Boxes -> Seq(Letters)]
         /\ Post(b, x, m)[x] = Append(b[x], m)
         /\ \A y \in Boxes \ {x} : Post(b, x, m)[y] = b[y]
<1>1. Append(b[x], m) \in Seq(Letters)
  BY Appended
<1> QED
  BY <1>1 DEF Post

\* Mailboxes from which p has received, or not.
Reads(p, M) == M = mail \/ \E x \in {KERNEL, SERVER} : HasFrom(p, x) /\ M = Without(p, x)

\* Receiving takes nothing from the kernel or the file system.
LEMMA Read ==
  ASSUME LifeType, NEW p \in UserPids, NEW M, Reads(p, M)
  PROVE  /\ M \in [Boxes -> Seq(Letters)] /\ M[KERNEL] = mail[KERNEL] /\ M[SERVER] = mail[SERVER]
         /\ \A q \in UserPids : Fewer(mail[q], M[q])
<1>1. CASE M = mail
  BY <1>1, FewerSame, Places DEF LifeType
<1>2. ASSUME NEW x \in {KERNEL, SERVER}, HasFrom(p, x), M = Without(p, x)
      PROVE  /\ M \in [Boxes -> Seq(Letters)] /\ M[KERNEL] = mail[KERNEL] /\ M[SERVER] = mail[SERVER]
             /\ \A q \in UserPids : Fewer(mail[q], M[q])
  BY <1>2, Received, Places
<1> QED
  BY <1>1, <1>2 DEF Reads

\* Process p goes on, and sends nothing.
LEMMA Quiet ==
  ASSUME NEW h \in [Nat -> UserPids], LifeInv(h), NEW p \in UserPids, NEW r,
         Follows(proc[p], r), Exiting(r) => Exiting(proc[p]),
         proc' = [proc EXCEPT ![p] = r], Reads(p, mail'),
         UNCHANGED <<fsproc, lives, next, history>>
  PROVE  LifeInv(h)'
<1>1. LifeType /\ Core(h) /\ Unsignalled
  BY DEF LifeInv, Core
<1>2. /\ proc' \in [UserPids -> Records]
      /\ \A q \in UserPids : Follows(proc[q], proc'[q]) /\ (Exiting(proc'[q]) => Exiting(proc[q]))
  BY <1>1, OneFollows
<1>3. /\ mail' \in [Boxes -> Seq(Letters)] /\ mail'[KERNEL] = mail[KERNEL] /\ mail'[SERVER] = mail[SERVER]
      /\ \A q \in UserPids : Fewer(mail[q], mail'[q])
  BY <1>1, Read
<1>4. LifeType'
  BY <1>1, <1>2, <1>3 DEF LifeType
<1>5. Core(h)'
  <2>1. Unmoved /\ SamePast
    BY DEF Unmoved, SamePast
  <2>2. \A q \in UserPids :
          /\ proc'[q].life = proc[q].life
          /\ Exiting(proc'[q]) => Exiting(proc[q]) \/ Leaving(proc[q].life)'
    BY <1>2 DEF Follows
  <2>3. \A x \in {KERNEL, SERVER} :
          /\ Longer(mail[x], mail'[x])
          /\ \A i \in DOMAIN mail'[x] : i \in DOMAIN mail[x] \/ Said(h, p, mail'[x][i])
    BY <1>3 DEF Longer
  <2>4. \A i \in DOMAIN mail'[KERNEL] :
          i \in DOMAIN mail[KERNEL] \/ (mail'[KERNEL][i].op = "exit" => Leaving(proc[p].life)')
    BY <1>3
  <2> QED
    BY <1>1, <1>3, <1>4, <2>1, <2>2, <2>3, <2>4, ProcessStep
<1>6. Unsignalled'
  BY <1>1, <1>2, CalmStep
<1> QED
  BY <1>4, <1>5, <1>6 DEF LifeInv, Core

\* Process p goes on, and sends m to the kernel or to the file system.
LEMMA Sending ==
  ASSUME NEW h \in [Nat -> UserPids], LifeInv(h), NEW p \in UserPids, NEW r,
         Follows(proc[p], r), proc' = [proc EXCEPT ![p] = r],
         NEW x \in {KERNEL, SERVER}, NEW M, Reads(p, M), NEW m \in Letters, Said(h, p, m),
         mail' = Post(M, x, m),
         Exiting(r) => Exiting(proc[p]) \/ (x = SERVER /\ m.op = "exit"),
         x = KERNEL /\ m.op = "exit" => Leaving(proc[p].life),
         UNCHANGED <<fsproc, lives, next, history>>
  PROVE  LifeInv(h)'
<1>1. LifeType /\ Core(h) /\ Unsignalled
  BY DEF LifeInv, Core
<1>2. /\ proc' \in [UserPids -> Records] /\ proc'[p] = r
      /\ \A q \in UserPids : Follows(proc[q], proc'[q]) /\ (q # p => proc'[q] = proc[q])
  BY <1>1, OneFollows
<1>3. /\ M \in [Boxes -> Seq(Letters)] /\ M[KERNEL] = mail[KERNEL] /\ M[SERVER] = mail[SERVER]
      /\ \A q \in UserPids : Fewer(mail[q], M[q])
  BY <1>1, Read
<1>4. /\ mail' \in [Boxes -> Seq(Letters)] /\ mail'[x] = Append(mail[x], m)
      /\ \A y \in {KERNEL, SERVER} : y # x => mail'[y] = mail[y]
      /\ \A q \in UserPids : Fewer(mail[q], mail'[q])
  <2>1. /\ mail' \in [Boxes -> Seq(Letters)] /\ mail'[x] = Append(M[x], m)
        /\ \A y \in Boxes \ {x} : mail'[y] = M[y]
    <3>1. x \in Boxes /\ M \in [Boxes -> Seq(Letters)]
      BY <1>3, Places
    <3>2. /\ Post(M, x, m) \in [Boxes -> Seq(Letters)] /\ Post(M, x, m)[x] = Append(M[x], m)
          /\ \A y \in Boxes \ {x} : Post(M, x, m)[y] = M[y]
      BY <3>1, Posted
    <3> QED
      BY <3>2
  <2> QED
    BY <1>3, <2>1, Places
<1>5. /\ \A i \in DOMAIN mail[x] : i \in DOMAIN mail'[x] /\ mail'[x][i] = mail[x][i]
      /\ Len(mail[x]) + 1 \in DOMAIN mail'[x] /\ mail'[x][Len(mail[x]) + 1] = m
      /\ \A i \in DOMAIN mail'[x] : i \in DOMAIN mail[x] \/ i = Len(mail[x]) + 1
  <2>1. mail[x] \in Seq(Letters)
    BY <1>1, Places DEF LifeType
  <2> QED
    BY <1>4, <2>1, Appended
<1>6. LifeType'
  BY <1>1, <1>2, <1>4 DEF LifeType
<1>7. Core(h)'
  <2>1. Unmoved /\ SamePast
    BY DEF Unmoved, SamePast
  <2>2. \A y \in {KERNEL, SERVER} :
          /\ Longer(mail[y], mail'[y])
          /\ \A i \in DOMAIN mail'[y] : i \in DOMAIN mail[y] \/ Said(h, p, mail'[y][i])
    BY <1>4, <1>5 DEF Longer
  <2>3. m.life = proc[p].life /\ m.life \in Nat /\ proc'[p].life = proc[p].life
    BY <1>2 DEF Said, Letters, Follows
  <2>4. PICK k \in Nat : k = m.life
    BY <2>3
  <2>5. Leaving(k) => Leaving(k)'
    BY <1>1, <2>1, <2>2, MoreTold DEF SamePast
  <2>6. x = SERVER /\ m.op = "exit" => Leaving(k)'
    BY <1>5, <2>4 DEF Leaving, ExitAt
  <2>7. ASSUME NEW q \in UserPids
        PROVE  /\ proc'[q].life = proc[q].life
               /\ Exiting(proc'[q]) => Exiting(proc[q]) \/ Leaving(proc[q].life)'
    <3>1. CASE q = p
      BY <1>2, <2>3, <2>4, <2>6, <3>1 DEF Follows
    <3>2. CASE q # p
      BY <1>2, <3>2
    <3> QED
      BY <3>1, <3>2
  <2>8. \A i \in DOMAIN mail'[KERNEL] :
          i \in DOMAIN mail[KERNEL] \/ (mail'[KERNEL][i].op = "exit" => Leaving(proc[p].life)')
    <3>1. CASE x = KERNEL
      BY <1>5, <2>3, <2>4, <2>5, <3>1
    <3>2. CASE x # KERNEL
      BY <1>4, <3>2
    <3> QED
      BY <3>1, <3>2
  <2> QED
    BY <1>1, <1>4, <1>6, <2>1, <2>2, <2>7, <2>8, ProcessStep
<1>8. Unsignalled'
  BY <1>1, <1>2, CalmStep
<1> QED
  BY <1>6, <1>7, <1>8 DEF LifeInv, Core

-----------------------------------------------------------------------------
(* The actions of processes.                                                 *)

\* A message without a child.
LEMMA MessageType ==
  ASSUME NEW x \in Int, NEW l \in Nat, NEW o \in {"fork", "call", "exit"}
  PROVE  /\ Msg(x, l, o) \in Letters
         /\ Msg(x, l, o).from = x /\ Msg(x, l, o).life = l /\ Msg(x, l, o).op = o
         /\ Msg(x, l, o).born = 0
  BY DEF Msg, Letters

\* A fork's message or answer.
LEMMA ForkedType ==
  ASSUME NEW x \in Int, NEW l \in Nat, NEW c \in Nat, NEW b \in Nat
  PROVE  /\ Forked(x, l, c, b) \in Letters
         /\ Forked(x, l, c, b).from = x /\ Forked(x, l, c, b).life = l
         /\ Forked(x, l, c, b).op = "fork"
         /\ Forked(x, l, c, b).child = c /\ Forked(x, l, c, b).born = b
  BY DEF Forked, Msg, Letters

\* What a process says of itself in a message without a child.
LEMMA SaysOwn ==
  ASSUME LifeType, NEW h, NEW p \in UserPids, Alive(p), NEW o \in {"fork", "call", "exit"}
  PROVE  /\ Msg(p, proc[p].life, o) \in Letters /\ Msg(p, proc[p].life, o).op = o
         /\ Said(h, p, Msg(p, proc[p].life, o))
<1>1. p \in Int /\ proc[p].life \in Nat /\ proc[p].life # 0
  BY LifecycleAssumption DEF LifeType, Records, Alive
<1> QED
  BY <1>1, MessageType DEF Said

\* A process is a record.
LEMMA RecordOf ==
  ASSUME LifeType, NEW p \in UserPids
  PROVE  proc[p] \in Records
  BY DEF LifeType

\* ForkCall and Call.
LEMMA CallingKeeps ==
  ASSUME NEW h \in [Nat -> UserPids], LifeInv(h), NEW p \in UserPids,
         NEW o \in {"fork", "call"}, NEW x \in {KERNEL, SERVER}, Calling(p, o, x, o)
  PROVE  LifeInv(h)'
<1>1. LifeType /\ Alive(p) /\ proc[p] \in Records
  BY RecordOf DEF LifeInv, Calling, At
<1>2. PICK m \in Letters : m = Msg(p, proc[p].life, o) /\ m.op = o /\ Said(h, p, m)
  BY <1>1, SaysOwn
<1>3. PICK r : r = [proc[p] EXCEPT !.pc = o]
  OBVIOUS
<1>4. Follows(proc[p], r) /\ ~Exiting(r)
  <2>1. o \in Pcs \ {"window", "asleep"} /\ o \notin {"exit", "nap"}
    BY DEF Pcs
  <2> QED
    BY <1>1, <1>3, <2>1, GoesOn DEF Exiting
<1>5. proc' = [proc EXCEPT ![p] = r] /\ mail' = Post(mail, x, m)
  BY <1>2, <1>3 DEF Calling
<1>6. Reads(p, mail) /\ m.op # "exit"
  BY <1>2 DEF Reads
<1>7. UNCHANGED <<fsproc, lives, next, history>>
  BY DEF Calling
<1> QED
  BY <1>2, <1>4, <1>5, <1>6, <1>7, Sending

\* do_fork() goes on when the kernel has answered.
LEMMA ForkReturnsKeeps ==
  ASSUME NEW h \in [Nat -> UserPids], LifeInv(h), NEW p \in UserPids, ForkReturns(p)
  PROVE  LifeInv(h)'
<1>1. LifeType /\ proc[p] \in Records
  BY RecordOf DEF LifeInv
<1>2. PICK v \in {"run", "tell"} : proc' = [proc EXCEPT ![p] = [proc[p] EXCEPT !.pc = v]]
  BY DEF ForkReturns
<1>3. PICK r : r = [proc[p] EXCEPT !.pc = v]
  OBVIOUS
<1>4. Follows(proc[p], r) /\ ~Exiting(r)
  <2>1. v \in Pcs \ {"window", "asleep"} /\ v \notin {"exit", "nap"}
    BY DEF Pcs
  <2> QED
    BY <1>1, <1>3, <2>1, GoesOn DEF Exiting
<1>5. Reads(p, mail')
  BY DEF ForkReturns, Reads
<1>6. UNCHANGED <<fsproc, lives, next, history>>
  BY DEF ForkReturns
<1> QED
  BY <1>2, <1>3, <1>4, <1>5, <1>6, Quiet

\* A call to the file system returns.
LEMMA CallReturnsKeeps ==
  ASSUME NEW h \in [Nat -> UserPids], LifeInv(h), NEW p \in UserPids, CallReturns(p)
  PROVE  LifeInv(h)'
<1>1. LifeType /\ proc[p] \in Records
  BY RecordOf DEF LifeInv
<1>2. PICK v \in {"run"} : proc' = [proc EXCEPT ![p] = [proc[p] EXCEPT !.pc = v]]
  BY DEF CallReturns
<1>3. PICK r : r = [proc[p] EXCEPT !.pc = v]
  OBVIOUS
<1>4. Follows(proc[p], r) /\ ~Exiting(r)
  <2>1. v \in Pcs \ {"window", "asleep"} /\ v \notin {"exit", "nap"}
    BY DEF Pcs
  <2> QED
    BY <1>1, <1>3, <2>1, GoesOn DEF Exiting
<1>5. Reads(p, mail')
  BY DEF CallReturns, Reads
<1>6. UNCHANGED <<fsproc, lives, next, history>>
  BY DEF CallReturns
<1> QED
  BY <1>2, <1>3, <1>4, <1>5, <1>6, Quiet

\* The parent tells the file system of the child that the kernel named.
LEMMA TellKeeps ==
  ASSUME NEW h \in [Nat -> UserPids], LifeInv(h), NEW p \in UserPids, Tell(p)
  PROVE  LifeInv(h)'
<1>1. LifeType /\ proc[p] \in Records /\ Owners(h) /\ p \in Boxes /\ p \in Nat
  BY RecordOf, Places DEF LifeInv
<1>2. HasFrom(p, KERNEL) /\ proc[p].life # 0 /\ proc[p].life \in Nat
  BY <1>1 DEF Tell, At, Alive, Records
<1>3. PICK k \in DOMAIN mail[p] : k = FirstFrom(p, KERNEL)
  BY <1>1, <1>2, Received
<1>4. mail[p][k] \in Letters /\ (mail[p][k].born # 0 => Lived(h, mail[p][k].born, mail[p][k].child))
  BY <1>1, Mailboxes DEF Owners, WellBorn
<1>5. PICK c \in Nat, b \in Nat : c = mail[p][k].child /\ b = mail[p][k].born
  BY <1>4 DEF Letters
<1>6. PICK l \in Nat : l = proc[p].life
  BY <1>2
<1>7. /\ Forked(p, l, c, b) \in Letters
      /\ Forked(p, l, c, b).from = p /\ Forked(p, l, c, b).life = l
      /\ Forked(p, l, c, b).op = "fork"
      /\ Forked(p, l, c, b).child = c /\ Forked(p, l, c, b).born = b
  <2>1. p \in Int
    BY <1>1
  <2> QED
    BY <2>1, ForkedType
<1>8. PICK m \in Letters : m = Forked(p, l, c, b)
  BY <1>7
<1>9. m.op = "fork" /\ Said(h, p, m)
  <2>1. m.from = p /\ m.life = proc[p].life /\ m.op = "fork" /\ m.child = c /\ m.born = b
    BY <1>6, <1>7, <1>8
  <2> QED
    BY <1>2, <1>4, <1>5, <2>1 DEF Said
<1>10. PICK v \in {"run"} : proc' = [proc EXCEPT ![p] = [proc[p] EXCEPT !.pc = v]]
  BY DEF Tell
<1>11. PICK r : r = [proc[p] EXCEPT !.pc = v]
  OBVIOUS
<1>12. Follows(proc[p], r) /\ ~Exiting(r)
  <2>1. v \in Pcs \ {"window", "asleep"} /\ v \notin {"exit", "nap"}
    BY DEF Pcs
  <2> QED
    BY <1>1, <1>11, <2>1, GoesOn DEF Exiting
<1>13. mail' = Post(Without(p, KERNEL), SERVER, m)
  BY <1>3, <1>5, <1>8, <1>6 DEF Tell
<1>14. Reads(p, Without(p, KERNEL)) /\ m.op # "exit" /\ SERVER \in {KERNEL, SERVER}
  BY <1>2, <1>9 DEF Reads
<1>15. UNCHANGED <<fsproc, lives, next, history>>
  BY DEF Tell
<1>16. proc' = [proc EXCEPT ![p] = r]
  BY <1>10, <1>11
<1> QED
  BY <1>9, <1>12, <1>13, <1>14, <1>15, <1>16, Sending

\* do_exit() tells the file system first ...
LEMMA ExitKeeps ==
  ASSUME NEW h \in [Nat -> UserPids], LifeInv(h), NEW p \in UserPids, Alive(p), do_exit(p),
         UNCHANGED <<fsproc, lives, next, history>>
  PROVE  LifeInv(h)'
<1>1. LifeType /\ proc[p] \in Records
  BY RecordOf DEF LifeInv
<1>2. PICK o \in {"fork", "call", "exit"} : o = "exit"
  OBVIOUS
<1>3. PICK m \in Letters : m = Msg(p, proc[p].life, o) /\ m.op = o /\ Said(h, p, m)
  BY <1>1, SaysOwn
<1>4. PICK n \in Nat : n = proc[p].exits + 1
  BY <1>1 DEF Records
<1>5. PICK r : r = [proc[p] EXCEPT !.pc = "exit", !.exits = n, !.delivering = FALSE]
  OBVIOUS
<1>6. Follows(proc[p], r)
  BY <1>1, <1>5, Exits
<1>7. proc' = [proc EXCEPT ![p] = r]
  BY <1>4, <1>5 DEF do_exit
<1>8. mail' = Post(mail, SERVER, m)
  BY <1>2, <1>3 DEF do_exit, Told
<1>9. Reads(p, mail) /\ m.op = "exit" /\ SERVER \in {KERNEL, SERVER} /\ SERVER # KERNEL
  BY <1>2, <1>3, Places DEF Reads
<1> QED
  BY <1>3, <1>6, <1>7, <1>8, <1>9, Sending

\* ... and then the kernel.
LEMMA ExitNapKeeps ==
  ASSUME NEW h \in [Nat -> UserPids], LifeInv(h), NEW p \in UserPids, ExitNap(p)
  PROVE  LifeInv(h)'
<1>1. LifeType /\ proc[p] \in Records /\ Alive(p) /\ proc[p].pc = "exit"
  BY RecordOf DEF LifeInv, ExitNap, At
<1>2. PICK o \in {"fork", "call", "exit"} : o = "exit"
  OBVIOUS
<1>3. PICK m \in Letters : m = Msg(p, proc[p].life, o) /\ m.op = o /\ Said(h, p, m)
  BY <1>1, SaysOwn
<1>4. PICK v \in {"nap"} : proc' = [proc EXCEPT ![p] = [proc[p] EXCEPT !.pc = v]]
  BY DEF ExitNap
<1>5. PICK r : r = [proc[p] EXCEPT !.pc = v]
  OBVIOUS
<1>6. Follows(proc[p], r)
  <2>1. v \in Pcs \ {"window", "asleep"}
    BY DEF Pcs
  <2> QED
    BY <1>1, <1>5, <2>1, GoesOn
<1>7. proc' = [proc EXCEPT ![p] = r]
  BY <1>4, <1>5
<1>8. mail' = Post(mail, KERNEL, m)
  BY <1>2, <1>3 DEF ExitNap, Told
<1>9. Reads(p, mail) /\ KERNEL \in {KERNEL, SERVER} /\ Exiting(proc[p]) /\ Leaving(proc[p].life)
  BY <1>1 DEF Reads, Exiting, LifeInv, ToldFirst
<1>10. UNCHANGED <<fsproc, lives, next, history>>
  BY DEF ExitNap
<1> QED
  BY <1>3, <1>6, <1>7, <1>8, <1>9, <1>10, Sending

\* Steps that change one process only, and send and receive nothing.
LEMMA AloneKeeps ==
  ASSUME NEW h \in [Nat -> UserPids], LifeInv(h), NEW p \in UserPids, NEW r,
         Follows(proc[p], r), Exiting(r) => Exiting(proc[p]), proc' = [proc EXCEPT ![p] = r],
         UNCHANGED <<mail, fsproc, lives, next, history>>
  PROVE  LifeInv(h)'
<1>1. Reads(p, mail')
  BY DEF Reads
<1> QED
  BY <1>1, Quiet

\* The settings of signals do not wake or send to sleep.
LEMMA SettingsKeeps ==
  ASSUME NEW h \in [Nat -> UserPids], LifeInv(h), NEW p \in UserPids, Settings(p)
  PROVE  LifeInv(h)'
<1>1. proc[p] \in Records /\ proc[p].pc = "run"
  BY RecordOf DEF LifeInv, Settings, At
<1>2. UNCHANGED <<mail, fsproc, lives, next, history>>
  BY DEF Settings
<1>3. ASSUME NEW s \in Signals, NEW a \in Actions, proc' = [proc EXCEPT ![p].action[s] = a]
      PROVE  LifeInv(h)'
  <2>1. PICK r : r = [proc[p] EXCEPT !.action[s] = a]
    OBVIOUS
  <2>2. Follows(proc[p], r) /\ r.pc = proc[p].pc
    BY <1>1, <2>1, SetsAction
  <2>3. proc' = [proc EXCEPT ![p] = r]
    BY <1>3, <2>1
  <2> QED
    BY <1>2, <2>2, <2>3, AloneKeeps DEF Exiting
<1>4. ASSUME NEW B \in SUBSET Signals,
             proc' = [proc EXCEPT ![p].blocked = B \ {SIGKILL, SIGSTOP}]
      PROVE  LifeInv(h)'
  <2>1. PICK C \in SUBSET Signals : C = B \ {SIGKILL, SIGSTOP}
    OBVIOUS
  <2>2. PICK r : r = [proc[p] EXCEPT !.blocked = C]
    OBVIOUS
  <2>3. Follows(proc[p], r) /\ r.pc = proc[p].pc
    BY <1>1, <2>2, SetsBlocked
  <2>4. proc' = [proc EXCEPT ![p] = r]
    BY <1>4, <2>1, <2>2
  <2> QED
    BY <1>2, <2>3, <2>4, AloneKeeps DEF Exiting
<1> QED
  BY <1>3, <1>4 DEF Settings, Actions

\* The timer handler starts the delivery of signals.
LEMMA TickKeeps ==
  ASSUME NEW h \in [Nat -> UserPids], LifeInv(h), NEW p \in UserPids, Tick(p)
  PROVE  LifeInv(h)'
<1>1. proc[p] \in Records
  BY RecordOf DEF LifeInv
<1>2. PICK r : r = [proc[p] EXCEPT !.delivering = TRUE]
  OBVIOUS
<1>3. Follows(proc[p], r) /\ r.pc = proc[p].pc
  <2>1. PICK b \in BOOLEAN : b = TRUE
    OBVIOUS
  <2> QED
    BY <1>1, <1>2, <2>1, Delivers
<1>4. proc' = [proc EXCEPT ![p] = r] /\ UNCHANGED <<mail, fsproc, lives, next, history>>
  BY <1>2 DEF Tick
<1> QED
  BY <1>3, <1>4, AloneKeeps DEF Exiting

\* A turn of sig_deliver(), which may exit.
LEMMA DeliverKeeps ==
  ASSUME NEW h \in [Nat -> UserPids], LifeInv(h), NEW p \in UserPids, Deliver(p)
  PROVE  LifeInv(h)'
<1>1. proc[p] \in Records /\ Alive(p)
  BY RecordOf DEF LifeInv, Deliver
<1>2. UNCHANGED <<fsproc, lives, next, history>>
  BY DEF Deliver
<1>3. CASE Deliverable(proc[p]) = {}
  <2>1. PICK r : r = [proc[p] EXCEPT !.delivering = FALSE]
    OBVIOUS
  <2>2. Follows(proc[p], r) /\ r.pc = proc[p].pc
    <3>1. PICK b \in BOOLEAN : b = FALSE
      OBVIOUS
    <3> QED
      BY <1>1, <2>1, <3>1, Delivers
  <2>3. proc' = [proc EXCEPT ![p] = r] /\ mail' = mail
    BY <1>3, <2>1 DEF Deliver
  <2> QED
    BY <1>2, <2>2, <2>3, AloneKeeps DEF Exiting
<1>4. CASE Deliverable(proc[p]) # {}
  <2>1. PICK s : s = Min(Deliverable(proc[p]))
    OBVIOUS
  <2>2. s \in Int
    <3>1. Deliverable(proc[p]) \subseteq Nat
      <4>1. proc[p].pending \subseteq Signals /\ Signals \subseteq Nat
        BY <1>1, LifecycleAssumption DEF Records
      <4> QED
        BY <4>1 DEF Deliverable
    <3> QED
      BY <1>4, <2>1, <3>1, LeastFound
  <2>3. \/ do_exit(p)
        \/ proc' = [proc EXCEPT ![p].handling = s] /\ mail' = mail
        \/ proc' = [proc EXCEPT ![p].pending = @ \ {s}] /\ mail' = mail
    BY <1>4, <2>1 DEF Deliver
  <2>4. CASE do_exit(p)
    BY <1>1, <1>2, <2>4, ExitKeeps
  <2>5. CASE proc' = [proc EXCEPT ![p].handling = s] /\ mail' = mail
    <3>1. PICK r : r = [proc[p] EXCEPT !.handling = s]
      OBVIOUS
    <3>2. Follows(proc[p], r) /\ r.pc = proc[p].pc
      BY <1>1, <2>2, <3>1, Handles
    <3>3. proc' = [proc EXCEPT ![p] = r]
      BY <2>5, <3>1
    <3> QED
      BY <1>2, <2>5, <3>2, <3>3, AloneKeeps DEF Exiting
  <2>6. CASE proc' = [proc EXCEPT ![p].pending = @ \ {s}] /\ mail' = mail
    <3>1. PICK r : r = [proc[p] EXCEPT !.pending = @ \ {s}]
      OBVIOUS
    <3>2. Follows(proc[p], r) /\ r.pc = proc[p].pc
      BY <1>1, <3>1, Takes
    <3>3. proc' = [proc EXCEPT ![p] = r]
      BY <2>6, <3>1
    <3> QED
      BY <1>2, <2>6, <3>2, <3>3, AloneKeeps DEF Exiting
  <2> QED
    BY <2>3, <2>4, <2>5, <2>6
<1> QED
  BY <1>3, <1>4

\* A handler returns.
LEMMA HandledKeeps ==
  ASSUME NEW h \in [Nat -> UserPids], LifeInv(h), NEW p \in UserPids, Handled(p)
  PROVE  LifeInv(h)'
<1>1. proc[p] \in Records
  BY RecordOf DEF LifeInv
<1>2. PICK s : s = proc[p].handling
  OBVIOUS
<1>3. PICK t : t = [proc[p] EXCEPT !.pending = @ \ {s}]
  OBVIOUS
<1>4. Follows(proc[p], t) /\ t.pc = proc[p].pc
  BY <1>1, <1>3, Takes
<1>5. PICK n \in Int : n = -1
  OBVIOUS
<1>6. PICK r : r = [t EXCEPT !.handling = n]
  OBVIOUS
<1>7. Follows(proc[p], r) /\ r.pc = proc[p].pc
  <2>1. t \in Records
    BY <1>4 DEF Follows
  <2>2. Follows(t, r) /\ r.pc = t.pc
    BY <1>6, <2>1, Handles
  <2> QED
    BY <1>4, <2>2, FollowsBoth
<1>8. proc' = [proc EXCEPT ![p] = r] /\ UNCHANGED <<mail, fsproc, lives, next, history>>
  BY <1>2, <1>3, <1>5, <1>6 DEF Handled
<1> QED
  BY <1>7, <1>8, AloneKeeps DEF Exiting

\* do_pause() looks for signals before it sleeps.
LEMMA PauseKeeps ==
  ASSUME NEW h \in [Nat -> UserPids], LifeInv(h), NEW p \in UserPids, Pause(p)
  PROVE  LifeInv(h)'
<1>1. proc[p] \in Records
  BY RecordOf DEF LifeInv
<1>2. PICK v \in {"pause"} : v = "pause"
  OBVIOUS
<1>3. PICK r : r = [proc[p] EXCEPT !.pc = v]
  OBVIOUS
<1>4. Follows(proc[p], r) /\ ~Exiting(r)
  <2>1. v \in Pcs \ {"window", "asleep"} /\ v \notin {"exit", "nap"}
    BY DEF Pcs
  <2> QED
    BY <1>1, <1>3, <2>1, GoesOn DEF Exiting
<1>5. proc' = [proc EXCEPT ![p] = r] /\ UNCHANGED <<mail, fsproc, lives, next, history>>
  BY <1>2, <1>3 DEF Pause
<1> QED
  BY <1>4, <1>5, AloneKeeps

\* Whoever finds a signal to take does not go on to sleep.
LEMMA PauseTestKeeps ==
  ASSUME NEW h \in [Nat -> UserPids], LifeInv(h), NEW p \in UserPids, PauseTest(p)
  PROVE  LifeInv(h)'
<1>1. proc[p] \in Records /\ proc[p].life # 0
  BY RecordOf DEF LifeInv, PauseTest, At, Alive
<1>2. UNCHANGED <<mail, fsproc, lives, next, history>>
  BY DEF PauseTest
<1>3. CASE Deliverable(proc[p]) = {}
  <2>1. PICK r : r = [proc[p] EXCEPT !.pc = "window"]
    OBVIOUS
  <2>2. Follows(proc[p], r) /\ ~Exiting(r)
    BY <1>1, <1>3, <2>1, Tests
  <2>3. proc' = [proc EXCEPT ![p] = r]
    BY <1>3, <2>1 DEF PauseTest
  <2> QED
    BY <1>2, <2>2, <2>3, AloneKeeps
<1>4. CASE Deliverable(proc[p]) # {}
  <2>1. PICK v \in {"run"}, b \in BOOLEAN : v = "run" /\ b = TRUE
    OBVIOUS
  <2>2. PICK t : t = [proc[p] EXCEPT !.pc = v]
    OBVIOUS
  <2>3. Follows(proc[p], t) /\ t.pc = v /\ v \notin {"exit", "nap"}
    <3>1. v \in Pcs \ {"window", "asleep"}
      BY DEF Pcs
    <3> QED
      BY <1>1, <2>2, <3>1, GoesOn
  <2>4. PICK r : r = [t EXCEPT !.delivering = b]
    OBVIOUS
  <2>5. Follows(t, r) /\ r.pc = t.pc
    <3>1. t \in Records
      BY <2>3 DEF Follows
    <3> QED
      BY <2>4, <3>1, Delivers
  <2>6. Follows(proc[p], r) /\ ~Exiting(r)
    BY <2>3, <2>5, FollowsBoth DEF Exiting
  <2>7. proc' = [proc EXCEPT ![p] = r]
    <3>1. proc' = [proc EXCEPT ![p] = [proc[p] EXCEPT !.pc = "run", !.delivering = TRUE]]
      BY <1>4 DEF PauseTest
    <3>2. r = [proc[p] EXCEPT !.pc = "run", !.delivering = TRUE]
      BY <2>1, <2>2, <2>4
    <3> QED
      BY <3>1, <3>2
  <2> QED
    BY <1>2, <2>6, <2>7, AloneKeeps
<1> QED
  BY <1>3, <1>4

\* proc_sleep(), at the end of do_pause().
LEMMA PauseSleepKeeps ==
  ASSUME NEW h \in [Nat -> UserPids], LifeInv(h), NEW p \in UserPids, PauseSleep(p)
  PROVE  LifeInv(h)'
<1>1. proc[p] \in Records /\ proc[p].pc = "window"
  BY RecordOf DEF LifeInv, PauseSleep, At
<1>2. PICK r : r = [proc[p] EXCEPT !.pc = "asleep"]
  OBVIOUS
<1>3. Follows(proc[p], r) /\ ~Exiting(r)
  BY <1>1, <1>2, FallsAsleep
<1>4. proc' = [proc EXCEPT ![p] = r] /\ UNCHANGED <<mail, fsproc, lives, next, history>>
  BY <1>2 DEF PauseSleep
<1> QED
  BY <1>3, <1>4, AloneKeeps

\* A signal wakes who sleeps over it; only in the window it can be missed.
LEMMA KillKeeps ==
  ASSUME NEW h \in [Nat -> UserPids], LifeInv(h),
         NEW p \in UserPids, NEW q \in UserPids, NEW s \in Signals, Kill(p, q, s)
  PROVE  LifeInv(h)'
<1>1. /\ LifeType /\ Core(h) /\ Unsignalled /\ Owners(h)
      /\ proc[q] \in Records /\ proc[q].life # 0 /\ proc[q].life \in Nat
  BY RecordOf DEF LifeInv, Core, Kill, Alive, Records
<1>2. PICK t : t = sig_send(proc[q], s)
  OBVIOUS
<1>3. /\ t \in Records /\ t.life = proc[q].life
      /\ t.pc \in {proc[q].pc, "pause"} /\ (t.pc = "pause" => proc[q].pc \in {"asleep", "pause"})
      /\ t.pc = "asleep" => Deliverable(t) \subseteq Deliverable(proc[q])
  BY <1>1, <1>2, Sends
<1>4. proc' = [proc EXCEPT ![q] = t]
  BY <1>2 DEF Kill
<1>5. /\ proc' \in [UserPids -> Records] /\ proc'[q] = t
      /\ \A w \in UserPids \ {q} : proc'[w] = proc[w]
  BY <1>1, <1>3, <1>4 DEF LifeType
<1>6. PICK S \in SUBSET Nat :
        /\ history' = [history EXCEPT !.missed = S]
        /\ S = IF proc[q].pc = "window" THEN history.missed \cup {proc[q].life}
               ELSE IF proc'[q].pc = "asleep" THEN history.missed
               ELSE history.missed \ {proc[q].life}
  <2>1. history.missed \in SUBSET Nat
    BY <1>1 DEF LifeType, Pasts
  <2> QED
    BY <1>1, <2>1 DEF Kill
<1>7. history' \in Pasts /\ history'.missed = S /\ SamePast
  BY <1>1, <1>6 DEF LifeType, Pasts, SamePast
<1>8. UNCHANGED <<mail, fsproc, lives, next>>
  BY DEF Kill
<1>9. LifeType'
  BY <1>1, <1>5, <1>7, <1>8 DEF LifeType
<1>10. Core(h)'
  <2>1. Unmoved
    BY <1>8 DEF Unmoved
  <2>2. \A w \in UserPids :
          /\ proc'[w].life = proc[w].life
          /\ Exiting(proc'[w]) => Exiting(proc[w]) \/ Leaving(proc[w].life)'
    BY <1>3, <1>5 DEF Exiting
  <2>3. /\ \A w \in UserPids : Fewer(mail[w], mail'[w])
        /\ \A x \in {KERNEL, SERVER} :
             /\ Longer(mail[x], mail'[x])
             /\ \A i \in DOMAIN mail'[x] : i \in DOMAIN mail[x] \/ Said(h, p, mail'[x][i])
        /\ \A i \in DOMAIN mail'[KERNEL] :
             i \in DOMAIN mail[KERNEL] \/ (mail'[KERNEL][i].op = "exit" => Leaving(proc[p].life)')
    <3>1. \A w \in UserPids : mail[w] \in Seq(Letters)
      BY <1>1, Places DEF LifeType
    <3> QED
      BY <1>8, <3>1, FewerSame DEF Longer
  <2> QED
    BY <1>1, <1>7, <1>9, <2>1, <2>2, <2>3, ProcessStep
<1>11. Unsignalled'
  <2> SUFFICES ASSUME NEW w \in UserPids, proc'[w].pc \in {"window", "asleep"}
               PROVE  /\ proc'[w].life # 0
                      /\ Deliverable(proc'[w]) # {} => proc'[w].life \in history'.missed
    BY DEF Unsignalled
  <2>1. CASE w = q
    <3>1. proc[q].pc = t.pc /\ t.pc \in {"window", "asleep"}
      BY <1>3, <1>5, <2>1
    <3>2. Deliverable(proc[q]) # {} => proc[q].life \in history.missed
      BY <1>1, <3>1 DEF Unsignalled
    <3>3. CASE t.pc = "window"
      BY <1>1, <1>3, <1>5, <1>6, <1>7, <2>1, <3>1, <3>3
    <3>4. CASE t.pc = "asleep"
      BY <1>1, <1>3, <1>5, <1>6, <1>7, <2>1, <3>1, <3>2, <3>4
    <3> QED
      BY <3>1, <3>3, <3>4
  <2>2. CASE w # q
    <3>1. proc'[w] = proc[w] /\ proc[w].life # 0
          /\ (Deliverable(proc[w]) # {} => proc[w].life \in history.missed)
      BY <1>1, <1>5, <2>2 DEF Unsignalled
    <3>2. proc[w].life # proc[q].life
      BY <1>1, <2>2, <3>1 DEF Owners, Lived
    <3> QED
      BY <1>6, <1>7, <3>1, <3>2
  <2> QED
    BY <2>1, <2>2
<1> QED
  BY <1>9, <1>10, <1>11 DEF LifeInv, Core

-----------------------------------------------------------------------------
(* The kernel and the file system.                                           *)

\* The first message to a server is well born, and handling it leaves the other mailboxes.
LEMMA FirstMessage ==
  ASSUME NEW h \in [Nat -> UserPids], LifeType, Owners(h), NEW x \in {KERNEL, SERVER}, mail[x] # <<>>
  PROVE  /\ Head(mail[x]) \in Letters /\ Head(mail[x]).from \in UserPids
         /\ h[Head(mail[x]).life] = Head(mail[x]).from /\ WellBorn(h, Head(mail[x]))
         /\ Head(mail[x]) = mail[x][1] /\ 1 \in DOMAIN mail[x]
         /\ Handle(x) \in [Boxes -> Seq(Letters)] /\ Handle(x)[x] = Tail(mail[x])
         /\ \A y \in Boxes \ {x} : Handle(x)[y] = mail[y]
         /\ \A i \in DOMAIN Tail(mail[x]) : i + 1 \in DOMAIN mail[x] /\ Tail(mail[x])[i] = mail[x][i + 1]
<1>1. x \in Boxes /\ mail[x] \in Seq(Letters)
  BY Places DEF LifeType
<1>2. /\ Head(mail[x]) = mail[x][1] /\ 1 \in DOMAIN mail[x] /\ Tail(mail[x]) \in Seq(Letters)
      /\ \A i \in DOMAIN Tail(mail[x]) : i + 1 \in DOMAIN mail[x] /\ Tail(mail[x])[i] = mail[x][i + 1]
  BY <1>1, HeadAndTail
<1>3. mail[x][1] \in Letters
  BY <1>1, <1>2, Elements
<1>4. mail[x][1].from \in UserPids /\ h[mail[x][1].life] = mail[x][1].from /\ WellBorn(h, mail[x][1])
  BY <1>1, <1>2 DEF Owners
<1>5. /\ Handle(x) \in [Boxes -> Seq(Letters)] /\ Handle(x)[x] = Tail(mail[x])
      /\ \A y \in Boxes \ {x} : Handle(x)[y] = mail[y]
  BY <1>1, <1>2 DEF Handle, LifeType
<1> QED
  BY <1>2, <1>3, <1>4, <1>5

\* Lives, entries and messages that are as before or well born.
LEMMA OwnersStay ==
  ASSUME NEW h \in [Nat -> UserPids], NEW g \in [Nat -> UserPids], LifeType, LifeType', Owners(h),
         lives <= lives', \A l \in 1 .. lives : g[l] = h[l],
         \A q \in UserPids : proc'[q].life \in {0, proc[q].life} \/ Lived(g, proc[q].life, q)',
         \A q \in UserPids : fsproc'[q] \in {0, fsproc[q]} \/ Lived(g, fsproc[q], q)',
         \A x \in Boxes : \A i \in DOMAIN mail'[x] :
           \/ \E j \in DOMAIN mail[x] : mail'[x][i] = mail[x][j]
           \/ x \in UserPids /\ WellBorn(g, mail[x][i])'
  PROVE  Owners(g)'
<1>1. lives \in Nat /\ lives' \in Nat
  BY DEF LifeType
<1>2. \A l, p : Lived(h, l, p) => l \in 1 .. lives' /\ g[l] = p
  BY <1>1 DEF Lived
<1>3. \A q \in UserPids : (proc[q].life # 0 => Lived(g, proc[q].life, q))'
  BY <1>2 DEF Owners, Lived
<1>4. \A q \in UserPids : (fsproc[q] # 0 => Lived(g, fsproc[q], q))'
  BY <1>2 DEF Owners, Lived
<1>5. ASSUME NEW x \in Boxes, NEW i \in DOMAIN mail'[x] PROVE WellBorn(g, mail[x][i])'
  <2>1. CASE \E j \in DOMAIN mail[x] : mail'[x][i] = mail[x][j]
    <3>1. PICK j \in DOMAIN mail[x] : mail'[x][i] = mail[x][j]
      BY <2>1
    <3>2. WellBorn(h, mail[x][j])
      BY DEF Owners
    <3> QED
      BY <1>1, <1>2, <3>1, <3>2 DEF WellBorn, Lived
  <2> QED
    BY <2>1
<1>6. ASSUME NEW x \in {KERNEL, SERVER}, NEW i \in DOMAIN mail'[x]
      PROVE  mail'[x][i].from \in UserPids /\ g[mail'[x][i].life] = mail'[x][i].from
  <2>1. x \in Boxes /\ x \notin UserPids
    BY Places
  <2>2. PICK j \in DOMAIN mail[x] : mail'[x][i] = mail[x][j]
    BY <2>1
  <2>3. /\ WellBorn(h, mail[x][j])
        /\ mail[x][j].from \in UserPids /\ h[mail[x][j].life] = mail[x][j].from
    BY <2>1 DEF Owners
  <2> QED
    BY <2>2, <2>3 DEF WellBorn
<1> QED
  BY <1>3, <1>4, <1>5, <1>6 DEF Owners

\* The file system handles its first message; lives stay what they are.
LEMMA ServerStep ==
  ASSUME NEW h \in [Nat -> UserPids], LifeType, LifeType', Core(h), mail[SERVER] # <<>>,
         mail'[SERVER] = Tail(mail[SERVER]), mail'[KERNEL] = mail[KERNEL],
         history.gone \subseteq history'.gone, history'.struck = history.struck, lives' = lives,
         Head(mail[SERVER]).op = "exit" => Head(mail[SERVER]).life \in history'.gone,
         \A q \in UserPids : proc'[q].life = proc[q].life /\ (Exiting(proc'[q]) => Exiting(proc[q]))
  PROVE  ToldFirst' /\ Parted(h)'
<1>1. /\ \A l \in Nat : Leaving(l) => Leaving(l)'
      /\ \A l, k \in Nat : Ahead(l, k) => l \in history'.gone \/ Ahead(l, k)'
  BY OneHandled
<1>2. \A q \in UserPids : proc[q].life \in Nat
  BY DEF LifeType, Records
<1>3. ToldFirst'
  <2>1. ASSUME NEW q \in UserPids, proc'[q].pc \in {"exit", "nap"} PROVE Leaving(proc[q].life)'
    BY <1>1, <1>2, <2>1 DEF Core, ToldFirst, Exiting
  <2>2. ASSUME NEW i \in DOMAIN mail'[KERNEL], mail'[KERNEL][i].op = "exit"
        PROVE  Leaving(mail[KERNEL][i].life)'
    <3>1. mail'[KERNEL][i] = mail[KERNEL][i] /\ mail[KERNEL][i].life \in Nat
      BY Mailboxes, Places DEF Letters
    <3> QED
      BY <1>1, <2>2, <3>1 DEF Core, ToldFirst
  <2> QED
    BY <2>1, <2>2 DEF ToldFirst
<1>4. Parted(h)'
  <2> SUFFICES ASSUME NEW l \in 1 .. lives
               PROVE  \/ l \in {proc'[h[l]].life} \cup history'.struck \cup history'.gone
                      \/ Ahead(l, proc[h[l]].life)'
    BY DEF Parted
  <2>1. l \in Nat /\ h[l] \in UserPids
    BY DEF LifeType
  <2>2. \/ l \in {proc[h[l]].life} \cup history.struck \cup history.gone
        \/ Ahead(l, proc[h[l]].life)
    BY DEF Core, Parted
  <2>3. proc'[h[l]].life = proc[h[l]].life /\ proc[h[l]].life \in Nat
    BY <1>2, <2>1
  <2>4. PICK k \in Nat : k = proc[h[l]].life
    BY <2>3
  <2>5. Ahead(l, k) => l \in history'.gone \/ Ahead(l, k)'
    BY <1>1, <2>1
  <2> QED
    BY <2>2, <2>3, <2>4, <2>5
<1> QED
  BY <1>3, <1>4

\* The file system hears of a child.
LEMMA FsForkKeeps ==
  ASSUME NEW h \in [Nat -> UserPids], LifeInv(h), FsFork
  PROVE  LifeInv(h)'
<1>1. LifeType /\ Core(h) /\ Unsignalled /\ Owners(h) /\ mail[SERVER] # <<>>
  BY DEF LifeInv, Core, FsFork, Request
<1>2. PICK m : m = Head(mail[SERVER])
  OBVIOUS
<1>3. /\ m \in Letters /\ WellBorn(h, m) /\ Handle(SERVER) \in [Boxes -> Seq(Letters)]
      /\ Handle(SERVER)[SERVER] = Tail(mail[SERVER])
      /\ \A y \in Boxes \ {SERVER} : Handle(SERVER)[y] = mail[y]
      /\ \A i \in DOMAIN Tail(mail[SERVER]) :
           i + 1 \in DOMAIN mail[SERVER] /\ Tail(mail[SERVER])[i] = mail[SERVER][i + 1]
  BY <1>1, <1>2, FirstMessage
<1>4. m.op = "fork" /\ m.born \in Nat /\ fsproc' = [fsproc EXCEPT ![m.child] = m.born]
  BY <1>2, <1>3 DEF FsFork, Request, Letters
<1>5. PICK S \in SUBSET Nat :
        /\ history' = [history EXCEPT !.late = S] /\ history.late \subseteq S
        /\ m.born \in history.gone => m.born \in S
  <2>1. history.late \in SUBSET Nat
    BY <1>1 DEF LifeType, Pasts
  <2>2. PICK S : S = IF m.born \in history.gone THEN history.late \cup {m.born} ELSE history.late
    OBVIOUS
  <2>3. S \in SUBSET Nat /\ history.late \subseteq S /\ (m.born \in history.gone => m.born \in S)
    BY <1>4, <2>1, <2>2
  <2>4. history' = [history EXCEPT !.late = S]
    BY <1>2, <2>2 DEF FsFork
  <2> QED
    BY <2>3, <2>4
<1>6. /\ history' \in Pasts /\ history'.late = S /\ history'.gone = history.gone
      /\ history'.struck = history.struck /\ history'.orphans = history.orphans
      /\ history'.missed = history.missed
  BY <1>1, <1>5 DEF LifeType, Pasts
<1>7. mail' = Handle(SERVER) /\ UNCHANGED <<proc, lives, next>>
  BY DEF FsFork
<1>8. fsproc' \in [UserPids -> Nat]
  BY <1>1, <1>4 DEF LifeType
<1>9. LifeType'
  BY <1>1, <1>3, <1>6, <1>7, <1>8 DEF LifeType
<1>10. \A q \in UserPids : fsproc'[q] = fsproc[q] \/ (fsproc'[q] = m.born /\ q = m.child)
  BY <1>1, <1>4 DEF LifeType
<1>11. Owners(h)'
  <2>1. ASSUME NEW q \in UserPids PROVE fsproc'[q] \in {0, fsproc[q]} \/ Lived(h, fsproc[q], q)'
    <3>1. CASE fsproc'[q] = fsproc[q]
      BY <3>1
    <3>2. CASE fsproc'[q] = m.born /\ q = m.child
      <4>1. CASE m.born = 0
        BY <3>2, <4>1
      <4>2. CASE m.born # 0
        BY <1>3, <1>7, <3>2, <4>2 DEF WellBorn, Lived
      <4> QED
        BY <4>1, <4>2
    <3> QED
      BY <1>10, <3>1, <3>2
  <2>2. ASSUME NEW x \in Boxes, NEW i \in DOMAIN mail'[x]
        PROVE  \E j \in DOMAIN mail[x] : mail'[x][i] = mail[x][j]
    <3>1. CASE x = SERVER
      BY <1>3, <1>7, <3>1
    <3>2. CASE x # SERVER
      BY <1>3, <1>7, <3>2
    <3> QED
      BY <3>1, <3>2
  <2>3. lives <= lives' /\ \A q \in UserPids : proc'[q].life = proc[q].life
    BY <1>1, <1>7 DEF LifeType
  <2> QED
    BY <1>1, <1>9, <2>1, <2>2, <2>3, OwnersStay
<1>12. ToldFirst' /\ Parted(h)'
  <2>1. mail'[SERVER] = Tail(mail[SERVER]) /\ mail'[KERNEL] = mail[KERNEL]
    BY <1>3, <1>7, Places
  <2>2. \A q \in UserPids : proc'[q].life = proc[q].life /\ (Exiting(proc'[q]) => Exiting(proc[q]))
    BY <1>7
  <2>3. Head(mail[SERVER]).op # "exit" /\ lives' = lives /\ history.gone \subseteq history'.gone
    BY <1>2, <1>4, <1>6, <1>7
  <2> QED
    BY <1>1, <1>6, <1>9, <2>1, <2>2, <2>3, ServerStep
<1>13. Heard'
  BY <1>1, <1>5, <1>6, <1>10 DEF Core, Heard
<1>14. OwnAnswer'
  <2>1. \A q \in UserPids : mail'[q] = mail[q]
    BY <1>3, <1>7, Places
  <2> QED
    BY <1>1, <1>6, <1>7, <2>1 DEF Core, OwnAnswer
<1>15. Unsignalled'
  BY <1>1, <1>6, <1>7 DEF Unsignalled
<1> QED
  BY <1>9, <1>11, <1>12, <1>13, <1>14, <1>15 DEF LifeInv, Core

\* The file system hears of an exit, the first one of its mailbox.
LEMMA FsExitKeeps ==
  ASSUME NEW h \in [Nat -> UserPids], LifeInv(h), FsExit
  PROVE  LifeInv(h)'
<1>1. LifeType /\ Core(h) /\ Unsignalled /\ Owners(h) /\ mail[SERVER] # <<>>
  BY DEF LifeInv, Core, FsExit, Request
<1>2. PICK m : m = Head(mail[SERVER])
  OBVIOUS
<1>3. /\ m \in Letters /\ m.from \in UserPids /\ h[m.life] = m.from
      /\ Handle(SERVER) \in [Boxes -> Seq(Letters)]
      /\ Handle(SERVER)[SERVER] = Tail(mail[SERVER])
      /\ \A y \in Boxes \ {SERVER} : Handle(SERVER)[y] = mail[y]
      /\ \A i \in DOMAIN Tail(mail[SERVER]) :
           i + 1 \in DOMAIN mail[SERVER] /\ Tail(mail[SERVER])[i] = mail[SERVER][i + 1]
  BY <1>1, <1>2, FirstMessage
<1>4. m.life \in Nat /\ fsproc' = [fsproc EXCEPT ![m.from] = 0]
  BY <1>2, <1>3 DEF FsExit, Letters
<1>5. PICK S \in SUBSET Nat : history' = [history EXCEPT !.gone = S] /\ S = history.gone \cup {m.life}
  <2>1. history.gone \in SUBSET Nat
    BY <1>1 DEF LifeType, Pasts
  <2> QED
    BY <1>2, <1>4, <2>1 DEF FsExit
<1>6. /\ history' \in Pasts /\ history'.late = history.late /\ history'.gone = S
      /\ history'.struck = history.struck /\ history'.orphans = history.orphans
      /\ history'.missed = history.missed
  BY <1>1, <1>5 DEF LifeType, Pasts
<1>7. mail' = Handle(SERVER) /\ UNCHANGED <<proc, lives, next>>
  BY DEF FsExit
<1>8. fsproc' \in [UserPids -> Nat]
  BY <1>1, <1>4 DEF LifeType
<1>9. LifeType'
  BY <1>1, <1>3, <1>6, <1>7, <1>8 DEF LifeType
<1>10. \A q \in UserPids : fsproc'[q] = IF q = m.from THEN 0 ELSE fsproc[q]
  BY <1>1, <1>3, <1>4 DEF LifeType
<1>11. Owners(h)'
  <2>1. ASSUME NEW q \in UserPids PROVE fsproc'[q] \in {0, fsproc[q]}
    <3>1. CASE q = m.from
      BY <1>10, <3>1
    <3>2. CASE q # m.from
      BY <1>10, <3>2
    <3> QED
      BY <3>1, <3>2
  <2>2. ASSUME NEW x \in Boxes, NEW i \in DOMAIN mail'[x]
        PROVE  \E j \in DOMAIN mail[x] : mail'[x][i] = mail[x][j]
    <3>1. CASE x = SERVER
      BY <1>3, <1>7, <3>1
    <3>2. CASE x # SERVER
      BY <1>3, <1>7, <3>2
    <3> QED
      BY <3>1, <3>2
  <2>3. lives <= lives' /\ \A q \in UserPids : proc'[q].life = proc[q].life
    BY <1>1, <1>7 DEF LifeType
  <2> QED
    BY <1>1, <1>9, <2>1, <2>2, <2>3, OwnersStay
<1>12. ToldFirst' /\ Parted(h)'
  <2>1. mail'[SERVER] = Tail(mail[SERVER]) /\ mail'[KERNEL] = mail[KERNEL]
    BY <1>3, <1>7, Places
  <2>2. \A q \in UserPids : proc'[q].life = proc[q].life /\ (Exiting(proc'[q]) => Exiting(proc[q]))
    BY <1>7
  <2>3. Head(mail[SERVER]).life \in history'.gone /\ lives' = lives /\ history.gone \subseteq history'.gone
    BY <1>2, <1>5, <1>6, <1>7
  <2> QED
    BY <1>1, <1>6, <1>9, <2>1, <2>2, <2>3, ServerStep
<1>13. Heard'
  <2> SUFFICES ASSUME NEW q \in UserPids, fsproc'[q] \in history'.gone \ {0}
               PROVE  fsproc'[q] \in history'.late
    BY DEF Heard
  <2>1. CASE fsproc'[q] \in history.gone /\ q # m.from
    BY <1>1, <1>6, <1>10, <2>1 DEF Core, Heard
  <2>2. CASE fsproc'[q] = m.life /\ q # m.from
    <3>1. fsproc[q] = m.life /\ (fsproc[q] # 0 => h[fsproc[q]] = q)
      BY <1>1, <1>10, <2>2 DEF Owners, Lived
    <3>2. m.life # 0
      <4>1. WellBorn(h, m)
        BY <1>1, <1>2, FirstMessage
      <4> QED
        BY <4>1 DEF WellBorn
    <3> QED
      BY <1>3, <2>2, <3>1, <3>2
  <2>3. q # m.from
    BY <1>10
  <2> QED
    BY <1>5, <1>6, <2>1, <2>2, <2>3
<1>14. OwnAnswer'
  <2>1. \A q \in UserPids : mail'[q] = mail[q]
    BY <1>3, <1>7, Places
  <2> QED
    BY <1>1, <1>6, <1>7, <2>1 DEF Core, OwnAnswer
<1>15. Unsignalled'
  BY <1>1, <1>6, <1>7 DEF Unsignalled
<1> QED
  BY <1>9, <1>11, <1>12, <1>13, <1>14, <1>15 DEF LifeInv, Core

\* An answer is for the life that asked, or is known for an orphan.
LEMMA Answered ==
  ASSUME LifeType, NEW m \in Letters, m.from \in UserPids, m.life # 0
  PROVE  /\ history.orphans \subseteq Orphans(m) /\ Orphans(m) \in SUBSET Nat
         /\ m.life = proc[m.from].life \/ m.life \in Orphans(m)
<1>1. m.life \in Nat /\ history.orphans \in SUBSET Nat
  BY DEF Letters, LifeType, Pasts
<1> QED
  BY <1>1 DEF Orphans

\* The file system answers, whoever has the PID by then.
LEMMA FsReplyKeeps ==
  ASSUME NEW h \in [Nat -> UserPids], LifeInv(h), FsReply
  PROVE  LifeInv(h)'
<1>1. LifeType /\ Core(h) /\ Unsignalled /\ Owners(h) /\ mail[SERVER] # <<>>
  BY DEF LifeInv, Core, FsReply, Request
<1>2. PICK m : m = Head(mail[SERVER])
  OBVIOUS
<1>3. /\ m \in Letters /\ m.from \in UserPids /\ WellBorn(h, m) /\ m.life # 0
      /\ Handle(SERVER) \in [Boxes -> Seq(Letters)]
      /\ Handle(SERVER)[SERVER] = Tail(mail[SERVER])
      /\ \A y \in Boxes \ {SERVER} : Handle(SERVER)[y] = mail[y]
      /\ \A i \in DOMAIN Tail(mail[SERVER]) :
           i + 1 \in DOMAIN mail[SERVER] /\ Tail(mail[SERVER])[i] = mail[SERVER][i + 1]
  <2>1. WellBorn(h, m)
    BY <1>1, <1>2, FirstMessage
  <2> QED
    BY <1>1, <1>2, <2>1, FirstMessage DEF WellBorn
<1>4. m.op = "call" /\ m.life \in Nat /\ SERVER \in Int
  BY <1>2, <1>3 DEF FsReply, Request, Letters, SERVER
<1>5. PICK a \in Letters : a = Msg(SERVER, m.life, m.op) /\ a.life = m.life /\ a.born = 0
  <2>1. m.op \in {"fork", "call", "exit"}
    BY <1>4
  <2> QED
    BY <1>4, <2>1, MessageType
<1>6. mail' = Post(Handle(SERVER), m.from, a)
  BY <1>2, <1>5 DEF FsReply
<1>7. /\ mail' \in [Boxes -> Seq(Letters)] /\ mail'[m.from] = Append(mail[m.from], a)
      /\ mail'[SERVER] = Tail(mail[SERVER]) /\ mail'[KERNEL] = mail[KERNEL]
      /\ \A q \in UserPids \ {m.from} : mail'[q] = mail[q]
  <2>1. m.from \in Boxes
    BY <1>3, Places
  <2>2. PICK H \in [Boxes -> Seq(Letters)], x \in Boxes : H = Handle(SERVER) /\ x = m.from
    BY <1>3, <2>1
  <2>3. /\ Post(H, x, a) \in [Boxes -> Seq(Letters)] /\ Post(H, x, a)[x] = Append(H[x], a)
        /\ \A y \in Boxes \ {x} : Post(H, x, a)[y] = H[y]
    BY Posted
  <2>4. mail' = Post(H, x, a)
    BY <1>6, <2>2
  <2>5. /\ H[x] = mail[x] /\ H[KERNEL] = mail[KERNEL] /\ H[SERVER] = Tail(mail[SERVER])
        /\ \A q \in UserPids : H[q] = mail[q]
    BY <1>3, <2>2, Places
  <2> QED
    BY <1>3, <2>2, <2>3, <2>4, <2>5, Places
<1>8. \A i \in DOMAIN mail'[m.from] :
        (i \in DOMAIN mail[m.from] /\ mail'[m.from][i] = mail[m.from][i]) \/ mail'[m.from][i] = a
  <2>1. mail[m.from] \in Seq(Letters)
    BY <1>1, <1>3, Places DEF LifeType
  <2> QED
    BY <1>7, <2>1, Appended
<1>9. PICK S \in SUBSET Nat :
        /\ history' = [history EXCEPT !.orphans = S] /\ history.orphans \subseteq S
        /\ m.life = proc[m.from].life \/ m.life \in S
  <2>1. history' = [history EXCEPT !.orphans = Orphans(m)]
    BY <1>2 DEF FsReply
  <2> QED
    BY <1>1, <1>3, <2>1, Answered
<1>10. /\ history' \in Pasts /\ history'.late = history.late /\ history'.gone = history.gone
       /\ history'.struck = history.struck /\ history'.orphans = S
       /\ history'.missed = history.missed
  BY <1>1, <1>9 DEF LifeType, Pasts
<1>11. UNCHANGED <<fsproc, lives, next>>
  BY DEF FsReply
<1>12. /\ proc' \in [UserPids -> Records]
       /\ \A q \in UserPids : Follows(proc[q], proc'[q]) /\ (Exiting(proc'[q]) => Exiting(proc[q]))
  <2>1. PICK r : r = woken(proc[m.from])
    OBVIOUS
  <2>2. proc[m.from] \in Records
    BY <1>1, <1>3 DEF LifeType
  <2>3. Follows(proc[m.from], r) /\ (Exiting(r) => Exiting(proc[m.from]))
    BY <2>1, <2>2, Wakes DEF Exiting
  <2>4. proc' = [proc EXCEPT ![m.from] = r]
    BY <1>2, <2>1 DEF FsReply
  <2> QED
    BY <1>1, <1>3, <2>3, <2>4, OneFollows
<1>13. LifeType'
  BY <1>1, <1>7, <1>10, <1>11, <1>12 DEF LifeType
<1>14. \A q \in UserPids : proc'[q].life = proc[q].life
  BY <1>12 DEF Follows
<1>15. Owners(h)'
  <2>1. ASSUME NEW x \in Boxes, NEW i \in DOMAIN mail'[x]
        PROVE  \/ \E j \in DOMAIN mail[x] : mail'[x][i] = mail[x][j]
               \/ x \in UserPids /\ WellBorn(h, mail[x][i])'
    <3>1. CASE x = SERVER
      BY <1>3, <1>7, <3>1
    <3>2. CASE x = m.from
      <4>1. CASE i \in DOMAIN mail[m.from] /\ mail'[m.from][i] = mail[m.from][i]
        BY <3>2, <4>1
      <4>2. CASE mail'[m.from][i] = a
        BY <1>3, <1>5, <1>11, <3>2, <4>2 DEF WellBorn
      <4> QED
        BY <1>8, <3>2, <4>1, <4>2
    <3>3. CASE x # SERVER /\ x # m.from
      BY <1>7, <3>3 DEF Boxes
    <3> QED
      BY <3>1, <3>2, <3>3
  <2>2. lives <= lives' /\ fsproc' = fsproc
    BY <1>1, <1>11 DEF LifeType
  <2> QED
    BY <1>1, <1>13, <1>14, <2>1, <2>2, OwnersStay
<1>16. ToldFirst' /\ Parted(h)'
  <2>1. Head(mail[SERVER]).op # "exit" /\ lives' = lives
    BY <1>2, <1>4, <1>11
  <2> QED
    BY <1>1, <1>7, <1>10, <1>12, <1>13, <1>14, <2>1, ServerStep
<1>17. Heard'
  BY <1>1, <1>10, <1>11 DEF Core, Heard
<1>18. OwnAnswer'
  <2> SUFFICES ASSUME NEW q \in UserPids, NEW i \in DOMAIN mail'[q]
               PROVE  mail'[q][i].life \in {proc'[q].life} \cup history'.orphans
    BY DEF OwnAnswer
  <2>1. \A j \in DOMAIN mail[q] : mail[q][j].life \in {proc'[q].life} \cup history'.orphans
    BY <1>1, <1>9, <1>10, <1>14 DEF Core, OwnAnswer
  <2>2. CASE q = m.from
    BY <1>5, <1>8, <1>9, <1>10, <1>14, <2>1, <2>2
  <2>3. CASE q # m.from
    BY <1>7, <2>1, <2>3
  <2> QED
    BY <2>2, <2>3
<1>19. Unsignalled'
  BY <1>1, <1>10, <1>12, CalmStep
<1> QED
  BY <1>13, <1>15, <1>16, <1>17, <1>18, <1>19 DEF LifeInv, Core

\* A process is destroyed: by its own exit, which the file system has been told of before,
\* or by that of an earlier owner of its PID.
LEMMA KernelExitKeeps ==
  ASSUME NEW h \in [Nat -> UserPids], LifeInv(h), KernelExit
  PROVE  LifeInv(h)'
<1>1. LifeType /\ Core(h) /\ Unsignalled /\ Owners(h) /\ mail[KERNEL] # <<>>
  BY DEF LifeInv, Core, KernelExit, Request
<1>2. PICK m : m = Head(mail[KERNEL])
  OBVIOUS
<1>3. /\ m \in Letters /\ m.from \in UserPids
      /\ m = mail[KERNEL][1] /\ 1 \in DOMAIN mail[KERNEL]
      /\ Handle(KERNEL) \in [Boxes -> Seq(Letters)]
      /\ Handle(KERNEL)[KERNEL] = Tail(mail[KERNEL])
      /\ \A y \in Boxes \ {KERNEL} : Handle(KERNEL)[y] = mail[y]
      /\ \A i \in DOMAIN Tail(mail[KERNEL]) :
           i + 1 \in DOMAIN mail[KERNEL] /\ Tail(mail[KERNEL])[i] = mail[KERNEL][i + 1]
  BY <1>1, <1>2, FirstMessage
<1>4. PICK p \in UserPids : p = m.from
  BY <1>3
<1>5. m.op = "exit" /\ proc[p] \in Records /\ proc[p].life \in Nat /\ p \in Boxes
  BY <1>1, <1>2, Places DEF KernelExit, Request, LifeType, Records
<1>6. PICK r \in Records : r = [proc[p] EXCEPT !.life = 0, !.pc = "none"] /\ r.life = 0 /\ r.pc = "none"
  <2>1. PICK n \in Nat, v \in Pcs : n = 0 /\ v = "none"
    BY DEF Pcs
  <2>2. PICK t : t = [proc[p] EXCEPT !.life = n, !.pc = v]
    OBVIOUS
  <2>3. t \in Records /\ t.life = n /\ t.pc = v
    BY <1>5, <2>2 DEF Records
  <2> QED
    BY <2>1, <2>2, <2>3
<1>7. proc' = [proc EXCEPT ![p] = r]
  BY <1>2, <1>4, <1>6 DEF KernelExit
<1>8. /\ proc' \in [UserPids -> Records] /\ proc'[p] = r
      /\ \A q \in UserPids \ {p} : proc'[q] = proc[q]
  BY <1>1, <1>7 DEF LifeType
<1>9. mail' = [Handle(KERNEL) EXCEPT ![p] = <<>>]
  BY <1>2, <1>4 DEF KernelExit, msg_empty
<1>10. /\ mail' \in [Boxes -> Seq(Letters)] /\ mail'[p] = <<>>
       /\ mail'[KERNEL] = Tail(mail[KERNEL]) /\ mail'[SERVER] = mail[SERVER]
       /\ \A q \in UserPids \ {p} : mail'[q] = mail[q]
  <2>1. <<>> \in Seq(Letters)
    OBVIOUS
  <2> QED
    BY <1>3, <1>5, <1>9, <2>1, Places
<1>11. PICK S \in SUBSET Nat :
         /\ history' = [history EXCEPT !.struck = S] /\ history.struck \subseteq S
         /\ proc[p].life \in {0, m.life} \cup S
  <2>1. history.struck \in SUBSET Nat
    BY <1>1 DEF LifeType, Pasts
  <2>2. PICK S : S = IF proc[p].life \in {0, m.life} THEN history.struck
                     ELSE history.struck \cup {proc[p].life}
    OBVIOUS
  <2>3. S \in SUBSET Nat /\ history.struck \subseteq S /\ proc[p].life \in {0, m.life} \cup S
    BY <1>5, <2>1, <2>2
  <2>4. history' = [history EXCEPT !.struck = S]
    BY <1>2, <1>4, <2>2 DEF KernelExit
  <2> QED
    BY <2>3, <2>4
<1>12. /\ history' \in Pasts /\ history'.late = history.late /\ history'.gone = history.gone
       /\ history'.struck = S /\ history'.orphans = history.orphans
       /\ history'.missed = history.missed
  BY <1>1, <1>11 DEF LifeType, Pasts
<1>13. UNCHANGED <<fsproc, lives, next>>
  BY DEF KernelExit
<1>14. LifeType'
  BY <1>1, <1>8, <1>10, <1>12, <1>13 DEF LifeType
<1>15. /\ \A l \in Nat : Leaving(l) => Leaving(l)'
       /\ \A l, k \in Nat : Ahead(l, k) => Ahead(l, k)'
  BY <1>1, <1>10, <1>12, MoreTold DEF Longer
<1>16. Owners(h)'
  <2>1. ASSUME NEW x \in Boxes, NEW i \in DOMAIN mail'[x]
        PROVE  \E j \in DOMAIN mail[x] : mail'[x][i] = mail[x][j]
    <3>1. CASE x = KERNEL
      BY <1>3, <1>10, <3>1
    <3>2. CASE x = p
      <4>1. DOMAIN mail'[p] = {}
        BY <1>10
      <4> QED
        BY <3>2, <4>1
    <3>3. CASE x # KERNEL /\ x # p
      BY <1>10, <3>3 DEF Boxes
    <3> QED
      BY <3>1, <3>2, <3>3
  <2>2. lives <= lives' /\ fsproc' = fsproc
    BY <1>1, <1>13 DEF LifeType
  <2>3. ASSUME NEW q \in UserPids PROVE proc'[q].life \in {0, proc[q].life}
    <3>1. CASE q = p
      BY <1>6, <1>8, <3>1
    <3>2. CASE q # p
      BY <1>8, <3>2
    <3> QED
      BY <3>1, <3>2
  <2> QED
    BY <1>1, <1>14, <2>1, <2>2, <2>3, OwnersStay
<1>17. ToldFirst'
  <2>1. ASSUME NEW q \in UserPids, proc'[q].pc \in {"exit", "nap"} PROVE Leaving(proc[q].life)'
    <3>1. proc'[q] = proc[q] /\ proc[q].life \in Nat
      BY <1>1, <1>6, <1>8, <2>1 DEF LifeType, Records
    <3> QED
      BY <1>1, <1>15, <2>1, <3>1 DEF Core, ToldFirst
  <2>2. ASSUME NEW i \in DOMAIN mail'[KERNEL], mail'[KERNEL][i].op = "exit"
        PROVE  Leaving(mail[KERNEL][i].life)'
    <3>1. PICK j \in DOMAIN mail[KERNEL] : mail'[KERNEL][i] = mail[KERNEL][j]
      BY <1>3, <1>10
    <3>2. mail[KERNEL][j].life \in Nat
      BY <1>1, Mailboxes, Places DEF Letters
    <3> QED
      BY <1>1, <1>15, <2>2, <3>1, <3>2 DEF Core, ToldFirst
  <2> QED
    BY <2>1, <2>2 DEF ToldFirst
<1>18. Parted(h)'
  <2> SUFFICES ASSUME NEW l \in 1 .. lives
               PROVE  \/ l \in {proc'[h[l]].life} \cup history'.struck \cup history'.gone
                      \/ Ahead(l, proc[h[l]].life)'
    BY <1>13 DEF Parted
  <2>1. l \in Nat /\ l # 0 /\ h[l] \in UserPids
    BY <1>1 DEF LifeType
  <2>2. \/ l \in {proc[h[l]].life} \cup history.struck \cup history.gone
        \/ Ahead(l, proc[h[l]].life)
    BY <1>1 DEF Core, Parted
  <2>3. CASE h[l] # p
    <3>1. proc'[h[l]] = proc[h[l]]
      BY <1>8, <2>1, <2>3
    <3>2. PICK k \in Nat : k = proc[h[l]].life
      BY <1>1, <2>1 DEF LifeType, Records
    <3>3. Ahead(l, k) => Ahead(l, k)'
      BY <1>15, <2>1
    <3> QED
      BY <1>11, <1>12, <2>2, <3>1, <3>2, <3>3
  <2>4. CASE h[l] = p
    <3>1. proc'[h[l]].life = 0
      BY <1>6, <1>8, <2>4
    <3>2. \A i \in DOMAIN mail[SERVER] : mail[SERVER][i].life # 0
      <4>1. \A i \in DOMAIN mail[SERVER] : mail[SERVER][i].life \in 1 .. lives
        BY <1>1, Places DEF Owners, WellBorn
      <4> QED
        BY <4>1
    <3>3. ASSUME NEW i \in DOMAIN mail[SERVER], ExitAt(i, l) PROVE Ahead(l, proc[h[l]].life)'
      <4>1. \A j \in 1 .. i - 1 : j \in DOMAIN mail[SERVER]
        <5>1. DOMAIN mail[SERVER] = 1 .. Len(mail[SERVER]) /\ Len(mail[SERVER]) \in Nat
          BY <1>1, Mailboxes, Places
        <5> QED
          BY <5>1
      <4>2. \A j \in 1 .. i - 1 : mail[SERVER][j].life # 0
        BY <3>2, <4>1
      <4>3. PICK k \in Nat : k = 0
        OBVIOUS
      <4>4. Ahead(l, k)
        BY <3>3, <4>2, <4>3 DEF Ahead
      <4>5. Ahead(l, k)'
        BY <1>15, <2>1, <4>4
      <4> QED
        BY <3>1, <4>3, <4>5
    <3>4. CASE l \in history.struck \cup history.gone
      BY <1>11, <1>12, <3>4
    <3>5. CASE Ahead(l, proc[h[l]].life)
      BY <3>3, <3>5 DEF Ahead
    <3>6. CASE l = proc[h[l]].life
      <4>1. CASE l = m.life
        <5>1. Leaving(l)
          BY <1>1, <1>3, <1>5, <4>1 DEF Core, ToldFirst
        <5> QED
          BY <1>12, <3>3, <5>1 DEF Leaving
      <4>2. CASE l # m.life
        BY <1>11, <1>12, <2>1, <2>4, <3>6, <4>2
      <4> QED
        BY <4>1, <4>2
    <3> QED
      BY <2>2, <3>4, <3>5, <3>6
  <2> QED
    BY <2>3, <2>4
<1>19. Heard'
  BY <1>1, <1>12, <1>13 DEF Core, Heard
<1>20. OwnAnswer'
  <2> SUFFICES ASSUME NEW q \in UserPids, NEW i \in DOMAIN mail'[q]
               PROVE  mail'[q][i].life \in {proc'[q].life} \cup history'.orphans
    BY DEF OwnAnswer
  <2>1. q # p
    <3>1. DOMAIN mail'[p] = {}
      BY <1>10
    <3> QED
      BY <3>1
  <2> QED
    BY <1>1, <1>8, <1>10, <1>12, <2>1 DEF Core, OwnAnswer
<1>21. Unsignalled'
  <2> SUFFICES ASSUME NEW q \in UserPids, proc'[q].pc \in {"window", "asleep"}
               PROVE  /\ proc'[q].life # 0
                      /\ Deliverable(proc'[q]) # {} => proc'[q].life \in history'.missed
    BY DEF Unsignalled
  <2>1. proc'[q] = proc[q]
    BY <1>6, <1>8
  <2> QED
    BY <1>1, <1>12, <2>1 DEF Unsignalled
<1> QED
  BY <1>14, <1>16, <1>17, <1>18, <1>19, <1>20, <1>21 DEF LifeInv, Core

\* A finite set of numbers has a greatest one.
LEMMA GreatestFound ==
  ASSUME NEW S, IsFiniteSet(S), S \subseteq Nat, S # {}
  PROVE  Max(S) \in S /\ \A y \in S : y <= Max(S)
<1>1. PICK n \in Nat : ExistsBijection(1 .. n, S)
  BY FS_CardinalityType
<1>2. PICK f \in [1 .. n -> S] : \A y \in S : \E i \in 1 .. n : f[i] = y
  BY <1>1 DEF ExistsBijection, Bijection, Surjection
<1> DEFINE A == {k \in 0 .. n : \E b \in Nat : \A i \in 1 .. k : f[i] <= b}
<1>3. 0 \in A
  OBVIOUS
<1>4. ASSUME NEW k \in 0 .. n - 1, k \in A PROVE k + 1 \in A
  <2>1. PICK b \in Nat : \A i \in 1 .. k : f[i] <= b
    BY <1>4
  <2>2. k + 1 \in 0 .. n /\ k + 1 \in 1 .. n
    BY <1>1
  <2>3. PICK c \in Nat : c = f[k + 1]
    BY <1>2, <2>2
  <2>4. PICK d \in Nat : b <= d /\ c <= d
    BY <2>1, <2>3
  <2>5. ASSUME NEW i \in 1 .. k + 1 PROVE f[i] <= d
    <3>1. CASE i = k + 1
      BY <2>3, <2>4, <3>1
    <3>2. CASE i # k + 1
      <4>1. i \in 1 .. k /\ i \in 1 .. n
        BY <2>2, <3>2
      <4>2. f[i] \in Nat /\ f[i] <= b
        BY <1>2, <2>1, <4>1
      <4> QED
        BY <2>4, <4>2
    <3> QED
      BY <3>1, <3>2
  <2> QED
    BY <2>2, <2>5
<1> HIDE DEF A
<1>5. \A k \in 0 .. n : k \in A
  BY <1>3, <1>4, UpTo
<1>6. PICK b \in Nat : \A i \in 1 .. n : f[i] <= b
  <2>1. n \in A
    BY <1>5
  <2> QED
    BY <2>1 DEF A
<1>7. S \subseteq 0 .. b
  BY <1>2, <1>6
<1>8. PICK x \in S : \A y \in S : y <= x
  BY <1>7, Greatest
<1>9. \A y \in S : x >= y
  BY <1>8
<1> QED
  BY <1>9 DEF Max

\* calc_next_pid() finds a free slot when there is one.
LEMMA NextPid ==
  ASSUME LifeType, \E q \in UserPids : ~Alive(q)
  PROVE  calc_next_pid \in UserPids /\ ~Alive(calc_next_pid)
<1> DEFINE N == Max(UserPids) + 1
           Free == {q \in UserPids : ~Alive(q)}
           Far(q) == (q - next - 1) % N
           D == {Far(q) : q \in Free}
<1>1. N \in Nat \ {0}
  <2>1. Max(UserPids) \in UserPids
    BY LifecycleAssumption, GreatestFound
  <2>2. PICK k \in Nat : k = Max(UserPids)
    BY <2>1, LifecycleAssumption
  <2>3. k + 1 \in Nat \ {0}
    OBVIOUS
  <2> QED
    BY <2>2, <2>3
<1>2. ASSUME NEW q \in UserPids PROVE Far(q) \in Nat
  <2>1. PICK n \in Nat \ {0} : n = N
    BY <1>1
  <2>2. PICK i \in Int : i = q - next - 1
    <3>1. next \in Int /\ q \in Int
      BY LifecycleAssumption DEF LifeType
    <3> QED
      BY <3>1
  <2>3. i % n \in Nat
    OBVIOUS
  <2> QED
    BY <2>1, <2>2, <2>3
<1>3. calc_next_pid = CHOOSE q \in UserPids : ~Alive(q) /\ \A r \in UserPids : ~Alive(r) => Far(q) <= Far(r)
  BY DEF calc_next_pid
<1> HIDE DEF Far, N
<1>4. D \subseteq Nat /\ D # {}
  BY <1>2
<1>5. PICK d \in D : \A e \in D : d <= e
  <2> HIDE DEF D
  <2> QED
    BY <1>4, Least
<1>6. \E q \in UserPids : ~Alive(q) /\ \A r \in UserPids : ~Alive(r) => Far(q) <= Far(r)
  BY <1>5
<1> QED
  BY <1>3, <1>6

\* A child takes a free slot's place, as a life that nothing has been said of.
LEMMA KernelForkKeeps ==
  ASSUME NEW h \in [Nat -> UserPids], LifeInv(h), KernelFork
  PROVE  \E g \in [Nat -> UserPids] : LifeInv(g)'
<1>1. LifeType /\ Core(h) /\ Unsignalled /\ Owners(h) /\ mail[KERNEL] # <<>>
  BY DEF LifeInv, Core, KernelFork, Request
<1>2. PICK m : m = Head(mail[KERNEL])
  OBVIOUS
<1>3. /\ m \in Letters /\ m.from \in UserPids /\ WellBorn(h, m) /\ h[m.life] = m.from
      /\ Handle(KERNEL) \in [Boxes -> Seq(Letters)]
      /\ Handle(KERNEL)[KERNEL] = Tail(mail[KERNEL])
      /\ \A y \in Boxes \ {KERNEL} : Handle(KERNEL)[y] = mail[y]
      /\ \A i \in DOMAIN Tail(mail[KERNEL]) :
           i + 1 \in DOMAIN mail[KERNEL] /\ Tail(mail[KERNEL])[i] = mail[KERNEL][i + 1]
  BY <1>1, <1>2, FirstMessage
<1>4. PICK p \in UserPids : p = m.from
  BY <1>3
<1>5. PICK c \in UserPids : c = calc_next_pid /\ proc[c].life = 0
  BY <1>1, NextPid DEF KernelFork, Alive
<1>6. PICK l1 \in Nat : l1 = lives + 1 /\ lives \in Nat /\ l1 \notin 1 .. lives /\ l1 # 0
  BY <1>1 DEF LifeType
<1>7. lives' = l1 /\ next' = c /\ fsproc' = fsproc
  BY <1>5, <1>6 DEF KernelFork
<1>8. PICK g \in [Nat -> UserPids] : g = [h EXCEPT ![l1] = c]
  OBVIOUS
<1>9. g[l1] = c /\ \A l \in 1 .. lives : g[l] = h[l]
  BY <1>6, <1>8
\* the processes
<1>10. PICK w : w = woken(proc[p])
  OBVIOUS
<1>11. w \in Records /\ Follows(proc[p], w) /\ (Exiting(w) => Exiting(proc[p]))
  <2>1. proc[p] \in Records
    BY <1>1, RecordOf
  <2> QED
    BY <1>10, <2>1, Wakes DEF Follows, Exiting
<1>12. PICK u \in Records : u = IF p = c THEN w ELSE proc[c]
  BY <1>1, <1>11, RecordOf
<1>13. PICK r : r = [sig_init(u) EXCEPT !.life = l1, !.pc = "fork", !.exits = 0,
                                       !.delivering = FALSE, !.handling = -1]
  OBVIOUS
<1>14. r \in Records /\ r.life = l1 /\ r.pc = "fork"
  <2>1. sig_init(u) \in Records
    BY DEF Records, Pcs, Actions, sig_init
  <2>2. PICK t : t = [sig_init(u) EXCEPT !.life = l1, !.pc = "fork"]
    OBVIOUS
  <2>3. t \in Records /\ t.life = l1 /\ t.pc = "fork"
    <3>1. PICK v \in Pcs : v = "fork"
      BY DEF Pcs
    <3>2. t = [sig_init(u) EXCEPT !.life = l1, !.pc = v]
      BY <2>2, <3>1
    <3>3. t \in Records /\ t.life = l1 /\ t.pc = v
      BY <2>1, <3>2 DEF Records
    <3> QED
      BY <3>1, <3>3
  <2>4. PICK n \in Nat : n = 0
    OBVIOUS
  <2>5. PICK b \in BOOLEAN : b = FALSE
    OBVIOUS
  <2>6. PICK k \in Int : k = -1
    OBVIOUS
  <2>7. PICK s : s = [t EXCEPT !.exits = n]
    OBVIOUS
  <2>8. s \in Records /\ s.life = t.life /\ s.pc = t.pc
    BY <2>3, <2>7 DEF Records
  <2>9. PICK x : x = [s EXCEPT !.delivering = b]
    OBVIOUS
  <2>10. Follows(s, x) /\ x.pc = s.pc
    BY <2>8, <2>9, Delivers
  <2>11. PICK y : y = [x EXCEPT !.handling = k]
    OBVIOUS
  <2>12. Follows(x, y) /\ y.pc = x.pc
    BY <2>10, <2>11, Handles DEF Follows
  <2>13. r = y
    BY <1>13, <2>2, <2>4, <2>7, <2>9, <2>11, <2>5, <2>6
  <2> QED
    BY <2>3, <2>8, <2>10, <2>12, <2>13 DEF Follows
<1>15. PICK v : v = [proc EXCEPT ![p] = w]
  OBVIOUS
<1>16. proc' = [v EXCEPT ![c] = r]
  <2>1. proc' = [v EXCEPT ![c] = [sig_init(v[c]) EXCEPT !.life = lives + 1, !.pc = "fork", !.exits = 0,
                                                        !.delivering = FALSE, !.handling = -1]]
    BY <1>2, <1>4, <1>5, <1>10, <1>15 DEF KernelFork
  <2>2. v[c] = u
    <3>1. proc \in [UserPids -> Records]
      BY <1>1 DEF LifeType
    <3>2. CASE p = c
      BY <1>12, <1>15, <3>1, <3>2
    <3>3. CASE p # c
      BY <1>12, <1>15, <3>1, <3>3
    <3> QED
      BY <3>2, <3>3
  <2>3. [sig_init(v[c]) EXCEPT !.life = lives + 1, !.pc = "fork", !.exits = 0,
                               !.delivering = FALSE, !.handling = -1] = r
    BY <1>6, <1>13, <2>2
  <2> QED
    BY <2>1, <2>3
<1>17. /\ proc' \in [UserPids -> Records] /\ proc'[c] = r
       /\ \A q \in UserPids \ {c} : Follows(proc[q], proc'[q]) /\ (Exiting(proc'[q]) => Exiting(proc[q]))
  <2>1. proc' \in [UserPids -> Records] /\ proc'[c] = r
    BY <1>1, <1>11, <1>14, <1>16, <1>15 DEF LifeType
  <2>2. ASSUME NEW q \in UserPids \ {c}
        PROVE  Follows(proc[q], proc'[q]) /\ (Exiting(proc'[q]) => Exiting(proc[q]))
    <3>1. CASE q = p
      <4>1. proc'[q] = w
        BY <1>1, <1>16, <1>15, <3>1 DEF LifeType
      <4> QED
        BY <1>11, <3>1, <4>1
    <3>2. CASE q # p
      <4>1. proc'[q] = proc[q] /\ proc[q] \in Records
        BY <1>1, <1>16, <1>15, <3>2 DEF LifeType
      <4> QED
        BY <4>1, FollowsItself
    <3> QED
      BY <3>1, <3>2
  <2> QED
    BY <2>1, <2>2
\* the mailboxes
<1>18. KERNEL \in Int /\ m.life \in Nat /\ m.life # 0 /\ m.life \in 1 .. lives /\ 0 \in Nat /\ c \in Nat
  BY <1>1, <1>3, LifecycleAssumption DEF KERNEL, Letters, WellBorn
<1>19. PICK e \in Int : e = KERNEL
  BY <1>18
<1>20. PICK a \in Letters : a = Forked(KERNEL, l1, 0, 0) /\ a.life = l1 /\ a.born = 0
  <2>1. PICK n \in Nat : n = 0
    OBVIOUS
  <2>2. Forked(e, l1, n, n) \in Letters /\ Forked(e, l1, n, n).life = l1 /\ Forked(e, l1, n, n).born = n
    BY ForkedType
  <2> QED
    BY <1>19, <2>1, <2>2
<1>21. PICK b \in Letters : b = Forked(KERNEL, m.life, c, l1) /\ b.life = m.life /\ b.child = c /\ b.born = l1
  <2>1. PICK l \in Nat : l = m.life
    BY <1>18
  <2>2. c \in Nat
    BY <1>18
  <2>3. /\ Forked(e, l, c, l1) \in Letters /\ Forked(e, l, c, l1).life = l
        /\ Forked(e, l, c, l1).child = c /\ Forked(e, l, c, l1).born = l1
    BY <2>2, ForkedType
  <2> QED
    BY <1>19, <2>1, <2>3
<1>22. PICK M : M = Post(Handle(KERNEL), c, a)
  OBVIOUS
<1>23. mail' = Post(M, p, b)
  BY <1>2, <1>4, <1>5, <1>6, <1>20, <1>21, <1>22 DEF KernelFork
<1>24. /\ M \in [Boxes -> Seq(Letters)] /\ M[c] = Append(mail[c], a)
       /\ M[KERNEL] = Tail(mail[KERNEL]) /\ M[SERVER] = mail[SERVER]
       /\ \A q \in UserPids \ {c} : M[q] = mail[q]
  <2>1. c \in Boxes
    BY Places
  <2>2. PICK H \in [Boxes -> Seq(Letters)] : H = Handle(KERNEL)
    BY <1>3
  <2>3. /\ Post(H, c, a) \in [Boxes -> Seq(Letters)] /\ Post(H, c, a)[c] = Append(H[c], a)
        /\ \A y \in Boxes \ {c} : Post(H, c, a)[y] = H[y]
    BY <2>1, Posted
  <2>4. M = Post(H, c, a)
    BY <1>22, <2>2
  <2>5. /\ H[c] = mail[c] /\ H[KERNEL] = Tail(mail[KERNEL]) /\ H[SERVER] = mail[SERVER]
        /\ \A q \in UserPids : H[q] = mail[q]
    BY <1>3, <2>2, Places
  <2> QED
    BY <2>3, <2>4, <2>5, Places
<1>25. /\ mail' \in [Boxes -> Seq(Letters)] /\ mail'[p] = Append(M[p], b)
       /\ mail'[KERNEL] = Tail(mail[KERNEL]) /\ mail'[SERVER] = mail[SERVER]
       /\ \A q \in UserPids \ {p} : mail'[q] = M[q]
  <2>1. p \in Boxes
    BY Places
  <2>2. /\ Post(M, p, b) \in [Boxes -> Seq(Letters)] /\ Post(M, p, b)[p] = Append(M[p], b)
        /\ \A y \in Boxes \ {p} : Post(M, p, b)[y] = M[y]
    BY <1>24, <2>1, Posted
  <2>3. /\ mail' \in [Boxes -> Seq(Letters)] /\ mail'[p] = Append(M[p], b)
        /\ \A y \in Boxes \ {p} : mail'[y] = M[y]
    BY <1>23, <2>2
  <2> QED
    BY <1>24, <2>1, <2>3, Places
<1>26. ASSUME NEW q \in UserPids, NEW i \in DOMAIN mail'[q]
       PROVE  \/ \E j \in DOMAIN mail[q] : mail'[q][i] = mail[q][j]
              \/ q = c /\ mail'[q][i] = a
              \/ q = p /\ mail'[q][i] = b
  <2>1. ASSUME NEW k \in DOMAIN M[q]
        PROVE  (\E j \in DOMAIN mail[q] : M[q][k] = mail[q][j]) \/ (q = c /\ M[q][k] = a)
    <3>1. CASE q = c
      <4>1. mail[c] \in Seq(Letters)
        BY <1>1, Places DEF LifeType
      <4>2. /\ \A j \in DOMAIN mail[c] : M[c][j] = mail[c][j]
            /\ M[c][Len(mail[c]) + 1] = a
            /\ \A j \in DOMAIN M[c] : j \in DOMAIN mail[c] \/ j = Len(mail[c]) + 1
        BY <1>24, <4>1, Appended
      <4> QED
        BY <3>1, <4>2
    <3>2. CASE q # c
      BY <1>24, <3>2
    <3> QED
      BY <3>1, <3>2
  <2>2. CASE q = p
    <3>1. M[p] \in Seq(Letters)
      BY <1>24, Places
    <3>2. /\ \A j \in DOMAIN M[p] : mail'[p][j] = M[p][j]
          /\ mail'[p][Len(M[p]) + 1] = b
          /\ \A j \in DOMAIN mail'[p] : j \in DOMAIN M[p] \/ j = Len(M[p]) + 1
      BY <1>25, <3>1, Appended
    <3>3. (i \in DOMAIN M[p] /\ mail'[p][i] = M[p][i]) \/ mail'[p][i] = b
      BY <2>2, <3>2
    <3> QED
      BY <2>1, <2>2, <3>3
  <2>3. CASE q # p
    BY <1>25, <2>1, <2>3
  <2> QED
    BY <2>2, <2>3
\* history
<1>27. PICK S \in SUBSET Nat :
         /\ history' = [history EXCEPT !.orphans = S] /\ history.orphans \subseteq S
         /\ m.life = proc[p].life \/ m.life \in S
  <2>1. history' = [history EXCEPT !.orphans = Orphans(m)]
    BY <1>2 DEF KernelFork
  <2> QED
    BY <1>1, <1>3, <1>4, <1>18, <2>1, Answered
<1>28. /\ history' \in Pasts /\ history'.late = history.late /\ history'.gone = history.gone
       /\ history'.struck = history.struck /\ history'.orphans = S
       /\ history'.missed = history.missed
  BY <1>1, <1>27 DEF LifeType, Pasts
<1>29. LifeType'
  <2>1. lives' \in Nat \ {0} /\ next' \in Nat
    BY <1>6, <1>7, <1>18
  <2> QED
    BY <1>1, <1>7, <1>17, <1>25, <1>28, <2>1 DEF LifeType
<1>30. /\ \A l \in Nat : Leaving(l) => Leaving(l)'
       /\ \A l, k \in Nat : Ahead(l, k) => Ahead(l, k)'
  BY <1>1, <1>25, <1>28, MoreTold DEF Longer
<1>31. \A q \in UserPids \ {c} : proc'[q].life = proc[q].life
  BY <1>17 DEF Follows
<1>32. Owners(g)'
  <2>1. ASSUME NEW q \in UserPids PROVE proc'[q].life \in {0, proc[q].life} \/ Lived(g, proc[q].life, q)'
    <3>1. CASE q = c
      <4>1. l1 \in 1 .. lives'
        BY <1>6, <1>7
      <4> QED
        BY <1>9, <1>14, <1>17, <3>1, <4>1 DEF Lived
    <3>2. CASE q # c
      BY <1>31, <3>2
    <3> QED
      BY <3>1, <3>2
  <2>2. ASSUME NEW x \in Boxes, NEW i \in DOMAIN mail'[x]
        PROVE  \/ \E j \in DOMAIN mail[x] : mail'[x][i] = mail[x][j]
               \/ x \in UserPids /\ WellBorn(g, mail[x][i])'
    <3>1. CASE x = KERNEL
      <4>1. i + 1 \in DOMAIN mail[KERNEL] /\ mail'[x][i] = mail[KERNEL][i + 1]
        BY <1>3, <1>25, <3>1
      <4>2. PICK j \in DOMAIN mail[KERNEL] : mail'[x][i] = mail[KERNEL][j]
        BY <4>1
      <4> QED
        BY <3>1, <4>2
    <3>2. CASE x = SERVER
      BY <1>25, <3>2
    <3>3. CASE x \in UserPids
      <4>1. l1 \in 1 .. lives' /\ m.life \in 1 .. lives'
        BY <1>6, <1>7, <1>18
      <4>2. CASE mail'[x][i] = a
        BY <1>20, <3>3, <4>1, <4>2 DEF WellBorn
      <4>3. CASE mail'[x][i] = b
        BY <1>9, <1>21, <3>3, <4>1, <4>3 DEF WellBorn, Lived
      <4> QED
        BY <1>26, <3>3, <4>2, <4>3
    <3> QED
      BY <3>1, <3>2, <3>3 DEF Boxes
  <2>3. lives <= lives' /\ fsproc' = fsproc
    BY <1>6, <1>7
  <2> QED
    BY <1>1, <1>9, <1>29, <2>1, <2>2, <2>3, OwnersStay
<1>33. ToldFirst'
  <2>1. ASSUME NEW q \in UserPids, proc'[q].pc \in {"exit", "nap"} PROVE Leaving(proc[q].life)'
    <3>1. q # c
      BY <1>14, <1>17, <2>1
    <3>2. proc'[q].life = proc[q].life /\ Exiting(proc[q]) /\ proc[q].life \in Nat
      BY <1>1, <1>17, <1>31, <2>1, <3>1 DEF Exiting, LifeType, Records
    <3> QED
      BY <1>1, <1>30, <3>2 DEF Core, ToldFirst, Exiting
  <2>2. ASSUME NEW i \in DOMAIN mail'[KERNEL], mail'[KERNEL][i].op = "exit"
        PROVE  Leaving(mail[KERNEL][i].life)'
    <3>1. PICK j \in DOMAIN mail[KERNEL] : mail'[KERNEL][i] = mail[KERNEL][j]
      BY <1>3, <1>25
    <3>2. mail[KERNEL][j].life \in Nat
      BY <1>1, Mailboxes, Places DEF Letters
    <3> QED
      BY <1>1, <1>30, <2>2, <3>1, <3>2 DEF Core, ToldFirst
  <2> QED
    BY <2>1, <2>2 DEF ToldFirst
<1>34. Parted(g)'
  <2> SUFFICES ASSUME NEW l \in 1 .. lives'
               PROVE  \/ l \in {proc'[g[l]].life} \cup history'.struck \cup history'.gone
                      \/ Ahead(l, proc[g[l]].life)'
    BY DEF Parted
  <2>1. CASE l = l1
    BY <1>9, <1>14, <1>17, <2>1
  <2>2. CASE l # l1
    <3>1. l \in 1 .. lives /\ l \in Nat /\ l # 0
      BY <1>6, <1>7, <2>2
    <3>2. g[l] = h[l] /\ h[l] \in UserPids
      BY <1>9, <3>1
    <3>3. \/ l \in {proc[h[l]].life} \cup history.struck \cup history.gone
          \/ Ahead(l, proc[h[l]].life)
      BY <1>1, <3>1 DEF Core, Parted
    <3>4. CASE h[l] # c
      <4>1. proc'[h[l]].life = proc[h[l]].life
        BY <1>31, <3>2, <3>4
      <4>2. PICK k \in Nat : k = proc[h[l]].life
        BY <1>1, <3>2 DEF LifeType, Records
      <4>3. Ahead(l, k) => Ahead(l, k)'
        BY <1>30, <3>1
      <4> QED
        BY <1>28, <3>2, <3>3, <4>1, <4>2, <4>3
    <3>5. CASE h[l] = c
      <4>1. proc'[g[l]].life = l1
        BY <1>14, <1>17, <3>2, <3>5
      <4>2. CASE l \in history.struck \cup history.gone
        BY <1>28, <4>2
      <4>3. CASE Ahead(l, proc[h[l]].life)
        <5>1. PICK i \in DOMAIN mail[SERVER] : ExitAt(i, l)
          BY <4>3 DEF Ahead
        <5>2. \A j \in 1 .. i - 1 : j \in DOMAIN mail[SERVER]
          <6>1. DOMAIN mail[SERVER] = 1 .. Len(mail[SERVER]) /\ Len(mail[SERVER]) \in Nat
            BY <1>1, Mailboxes, Places
          <6> QED
            BY <6>1
        <5>3. \A j \in DOMAIN mail[SERVER] : mail[SERVER][j].life \in 1 .. lives
          BY <1>1, Places DEF Owners, WellBorn
        <5>4. \A j \in 1 .. i - 1 : mail[SERVER][j].life # l1
          BY <1>6, <5>2, <5>3
        <5>5. Ahead(l, l1)
          BY <5>1, <5>4 DEF Ahead
        <5>6. Ahead(l, l1)'
          BY <1>30, <3>1, <5>5
        <5> QED
          BY <4>1, <5>6
      <4>4. CASE l = proc[h[l]].life
        BY <1>5, <3>1, <3>5, <4>4
      <4> QED
        BY <3>3, <4>2, <4>3, <4>4
    <3> QED
      BY <3>4, <3>5
  <2> QED
    BY <2>1, <2>2
<1>35. Heard'
  BY <1>1, <1>7, <1>28 DEF Core, Heard
<1>36. OwnAnswer'
  <2> SUFFICES ASSUME NEW q \in UserPids, NEW i \in DOMAIN mail'[q]
               PROVE  mail'[q][i].life \in {proc'[q].life} \cup history'.orphans
    BY DEF OwnAnswer
  <2>1. ASSUME NEW j \in DOMAIN mail[q] PROVE mail[q][j].life \in {proc'[q].life} \cup history'.orphans
    <3>1. mail[q][j].life \in {proc[q].life} \cup history.orphans
      BY <1>1 DEF Core, OwnAnswer
    <3>2. mail[q][j].life # 0
      <4>1. mail[q][j].life \in 1 .. lives
        BY <1>1, Places DEF Owners, WellBorn
      <4> QED
        BY <4>1
    <3>3. CASE q = c
      BY <1>5, <1>27, <1>28, <3>1, <3>2, <3>3
    <3>4. CASE q # c
      BY <1>27, <1>28, <1>31, <3>1, <3>4
    <3> QED
      BY <3>3, <3>4
  <2>2. CASE q = c /\ mail'[q][i] = a
    BY <1>14, <1>17, <1>20, <2>2
  <2>3. CASE q = p /\ mail'[q][i] = b
    <3>1. CASE m.life \in S
      BY <1>21, <1>28, <2>3, <3>1
    <3>2. CASE m.life = proc[p].life
      <4>1. p # c
        BY <1>5, <1>18, <3>2
      <4> QED
        BY <1>21, <1>31, <2>3, <3>2, <4>1
    <3> QED
      BY <1>27, <3>1, <3>2
  <2> QED
    BY <1>26, <2>1, <2>2, <2>3
<1>37. Unsignalled'
  <2> SUFFICES ASSUME NEW q \in UserPids, proc'[q].pc \in {"window", "asleep"}
               PROVE  /\ proc'[q].life # 0
                      /\ Deliverable(proc'[q]) # {} => proc'[q].life \in history'.missed
    BY DEF Unsignalled
  <2>1. q # c
    BY <1>14, <1>17
  <2>2. Follows(proc[q], proc'[q])
    BY <1>17, <2>1
  <2> QED
    BY <1>1, <1>28, <2>2 DEF Unsignalled, Follows, Calmer
<1> QED
  BY <1>29, <1>32, <1>33, <1>34, <1>35, <1>36, <1>37 DEF LifeInv, Core

-----------------------------------------------------------------------------
(* The specification.                                                        *)

\* At first only the first process has lived.
LEMMA LifeInit ==
  ASSUME LifecycleInit
  PROVE  \E g \in [Nat -> UserPids] : LifeInv(g)
<1>1. PICK f \in UserPids : f = Min(UserPids) /\ f \in Nat
  BY LeastFound, LifecycleAssumption
<1>2. PICK g \in [Nat -> UserPids] : g = [l \in Nat |-> f]
  OBVIOUS
<1>3. Nobody \in Records /\ Nobody.life = 0 /\ Nobody.pc = "none"
  BY DEF Nobody, Records, Pcs, Actions
<1>4. PICK v \in Pcs : v = "run" /\ v \notin {"exit", "nap", "window", "asleep"}
  BY DEF Pcs
<1>5. PICK n \in Nat : n = 1
  OBVIOUS
<1>6. PICK r : r = [Nobody EXCEPT !.life = n, !.pc = v]
  OBVIOUS
<1>7. r \in Records /\ r.life = n /\ r.pc = v
  BY <1>3, <1>6 DEF Records
<1>8. proc = [p \in UserPids |-> IF p = f THEN r ELSE Nobody]
  BY <1>1, <1>4, <1>5, <1>6 DEF LifecycleInit
<1>9. /\ proc \in [UserPids -> Records] /\ proc[f] = r
      /\ \A p \in UserPids : p # f => proc[p] = Nobody
  BY <1>3, <1>7, <1>8
<1>10. \A p \in UserPids : proc[p].pc \in {v, "none"} /\ (proc[p].life = IF p = f THEN 1 ELSE 0)
  BY <1>3, <1>5, <1>7, <1>9
<1>11. /\ mail \in [Boxes -> Seq(Letters)] /\ \A x \in Boxes : mail[x] = <<>>
  <2>1. <<>> \in Seq(Letters)
    OBVIOUS
  <2>2. mail = [x \in Boxes |-> <<>>]
    BY DEF LifecycleInit, Boxes
  <2> QED
    BY <2>1, <2>2
<1>12. \A x \in Boxes : DOMAIN mail[x] = {}
  BY <1>11
<1>13. /\ fsproc \in [UserPids -> Nat]
       /\ \A p \in UserPids : fsproc[p] = IF p = f THEN 1 ELSE 0
  BY <1>1 DEF LifecycleInit
<1>14. lives = 1 /\ next \in Nat
  BY <1>1 DEF LifecycleInit
<1>15. history \in Pasts /\ history.gone = {}
  BY DEF LifecycleInit, Pasts
<1>16. LifeType
  BY <1>9, <1>11, <1>13, <1>14, <1>15 DEF LifeType
<1>17. Owners(g)
  <2>1. 1 \in 1 .. lives /\ g[1] = f
    BY <1>2, <1>14
  <2>2. Lived(g, 1, f)
    BY <2>1 DEF Lived
  <2>3. \A p \in UserPids : proc[p].life # 0 => Lived(g, proc[p].life, p)
    BY <1>10, <2>2
  <2>4. \A p \in UserPids : fsproc[p] # 0 => Lived(g, fsproc[p], p)
    BY <1>13, <2>2
  <2> QED
    BY <1>12, <2>3, <2>4, Places DEF Owners
<1>18. ToldFirst
  BY <1>4, <1>10, <1>12, Places DEF ToldFirst
<1>19. Parted(g)
  <2>1. ASSUME NEW l \in 1 .. lives PROVE l = proc[g[l]].life
    <3>1. l = 1 /\ g[l] = f
      BY <1>2, <1>14
    <3> QED
      BY <1>10, <3>1
  <2> QED
    BY <2>1 DEF Parted
<1>20. Heard /\ OwnAnswer
  BY <1>12, <1>15, Places DEF Heard, OwnAnswer
<1>21. Unsignalled
  BY <1>4, <1>10 DEF Unsignalled
<1> QED
  BY <1>16, <1>17, <1>18, <1>19, <1>20, <1>21 DEF LifeInv

\* Nothing changes.
LEMMA LifeStutters ==
  ASSUME NEW h \in [Nat -> UserPids], LifeInv(h), UNCHANGED lifecycleVars
  PROVE  LifeInv(h)'
<1>1. /\ proc' = proc /\ mail' = mail /\ fsproc' = fsproc /\ lives' = lives /\ next' = next
      /\ history' = history
  BY DEF lifecycleVars
<1>2. LifeType'
  BY <1>1 DEF LifeInv, LifeType
<1>3. Owners(h)'
  BY <1>1 DEF LifeInv, Owners, Lived, WellBorn
<1>4. ToldFirst'
  BY <1>1 DEF LifeInv, ToldFirst, Leaving, ExitAt
<1>5. Parted(h)'
  BY <1>1 DEF LifeInv, Parted, Ahead, ExitAt
<1>6. Heard' /\ OwnAnswer' /\ Unsignalled'
  BY <1>1 DEF LifeInv, Heard, OwnAnswer, Unsignalled
<1> QED
  BY <1>2, <1>3, <1>4, <1>5, <1>6 DEF LifeInv

\* A step of a process, but for a kill.
LEMMA StepKeeps ==
  ASSUME NEW h \in [Nat -> UserPids], LifeInv(h), NEW p \in UserPids,
         \/ ForkCall(p) \/ ForkReturns(p) \/ Tell(p) \/ Call(p) \/ CallReturns(p)
         \/ ExitCall(p) \/ ExitNap(p) \/ Settings(p) \/ Tick(p) \/ Deliver(p) \/ Handled(p)
         \/ Pause(p) \/ PauseTest(p) \/ PauseSleep(p)
  PROVE  LifeInv(h)'
<1>1. CASE ForkCall(p)
  <2>1. PICK o \in {"fork", "call"}, x \in {KERNEL, SERVER} : Calling(p, o, x, o)
    BY <1>1 DEF ForkCall
  <2> QED
    BY <2>1, CallingKeeps
<1>2. CASE ForkReturns(p)
  BY <1>2, ForkReturnsKeeps
<1>3. CASE Tell(p)
  BY <1>3, TellKeeps
<1>4. CASE Call(p)
  <2>1. PICK o \in {"fork", "call"}, x \in {KERNEL, SERVER} : Calling(p, o, x, o)
    BY <1>4 DEF Call
  <2> QED
    BY <2>1, CallingKeeps
<1>5. CASE CallReturns(p)
  BY <1>5, CallReturnsKeeps
<1>6. CASE ExitCall(p)
  <2>1. Alive(p) /\ do_exit(p) /\ UNCHANGED <<fsproc, lives, next, history>>
    BY <1>6 DEF ExitCall, At
  <2> QED
    BY <2>1, ExitKeeps
<1>7. CASE ExitNap(p)
  BY <1>7, ExitNapKeeps
<1>8. CASE Settings(p)
  BY <1>8, SettingsKeeps
<1>9. CASE Tick(p)
  BY <1>9, TickKeeps
<1>10. CASE Deliver(p)
  BY <1>10, DeliverKeeps
<1>11. CASE Handled(p)
  BY <1>11, HandledKeeps
<1>12. CASE Pause(p)
  BY <1>12, PauseKeeps
<1>13. CASE PauseTest(p)
  BY <1>13, PauseTestKeeps
<1>14. CASE PauseSleep(p)
  BY <1>14, PauseSleepKeeps
<1> QED
  BY <1>1, <1>2, <1>3, <1>4, <1>5, <1>6, <1>7, <1>8, <1>9, <1>10, <1>11, <1>12, <1>13, <1>14

\* Every step keeps the invariant, with the lives' PIDs as they were, and a child's too.
LEMMA NextKeeps ==
  ASSUME \E h \in [Nat -> UserPids] : LifeInv(h), [LifecycleNext]_lifecycleVars
  PROVE  \E g \in [Nat -> UserPids] : LifeInv(g)'
<1>1. PICK h \in [Nat -> UserPids] : LifeInv(h)
  OBVIOUS
<1>2. CASE KernelFork
  BY <1>1, <1>2, KernelForkKeeps
<1>3. CASE KernelExit
  <2>1. LifeInv(h)'
    BY <1>1, <1>3, KernelExitKeeps
  <2> QED
    BY <2>1
<1>4. CASE FsFork
  <2>1. LifeInv(h)'
    BY <1>1, <1>4, FsForkKeeps
  <2> QED
    BY <2>1
<1>5. CASE FsReply
  <2>1. LifeInv(h)'
    BY <1>1, <1>5, FsReplyKeeps
  <2> QED
    BY <2>1
<1>6. CASE FsExit
  <2>1. LifeInv(h)'
    BY <1>1, <1>6, FsExitKeeps
  <2> QED
    BY <2>1
<1>7. ASSUME NEW p \in UserPids,
             \/ ForkCall(p) \/ ForkReturns(p) \/ Tell(p) \/ Call(p) \/ CallReturns(p)
             \/ ExitCall(p) \/ ExitNap(p) \/ Settings(p) \/ Tick(p) \/ Deliver(p) \/ Handled(p)
             \/ Pause(p) \/ PauseTest(p) \/ PauseSleep(p)
      PROVE  \E g \in [Nat -> UserPids] : LifeInv(g)'
  <2>1. LifeInv(h)'
    BY <1>1, <1>7, StepKeeps
  <2> QED
    BY <2>1
<1>8. ASSUME NEW p \in UserPids, NEW q \in UserPids, NEW s \in Signals, Kill(p, q, s)
      PROVE  \E g \in [Nat -> UserPids] : LifeInv(g)'
  <2>1. LifeInv(h)'
    BY <1>1, <1>8, KillKeeps
  <2> QED
    BY <2>1
<1>9. CASE UNCHANGED lifecycleVars
  <2>1. LifeInv(h)'
    BY <1>1, <1>9, LifeStutters
  <2> QED
    BY <2>1
<1> QED
  BY <1>2, <1>3, <1>4, <1>5, <1>6, <1>7, <1>8, <1>9 DEF LifecycleNext

\* Every state of an execution satisfies the invariant, for some PIDs of its lives.
THEOREM LifecycleInductive == LifecycleSpec => [](\E h \in [Nat -> UserPids] : LifeInv(h))
<1>1. LifecycleInit => \E h \in [Nat -> UserPids] : LifeInv(h)
  BY LifeInit
<1>2. (\E h \in [Nat -> UserPids] : LifeInv(h)) /\ [LifecycleNext]_lifecycleVars
        => (\E h \in [Nat -> UserPids] : LifeInv(h))'
  BY NextKeeps
<1> QED
  BY <1>1, <1>2, PTL DEF LifecycleSpec

\* The invariant gives the file system's entries their owners.
LEMMA EntriesOwned ==
  ASSUME NEW h \in [Nat -> UserPids], LifeInv(h)
  PROVE  OwnEntry
<1> SUFFICES ASSUME NEW p \in UserPids,
                    fsproc[p] \notin {0, proc[p].life} \cup history.late \cup history.struck
             PROVE  \E i \in DOMAIN mail[SERVER] :
                      /\ mail[SERVER][i].op = "exit" /\ mail[SERVER][i].life = fsproc[p]
                      /\ \A j \in 1 .. i - 1 : mail[SERVER][j].life # proc[p].life
  BY DEF OwnEntry
<1>1. fsproc[p] \in 1 .. lives /\ h[fsproc[p]] = p
  BY DEF LifeInv, Owners, Lived
<1>2. fsproc[p] \notin history.gone
  BY DEF LifeInv, Heard
<1>3. Ahead(fsproc[p], proc[p].life)
  BY <1>1, <1>2 DEF LifeInv, Parted
<1> QED
  BY <1>3 DEF Ahead, ExitAt

\* The file system's entry for a PID is the living process' own or, with its exit ahead of
\* all that the new owner says, its late owner's: do_exit() tells the file system first.
THEOREM OwnEntryCorrect == LifecycleSpec => []OwnEntry
<1>1. (\E h \in [Nat -> UserPids] : LifeInv(h)) => OwnEntry
  BY EntriesOwned
<1> QED
  BY <1>1, LifecycleInductive, PTL

\* No answer reaches a later owner of a PID but that of a process destroyed in the call:
\* proc_exit() empties the mailbox of the PID, and msg_send() fills it for who has it.
THEOREM OwnAnswerCorrect == LifecycleSpec => []OwnAnswer
<1>1. (\E h \in [Nat -> UserPids] : LifeInv(h)) => OwnAnswer
  BY DEF LifeInv
<1> QED
  BY <1>1, LifecycleInductive, PTL

\* Nobody sleeps in pause() over a signal it could take, but for one that came between
\* do_pause()'s test and proc_sleep().
THEOREM SleepsUnsignalledCorrect == LifecycleSpec => []SleepsUnsignalled
<1>1. (\E h \in [Nat -> UserPids] : LifeInv(h)) => SleepsUnsignalled
  BY DEF LifeInv, Unsignalled, SleepsUnsignalled
<1> QED
  BY <1>1, LifecycleInductive, PTL
=============================================================================
