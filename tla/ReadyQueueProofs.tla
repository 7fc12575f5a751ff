-------------------------- MODULE ReadyQueueProofs --------------------------
(***************************************************************************)
(* What holds of the ready queue and of the scheduler for every size of    *)
(* the process table, provided no interrupt is taken inside proc_sched.    *)
(***************************************************************************)
EXTENDS ReadyQueue, TLAPS

\* Where the running process, and the others, can be, and what they know there.
Places ==
  /\ \A p \in Pids :
       /\ p # running => pc[p] \notin InSched
       /\ pc[p] = "slept" => arg[p] = p
       /\ pc[p] \in {"slept", "woke"} => p # Idle /\ p \notin exiting
       /\ pc[p] = "woke" => state[p] = "READY" /\ arg[p] \in Pids
       /\ p \in exiting => state[p] # "BLOCKED" /\ p \notin {Idle, KERNEL}
       /\ state[p] = "NONEXIST" => p \notin {Idle, KERNEL}
  /\ state[Idle] = "READY"
  /\ state[running] # "NONEXIST"
  /\ pc[running] # "jump" => running = current
  /\ pc[running] = "jump" => pick[running] = current

\* A process that proc_sched may give the processor to.
Pickable(q) == IF q = Idle THEN Ready = {} ELSE q \in Ready

Picks ==
  /\ pc[running] \in {"head", "rotate"} => ready_q # NULL
  /\ pc[running] = "store" => pick[running] \in Ready
  /\ pc[running] \in {"test", "jump"} => Pickable(pick[running])

SchedInv == TypeOK /\ RingIsReady /\ Places /\ Picks /\ OnlyReadyRun /\ WorkConserving
-----------------------------------------------------------------------------
(* The ring. *)

\* The numbers used below: what is needed of 0 .. NumProcs - 1.
LEMMA PidFacts == /\ Idle \in Pids /\ KERNEL \in Pids /\ Idle # KERNEL
                  /\ NULL \notin Pids
BY ReadyQueueAssumption, SMT DEF Pids, Idle, KERNEL

\* A set of READY processes that the next links do not leave is all of them.
LEMMA OneRing ==
  ASSUME RingIsReady, NEW T \in SUBSET Ready, T # {}, \A q \in T : next[q] \in T
  PROVE  T = Ready
BY DEF RingIsReady

\* proc_enq keeps the types and makes p READY.
LEMMA EnqType ==
  ASSUME TypeOK, NEW p \in Pids, proc_enq(p)
  PROVE  /\ state' \in [Pids -> States] /\ next' \in [Pids -> Pids]
         /\ prev' \in [Pids -> Pids] /\ ready_q' \in Pids
         /\ state' = [state EXCEPT ![p] = "READY"]
         /\ p # Idle => Ready' = Ready \cup {p}
<1>1. CASE ready_q = NULL
  BY <1>1 DEF TypeOK, proc_enq, Ready, States
<1>2. CASE ready_q # NULL
  BY <1>2 DEF TypeOK, proc_enq, Ready, States, PidOrNull
<1> QED BY <1>1, <1>2

\* A process that is not in the ring joins it at its end.
LEMMA EnqRing ==
  ASSUME TypeOK, RingIsReady, NEW p \in Pids \ {Idle}, p \notin Ready, proc_enq(p)
  PROVE  RingIsReady' /\ (next'[p] = p => Ready = {} /\ Ready' = {p})
<1> USE EnqType
<1>0. Ready' = Ready \cup {p} /\ next[p] = p /\ prev[p] = p
  BY DEF RingIsReady, TypeOK
<1>1. CASE ready_q = NULL
  <2>1. Ready = {} BY <1>1, PidFacts DEF RingIsReady, Ready
  <2>2. /\ ready_q' = p
        /\ next' = [next EXCEPT ![p] = p] /\ prev' = [prev EXCEPT ![p] = p]
    BY <1>1 DEF proc_enq
  <2>3. next' = next /\ prev' = prev BY <2>2, <1>0 DEF TypeOK
  <2> QED BY <1>0, <2>1, <2>2, <2>3 DEF RingIsReady
<1>2. CASE ready_q # NULL
  <2> DEFINE h == ready_q
             t == prev[ready_q]
  <2>1. h \in Ready /\ h \in Pids BY <1>2 DEF RingIsReady, Ready
  <2>2. t \in Pids /\ next[t] = h BY <2>1 DEF RingIsReady, TypeOK
  <2>3. t \in Ready
    BY <2>1, <2>2 DEF RingIsReady
  <2>4. /\ next' = [next EXCEPT ![p] = h, ![t] = p]
        /\ prev' = [prev EXCEPT ![p] = t, ![h] = p]
        /\ ready_q' = h
    BY <1>2 DEF proc_enq
  <2>5. p # h /\ p # t BY <2>1, <2>3
  <2>6. /\ next'[p] = h /\ next'[t] = p /\ prev'[p] = t /\ prev'[h] = p
        /\ \A q \in Pids \ {p, t} : next'[q] = next[q]
        /\ \A q \in Pids \ {p, h} : prev'[q] = prev[q]
    BY <2>4, <2>5, <2>1, <2>2 DEF TypeOK
  <2>7. \A q \in Pids \ {p, t} : next[q] # p /\ next[q] # h
    BY <2>2, <2>1, <1>0 DEF RingIsReady, TypeOK
  <2>8. \A q \in Pids \ {p, h} : prev[q] # p /\ prev[q] # t
    BY <2>2, <2>1, <1>0 DEF RingIsReady, TypeOK
  <2>9. \A q \in Pids : prev'[next'[q]] = q /\ next'[prev'[q]] = q
    <3> TAKE q \in Pids
    <3>1. prev'[next'[q]] = q
      BY <2>6, <2>7, <2>1, <2>2 DEF RingIsReady, TypeOK
    <3>2. next'[prev'[q]] = q
      BY <2>6, <2>8, <2>1, <2>2 DEF RingIsReady, TypeOK
    <3> QED BY <3>1, <3>2
  <2>10. \A S \in SUBSET Ready' :
           S # {} /\ (\A q \in S : next'[q] \in S) => S = Ready'
    <3> SUFFICES ASSUME NEW S \in SUBSET Ready', S # {},
                        \A q \in S : next'[q] \in S
                 PROVE  S = Ready'
      OBVIOUS
    <3> DEFINE T == S \ {p}
    <3>1. T \subseteq Ready /\ T \subseteq Pids BY <1>0 DEF Ready
    <3>2. T # {}
      <4>1. CASE p \in S BY <4>1, <2>6, <2>5
      <4>2. CASE p \notin S BY <4>2
      <4> QED BY <4>1, <4>2
    <3>3. ASSUME NEW q \in T PROVE next[q] \in T
      <4>1. CASE q = t BY <4>1, <2>6, <2>2, <2>5
      <4>2. CASE q # t BY <4>2, <2>6, <2>7, <3>1
      <4> QED BY <4>1, <4>2
    <3>4. T = Ready
      <4> HIDE DEF T
      <4> QED BY <3>1, <3>2, <3>3, OneRing
    <3>5. p \in S BY <3>4, <2>3, <2>6
    <3> QED BY <3>4, <3>5, <1>0
  <2>11. \A q \in Pids \ Ready' : next'[q] = q
    BY <1>0, <2>3, <2>6 DEF RingIsReady
  <2>12. next'[p] # p BY <2>6, <2>5
  <2> QED BY <1>0, <2>1, <2>4, <2>9, <2>10, <2>11, <2>12 DEF RingIsReady
<1> QED BY <1>1, <1>2

\* proc_deq keeps the types and changes the state of p only.
LEMMA DeqType ==
  ASSUME TypeOK, NEW p \in Pids \ {Idle}, NEW st \in States \ {"READY"}, proc_deq(p, st)
  PROVE  /\ state' \in [Pids -> States] /\ next' \in [Pids -> Pids]
         /\ prev' \in [Pids -> Pids] /\ ready_q' \in PidOrNull
         /\ state' = [state EXCEPT ![p] = st]
         /\ Ready' = Ready \ {p}
BY DEF TypeOK, proc_deq, Ready, States, PidOrNull

\* A process leaves the ring, wherever it is in it, and the rest stays a ring.
LEMMA DeqRing ==
  ASSUME TypeOK, RingIsReady,
         NEW p \in Pids \ {Idle}, NEW st \in States \ {"READY"}, proc_deq(p, st)
  PROVE  RingIsReady'
<1> USE DeqType
<1> DEFINE n == next[p]
           t == prev[p]
<1>0. Ready' = Ready \ {p} /\ n \in Pids /\ t \in Pids /\ next[t] = p /\ prev[n] = p
  BY DEF RingIsReady, TypeOK
<1>1. /\ next' = [next EXCEPT ![t] = n, ![p] = p]
      /\ prev' = [prev EXCEPT ![n] = t, ![p] = p]
  BY DEF proc_deq
<1>2. /\ next'[p] = p /\ prev'[p] = p
      /\ t # p => next'[t] = n
      /\ n # p => prev'[n] = t
      /\ \A q \in Pids \ {p, t} : next'[q] = next[q]
      /\ \A q \in Pids \ {p, n} : prev'[q] = prev[q]
  BY <1>1, <1>0 DEF TypeOK
<1>3. n = p <=> t = p BY <1>0 DEF RingIsReady
<1>4. \A q \in Pids \ {p, t} : next[q] # p /\ next[q] # n
  BY <1>0 DEF RingIsReady, TypeOK
<1>5. \A q \in Pids \ {p, n} : prev[q] # p /\ prev[q] # t
  BY <1>0 DEF RingIsReady, TypeOK
<1>6. \A q \in Pids : prev'[next'[q]] = q /\ next'[prev'[q]] = q
  <2> TAKE q \in Pids
  <2>1. prev'[next'[q]] = q
    BY <1>0, <1>2, <1>3, <1>4 DEF RingIsReady, TypeOK
  <2>2. next'[prev'[q]] = q
    BY <1>0, <1>2, <1>3, <1>5 DEF RingIsReady, TypeOK
  <2> QED BY <2>1, <2>2
<1>7. \A q \in Pids \ Ready' : next'[q] = q
  <2> SUFFICES ASSUME NEW q \in Pids \ Ready', q # p PROVE next'[q] = q
    BY <1>2
  <2>1. next[q] = q /\ prev[q] = q BY <1>0 DEF RingIsReady, TypeOK
  <2> QED BY <2>1, <1>2, <1>0
<1>8. \A S \in SUBSET Ready' :
        S # {} /\ (\A q \in S : next'[q] \in S) => S = Ready'
  <2> SUFFICES ASSUME NEW S \in SUBSET Ready', S # {},
                      \A q \in S : next'[q] \in S
               PROVE  S = Ready'
    OBVIOUS
  <2>1. S \subseteq Ready /\ S \subseteq Pids /\ p \notin S BY <1>0 DEF Ready
  <2>2. CASE p \notin Ready
    <3>1. next[p] = p /\ prev[p] = p BY <2>2 DEF RingIsReady, TypeOK
    <3>2. \A q \in S : next[q] \in S BY <3>1, <1>2, <2>1
    <3> QED BY <3>2, <2>1, <2>2, <1>0 DEF RingIsReady
  <2>3. CASE p \in Ready /\ t \in S
    <3>1. n \in S BY <2>3, <2>1, <1>2
    <3> DEFINE T == S \cup {p}
    <3>2. ASSUME NEW q \in T PROVE next[q] \in T
      <4>1. CASE q = p BY <4>1, <3>1
      <4>2. CASE q = t BY <4>2, <1>0
      <4>3. CASE q # p /\ q # t BY <4>3, <1>2, <2>1
      <4> QED BY <4>1, <4>2, <4>3
    <3>3. T \in SUBSET Ready /\ T # {} BY <2>1, <2>3
    <3>4. T = Ready
      <4> HIDE DEF T
      <4> QED BY <3>2, <3>3, OneRing
    <3> QED BY <3>4, <1>0, <2>1
  <2>4. CASE p \in Ready /\ t \notin S
    <3>1. \A q \in S : next[q] \in S BY <2>4, <2>1, <1>2
    <3>2. S = Ready BY <3>1, <2>1 DEF RingIsReady
    <3> QED BY <3>2, <2>1, <2>4
  <2> QED BY <2>2, <2>3, <2>4
<1>9. IF Ready' = {} THEN ready_q' = NULL ELSE ready_q' \in Ready'
  <2>1. CASE ready_q # p
    <3>1. ready_q' = ready_q BY <2>1 DEF proc_deq
    <3>2. CASE ready_q = NULL BY <3>1, <3>2, <1>0, PidFacts DEF RingIsReady, Ready
    <3>3. CASE ready_q # NULL BY <3>1, <3>3, <2>1, <1>0 DEF RingIsReady
    <3> QED BY <3>2, <3>3
  <2>2. CASE ready_q = p /\ n = p
    <3>1. ready_q' = NULL BY <2>2 DEF proc_deq
    <3>2. p \in Ready BY <2>2, PidFacts DEF RingIsReady
    <3> DEFINE T == {p}
    <3>3. T \in SUBSET Ready /\ T # {} /\ \A q \in T : next[q] \in T
      BY <2>2, <3>2
    <3>4. T = Ready
      <4> HIDE DEF T
      <4> QED BY <3>3, OneRing
    <3> QED BY <3>1, <3>4, <1>0
  <2>3. CASE ready_q = p /\ n # p
    <3>1. ready_q' = n BY <2>3 DEF proc_deq
    <3>2. n \in Ready
      BY <1>0, <2>3, <1>3 DEF RingIsReady, TypeOK
    <3> QED BY <3>1, <3>2, <1>0, <2>3
  <2> QED BY <2>1, <2>2, <2>3
<1> QED BY <1>6, <1>7, <1>8, <1>9 DEF RingIsReady

-----------------------------------------------------------------------------
(* The steps. *)

\* The initial states.
LEMMA InitInv == Init => SchedInv
<1> SUFFICES ASSUME Init PROVE SchedInv
  OBVIOUS
<1> USE PidFacts
<1>1. TypeOK BY DEF Init, TypeOK, States, Labels, InSched, PidOrNull
<1>2. Ready = {KERNEL} BY DEF Init, Ready
<1>3. RingIsReady BY <1>2 DEF Init, RingIsReady
<1>4. Places BY DEF Init, Places, InSched
<1>5. Picks /\ OnlyReadyRun /\ WorkConserving BY DEF Init, Picks, OnlyReadyRun, WorkConserving
<1> QED BY <1>1, <1>3, <1>4, <1>5 DEF SchedInv

\* Steps that touch neither the queue nor who runs.
LEMMA QuietStep ==
  ASSUME SchedInv, NEW p \in Pids,
         Nap(p) \/ Slept(p) \/ Woke(p) \/ Exit(p) \/ Branch(p) \/ Head(p) \/ Rotate(p)
  PROVE  SchedInv'
<1> USE PidFacts DEF SchedInv, At, Goto, queueVars, localVars
<1>0. UNCHANGED queueVars /\ UNCHANGED <<current, running>>
  BY DEF Nap, Slept, Woke, Exit, Branch, Head, Rotate
<1>1. RingIsReady' /\ Ready' = Ready BY <1>0 DEF RingIsReady, Ready
<1>2. next[Idle] = Idle BY DEF RingIsReady, Ready
<1>3. ready_q # NULL => ready_q \in Ready /\ next[ready_q] \in Ready
  BY DEF RingIsReady, Ready, TypeOK
<1>4. TypeOK'
  BY <1>0, <1>2, <1>3 DEF TypeOK, Labels, InSched, PidOrNull, Ready, Nap, Slept, Woke, Exit, Branch, Head, Rotate
<1>5. CASE Nap(p)
  BY <1>0, <1>1, <1>4, <1>5 DEF Nap, Places, Picks, OnlyReadyRun, WorkConserving, TypeOK, InSched
<1>6. CASE Slept(p)
  BY <1>0, <1>1, <1>4, <1>6 DEF Slept, Places, Picks, OnlyReadyRun, WorkConserving, TypeOK, InSched
<1>7. CASE Woke(p)
  BY <1>0, <1>1, <1>4, <1>7 DEF Woke, Places, Picks, OnlyReadyRun, WorkConserving, TypeOK, InSched
<1>8. CASE Exit(p)
  BY <1>0, <1>1, <1>4, <1>8 DEF Exit, Places, Picks, OnlyReadyRun, WorkConserving, TypeOK, InSched
<1>9. CASE Branch(p)
  <2>1. ready_q = NULL => Ready = {} BY DEF RingIsReady, Ready
  <2>2. CASE ready_q = NULL
    BY <1>0, <1>1, <1>2, <1>4, <1>9, <2>1, <2>2
    DEF Branch, Places, Picks, Pickable, OnlyReadyRun, WorkConserving, TypeOK, InSched
  <2>3. CASE ready_q # NULL
    BY <1>0, <1>1, <1>4, <1>9, <2>3
    DEF Branch, Places, Picks, OnlyReadyRun, WorkConserving, TypeOK, InSched
  <2> QED BY <2>2, <2>3
<1>10. CASE Head(p)
  BY <1>0, <1>1, <1>3, <1>4, <1>10 DEF Head, Places, Picks, Pickable, OnlyReadyRun, WorkConserving, TypeOK, InSched, Ready
<1>11. CASE Rotate(p)
  BY <1>0, <1>1, <1>3, <1>4, <1>11 DEF Rotate, Places, Picks, Pickable, OnlyReadyRun, WorkConserving, TypeOK, InSched
<1> QED BY <1>5, <1>6, <1>7, <1>8, <1>9, <1>10, <1>11

\* The steps of proc_sched that move ready_q, current_proc and the processor.
LEMMA SchedStep ==
  ASSUME SchedInv, NEW p \in Pids, Store(p) \/ Test(p) \/ Jump(p)
  PROVE  SchedInv'
<1> USE PidFacts DEF SchedInv, At, Goto, queueVars, localVars
<1>0. UNCHANGED <<state, next, prev>> /\ Ready' = Ready /\ Ready \subseteq Pids \ {Idle}
  BY DEF Store, Test, Jump, Ready
<1>1. TypeOK'
  <2>1. CASE Store(p) \/ Test(p)
    BY <2>1 DEF TypeOK, Labels, InSched, PidOrNull, Store, Test
  <2>2. CASE Jump(p)
    <3>1. pick[p] \in Pids BY <1>0, <2>2 DEF Jump, Picks, Pickable
    <3> QED BY <2>2, <3>1 DEF TypeOK, Labels, PidOrNull, Jump
  <2> QED BY <2>1, <2>2
<1>2. CASE Store(p)
  <2>1. pick[p] \in Ready BY <1>2 DEF Store, Picks
  <2>2. RingIsReady' BY <1>2, <2>1, <1>0 DEF Store, RingIsReady
  <2> QED BY <1>0, <1>1, <1>2, <2>1, <2>2
          DEF Store, Places, Picks, Pickable, OnlyReadyRun, WorkConserving, TypeOK, InSched
<1>3. CASE Test(p)
  <2>1. RingIsReady' BY <1>3, <1>0 DEF Test, RingIsReady
  <2>2. Pickable(pick[p]) /\ p = running /\ p = current
    BY <1>3 DEF Test, Places, Picks
  <2>3. CASE pick[p] = current
    BY <1>0, <1>1, <1>3, <2>1, <2>2, <2>3
    DEF Test, Places, Picks, Pickable, OnlyReadyRun, WorkConserving, TypeOK, InSched, Ready
  <2>4. CASE pick[p] # current
    BY <1>0, <1>1, <1>3, <2>1, <2>2, <2>4
    DEF Test, Places, Picks, Pickable, OnlyReadyRun, WorkConserving, TypeOK, InSched
  <2> QED BY <2>3, <2>4
<1>4. CASE Jump(p)
  <2>1. RingIsReady' BY <1>4, <1>0 DEF Jump, RingIsReady
  <2>2. Pickable(pick[p]) /\ p = running /\ pick[p] = current
    BY <1>4 DEF Jump, Places, Picks
  <2>3. state[pick[p]] = "READY" BY <2>2 DEF Pickable, Ready, Places
  <2>4. pc'[p] = "run" /\ running' = pick[p] BY <1>4 DEF Jump, TypeOK
  <2>5. \A q \in Pids : pc'[q] \notin InSched
    BY <1>4, <2>2, <2>4 DEF Jump, Places, TypeOK, InSched
  <2>6. Places'
    BY <1>0, <1>1, <1>4, <2>2, <2>3, <2>4, <2>5 DEF Jump, Places, TypeOK, InSched
  <2>7. Picks' BY <2>5, <1>1 DEF Picks, TypeOK, InSched
  <2>8. OnlyReadyRun' BY <1>4, <2>2, <2>3, <1>0 DEF OnlyReadyRun, Jump
  <2>9. WorkConserving' BY <2>2, <2>4, <1>0 DEF WorkConserving, Pickable
  <2> QED BY <1>1, <2>1, <2>6, <2>7, <2>8, <2>9
<1> QED BY <1>2, <1>3, <1>4

\* A process goes to sleep.
LEMMA SleepStep == ASSUME SchedInv, NEW p \in Pids, Sleep(p) PROVE SchedInv'
<1> USE PidFacts DEF SchedInv, At, Goto
<1>1. p = current /\ p = running /\ p \in Pids \ {Idle} /\ proc_deq(p, "BLOCKED")
  BY DEF Sleep, Places
<1>2. RingIsReady' BY <1>1, DeqRing DEF States
<1>3. /\ state' \in [Pids -> States] /\ next' \in [Pids -> Pids]
      /\ prev' \in [Pids -> Pids] /\ ready_q' \in PidOrNull
      /\ state' = [state EXCEPT ![p] = "BLOCKED"]
  BY <1>1, DeqType DEF States
<1>4. TypeOK' BY <1>1, <1>3 DEF Sleep, TypeOK, Labels, PidOrNull
<1>5. Places' /\ Picks' /\ OnlyReadyRun' /\ WorkConserving'
  BY <1>1, <1>3, <1>4 DEF Sleep, Places, Picks, OnlyReadyRun, WorkConserving, TypeOK, InSched
<1> QED BY <1>2, <1>4, <1>5

\* A process wakes another.
LEMMA WakeupStep ==
  ASSUME SchedInv, NEW p \in Pids, NEW q \in Pids, Wakeup(p, q) PROVE SchedInv'
<1> USE PidFacts DEF SchedInv, At, Goto
<1>1. /\ p = current /\ p = running /\ p # Idle /\ state[p] = "READY" /\ p \notin exiting
      /\ q \in Pids \ {Idle} /\ q # p /\ q \notin Ready /\ proc_enq(q)
      /\ state[q] = "BLOCKED"
  BY DEF Wakeup, Places, OnlyReadyRun, Ready
<1>2. RingIsReady' BY <1>1, EnqRing
<1>3. /\ state' \in [Pids -> States] /\ next' \in [Pids -> Pids]
      /\ prev' \in [Pids -> Pids] /\ ready_q' \in Pids
      /\ state' = [state EXCEPT ![q] = "READY"]
  BY <1>1, EnqType
<1>4. TypeOK' BY <1>1, <1>3 DEF Wakeup, TypeOK, Labels, PidOrNull
<1>5. Places' /\ Picks' /\ OnlyReadyRun' /\ WorkConserving'
  BY <1>1, <1>3, <1>4 DEF Wakeup, Places, Picks, OnlyReadyRun, WorkConserving, TypeOK, InSched
<1> QED BY <1>2, <1>4, <1>5

\* The kernel process creates a process, or fails to.
LEMMA CreateStep == ASSUME SchedInv, NEW q \in Pids, Create(q) PROVE SchedInv'
<1> USE PidFacts DEF SchedInv, At
<1>1. /\ KERNEL = current /\ KERNEL = running /\ state[KERNEL] = "READY"
      /\ state[q] = "NONEXIST" /\ q \in Pids \ {Idle, KERNEL} /\ q \notin Ready
  BY DEF Create, calc_next_pid, Places, OnlyReadyRun, Ready
<1>2. CASE UNCHANGED <<queueVars, exiting, localVars>>
  <2>1. /\ UNCHANGED <<state, next, prev, ready_q, exiting, pc, arg, pick, current, running>>
        /\ lastPid' = q
    BY <1>2 DEF Create, queueVars, localVars
  <2>2. Ready' = Ready /\ TypeOK' BY <2>1 DEF Ready, TypeOK
  <2>3. RingIsReady' BY <2>1, <2>2 DEF RingIsReady
  <2>4. Places' BY <2>1 DEF Places
  <2>5. Picks' BY <2>1, <2>2 DEF Picks, Pickable
  <2>6. OnlyReadyRun' /\ WorkConserving' BY <2>1, <2>2 DEF OnlyReadyRun, WorkConserving
  <2> QED BY <2>2, <2>3, <2>4, <2>5, <2>6
<1>3. CASE /\ proc_enq(q)
           /\ exiting' = exiting \ {q}
           /\ pc'   = [pc   EXCEPT ![q] = "run"]
           /\ arg'  = [arg  EXCEPT ![q] = NULL]
           /\ pick' = [pick EXCEPT ![q] = NULL]
  <2>1. RingIsReady' BY <1>1, <1>3, EnqRing
  <2>2. /\ state' \in [Pids -> States] /\ next' \in [Pids -> Pids]
        /\ prev' \in [Pids -> Pids] /\ ready_q' \in Pids
        /\ state' = [state EXCEPT ![q] = "READY"]
    BY <1>1, <1>3, EnqType
  <2>3. TypeOK' BY <1>1, <1>3, <2>2 DEF Create, TypeOK, Labels, PidOrNull
  <2>4. Places' /\ Picks' /\ OnlyReadyRun' /\ WorkConserving'
    BY <1>1, <1>3, <2>2, <2>3 DEF Create, Places, Picks, OnlyReadyRun, WorkConserving, TypeOK, InSched
  <2> QED BY <2>1, <2>3, <2>4
<1> QED BY <1>2, <1>3 DEF Create

\* The kernel process destroys a process that has exited.
LEMMA DestroyStep == ASSUME SchedInv, NEW q \in Pids, Destroy(q) PROVE SchedInv'
<1> USE PidFacts DEF SchedInv, At
<1>1. /\ KERNEL = current /\ KERNEL = running /\ state[KERNEL] = "READY"
      /\ q \in exiting /\ q \in Pids \ {Idle, KERNEL} /\ proc_deq(q, "NONEXIST")
  BY DEF Destroy, Places, OnlyReadyRun
<1>2. RingIsReady' BY <1>1, DeqRing DEF States
<1>3. /\ state' \in [Pids -> States] /\ next' \in [Pids -> Pids]
      /\ prev' \in [Pids -> Pids] /\ ready_q' \in PidOrNull
      /\ state' = [state EXCEPT ![q] = "NONEXIST"]
  BY <1>1, DeqType DEF States
<1>4. TypeOK' BY <1>1, <1>3 DEF Destroy, TypeOK, localVars
<1>5. Places' /\ Picks' /\ OnlyReadyRun' /\ WorkConserving'
  BY <1>1, <1>3, <1>4 DEF Destroy, localVars, Places, Picks, OnlyReadyRun, WorkConserving, TypeOK, InSched
<1> QED BY <1>2, <1>4, <1>5

\* A handler that ends in proc_sched leaves the processor with a process that
\* may have it, whatever it interrupted.
LEMMA SwitchStep ==
  ASSUME SchedInv, NEW q \in Pids, Switch(q), pc[running] \notin InSched,
         UNCHANGED <<lastPid, exiting, localVars>>, TypeOK', Ready' \subseteq Pids \ {Idle},
         state'[q] = "READY", q = Idle => Ready' = {},
         \A p \in Pids : state'[p] = state[p] \/ (state[p] = "BLOCKED" /\ state'[p] = "READY")
  PROVE  Places' /\ Picks' /\ OnlyReadyRun' /\ WorkConserving'
<1> USE PidFacts DEF SchedInv, localVars
<1>1. running' = q /\ current' = q BY DEF Switch, Places, InSched
<1>2. \A p \in Pids : pc[p] \notin InSched BY DEF Places
<1>3. Places' BY <1>1, <1>2 DEF Places, TypeOK, InSched
<1>4. Picks' BY <1>1, <1>2 DEF Picks, TypeOK, InSched
<1> QED BY <1>1, <1>3, <1>4 DEF OnlyReadyRun, WorkConserving

\* The timer ticks.
LEMMA TickStep == ASSUME SchedInv, ~Preemptible, Tick PROVE SchedInv'
<1> USE PidFacts DEF SchedInv
<1>0. /\ UNCHANGED <<state, next, prev, lastPid, exiting, localVars>> /\ Ready' = Ready
      /\ pc[running] \notin InSched /\ Ready \subseteq Pids \ {Idle}
  BY DEF Tick, Interruptible, Ready
<1>1. next[Idle] = Idle /\ (ready_q = NULL => Ready = {}) BY DEF RingIsReady, Ready
<1>2. ready_q # NULL => ready_q \in Ready /\ next[ready_q] \in Ready
  BY DEF RingIsReady, Ready, TypeOK
<1>3. PICK q \in Pids : Switch(q) /\ state[q] = "READY" /\ (q = Idle => Ready = {})
  BY <1>0, <1>1, <1>2 DEF Tick, Ready, Places
<1>4. RingIsReady'
  BY <1>0, <1>1, <1>2 DEF Tick, RingIsReady
<1>5. TypeOK'
  BY <1>0, <1>2, <1>3 DEF Tick, Switch, TypeOK, localVars, PidOrNull
<1> QED BY <1>0, <1>3, <1>4, <1>5, SwitchStep DEF Tick

\* A handler wakes a process.
LEMMA IrqStep ==
  ASSUME SchedInv, ~Preemptible, NEW q \in Pids, IrqWakeup(q) PROVE SchedInv'
<1> USE PidFacts DEF SchedInv
<1>1. /\ q \in Pids \ {Idle} /\ q \notin Ready /\ proc_enq(q) /\ state[q] = "BLOCKED"
      /\ pc[running] \notin InSched /\ UNCHANGED <<lastPid, exiting, localVars>>
  BY DEF IrqWakeup, Interruptible, Places, Ready
<1>2. RingIsReady' /\ (next'[q] = q => Ready = {} /\ Ready' = {q}) BY <1>1, EnqRing
<1>3. /\ state' \in [Pids -> States] /\ next' \in [Pids -> Pids]
      /\ prev' \in [Pids -> Pids] /\ ready_q' \in Pids
      /\ state' = [state EXCEPT ![q] = "READY"] /\ Ready' = Ready \cup {q}
  BY <1>1, EnqType
<1>4. TypeOK'
  BY <1>1, <1>3 DEF IrqWakeup, Switch, TypeOK, localVars, PidOrNull
<1>5. CASE next'[q] = q
  BY <1>1, <1>2, <1>3, <1>4, <1>5, SwitchStep DEF IrqWakeup, TypeOK, Ready
<1>6. CASE next'[q] # q
  <2>1. Ready # {}
    <3>1. SUFFICES ASSUME Ready = {} PROVE next'[q] = q BY <1>6
    <3>2. ready_q = NULL BY <3>1 DEF RingIsReady
    <3> QED BY <1>1, <3>2 DEF proc_enq, TypeOK
  <2>2. UNCHANGED <<current, running>> BY <1>6 DEF IrqWakeup
  <2> QED BY <1>1, <1>2, <1>3, <1>4, <2>1, <2>2
          DEF Places, Picks, OnlyReadyRun, WorkConserving, TypeOK, InSched, localVars
<1> QED BY <1>5, <1>6

-----------------------------------------------------------------------------
(* The theorems. *)

\* Nothing happens.
LEMMA StutterStep == ASSUME SchedInv, UNCHANGED vars PROVE SchedInv'
<1>1. /\ UNCHANGED <<state, next, prev, ready_q, current, lastPid, running, exiting>>
      /\ UNCHANGED <<pc, arg, pick>>
  BY DEF vars, queueVars, localVars
<1>2. Ready' = Ready BY <1>1 DEF Ready
<1>3. TypeOK' /\ Places' BY <1>1 DEF SchedInv, TypeOK, Places
<1>4. RingIsReady' BY <1>1, <1>2 DEF SchedInv, RingIsReady
<1>5. Picks' BY <1>1, <1>2 DEF SchedInv, Picks, Pickable
<1>6. OnlyReadyRun' /\ WorkConserving'
  BY <1>1, <1>2 DEF SchedInv, OnlyReadyRun, WorkConserving
<1> QED BY <1>3, <1>4, <1>5, <1>6 DEF SchedInv

\* Every step preserves the inductive invariant.
LEMMA NextInv == ASSUME ~Preemptible, SchedInv, [Next]_vars PROVE SchedInv'
<1>1. ASSUME NEW p \in Pids, Own(p) PROVE SchedInv'
  <2>1. CASE Sleep(p) BY <2>1, SleepStep
  <2>2. ASSUME NEW q \in Pids, Wakeup(p, q) PROVE SchedInv' BY <2>2, WakeupStep
  <2> QED BY <1>1, <2>1, <2>2, QuietStep DEF Own
<1>2. ASSUME NEW p \in Pids, Sched(p) PROVE SchedInv'
  BY <1>2, QuietStep, SchedStep DEF Sched
<1>3. CASE Kernel
  BY <1>3, CreateStep, DestroyStep DEF Kernel
<1>4. CASE Tick BY <1>4, TickStep
<1>5. ASSUME NEW q \in Pids, IrqWakeup(q) PROVE SchedInv' BY <1>5, IrqStep
<1>6. CASE UNCHANGED vars BY <1>6, StutterStep
<1> QED BY <1>1, <1>2, <1>3, <1>4, <1>5, <1>6 DEF Next

\* The inductive invariant holds of every behaviour.
LEMMA SchedInvariant == ASSUME ~Preemptible PROVE Spec => []SchedInv
<1>1. Init => SchedInv BY InitInv
<1>2. SchedInv /\ [Next]_vars => SchedInv' BY NextInv
<1> QED BY <1>1, <1>2, PTL DEF Spec

\* For any size of the process table: if proc_sched is not interrupted, the
\* ready queue is always one doubly linked ring of exactly the READY processes,
\* through creation, destruction, sleep, wakeup and preemption in between
\* (process.c:146-351).
THEOREM RingCorrect == ASSUME ~Preemptible PROVE Spec => []RingIsReady
<1>1. SchedInv => RingIsReady BY DEF SchedInv
<1> QED BY <1>1, SchedInvariant, PTL

\* If proc_sched is not interrupted, no process executes after it has gone to
\* sleep or has been destroyed, and code that runs is current_proc's.
THEOREM OnlyReadyRunCorrect == ASSUME ~Preemptible PROVE Spec => []OnlyReadyRun
<1>1. SchedInv => OnlyReadyRun BY DEF SchedInv
<1> QED BY <1>1, SchedInvariant, PTL

\* If proc_sched is not interrupted, it never switches to a process outside the
\* ready queue, nor to the idle process while another is ready.
THEOREM PicksReadyCorrect == ASSUME ~Preemptible PROVE Spec => []PicksReady
<1>1. SchedInv => PicksReady BY DEF SchedInv, PicksReady, Picks, Pickable
<1> QED BY <1>1, SchedInvariant, PTL

\* If proc_sched is not interrupted, the idle loop comes back from it only when
\* no process is ready.
THEOREM WorkConservingCorrect == ASSUME ~Preemptible PROVE Spec => []WorkConserving
<1>1. SchedInv => WorkConserving BY DEF SchedInv
<1> QED BY <1>1, SchedInvariant, PTL

-----------------------------------------------------------------------------
(* Types.  They hold when proc_sched is interrupted, too: it may then pick   *)
(* the wrong process, but never follows a null pick.                         *)

PickType == TypeOK /\ \A p \in Pids : pc[p] = "jump" => pick[p] \in Pids

\* The steps of a process and of the kernel process keep the types.
LEMMA OwnPickType ==
  ASSUME PickType, NEW p \in Pids, Own(p) \/ Sched(p) \/ Create(p) \/ Destroy(p)
  PROVE  PickType'
<1> USE PidFacts DEF PidOrNull
<1>0. TypeOK /\ \A q \in Pids : pc[q] = "jump" => pick[q] \in Pids
  BY DEF PickType
<1>1. CASE Nap(p) \/ Slept(p) \/ Woke(p)
  BY <1>0, <1>1 DEF Nap, Slept, Woke, Goto, PickType, TypeOK, queueVars, Labels, InSched
<1>2. CASE Exit(p)
  BY <1>0, <1>2 DEF Exit, PickType, TypeOK, queueVars, localVars
<1>3. CASE Sleep(p)
  <2>1. /\ state' \in [Pids -> States] /\ next' \in [Pids -> Pids]
        /\ prev' \in [Pids -> Pids] /\ ready_q' \in PidOrNull
    BY <1>0, <1>3 DEF Sleep, proc_deq, TypeOK, States
  <2> QED
    BY <1>0, <1>3, <2>1 DEF Sleep, Goto, PickType, TypeOK, Labels
<1>4. ASSUME NEW q \in Pids, Wakeup(p, q) PROVE PickType'
  <2>1. /\ state' \in [Pids -> States] /\ next' \in [Pids -> Pids]
        /\ prev' \in [Pids -> Pids] /\ ready_q' \in PidOrNull
    BY <1>0, <1>4, EnqType DEF Wakeup
  <2> QED
    BY <1>0, <1>4, <2>1 DEF Wakeup, Goto, PickType, TypeOK, Labels
<1>5. CASE Branch(p)
  BY <1>0, <1>5 DEF Branch, Goto, PickType, TypeOK, queueVars, Labels, InSched
<1>6. CASE Head(p) \/ Rotate(p)
  BY <1>0, <1>6 DEF Head, Rotate, Goto, PickType, TypeOK, queueVars, Labels, InSched
<1>7. CASE Store(p)
  BY <1>0, <1>7 DEF Store, Goto, PickType, TypeOK, Labels, InSched
<1>8. CASE Test(p)
  <2>1. pick[p] \in Pids
    BY <1>0, <1>8 DEF Test, TypeOK
  <2> QED
    BY <1>0, <1>8, <2>1 DEF Test, Goto, PickType, TypeOK, queueVars, Labels, InSched
<1>9. CASE Jump(p)
  <2>1. pick[p] \in Pids
    BY <1>0, <1>9 DEF Jump, At
  <2> QED
    BY <1>0, <1>9, <2>1 DEF Jump, Goto, PickType, TypeOK, queueVars, Labels, InSched
<1>10. CASE Create(p)
  <2>1. CASE UNCHANGED <<queueVars, exiting, localVars>>
    BY <1>0, <1>10, <2>1 DEF Create, PickType, TypeOK, queueVars, localVars
  <2>2. CASE proc_enq(p) /\ ~ UNCHANGED <<queueVars, exiting, localVars>>
    <3>1. /\ state' \in [Pids -> States] /\ next' \in [Pids -> Pids]
          /\ prev' \in [Pids -> Pids] /\ ready_q' \in PidOrNull
      BY <1>0, <2>2, EnqType
    <3>2. /\ exiting' = exiting \ {p} /\ pc' = [pc EXCEPT ![p] = "run"]
          /\ arg' = [arg EXCEPT ![p] = NULL] /\ pick' = [pick EXCEPT ![p] = NULL]
          /\ lastPid' = p /\ UNCHANGED <<current, running>>
      BY <1>10, <2>2 DEF Create
    <3> QED
      BY <1>0, <3>1, <3>2 DEF PickType, TypeOK, Labels
  <2> QED
    BY <1>10, <2>1, <2>2 DEF Create
<1>11. CASE Destroy(p)
  <2>1. /\ state' \in [Pids -> States] /\ next' \in [Pids -> Pids]
        /\ prev' \in [Pids -> Pids] /\ ready_q' \in PidOrNull
    BY <1>0, <1>11 DEF Destroy, proc_deq, TypeOK, States
  <2> QED
    BY <1>0, <1>11, <2>1 DEF Destroy, PickType, TypeOK, localVars
<1> QED
  BY <1>1, <1>2, <1>3, <1>4, <1>5, <1>6, <1>7, <1>8, <1>9, <1>10, <1>11 DEF Own, Sched

\* So do the interrupts.
LEMMA IrqPickType ==
  ASSUME PickType, Tick \/ \E q \in Pids : IrqWakeup(q)
  PROVE  PickType'
<1> USE PidFacts DEF PidOrNull
<1>0. TypeOK /\ \A q \in Pids : pc[q] = "jump" => pick[q] \in Pids
  BY DEF PickType
<1>1. ASSUME NEW q \in Pids, Switch(q) PROVE current' \in Pids /\ running' \in Pids
  BY <1>0, <1>1 DEF Switch, TypeOK
<1>2. CASE Tick
  <2>1. UNCHANGED <<state, next, prev, lastPid, exiting, localVars>>
    BY <1>2 DEF Tick
  <2>2. current' \in Pids /\ running' \in Pids /\ ready_q' \in PidOrNull
    BY <1>0, <1>1, <1>2 DEF Tick, TypeOK
  <2> QED
    BY <1>0, <2>1, <2>2 DEF PickType, TypeOK, localVars
<1>3. ASSUME NEW q \in Pids, IrqWakeup(q) PROVE PickType'
  <2>1. /\ state' \in [Pids -> States] /\ next' \in [Pids -> Pids]
        /\ prev' \in [Pids -> Pids] /\ ready_q' \in PidOrNull
    BY <1>0, <1>3, EnqType DEF IrqWakeup
  <2>2. current' \in Pids /\ running' \in Pids
    BY <1>0, <1>1, <1>3 DEF IrqWakeup, TypeOK
  <2> QED
    BY <1>0, <1>3, <2>1, <2>2 DEF IrqWakeup, PickType, TypeOK, localVars
<1> QED
  BY <1>2, <1>3

\* For any size of the process table every link is a process' and proc_sched
\* never switches to a null process, even when it is interrupted half-way.
THEOREM TypeCorrect == Spec => []TypeOK
<1>1. Init => PickType
  BY PidFacts DEF Init, PickType, TypeOK, States, Labels, InSched, PidOrNull
<1>2. PickType /\ [Next]_vars => PickType'
  <2> SUFFICES ASSUME PickType, [Next]_vars PROVE PickType'
    OBVIOUS
  <2>1. CASE UNCHANGED vars
    BY <2>1 DEF PickType, TypeOK, vars, queueVars, localVars
  <2> QED
    BY <2>1, OwnPickType, IrqPickType DEF Next, Kernel
<1>3. PickType => TypeOK
  BY DEF PickType
<1> QED
  BY <1>1, <1>2, <1>3, PTL DEF Spec
=============================================================================
