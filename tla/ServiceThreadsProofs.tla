------------------------- MODULE ServiceThreadsProofs -------------------------
(***************************************************************************)
(* No wake-up of ServiceThreads is lost, whatever the numbers of services  *)
(* and signals.  The argument is mutual exclusion of __LOCK__'s sections,  *)
(* together with what is known of the frames of the main thread: a frame   *)
(* above one that is setting the events was pushed after __QUIT_EVENT__    *)
(* was set, and it only checks that event.                                 *)
(***************************************************************************)
EXTENDS ServiceThreads, SequenceTheorems, TLAPS

Frames == {Main} \cup Signals

\* the sections between __LOCK__.acquire() and __LOCK__.release()
Holding == {"register", "remove", "set", "notify"}

SignalLabels == {"new", "check", "lock", "set", "notify", "handlers", "end"}

\* a context inside a section holds the lock, so there is one at most
Exclusive == \A c \in Contexts : pc[c] \in Holding => lock = c

\* events are only set once __QUIT_EVENT__ is
NotifiesAfterQuit == \A c \in Contexts : pc[c] = "notify" => quit

\* a thread inside wait_for_event is in the list
Listed == \A t \in Threads : pc[t] \in {"waiting", "reacquire", "remove"} => t \in events

\* the stack holds the handlers that run, each once
Stacked ==
    /\ \A s \in Signals : pc[s] \in SignalLabels
    /\ \A i \in DOMAIN stack : pc[stack[i]] \notin {"new", "end"}
    /\ \A s \in Signals : pc[s] \notin {"new", "end"} =>
           \E i \in DOMAIN stack : stack[i] = s
    /\ \A i, j \in DOMAIN stack : i # j => stack[i] # stack[j]

\* a frame above one that is setting the events finds the process leaving
AboveNotifier ==
    /\ \A i, j \in DOMAIN stack :
           i < j /\ pc[stack[i]] = "notify" => pc[stack[j]] = "check"
    /\ \A j \in DOMAIN stack : pc[Main] = "notify" => pc[stack[j]] = "check"

\* a service start_services has not reached has done nothing
Unstarted == \A s \in unstarted : pc[s] = "new"

IInv ==
    /\ TypeOK
    /\ Unstarted
    /\ Exclusive
    /\ NotifiesAfterQuit
    /\ Listed
    /\ Stacked
    /\ AboveNotifier
    /\ NoLostWakeup

-----------------------------------------------------------------------------
USE ThreadAssumption DEF ThreadAssumption, Threads, Contexts, Frames

\* Initially nobody holds the lock and no handler runs.
LEMMA InitIInv == Init => IInv
  <1> SUFFICES ASSUME Init PROVE IInv
    OBVIOUS
  <1>1. TypeOK
    <2>1. pc \in [Contexts -> Labels]
      BY DEF Init, Labels
    <2>2. back \in [Contexts -> {"wait", "reload", "interrupt", "failed"}]
      BY DEF Init
    <2>3. stack \in Seq(Signals)
      BY DEF Init
    <2>4. lock \in Contexts \cup {Free} /\ events \subseteq Threads /\ fired \subseteq Threads
      BY DEF Init
    <2>5. /\ unstarted \subseteq Services
          /\ quit \in BOOLEAN /\ exitHandlers \in BOOLEAN /\ exited \in BOOLEAN
      BY DEF Init
    <2> QED
      BY <2>1, <2>2, <2>3, <2>4, <2>5 DEF TypeOK
  <1>2. Exclusive /\ NotifiesAfterQuit /\ Listed /\ Unstarted
    BY DEF Init, Exclusive, NotifiesAfterQuit, Listed, Holding, Unstarted
  <1>3. Stacked /\ AboveNotifier
    BY DEF Init, Stacked, AboveNotifier, SignalLabels
  <1>4. NoLostWakeup
    BY DEF Init, NoLostWakeup
  <1> QED
    BY <1>1, <1>2, <1>3, <1>4 DEF IInv

\* The frame that runs is the last of the stack, or the main thread's own when
\* the stack is empty.
LEMMA TopFrame ==
    ASSUME TypeOK, NEW c \in Contexts, Runs(c)
    PROVE  /\ c \in Signals => stack # <<>> /\ c = stack[Len(stack)]
           /\ c = Main => stack = <<>>
  <1>1. CASE c \in Services
    <2>1. c \notin Signals /\ c # Main
      BY <1>1
    <2> QED
      BY <2>1
  <1>2. CASE c \notin Services /\ stack = <<>>
    <2>1. c = Main
      BY <1>2 DEF Runs
    <2> QED
      BY <1>2, <2>1
  <1>3. CASE c \notin Services /\ stack # <<>>
    <2>1. stack \in Seq(Signals) /\ Len(stack) \in DOMAIN stack
      BY <1>3 DEF TypeOK
    <2>2. c = stack[Len(stack)]
      BY <1>3 DEF Runs
    <2>3. c \in Signals
      BY <2>1, <2>2
    <2> QED
      BY <1>3, <2>2, <2>3
  <1> QED
    BY <1>1, <1>2, <1>3

\* A step of the running context keeps the order of the frames, unless it
\* leaves the check of __QUIT_EVENT__ although that event is set.
LEMMA FrameMoves ==
    ASSUME TypeOK, NotifiesAfterQuit, Stacked, AboveNotifier,
           NEW c \in Contexts, NEW to \in Labels, Runs(c),
           pc' = [pc EXCEPT ![c] = to], stack' = stack,
           c \in Signals => to \in SignalLabels \ {"new", "end"},
           c \in Frames /\ pc[c] = "check" => ~quit
    PROVE  Stacked' /\ AboveNotifier'
  <1>1. /\ pc \in [Contexts -> Labels]
        /\ stack \in Seq(Signals)
        /\ \A i \in DOMAIN stack : stack[i] \in Signals
    BY DEF TypeOK
  <1>2. \A i \in DOMAIN stack : stack[i] \in Contexts /\ stack[i] # Main
    BY <1>1
  <1>3. CASE c \in Services
    <2>1. c \notin Signals /\ c # Main /\ \A i \in DOMAIN stack : stack[i] # c
      BY <1>1, <1>3
    <2>2. /\ \A i \in DOMAIN stack : pc'[stack[i]] = pc[stack[i]]
          /\ \A s \in Signals : pc'[s] = pc[s]
          /\ pc'[Main] = pc[Main]
      BY <1>1, <1>2, <2>1
    <2> QED
      BY <2>2 DEF Stacked, AboveNotifier
  <1>4. CASE c = Main
    <2>1. stack = <<>>
      BY <1>4, TopFrame
    <2>2. DOMAIN stack = {}
      BY <2>1
    <2>3. \A s \in Signals : pc'[s] = pc[s]
      BY <1>1, <1>4
    <2> QED
      BY <2>2, <2>3 DEF Stacked, AboveNotifier
  <1>5. CASE c \in Signals
    <2>1. Len(stack) \in DOMAIN stack /\ c = stack[Len(stack)]
      BY <1>1, <1>5, TopFrame
    <2>2. \A i, j \in DOMAIN stack : i < j => stack[i] # c
      BY <1>1, <2>1 DEF Stacked
    <2>3. \A i, j \in DOMAIN stack :
              i < j /\ pc[stack[i]] = "notify" => stack[j] # c
      <3> SUFFICES ASSUME NEW i \in DOMAIN stack, NEW j \in DOMAIN stack,
                          i < j, pc[stack[i]] = "notify", stack[j] = c
                   PROVE  FALSE
        OBVIOUS
      <3>1. pc[c] = "check"
        BY DEF AboveNotifier
      <3>2. quit
        BY <1>1 DEF NotifiesAfterQuit
      <3> QED
        BY <1>5, <3>1, <3>2
    <2>4. \A j \in DOMAIN stack : pc[Main] = "notify" => stack[j] # c
      BY <1>5 DEF AboveNotifier, NotifiesAfterQuit
    <2>5. /\ pc'[c] = to /\ pc'[Main] = pc[Main]
          /\ \A s \in Signals \ {c} : pc'[s] = pc[s]
      BY <1>1, <1>5
    <2>6. \A i, j \in DOMAIN stack :
              i < j /\ pc'[stack[i]] = "notify" => pc'[stack[j]] = "check"
      BY <1>1, <2>2, <2>3, <2>5 DEF AboveNotifier
    <2>7. \A j \in DOMAIN stack : pc'[Main] = "notify" => pc'[stack[j]] = "check"
      BY <1>1, <2>4, <2>5 DEF AboveNotifier
    <2>8. Stacked'
      BY <1>1, <1>5, <2>1, <2>5 DEF Stacked
    <2> QED
      BY <2>6, <2>7, <2>8 DEF AboveNotifier
  <1> QED
    BY <1>3, <1>4, <1>5

\* A handler that returns is the last frame, and the others are as they were.
LEMMA FrameReturns ==
    ASSUME TypeOK, Stacked, AboveNotifier, NEW c \in Signals, Runs(c),
           pc' = [pc EXCEPT ![c] = "end"],
           stack' = SubSeq(stack, 1, Len(stack) - 1)
    PROVE  Stacked' /\ AboveNotifier' /\ stack' \in Seq(Signals)
  <1>1. /\ pc \in [Contexts -> Labels]
        /\ stack \in Seq(Signals)
        /\ \A i \in DOMAIN stack : stack[i] \in Signals
    BY DEF TypeOK
  <1>2. Len(stack) \in DOMAIN stack /\ c = stack[Len(stack)]
    BY <1>1, TopFrame
  <1>3. /\ stack' \in Seq(Signals)
        /\ Len(stack') = Len(stack) - 1
        /\ \A i \in 1 .. Len(stack) - 1 : stack'[i] = stack[i]
    <2> DEFINE n == Len(stack) - 1
    <2>1. n \in Int /\ 0 <= n /\ \A i \in 1 .. n : stack[i] \in Signals
      BY <1>1, <1>2
    <2>2. /\ SubSeq(stack, 1, n) \in Seq(Signals)
          /\ Len(SubSeq(stack, 1, n)) = IF 1 <= n THEN n - 1 + 1 ELSE 0
          /\ \A i \in 1 .. n - 1 + 1 : SubSeq(stack, 1, n)[i] = stack[1 + i - 1]
      <3> HIDE DEF n
      <3> QED
        BY <2>1, SubSeqProperties
    <2>3. stack' = SubSeq(stack, 1, n)
      OBVIOUS
    <2> HIDE DEF n
    <2>4. Len(stack') = n /\ \A i \in 1 .. n : stack'[i] = stack[i]
      BY <2>1, <2>2, <2>3
    <2> QED
      BY <2>2, <2>3, <2>4 DEF n
  <1>4. DOMAIN stack' = 1 .. Len(stack) - 1 /\ DOMAIN stack = 1 .. Len(stack)
    BY <1>1, <1>3
  <1>5. \A i \in DOMAIN stack' : i \in DOMAIN stack /\ stack'[i] = stack[i] /\ stack[i] # c
    BY <1>1, <1>2, <1>3, <1>4 DEF Stacked
  <1>6. \A s \in Signals : pc'[s] \notin {"new", "end"} =>
            \E i \in DOMAIN stack' : stack'[i] = s
    <2> SUFFICES ASSUME NEW s \in Signals, pc'[s] \notin {"new", "end"}
                 PROVE  \E i \in DOMAIN stack' : stack'[i] = s
      OBVIOUS
    <2>1. s # c /\ pc[s] \notin {"new", "end"}
      BY <1>1
    <2>2. PICK i \in DOMAIN stack : stack[i] = s
      BY <2>1 DEF Stacked
    <2>3. i # Len(stack)
      BY <1>2, <2>1, <2>2
    <2>4. i \in DOMAIN stack'
      BY <1>1, <1>4, <2>2, <2>3
    <2> QED
      BY <1>5, <2>2, <2>4
  <1>7. /\ \A s \in Signals : pc'[s] \in SignalLabels
        /\ \A i \in DOMAIN stack' : pc'[stack'[i]] \notin {"new", "end"}
        /\ \A i, j \in DOMAIN stack' : i # j => stack'[i] # stack'[j]
    BY <1>1, <1>5 DEF Stacked, SignalLabels
  <1>8. AboveNotifier'
    BY <1>1, <1>5 DEF AboveNotifier
  <1> QED
    BY <1>3, <1>6, <1>7, <1>8 DEF Stacked

\* A signal's handler starts as the last frame, in the check of __QUIT_EVENT__.
LEMMA FrameStarts ==
    ASSUME TypeOK, Stacked, AboveNotifier, NEW s \in Signals, pc[s] = "new",
           pc' = [pc EXCEPT ![s] = "check"], stack' = Append(stack, s)
    PROVE  Stacked' /\ AboveNotifier' /\ stack' \in Seq(Signals)
  <1>1. /\ pc \in [Contexts -> Labels]
        /\ stack \in Seq(Signals)
        /\ \A i \in DOMAIN stack : stack[i] \in Signals /\ stack[i] # s
        /\ DOMAIN stack = 1 .. Len(stack)
    BY DEF TypeOK, Stacked
  <1>2. /\ stack' \in Seq(Signals)
        /\ DOMAIN stack' = 1 .. Len(stack) + 1
        /\ \A i \in 1 .. Len(stack) : stack'[i] = stack[i]
        /\ stack'[Len(stack) + 1] = s
    BY <1>1
  <1>3. /\ pc'[s] = "check" /\ pc'[Main] = pc[Main]
        /\ \A c \in Signals \ {s} : pc'[c] = pc[c]
    BY <1>1
  <1>4. \A i \in DOMAIN stack' : \/ i \in DOMAIN stack /\ stack'[i] = stack[i]
                                 \/ i = Len(stack) + 1 /\ stack'[i] = s
    BY <1>1, <1>2
  <1>5. \A c \in Signals : pc'[c] \notin {"new", "end"} =>
            \E i \in DOMAIN stack' : stack'[i] = c
    <2> SUFFICES ASSUME NEW c \in Signals, pc'[c] \notin {"new", "end"}
                 PROVE  \E i \in DOMAIN stack' : stack'[i] = c
      OBVIOUS
    <2>1. CASE c = s
      BY <1>1, <1>2, <2>1
    <2>2. CASE c # s
      <3>1. PICK i \in DOMAIN stack : stack[i] = c
        BY <1>3, <2>2 DEF Stacked
      <3> QED
        BY <1>1, <1>2, <3>1
    <2> QED
      BY <2>1, <2>2
  <1>6. /\ \A c \in Signals : pc'[c] \in SignalLabels
        /\ \A i \in DOMAIN stack' : pc'[stack'[i]] \notin {"new", "end"}
    BY <1>1, <1>3, <1>4 DEF Stacked, SignalLabels
  <1>7. \A i, j \in DOMAIN stack' : i # j => stack'[i] # stack'[j]
    BY <1>1, <1>4 DEF Stacked
  <1>8. AboveNotifier'
    <2>1. \A i, j \in DOMAIN stack' :
              i < j /\ pc'[stack'[i]] = "notify" => pc'[stack'[j]] = "check"
      BY <1>1, <1>3, <1>4 DEF AboveNotifier
    <2>2. \A j \in DOMAIN stack' : pc'[Main] = "notify" => pc'[stack'[j]] = "check"
      BY <1>1, <1>3, <1>4 DEF AboveNotifier
    <2> QED
      BY <2>1, <2>2 DEF AboveNotifier
  <1> QED
    BY <1>2, <1>5, <1>6, <1>7, <1>8 DEF Stacked

\* The frame in which an error is raised is above every frame that could be
\* setting the events, and those only check: no frame that is left is.
LEMMA NobodyNotifies ==
    ASSUME TypeOK, Stacked, AboveNotifier, NEW c \in Frames, Runs(c),
           pc[c] = "handlers"
    PROVE  \A d \in Frames : pc[d] # "notify"
  <1>1. /\ stack \in Seq(Signals)
        /\ DOMAIN stack = 1 .. Len(stack)
    BY DEF TypeOK
  <1>2. CASE c = Main
    <2>1. DOMAIN stack = {}
      BY <1>2, TopFrame
    <2> QED
      BY <1>2, <2>1 DEF Stacked
  <1>3. CASE c \in Signals
    <2>1. Len(stack) \in DOMAIN stack /\ c = stack[Len(stack)]
      BY <1>1, <1>3, TopFrame
    <2>2. pc[Main] # "notify"
      BY <2>1 DEF AboveNotifier
    <2>3. ASSUME NEW d \in Signals, pc[d] = "notify" PROVE FALSE
      <3>1. PICK i \in DOMAIN stack : stack[i] = d
        BY <2>3 DEF Stacked
      <3>2. i < Len(stack)
        BY <1>1, <2>1, <2>3, <3>1
      <3> QED
        BY <2>1, <2>3, <3>1, <3>2 DEF AboveNotifier
    <2> QED
      BY <2>2, <2>3
  <1> QED
    BY <1>2, <1>3

-----------------------------------------------------------------------------
\* What the steps keep besides the types
Kept == Unstarted /\ Exclusive /\ NotifiesAfterQuit /\ Listed /\ Stacked
        /\ AboveNotifier /\ NoLostWakeup

\* A step outside the sections of the lock that leaves the shared state alone.
LEMMA QuietMove ==
    ASSUME IInv, NEW c \in Contexts, NEW to \in Labels \ Holding, Runs(c),
           pc' = [pc EXCEPT ![c] = to],
           UNCHANGED <<quit, lock, events, fired, stack>>,
           pc[c] \notin {"new", "notify"}, unstarted' = unstarted,
           to \in {"waiting", "reacquire"} => pc[c] = "waiting",
           c \in Signals => to \in SignalLabels \ {"new", "end"},
           c \in Frames /\ pc[c] = "check" => ~quit
    PROVE  Kept'
  <1>1. pc \in [Contexts -> Labels]
    BY DEF IInv, TypeOK
  <1>2. /\ pc'[c] = to
        /\ \A d \in Contexts \ {c} : pc'[d] = pc[d]
    BY <1>1
  <1>3. Exclusive' /\ NotifiesAfterQuit'
    BY <1>2 DEF IInv, Exclusive, NotifiesAfterQuit, Holding
  <1>4. Listed'
    BY <1>2 DEF IInv, Listed, Holding
  <1>5. Stacked' /\ AboveNotifier'
    BY FrameMoves DEF IInv
  <1>6. NoLostWakeup'
    BY <1>2 DEF IInv, NoLostWakeup
  <1>7. Unstarted'
    BY <1>2 DEF IInv, Unstarted, TypeOK
  <1> QED
    BY <1>3, <1>4, <1>5, <1>6, <1>7 DEF Kept

\* The bodies of the threads, and the steps of wait_for_event without the lock.
LEMMA BodySteps ==
    ASSUME IInv, NEW t \in Threads,
           \/ CallWait(t) \/ CallInterrupt(t) \/ InterruptPoint(t) \/ Fails(t)
           \/ BodyReturns(t) \/ Wakes(t) \/ WaitReturns(t)
    PROVE  IInv'
  <1> DEFINE Ok(to) == /\ to \in Labels \ Holding
                       /\ pc' = [pc EXCEPT ![t] = to]
                       /\ to \in {"waiting", "reacquire"} => pc[t] = "waiting"
  <1>1. /\ Runs(t) /\ UNCHANGED <<quit, lock, events, fired, stack>>
        /\ UNCHANGED <<exitHandlers, exited, unstarted>>
        /\ pc[t] \in {"body", "waiting", "returned"}
    BY DEF CallWait, CallInterrupt, InterruptPoint, Fails, BodyReturns, Wakes,
           WaitReturns, InBody, Goto
  <1>2. \E to \in {"acquire", "check", "end", "body", "reacquire"} : Ok(to)
    <2>1. CASE CallWait(t)
      BY <2>1 DEF CallWait, Labels, Holding
    <2>2. CASE CallInterrupt(t) \/ Fails(t)
      BY <2>2 DEF CallInterrupt, Fails, Labels, Holding
    <2>3. CASE InterruptPoint(t) \/ BodyReturns(t)
      BY <2>3 DEF InterruptPoint, BodyReturns, Labels, Holding
    <2>4. CASE Wakes(t)
      BY <2>4 DEF Wakes, Goto, Labels, Holding
    <2>5. CASE WaitReturns(t)
      BY <2>5 DEF WaitReturns, Goto, Labels, Holding
    <2> QED
      BY <2>1, <2>2, <2>3, <2>4, <2>5
  <1>3. Kept'
    <2>1. PICK to \in {"acquire", "check", "end", "body", "reacquire"} : Ok(to)
      BY <1>2
    <2>2. t \notin Signals
      OBVIOUS
    <2> QED
      BY <1>1, <2>1, <2>2, QuietMove
  <1>4. TypeOK'
    <2>1. pc' \in [Contexts -> Labels]
      BY <1>2 DEF IInv, TypeOK
    <2>2. back' \in [Contexts -> {"wait", "reload", "interrupt", "failed"}]
      BY DEF IInv, TypeOK, CallWait, CallInterrupt, InterruptPoint, Fails,
             BodyReturns, Wakes, WaitReturns
    <2> QED
      BY <1>1, <2>1, <2>2 DEF IInv, TypeOK
  <1> QED
    BY <1>3, <1>4 DEF IInv, Kept

LEMMA StartServiceStep ==
    ASSUME IInv, NEW s \in Services, StartService(s)
    PROVE  IInv'
  <1>1. /\ pc \in [Contexts -> Labels]
        /\ stack \in Seq(Signals)
        /\ \A i \in DOMAIN stack : stack[i] \in Signals
    BY DEF IInv, TypeOK
  <1>2. /\ pc'[s] = "body" /\ pc'[Main] = pc[Main]
        /\ \A d \in Contexts \ {s} : pc'[d] = pc[d]
        /\ stack = <<>> /\ stack' = stack
    BY <1>1, TopFrame DEF StartService, IInv
  <1>3. TypeOK'
    BY <1>1 DEF IInv, TypeOK, StartService, Labels
  <1>4. Exclusive' /\ NotifiesAfterQuit' /\ Listed'
    BY <1>2 DEF IInv, StartService, Exclusive, NotifiesAfterQuit, Listed, Holding
  <1>5. Stacked' /\ AboveNotifier'
    BY <1>1, <1>2 DEF IInv, Stacked, AboveNotifier
  <1>6. pc[s] = "new" /\ Unstarted'
    BY <1>1, <1>2 DEF IInv, TypeOK, StartService, Unstarted
  <1>7. NoLostWakeup'
    BY <1>2, <1>6 DEF IInv, StartService, NoLostWakeup
  <1> QED
    BY <1>3, <1>4, <1>5, <1>6, <1>7 DEF IInv

-----------------------------------------------------------------------------
\* The sections of the lock.

LEMMA AcquireStep ==
    ASSUME IInv, NEW c \in Contexts, Acquire(c)
    PROVE  IInv'
  <1>1. pc \in [Contexts -> Labels] /\ c # Free
    BY DEF IInv, TypeOK
  <1>2. PICK to \in {"register", "remove", "set"} :
            /\ pc' = [pc EXCEPT ![c] = to]
            /\ to = "register" => pc[c] = "acquire"
            /\ to = "remove" => pc[c] = "reacquire"
            /\ to = "set" => pc[c] = "lock"
    BY DEF Acquire, Goto
  <1>3. /\ pc[c] \in {"acquire", "reacquire", "lock"} /\ Runs(c)
        /\ UNCHANGED <<quit, events, fired, back, stack, unstarted, exitHandlers, exited>>
        /\ lock = Free /\ lock' = c
    BY DEF Acquire, Goto
  <1>4. /\ pc'[c] = to
        /\ \A d \in Contexts \ {c} : pc'[d] = pc[d]
    BY <1>1, <1>2
  <1>5. TypeOK'
    BY <1>1, <1>2, <1>3 DEF IInv, TypeOK, Labels
  <1>6. Exclusive' /\ NotifiesAfterQuit'
    <2>1. \A d \in Contexts : pc[d] \notin Holding
      BY <1>3 DEF IInv, Exclusive
    <2> QED
      BY <1>2, <1>3, <1>4, <2>1 DEF IInv, Exclusive, NotifiesAfterQuit, Holding
  <1>7. Listed' /\ Unstarted'
    <2>1. c \in Threads /\ to = "remove" => c \in events
      BY <1>2 DEF IInv, Listed
    <2>2. Listed'
      BY <1>3, <1>4, <2>1 DEF IInv, Listed
    <2>3. Unstarted'
      BY <1>3, <1>4 DEF IInv, Unstarted, TypeOK
    <2> QED
      BY <2>2, <2>3
  <1>8. Stacked' /\ AboveNotifier'
    <2>1. c \in Signals => to = "set"
      BY <1>2 DEF IInv, Stacked, SignalLabels
    <2>2. to \in Labels /\ (c \in Signals => to \in SignalLabels \ {"new", "end"})
      BY <2>1 DEF Labels, SignalLabels
    <2> QED
      BY <1>2, <1>3, <2>2, FrameMoves DEF IInv
  <1>9. NoLostWakeup'
    BY <1>2, <1>3, <1>4 DEF IInv, NoLostWakeup
  <1> QED
    BY <1>5, <1>6, <1>7, <1>8, <1>9 DEF IInv

LEMMA RegisterStep ==
    ASSUME IInv, NEW t \in Threads, Register(t)
    PROVE  IInv'
  <1>1. pc \in [Contexts -> Labels] /\ t \in Contexts /\ t \notin Signals
    BY DEF IInv, TypeOK
  <1>2. /\ Runs(t) /\ pc[t] = "register" /\ lock = t
        /\ pc' = [pc EXCEPT ![t] = "waiting"]
        /\ UNCHANGED <<quit, back, stack, unstarted, exitHandlers, exited>>
    BY DEF Register, Goto, IInv, Exclusive, Holding
  <1>3. /\ pc'[t] = "waiting"
        /\ \A d \in Contexts \ {t} : pc'[d] = pc[d] /\ pc[d] \notin Holding
    BY <1>1, <1>2 DEF IInv, Exclusive
  <1>4. TypeOK'
    BY <1>1, <1>2 DEF IInv, TypeOK, Register, Labels
  <1>5. Exclusive' /\ NotifiesAfterQuit'
    BY <1>3 DEF Exclusive, NotifiesAfterQuit, Holding
  <1>6. Listed' /\ Unstarted'
    BY <1>2, <1>3 DEF IInv, Listed, Unstarted, Register, TypeOK
  <1>7. Stacked' /\ AboveNotifier'
    <2>1. "waiting" \in Labels
      BY DEF Labels
    <2> QED
      BY <1>1, <1>2, <2>1, FrameMoves DEF IInv
  <1>8. NoLostWakeup'
    <2>1. \A c \in Contexts : pc[c] # "notify"
      BY <1>2, <1>3 DEF Holding
    <2> QED
      BY <2>1 DEF IInv, NoLostWakeup, Register
  <1> QED
    BY <1>4, <1>5, <1>6, <1>7, <1>8 DEF IInv

LEMMA RemoveStep ==
    ASSUME IInv, NEW t \in Threads, Remove(t)
    PROVE  IInv'
  <1>1. pc \in [Contexts -> Labels] /\ t \in Contexts /\ t \notin Signals
    BY DEF IInv, TypeOK
  <1>2. /\ Runs(t) /\ pc[t] = "remove" /\ lock = t
        /\ pc' = [pc EXCEPT ![t] = "returned"]
        /\ events' = events \ {t} /\ lock' = Free
        /\ UNCHANGED <<quit, fired, back, stack, unstarted, exitHandlers, exited>>
    BY DEF Remove, Goto, IInv, Exclusive, Holding
  <1>3. /\ pc'[t] = "returned"
        /\ \A d \in Contexts \ {t} : pc'[d] = pc[d] /\ pc[d] \notin Holding
    BY <1>1, <1>2 DEF IInv, Exclusive
  <1>4. TypeOK'
    BY <1>1, <1>2 DEF IInv, TypeOK, Labels
  <1>5. Exclusive' /\ NotifiesAfterQuit'
    BY <1>3 DEF Exclusive, NotifiesAfterQuit, Holding
  <1>6. Listed' /\ Unstarted'
    BY <1>2, <1>3 DEF IInv, Listed, Unstarted, TypeOK
  <1>7. Stacked' /\ AboveNotifier'
    <2>1. "returned" \in Labels
      BY DEF Labels
    <2> QED
      BY <1>1, <1>2, <2>1, FrameMoves DEF IInv
  <1>8. NoLostWakeup'
    <2>1. \A c \in Contexts : pc[c] # "notify"
      BY <1>2, <1>3 DEF Holding
    <2> QED
      BY <1>2, <2>1 DEF IInv, NoLostWakeup
  <1> QED
    BY <1>4, <1>5, <1>6, <1>7, <1>8 DEF IInv

LEMMA ExitSetStep ==
    ASSUME IInv, NEW c \in Contexts, ExitSet(c)
    PROVE  IInv'
  <1>1. pc \in [Contexts -> Labels]
    BY DEF IInv, TypeOK
  <1>2. /\ Runs(c) /\ pc[c] = "set" /\ lock = c /\ quit'
        /\ pc' = [pc EXCEPT ![c] = "notify"]
        /\ UNCHANGED <<lock, events, fired, back, stack, unstarted, exitHandlers, exited>>
    BY DEF ExitSet, Goto, IInv, Exclusive, Holding
  <1>3. /\ pc'[c] = "notify"
        /\ \A d \in Contexts \ {c} : pc'[d] = pc[d]
    BY <1>1, <1>2
  <1>4. TypeOK'
    BY <1>1, <1>2 DEF IInv, TypeOK, Labels
  <1>5. Exclusive' /\ NotifiesAfterQuit'
    BY <1>2, <1>3 DEF IInv, Exclusive, NotifiesAfterQuit, Holding
  <1>6. Listed' /\ Unstarted'
    BY <1>2, <1>3 DEF IInv, Listed, Unstarted, TypeOK
  <1>7. Stacked' /\ AboveNotifier'
    <2>1. "notify" \in Labels /\ "notify" \in SignalLabels \ {"new", "end"}
      BY DEF Labels, SignalLabels
    <2> QED
      BY <1>2, <2>1, FrameMoves DEF IInv
  <1>8. NoLostWakeup'
    BY <1>3 DEF NoLostWakeup
  <1> QED
    BY <1>4, <1>5, <1>6, <1>7, <1>8 DEF IInv

LEMMA ExitNotifyStep ==
    ASSUME IInv, NEW c \in Contexts, ExitNotify(c)
    PROVE  IInv'
  <1>1. /\ UNCHANGED <<quit, lock, events, pc, back, stack, unstarted, exitHandlers, exited>>
        /\ \E t \in events : fired' = fired \cup {t}
    BY DEF ExitNotify
  <1>2. TypeOK'
    BY <1>1 DEF IInv, TypeOK
  <1>3. /\ Exclusive' /\ NotifiesAfterQuit' /\ Listed' /\ Unstarted'
        /\ Stacked' /\ AboveNotifier'
    BY <1>1 DEF IInv, Exclusive, NotifiesAfterQuit, Listed, Unstarted, Stacked, AboveNotifier
  <1>4. NoLostWakeup'
    BY <1>1 DEF IInv, NoLostWakeup
  <1> QED
    BY <1>2, <1>3, <1>4 DEF IInv

LEMMA ExitReleaseStep ==
    ASSUME IInv, NEW c \in Contexts, ExitRelease(c)
    PROVE  IInv'
  <1>1. pc \in [Contexts -> Labels]
    BY DEF IInv, TypeOK
  <1>2. /\ Runs(c) /\ pc[c] = "notify" /\ lock = c /\ lock' = Free
        /\ events \subseteq fired
        /\ pc' = [pc EXCEPT ![c] = "handlers"]
        /\ UNCHANGED <<quit, events, fired, back, stack, unstarted, exitHandlers, exited>>
    BY DEF ExitRelease, Goto, IInv, Exclusive, Holding
  <1>3. /\ pc'[c] = "handlers"
        /\ \A d \in Contexts \ {c} : pc'[d] = pc[d] /\ pc[d] \notin Holding
    BY <1>1, <1>2 DEF IInv, Exclusive
  <1>4. TypeOK'
    BY <1>1, <1>2 DEF IInv, TypeOK, Labels
  <1>5. Exclusive' /\ NotifiesAfterQuit'
    BY <1>3 DEF Exclusive, NotifiesAfterQuit, Holding
  <1>6. Listed' /\ Unstarted'
    BY <1>2, <1>3 DEF IInv, Listed, Unstarted, TypeOK
  <1>7. Stacked' /\ AboveNotifier'
    <2>1. "handlers" \in Labels /\ "handlers" \in SignalLabels \ {"new", "end"}
      BY DEF Labels, SignalLabels
    <2> QED
      BY <1>2, <2>1, FrameMoves DEF IInv
  <1>8. NoLostWakeup'
    BY <1>2 DEF NoLostWakeup
  <1> QED
    BY <1>4, <1>5, <1>6, <1>7, <1>8 DEF IInv

\* The steps of a context that ends outside the sections of the lock.
LEMMA ContextEnds ==
    ASSUME IInv, NEW c \in Contexts, Runs(c), pc[c] \in {"check", "handlers"},
           ExitReturns(c),
           UNCHANGED <<quit, lock, events, fired, back, unstarted, exitHandlers, exited>>
    PROVE  IInv'
  <1>1. pc \in [Contexts -> Labels]
    BY DEF IInv, TypeOK
  <1>2. pc' = [pc EXCEPT ![c] = "end"]
    BY DEF ExitReturns
  <1>3. /\ pc'[c] = "end"
        /\ \A d \in Contexts \ {c} : pc'[d] = pc[d]
    BY <1>1, <1>2
  <1>4. /\ Exclusive' /\ NotifiesAfterQuit' /\ Listed' /\ Unstarted'
    <2>1. Exclusive' /\ NotifiesAfterQuit'
      BY <1>3 DEF IInv, Exclusive, NotifiesAfterQuit, Holding
    <2>2. Listed' /\ Unstarted'
      BY <1>3 DEF IInv, Listed, Unstarted, TypeOK
    <2> QED
      BY <2>1, <2>2
  <1>5. NoLostWakeup'
    BY <1>3 DEF IInv, NoLostWakeup
  <1>6. Stacked' /\ AboveNotifier' /\ stack' \in Seq(Signals)
    <2>1. CASE c \in Signals
      BY <1>2, <2>1, FrameReturns DEF IInv, ExitReturns
    <2>2. CASE c = Main
      <3>1. stack = <<>> /\ stack' = stack
        BY <2>2, TopFrame DEF IInv, ExitReturns
      <3>2. DOMAIN stack = {} /\ stack \in Seq(Signals)
        BY <3>1
      <3>3. \A s \in Signals : pc'[s] = pc[s]
        BY <1>3, <2>2
      <3> QED
        BY <3>1, <3>2, <3>3 DEF IInv, Stacked, AboveNotifier
    <2>3. CASE c \in Services
      <3>1. stack' = stack /\ stack \in Seq(Signals)
        BY <2>3 DEF ExitReturns, IInv, TypeOK
      <3>2. /\ \A i \in DOMAIN stack : pc'[stack[i]] = pc[stack[i]]
            /\ \A s \in Signals : pc'[s] = pc[s]
            /\ pc'[Main] = pc[Main]
        BY <1>3, <2>3, <3>1
      <3> QED
        BY <3>1, <3>2 DEF IInv, Stacked, AboveNotifier
    <2> QED
      BY <2>1, <2>2, <2>3
  <1>7. TypeOK'
    <2>1. pc' \in [Contexts -> Labels]
      BY <1>1, <1>2 DEF Labels
    <2> QED
      BY <1>6, <2>1 DEF IInv, TypeOK
  <1> QED
    BY <1>4, <1>5, <1>6, <1>7 DEF IInv

LEMMA ExitCheckStep ==
    ASSUME IInv, NEW c \in Contexts, ExitCheck(c)
    PROVE  IInv'
  <1>1. CASE quit
    BY <1>1, ContextEnds DEF ExitCheck
  <1>2. CASE ~quit
    <2>1. /\ Runs(c) /\ pc[c] = "check" /\ pc' = [pc EXCEPT ![c] = "lock"]
          /\ UNCHANGED <<quit, lock, events, fired, stack, back, unstarted,
                         exitHandlers, exited>>
      BY <1>2 DEF ExitCheck
    <2>2. /\ "lock" \in Labels \ Holding
          /\ "lock" \in SignalLabels \ {"new", "end"}
      BY DEF Labels, Holding, SignalLabels
    <2>3. Kept'
      BY <1>2, <2>1, <2>2, QuietMove
    <2>4. TypeOK'
      BY <2>1, <2>2 DEF IInv, TypeOK
    <2> QED
      BY <2>3, <2>4 DEF IInv, Kept
  <1> QED
    BY <1>1, <1>2

LEMMA SignalStep ==
    ASSUME IInv, NEW s \in Signals, Signal(s)
    PROVE  IInv'
  <1>1. pc \in [Contexts -> Labels]
    BY DEF IInv, TypeOK
  <1>2. /\ pc[s] = "new" /\ pc' = [pc EXCEPT ![s] = "check"]
        /\ stack' = Append(stack, s)
        /\ UNCHANGED <<quit, lock, events, fired, back, unstarted, exitHandlers, exited>>
    BY DEF Signal
  <1>3. /\ pc'[s] = "check"
        /\ \A d \in Contexts \ {s} : pc'[d] = pc[d]
    BY <1>1, <1>2
  <1>4. Stacked' /\ AboveNotifier' /\ stack' \in Seq(Signals)
    BY <1>2, FrameStarts DEF IInv
  <1>5. TypeOK'
    <2>1. pc' \in [Contexts -> Labels]
      BY <1>1, <1>2 DEF Labels
    <2> QED
      BY <1>2, <1>4, <2>1 DEF IInv, TypeOK
  <1>6. Exclusive' /\ NotifiesAfterQuit'
    BY <1>2, <1>3 DEF IInv, Exclusive, NotifiesAfterQuit, Holding
  <1>7. Listed' /\ Unstarted'
    BY <1>2, <1>3 DEF IInv, Listed, Unstarted, TypeOK
  <1>8. NoLostWakeup'
    BY <1>2, <1>3 DEF IInv, NoLostWakeup
  <1> QED
    BY <1>4, <1>5, <1>6, <1>7, <1>8 DEF IInv

\* An error leaves the frames of the main thread, none of which is setting events.
LEMMA ExitHandlersStep ==
    ASSUME IInv, NEW c \in Contexts, ExitHandlers(c)
    PROVE  IInv'
  <1>1. pc \in [Contexts -> Labels]
    BY DEF IInv, TypeOK
  <1>2. CASE ~exitHandlers
    BY <1>2, ContextEnds DEF ExitHandlers
  <1>3. CASE exitHandlers /\ c \in Signals \cup {Main}
    <2>1. /\ Runs(c) /\ pc[c] = "handlers" /\ pc' = Unwound /\ stack' = <<>>
          /\ UNCHANGED <<quit, lock, events, fired, back, unstarted, exitHandlers>>
          /\ exited' = (pc[Main] = "end")
      BY <1>3 DEF ExitHandlers
    <2>2. \A d \in Frames : pc[d] # "notify"
      BY <1>3, <2>1, NobodyNotifies DEF IInv
    <2>3. /\ \A d \in Contexts : pc'[d] = pc[d] \/ (d \in Frames /\ pc'[d] = "end")
          /\ \A d \in Frames : pc'[d] \in {"new", "end"}
          /\ \A d \in Services : pc'[d] = pc[d]
      BY <2>1 DEF Unwound
    <2>4. TypeOK'
      <3>1. pc' \in [Contexts -> Labels]
        BY <1>1, <2>1 DEF Unwound, Labels
      <3>2. stack' \in Seq(Signals)
        BY <2>1
      <3> QED
        BY <2>1, <3>1, <3>2 DEF IInv, TypeOK
    <2>5. Exclusive' /\ NotifiesAfterQuit' /\ Listed' /\ Unstarted'
      <3>1. Exclusive' /\ NotifiesAfterQuit'
        BY <2>1, <2>3 DEF IInv, Exclusive, NotifiesAfterQuit, Holding
      <3>2. Listed' /\ Unstarted'
        BY <2>1, <2>3 DEF IInv, Listed, Unstarted, TypeOK
      <3> QED
        BY <3>1, <3>2
    <2>6. Stacked' /\ AboveNotifier'
      <3>1. DOMAIN stack' = {}
        BY <2>1
      <3> QED
        BY <2>3, <3>1 DEF Stacked, AboveNotifier, SignalLabels
    <2>7. NoLostWakeup'
      BY <2>1, <2>2, <2>3 DEF IInv, NoLostWakeup
    <2> QED
      BY <2>4, <2>5, <2>6, <2>7 DEF IInv
  <1>4. CASE exitHandlers /\ c \notin Signals \cup {Main}
    <2>1. PICK to \in {"check", "end"} :
              /\ Runs(c) /\ pc[c] = "handlers" /\ pc' = [pc EXCEPT ![c] = to]
              /\ UNCHANGED <<quit, lock, events, fired, stack, unstarted,
                             exitHandlers, exited>>
      BY <1>4 DEF ExitHandlers
    <2>2. to \in Labels \ Holding
      BY DEF Labels, Holding
    <2>3. Kept'
      BY <1>4, <2>1, <2>2, QuietMove
    <2>4. back' \in [Contexts -> {"wait", "reload", "interrupt", "failed"}]
      BY <1>4 DEF ExitHandlers, IInv, TypeOK
    <2>5. TypeOK'
      BY <2>1, <2>2, <2>4 DEF IInv, TypeOK
    <2> QED
      BY <2>3, <2>5 DEF IInv, Kept
  <1> QED
    BY <1>2, <1>3, <1>4

LEMMA UnchangedStep ==
    ASSUME IInv, UNCHANGED <<quit, lock, events, fired, pc, back, stack, unstarted,
                             exitHandlers>>,
           exited' \in BOOLEAN
    PROVE  IInv'
  BY DEF IInv, TypeOK, Exclusive, NotifiesAfterQuit, Listed, Unstarted, Stacked,
         AboveNotifier, NoLostWakeup

\* Every step keeps the invariant.
LEMMA StepIInv == IInv /\ [Next]_vars => IInv'
  <1> SUFFICES ASSUME IInv, [Next]_vars PROVE IInv'
    OBVIOUS
  <1>1. CASE \E s \in Services : StartService(s)
    BY <1>1, StartServiceStep
  <1>2. CASE \E s \in Signals : Signal(s)
    BY <1>2, SignalStep
  <1>3. ASSUME NEW c \in Contexts, Progress(c) PROVE IInv'
    <2>1. CASE Acquire(c) \/ ExitCheck(c) \/ ExitSet(c)
      BY <2>1, AcquireStep, ExitCheckStep, ExitSetStep
    <2>2. CASE ExitNotify(c) \/ ExitRelease(c) \/ ExitHandlers(c)
      BY <2>2, ExitNotifyStep, ExitReleaseStep, ExitHandlersStep
    <2>3. CASE c \in Threads /\ (Register(c) \/ Remove(c))
      BY <2>3, RegisterStep, RemoveStep
    <2>4. CASE /\ c \in Threads
               /\ \/ CallWait(c) \/ CallInterrupt(c) \/ InterruptPoint(c) \/ Fails(c)
                  \/ BodyReturns(c) \/ Wakes(c) \/ WaitReturns(c)
      BY <2>4, BodySteps
    <2> QED
      BY <1>3, <2>1, <2>2, <2>3, <2>4 DEF Progress
  <1>4. CASE ProcessExit
    BY <1>4, UnchangedStep DEF ProcessExit
  <1>5. CASE UNCHANGED vars
    <2>1. exited' \in BOOLEAN
      BY <1>5 DEF vars, IInv, TypeOK
    <2> QED
      BY <1>5, <2>1, UnchangedStep DEF vars
  <1> QED
    BY <1>1, <1>2, <1>3, <1>4, <1>5 DEF Next

-----------------------------------------------------------------------------
LEMMA Invariance == Spec => []IInv
  BY InitIInv, StepIInv, PTL DEF Spec

\* The variables of the shutdown keep their types.
THEOREM ThreadTypes == Spec => []TypeOK
  <1>1. IInv => TypeOK
    BY DEF IInv
  <1> QED
    BY <1>1, Invariance, PTL

\* No thread of any number of services, interrupted by any number of signals at
\* any point, stays asleep without its event set once safe_exit has let go.
THEOREM NoWakeupIsLost == Spec => []NoLostWakeup
  <1>1. IInv => NoLostWakeup
    BY DEF IInv
  <1> QED
    BY <1>1, Invariance, PTL

\* A wait that ends once the process is leaving says so.
THEOREM WaitsReportLeaving == Spec => []LeavingIsReported
  <1>1. ASSUME IInv PROVE LeavingIsReported
    <2> SUFFICES ASSUME NEW t \in Threads, quit, pc[t] = "remove" PROVE t \in fired
      BY DEF LeavingIsReported
    <2>1. lock = t /\ t \in events
      BY <1>1 DEF IInv, Exclusive, Listed, Holding
    <2>2. \A c \in Contexts : pc[c] # "notify"
      BY <1>1, <2>1 DEF IInv, Exclusive, Holding
    <2> QED
      BY <1>1, <2>1, <2>2 DEF IInv, NoLostWakeup
  <1> QED
    BY <1>1, Invariance, PTL
=============================================================================
