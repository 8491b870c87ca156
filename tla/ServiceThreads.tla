---------------------------- MODULE ServiceThreads ----------------------------
(***************************************************************************)
(* The services of a process and its shutdown (python/mrt/common/thread.py)*)
(*                                                                         *)
(* A service runs in a thread of its own.  It sleeps in wait_for_event,    *)
(* which leaves an event of the thread in __QUIT_EVENTS__, and safe_exit   *)
(* sets __QUIT_EVENT__ and every event of that list under __LOCK__.        *)
(* safe_exit is called by a failing service, by interrupt(), and by Python *)
(* as the handler of a signal: then it runs in the main thread, on top of  *)
(* whatever that thread was doing, and a second signal runs it on top of   *)
(* the first.  A context is a thread or a signal's run of the handler;     *)
(* `stack' says which of the contexts of the main thread runs.             *)
(***************************************************************************)
EXTENDS Integers, Sequences

CONSTANTS
    Main,           \* the main thread
    Services,       \* the threads that run a function under _thread_safe_func
    AutoReload,     \* the services registered with auto_reload = True
    Daemons,        \* the services started by as_daemon_thread
    Signals,        \* the signals the process receives, at most once each
    MainWaits,      \* whether the main thread itself calls wait and interrupt
    Timed,          \* whether the timeout of a wait may expire
    Free            \* nobody holds __LOCK__

ASSUME ThreadAssumption ==
    /\ Main \notin Services \cup Signals
    /\ Services \cap Signals = {}
    /\ AutoReload \subseteq Services
    /\ Daemons \subseteq Services
    /\ Free \notin {Main} \cup Services \cup Signals

Threads == {Main} \cup Services
Contexts == Threads \cup Signals

VARIABLES
    quit,           \* __QUIT_EVENT__.is_set()
    lock,           \* the context that holds __LOCK__, or Free
    events,         \* __QUIT_EVENTS__: the threads whose event is in the list
    fired,          \* the threads whose latest event is set
    pc,             \* where each context is
    back,           \* what a context does after wait_for_event or safe_exit
    stack,          \* the handlers running on the main thread, the latest last
    unstarted,      \* the services start_services has still to start
    exitHandlers,   \* whether __EXIT_HANDLERS__ holds a function
    exited          \* the process has ended

vars == <<quit, lock, events, fired, pc, back, stack, unstarted, exitHandlers,
          exited>>

Labels == {"new", "body", "acquire", "register", "waiting", "reacquire",
           "remove", "returned", "check", "lock", "set", "notify", "handlers",
           "end"}

Init ==
    /\ quit = FALSE
    /\ lock = Free
    /\ events = {}
    /\ fired = {}
    /\ pc = [c \in Contexts |-> IF c = Main THEN "body" ELSE "new"]
    /\ back = [c \in Contexts |-> "failed"]
    /\ stack = <<>>
    /\ unstarted = Services
    /\ exitHandlers \in BOOLEAN
    /\ exited = FALSE

(***************************************************************************)
(* Who may take a step                                                     *)
(***************************************************************************)
\* the main thread runs only the latest of the handlers that interrupted it
Runs(c) ==
    /\ ~exited
    /\ IF c \in Services THEN TRUE
       ELSE IF stack = <<>> THEN c = Main
       ELSE c = stack[Len(stack)]

Goto(c, from, to) ==
    /\ Runs(c)
    /\ pc[c] = from
    /\ pc' = [pc EXCEPT ![c] = to]

\* an error leaves every handler of the main thread, and then the main thread
Unwound == [c \in Contexts |-> IF c \in {Main} \cup Signals /\ pc[c] # "new"
                               THEN "end" ELSE pc[c]]

(***************************************************************************)
(* The bodies of the threads                                               *)
(***************************************************************************)
\* start_services: the threads of the registered services, one after another
StartService(s) ==
    /\ Runs(Main) /\ pc[Main] = "body"
    /\ s \in unstarted
    /\ unstarted' = unstarted \ {s}
    /\ pc' = [pc EXCEPT ![s] = "body"]
    /\ UNCHANGED <<quit, lock, events, fired, back, stack, exitHandlers, exited>>

InBody(t) ==
    /\ Runs(t) /\ pc[t] = "body"
    /\ t = Main => unstarted = {}

\* wait(timeout): wait_for_event, then ThreadInterruptError if the event is set
CallWait(t) ==
    /\ InBody(t)
    /\ t = Main => MainWaits
    /\ pc' = [pc EXCEPT ![t] = "acquire"]
    /\ back' = [back EXCEPT ![t] = "wait"]
    /\ UNCHANGED <<quit, lock, events, fired, stack, unstarted, exitHandlers, exited>>

\* interrupt(): safe_exit and then interrupt_point
CallInterrupt(t) ==
    /\ InBody(t)
    /\ t = Main => MainWaits
    /\ pc' = [pc EXCEPT ![t] = "check"]
    /\ back' = [back EXCEPT ![t] = "interrupt"]
    /\ UNCHANGED <<quit, lock, events, fired, stack, unstarted, exitHandlers, exited>>

\* interrupt_point() raises ThreadInterruptError, which _thread_safe_func drops
InterruptPoint(t) ==
    /\ InBody(t)
    /\ quit
    /\ pc' = [pc EXCEPT ![t] = "end"]
    /\ UNCHANGED <<quit, lock, events, fired, back, stack, unstarted, exitHandlers, exited>>

\* a service raises: _thread_safe_func logs the error and calls safe_exit
Fails(s) ==
    /\ s \in Services
    /\ InBody(s)
    /\ pc' = [pc EXCEPT ![s] = "check"]
    /\ back' = [back EXCEPT ![s] = "failed"]
    /\ UNCHANGED <<quit, lock, events, fired, stack, unstarted, exitHandlers, exited>>

\* the function returns; register_service's loop waits and calls it again
BodyReturns(t) ==
    /\ InBody(t)
    /\ LET again == t \in AutoReload /\ ~quit
       IN  /\ pc' = [pc EXCEPT ![t] = IF again THEN "acquire" ELSE "end"]
           /\ back' = [back EXCEPT ![t] = IF again THEN "reload" ELSE @]
    /\ UNCHANGED <<quit, lock, events, fired, stack, unstarted, exitHandlers, exited>>

(***************************************************************************)
(* wait_for_event                                                          *)
(***************************************************************************)
\* __LOCK__.acquire() returns once the lock is free
Acquire(c) ==
    /\ lock = Free
    /\ lock' = c
    /\ \/ Goto(c, "acquire", "register")
       \/ Goto(c, "reacquire", "remove")
       \/ Goto(c, "lock", "set")
    /\ UNCHANGED <<quit, events, fired, back, stack, unstarted, exitHandlers, exited>>

\* Mutant: a new event is cleared even when the process is already leaving
RegisterUnchecked(t) ==
    /\ Goto(t, "register", "waiting")
    /\ fired' = fired \ {t}
    /\ events' = events \cup {t}
    /\ lock' = Free
    /\ UNCHANGED <<quit, back, stack, unstarted, exitHandlers, exited>>

\* a new event, already set when the process is leaving, joins the list
Register(t) ==
    /\ Goto(t, "register", "waiting")
    /\ fired' = IF quit THEN fired \cup {t} ELSE fired \ {t}
    /\ events' = events \cup {t}
    /\ lock' = Free
    /\ UNCHANGED <<quit, back, stack, unstarted, exitHandlers, exited>>

\* event.wait(timeout) ends when the event is set or the time has passed
Wakes(t) ==
    /\ Goto(t, "waiting", "reacquire")
    /\ t \in fired \/ Timed
    /\ UNCHANGED <<quit, lock, events, fired, back, stack, unstarted, exitHandlers, exited>>

Remove(t) ==
    /\ Goto(t, "remove", "returned")
    /\ events' = events \ {t}
    /\ lock' = Free
    /\ UNCHANGED <<quit, fired, back, stack, unstarted, exitHandlers, exited>>

\* wait raises and the reload loop returns when the event was set
WaitReturns(t) ==
    /\ Goto(t, "returned", IF t \in fired THEN "end" ELSE "body")
    /\ UNCHANGED <<quit, lock, events, fired, back, stack, unstarted, exitHandlers, exited>>

(***************************************************************************)
(* safe_exit                                                               *)
(***************************************************************************)
\* Python runs the handler of a signal in the main thread, between two of its steps
Signal(s) ==
    /\ ~exited
    /\ pc[s] = "new"
    /\ pc' = [pc EXCEPT ![s] = "check"]
    /\ stack' = Append(stack, s)
    /\ UNCHANGED <<quit, lock, events, fired, back, unstarted, exitHandlers, exited>>

\* control returns to whoever called safe_exit: a handler's caller is the frame below
ExitReturns(c) ==
    /\ pc' = [pc EXCEPT ![c] = "end"]
    /\ stack' = IF c \in Signals THEN SubSeq(stack, 1, Len(stack) - 1) ELSE stack

\* nothing is done twice: but the question is asked before the lock is taken
ExitCheck(c) ==
    /\ Runs(c) /\ pc[c] = "check"
    /\ IF quit THEN ExitReturns(c)
               ELSE /\ pc' = [pc EXCEPT ![c] = "lock"]
                    /\ UNCHANGED stack
    /\ UNCHANGED <<quit, lock, events, fired, back, unstarted, exitHandlers, exited>>

ExitSet(c) ==
    /\ Goto(c, "set", "notify")
    /\ quit' = TRUE
    /\ UNCHANGED <<lock, events, fired, back, stack, unstarted, exitHandlers, exited>>

\* for event in __QUIT_EVENTS__: event.set()
ExitNotify(c) ==
    /\ Runs(c) /\ pc[c] = "notify"
    /\ \E t \in events \ fired : fired' = fired \cup {t}
    /\ UNCHANGED <<quit, lock, events, pc, back, stack, unstarted, exitHandlers, exited>>

\* Mutant: safe_exit gives __LOCK__ back before it has set every event
ReleaseEarly(c) ==
    /\ Goto(c, "notify", "handlers")
    /\ lock' = Free
    /\ UNCHANGED <<quit, events, fired, back, stack, unstarted, exitHandlers, exited>>

\* Mutant: a signal handler leaves without giving __LOCK__ back
ReleaseForgotten(c) ==
    /\ Goto(c, "notify", "handlers")
    /\ events \subseteq fired
    /\ lock' = IF c \in Signals THEN lock ELSE Free
    /\ UNCHANGED <<quit, events, fired, back, stack, unstarted, exitHandlers, exited>>

ExitRelease(c) ==
    /\ Goto(c, "notify", "handlers")
    /\ events \subseteq fired
    /\ lock' = Free
    /\ UNCHANGED <<quit, events, fired, back, stack, unstarted, exitHandlers, exited>>

\* no exit handler: return.  Otherwise t.join() of a thread that was never
\* started raises RuntimeError: out of interrupt() it is the function's error,
\* out of _thread_safe_func it ends the thread, out of a signal handler it ends
\* the main thread, and the process too if the main thread was only waiting
\* for the others
ExitHandlers(c) ==
    /\ Runs(c) /\ pc[c] = "handlers"
    /\ IF ~exitHandlers THEN ExitReturns(c) /\ UNCHANGED <<back, exited>>
       ELSE IF c \in Signals \cup {Main}
       THEN /\ pc' = Unwound
            /\ stack' = <<>>
            /\ exited' = (pc[Main] = "end")
            /\ UNCHANGED back
       ELSE /\ pc' = [pc EXCEPT ![c] = IF back[c] = "interrupt" THEN "check" ELSE "end"]
            /\ back' = [back EXCEPT ![c] = "failed"]
            /\ UNCHANGED <<stack, exited>>
    /\ UNCHANGED <<quit, lock, events, fired, unstarted, exitHandlers>>

\* the interpreter waits for the threads that are not daemons
ProcessExit ==
    /\ ~exited
    /\ stack = <<>>
    /\ pc[Main] = "end"
    /\ \A s \in Services \ Daemons : pc[s] \in {"new", "end"}
    /\ exited' = TRUE
    /\ UNCHANGED <<quit, lock, events, fired, pc, back, stack, unstarted, exitHandlers>>

(***************************************************************************)
(* The specification                                                       *)
(***************************************************************************)
\* what a context does next when nothing stops it; a service's body chooses
Progress(c) ==
    \/ Acquire(c) \/ ExitCheck(c) \/ ExitSet(c) \/ ExitNotify(c)
    \/ ExitRelease(c) \/ ExitHandlers(c)
    \/ /\ c \in Threads
       /\ \/ CallWait(c) \/ CallInterrupt(c) \/ InterruptPoint(c) \/ Fails(c)
          \/ BodyReturns(c) \/ Register(c) \/ Wakes(c) \/ Remove(c)
          \/ WaitReturns(c)

Next ==
    \/ \E s \in Services : StartService(s)
    \/ \E s \in Signals : Signal(s)
    \/ \E c \in Contexts : Progress(c)
    \/ ProcessExit

\* Every thread is scheduled, and one that waits for __LOCK__ gets it if it is
\* released again and again.  Signals need not arrive.
Fairness ==
    /\ WF_vars(\E s \in Services : StartService(s))
    /\ WF_vars(ProcessExit)
    /\ \A c \in Contexts : WF_vars(Progress(c)) /\ SF_vars(Acquire(c))

Spec == Init /\ [][Next]_vars /\ Fairness

TypeOK ==
    /\ quit \in BOOLEAN /\ exitHandlers \in BOOLEAN /\ exited \in BOOLEAN
    /\ lock \in Contexts \cup {Free}
    /\ events \subseteq Threads /\ fired \subseteq Threads
    /\ unstarted \subseteq Services
    /\ pc \in [Contexts -> Labels]
    /\ back \in [Contexts -> {"wait", "reload", "interrupt", "failed"}]
    /\ stack \in Seq(Signals)

(***************************************************************************)
(* Properties                                                              *)
(***************************************************************************)
\* No wake-up is lost: once the process is leaving and safe_exit has given
\* __LOCK__ back, the event of every thread in the list is set, whatever the
\* order in which the threads registered, woke and were interrupted.
NoLostWakeup ==
    quit /\ (\A c \in Contexts : pc[c] # "notify") => events \subseteq fired

\* A wait that ends once the process is leaving reports it, even one whose
\* timeout expired before its event was set: wait raises, a reload loop stops.
LeavingIsReported ==
    \A t \in Threads : quit /\ pc[t] = "remove" => t \in fired

\* The handler that runs waits for __LOCK__, and its holder is a context of the
\* main thread that it has interrupted: the main thread inside wait_for_event or
\* interrupt(), or an earlier run of the handler that has not yet set
\* __QUIT_EVENT__.  The holder cannot go on before the handler returns.
BlocksItself ==
    /\ stack # <<>>
    /\ pc[stack[Len(stack)]] = "lock"
    /\ lock \in {Main} \cup Signals

\* A shutdown that has begun (a signal, a service that failed, interrupt())
\* ends the process or blocks itself; nothing else stands in its way: no thread
\* that waits or registers meanwhile, no second shutdown, no exit handler.
ShutdownEnds ==
    (\E c \in Contexts : pc[c] = "check") ~> (exited \/ BlocksItself)
=============================================================================
