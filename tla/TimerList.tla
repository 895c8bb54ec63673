----------------------------- MODULE TimerList -----------------------------
(***************************************************************************)
(* The timers of client/lib/cblib.c: a list linked by hand through next    *)
(* and prev and kept in the order of the stop times, and the part of       *)
(* handle_event that waits for the first of them.  The program runs either *)
(* its own code, in main() or in a callback, where it starts and stops     *)
(* timers, or handle_event.                                                *)
(***************************************************************************)
EXTENDS Integers, FiniteSets, Sequences

CONSTANTS Timers,    \* the timers create_timer returned
          NULL,
          Timeouts,  \* milliseconds given to start_timer
          Second,    \* milliseconds of a second, 1000 in the code
          Milli,     \* microseconds of a millisecond, 1000 in the code
          MaxTime    \* bound on the clock, in microseconds

ASSUME UnitsAssumption == Second \in Nat \ {0} /\ Milli \in Nat \ {0} /\ MaxTime \in Nat

ASSUME TimersAssumption == NULL \notin Timers /\ Timeouts \subseteq Nat /\ IsFiniteSet(Timers)

VARIABLES
  now,         \* the clock, which does not go back
  timer_list,  \* the first timer
  timer,       \* the fields of the timers
  waiting,     \* whether handle_event is in select()
  timeout,     \* what it gave to select(), NULL for no limit
  event        \* the last call or expiry, a history variable

list == <<timer_list, timer>>
vars == <<now, list, waiting, timeout, event>>

-----------------------------------------------------------------------------
(***************************************************************************)
(* struct timeval, and get_time as the clock's value in it.                *)
(***************************************************************************)
USec == Second * Milli

TimeVal(t) == [tv_sec |-> t \div USec, tv_usec |-> t % USec]

Value(tv) == tv.tv_sec * USec + tv.tv_usec

Zero == TimeVal(0)

\* Mutant: a timer goes before those with the same stop time.
timeval_before_OrEqual(tv1, tv2) == \/ tv1.tv_sec < tv2.tv_sec
                                    \/ tv1.tv_sec = tv2.tv_sec /\ tv1.tv_usec <= tv2.tv_usec

timeval_before(tv1, tv2) == \/ tv1.tv_sec < tv2.tv_sec
                            \/ tv1.tv_sec = tv2.tv_sec /\ tv1.tv_usec < tv2.tv_usec

\* A carry of one second, as the milliseconds of both terms are below a second.
Carry(tv) == IF tv.tv_usec >= USec
             THEN [tv_sec |-> tv.tv_sec + 1, tv_usec |-> tv.tv_usec - USec]
             ELSE tv

StopTime(ms) ==
  Carry([tv_sec  |-> TimeVal(now).tv_sec + (ms \div Second),
         tv_usec |-> TimeVal(now).tv_usec + Milli * (ms % Second)])

\* Mutant: the borrow is missing.
Remaining_NoBorrow(stop) ==
  [tv_sec |-> stop.tv_sec - TimeVal(now).tv_sec, tv_usec |-> stop.tv_usec - TimeVal(now).tv_usec]

\* The time left until stop, with a borrow of one second.
Remaining(stop) ==
  LET sec == stop.tv_sec - TimeVal(now).tv_sec
      usec == stop.tv_usec - TimeVal(now).tv_usec
  IN  IF usec < 0 THEN [tv_sec |-> sec - 1, tv_usec |-> usec + USec]
                  ELSE [tv_sec |-> sec, tv_usec |-> usec]

-----------------------------------------------------------------------------
(***************************************************************************)
(* The list.                                                               *)
(***************************************************************************)
Idle == [next |-> NULL, prev |-> NULL, start_time |-> Zero, stop_time |-> Zero]

\* The nodes met by following next from the first one, one more than there are.
Walk ==
  LET node[i \in 1 .. Cardinality(Timers) + 1] ==
        IF i = 1 THEN timer_list
        ELSE IF node[i - 1] = NULL THEN NULL ELSE timer[node[i - 1]].next
  IN  node

Listed == {Walk[i] : i \in DOMAIN Walk} \ {NULL}

\* The test of start_timer for a timer that is already started.
IsStarted(t) == timer[t] # Idle

\* Where the loop of start_timer stops: the node before the first later one.
Predecessor(stop) ==
  LET Fits(i) == /\ Walk[i] # NULL
                 /\ \/ timer[Walk[i]].next = NULL
                    \/ timeval_before(stop, timer[timer[Walk[i]].next].stop_time)
  IN  Walk[CHOOSE i \in DOMAIN Walk : Fits(i) /\ \A j \in 1 .. i - 1 : ~Fits(j)]

\* The fields of t linked between p and n, either of which may be NULL.
Link(t, p, n, stop) ==
  [u \in Timers |->
     IF u = t THEN [next |-> n, prev |-> p, start_time |-> TimeVal(now), stop_time |-> stop]
     ELSE [timer[u] EXCEPT !.next = IF u = p THEN t ELSE @,
                           !.prev = IF u = n THEN t ELSE @]]

Insert(t, stop) ==
  \/ /\ timer_list = NULL
     /\ timer_list' = t
     /\ timer' = Link(t, NULL, NULL, stop)
  \/ /\ timer_list # NULL
     /\ timeval_before(stop, timer[timer_list].stop_time)
     /\ timer_list' = t
     /\ timer' = Link(t, NULL, timer_list, stop)
  \/ /\ timer_list # NULL
     /\ ~timeval_before(stop, timer[timer_list].stop_time)
     /\ timer' = Link(t, Predecessor(stop), timer[Predecessor(stop)].next, stop)
     /\ UNCHANGED timer_list

\* Mutant: the timer behind the removed one keeps its prev.
stop_timer_KeepsPrev(t) ==
  /\ timer_list' = IF t \in Listed /\ timer_list = t THEN timer[t].next ELSE timer_list
  /\ timer' = [u \in Timers |->
       IF u = t THEN Idle
       ELSE IF t \notin Listed THEN timer[u]
       ELSE [timer[u] EXCEPT !.next = IF u = timer[t].prev THEN timer[t].next ELSE @]]

\* stop_timer: taken out of the list if it is there, and its fields cleared.
stop_timer(t) ==
  /\ timer_list' = IF t \in Listed /\ timer_list = t THEN timer[t].next ELSE timer_list
  /\ timer' = [u \in Timers |->
       IF u = t THEN Idle
       ELSE IF t \notin Listed THEN timer[u]
       ELSE [timer[u] EXCEPT !.next = IF u = timer[t].prev THEN timer[t].next ELSE @,
                             !.prev = IF u = timer[t].next THEN timer[t].prev ELSE @]]

-----------------------------------------------------------------------------
(***************************************************************************)
(* The program's own code.                                                 *)
(***************************************************************************)
StartTimer(t, ms) ==
  /\ ~waiting /\ ~IsStarted(t)
  /\ now + Milli * ms < MaxTime
  /\ Insert(t, StopTime(ms))
  /\ event' = <<"start", t, Milli * ms>>
  /\ UNCHANGED <<now, waiting, timeout>>

StartStartedTimer(t, ms) ==
  /\ ~waiting /\ IsStarted(t)
  /\ event' = <<"start", t, Milli * ms>>
  /\ UNCHANGED <<now, list, waiting, timeout>>

StopTimer(t) ==
  /\ ~waiting
  /\ stop_timer(t)
  /\ event' = <<"stop", t>>
  /\ UNCHANGED <<now, waiting, timeout>>

-----------------------------------------------------------------------------
(***************************************************************************)
(* handle_event.                                                           *)
(***************************************************************************)
\* Mutant: the first timer is left to select().
Overdue_Never == FALSE

Overdue == timer_list # NULL /\ timeval_before(timer[timer_list].stop_time, TimeVal(now))

Expire ==
  /\ stop_timer(timer_list)
  /\ event' = <<"fire", timer_list>>

\* A timer that should have been handled goes before everything else.
HandleOverdue ==
  /\ ~waiting /\ Overdue
  /\ Expire
  /\ UNCHANGED <<now, waiting, timeout>>

CallSelect ==
  /\ ~waiting /\ ~Overdue
  /\ waiting' = TRUE
  /\ timeout' = IF timer_list = NULL THEN NULL ELSE Remaining(timer[timer_list].stop_time)
  /\ UNCHANGED <<now, list, event>>

\* select() returns 0, not before the time given to it has passed.
SelectTimesOut ==
  /\ waiting /\ timeout # NULL
  /\ Value(timer[timer_list].stop_time) <= now
  /\ Expire
  /\ waiting' = FALSE /\ timeout' = NULL
  /\ UNCHANGED now

\* select() finds descriptors ready; their callbacks are the program's code.
SelectFindsFds ==
  /\ waiting
  /\ waiting' = FALSE /\ timeout' = NULL
  /\ UNCHANGED <<now, list, event>>

Tick ==
  /\ now < MaxTime
  /\ now' = now + 1
  /\ UNCHANGED <<list, waiting, timeout, event>>

-----------------------------------------------------------------------------
Init ==
  /\ now = 1
  /\ timer_list = NULL /\ timer = [t \in Timers |-> Idle]
  /\ waiting = FALSE /\ timeout = NULL /\ event = <<>>

HandleEvent == HandleOverdue \/ CallSelect \/ SelectTimesOut \/ SelectFindsFds

Next ==
  \/ HandleEvent
  \/ Tick
  \/ \E t \in Timers : \/ StopTimer(t)
                       \/ \E ms \in Timeouts : StartTimer(t, ms) \/ StartStartedTimer(t, ms)

Spec == Init /\ [][Next]_vars

(* handle_events loops for ever and the clock goes on; the program's own code
   and the descriptors may keep the loop busy all the time. *)
FairSpec == Spec /\ WF_vars(Tick) /\ WF_vars(HandleEvent)
=============================================================================
