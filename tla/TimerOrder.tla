----------------------------- MODULE TimerOrder -----------------------------
(* What holds of the timer list of cblib.c.                                  *)
EXTENDS TimerList

(* The list is sound: next and prev are each other's inverse, the first timer
   has no predecessor, following next meets every started timer once and no
   other, and a timer that is not started points nowhere. *)
ListIsSound ==
  /\ timer_list # NULL => timer[timer_list].prev = NULL
  /\ \A t \in Listed : timer[t].next # NULL => timer[timer[t].next].prev = t
  /\ Walk[Cardinality(Timers) + 1] = NULL
  /\ Listed = {t \in Timers : IsStarted(t)}

(* What handle_event gives to select() is a legal time: without the borrow, or
   with a first timer that is overdue, select() would refuse it and every
   registered callback would be called. *)
TimeoutIsLegal ==
  timeout # NULL => timeout.tv_sec >= 0 /\ timeout.tv_usec \in 0 .. USec - 1

Length == Cardinality(Listed)

Queue == INSTANCE TimerQueue WITH
           Timeouts <- {Milli * ms : ms \in Timeouts},
           queue <- [i \in 1 .. Length |-> Walk[i]],
           deadline <- [t \in Timers |-> Value(timer[t].stop_time)]

(* The list behaves as a queue of deadlines: no timer is lost or fires twice or
   early, and the order of expiry is the order of the deadlines and, among
   equals, of the calls of start_timer. *)
IsTimerQueue == Queue!Spec

(* A started timer expires or is stopped, however busy the descriptors keep the
   loop. *)
StartedTimerEnds == \A t \in Timers : IsStarted(t) ~> ~IsStarted(t)
=============================================================================
