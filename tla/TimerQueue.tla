----------------------------- MODULE TimerQueue -----------------------------
(* What the timers of cblib.c promise: an armed timer fires once, not before *)
(* its deadline, the timers fire in the order of their deadlines, and those  *)
(* with the same deadline in the order in which they were started.           *)
EXTENDS Integers, SequencesExt

CONSTANTS Timers, Timeouts

VARIABLES now,
          queue,     \* the armed timers, the next one to fire first
          deadline,  \* of an armed timer
          event      \* the last call or expiry

vars == <<now, queue, deadline, event>>

IsArmed(t) == \E i \in 1 .. Len(queue) : queue[i] = t

Init == /\ now \in Nat
        /\ queue = <<>>
        /\ deadline = [t \in Timers |-> 0]
        /\ event = <<>>

Tick == now' = now + 1 /\ UNCHANGED <<queue, deadline, event>>

Start(t, timeout) ==
  /\ ~IsArmed(t)
  /\ \E i \in 1 .. Len(queue) + 1 :
       /\ \A j \in 1 .. Len(queue) : j < i <=> deadline[queue[j]] <= now + timeout
       /\ queue' = InsertAt(queue, i, t)
  /\ deadline' = [deadline EXCEPT ![t] = now + timeout]
  /\ event' = <<"start", t, timeout>>
  /\ UNCHANGED now

\* A timer that is armed keeps its deadline.
StartAgain(t, timeout) ==
  /\ IsArmed(t)
  /\ event' = <<"start", t, timeout>>
  /\ UNCHANGED <<now, queue, deadline>>

Stop(t) ==
  /\ \/ \E i \in 1 .. Len(queue) : queue[i] = t /\ queue' = RemoveAt(queue, i)
     \/ ~IsArmed(t) /\ UNCHANGED queue
  /\ deadline' = [deadline EXCEPT ![t] = 0]
  /\ event' = <<"stop", t>>
  /\ UNCHANGED now

Fire ==
  /\ queue # <<>>
  /\ deadline[Head(queue)] <= now
  /\ queue' = RemoveAt(queue, 1)
  /\ deadline' = [deadline EXCEPT ![Head(queue)] = 0]
  /\ event' = <<"fire", Head(queue)>>
  /\ UNCHANGED now

Next == \/ Tick
        \/ Fire
        \/ \E t \in Timers : Stop(t)
        \/ \E t \in Timers, timeout \in Timeouts : Start(t, timeout) \/ StartAgain(t, timeout)

Spec == Init /\ [][Next]_vars
=============================================================================
