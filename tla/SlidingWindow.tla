--------------------------- MODULE SlidingWindow ---------------------------
(***************************************************************************)
(* SlidingWindowCounter of core/security/ratelimit.py.  It reads the wall  *)
(* clock, which an administrator or a time server may set back or put      *)
(* forward; how far it has run forward over all is kept beside it.         *)
(***************************************************************************)
EXTENDS Integers, Sequences

CONSTANTS MaxRequests,  \* SlidingWindowCounter.max_requests
          Window,       \* SlidingWindowCounter.window_seconds
          Steps,        \* by how much the clock is set back or put forward
          MaxForward,   \* bound: how far the clock runs forward
          MaxRequested  \* bound: requests

VARIABLES timestamps,  \* SlidingWindowCounter._timestamps
          wall,        \* time.time()
          forward,     \* history: the time that has passed, and all the
                       \* clock was put forward by
          admitted,    \* history: forward when requests were allowed
          requested    \* history: requests made

window == <<timestamps, wall, forward, admitted, requested>>

WindowInit ==
  /\ timestamps = <<>>
  /\ wall = MaxForward
  /\ forward = 0
  /\ admitted = <<>>
  /\ requested = 0

\* Mutant: everything older than the window is dropped, wherever it stands,
\* and so is the oldest that is as old as the window.
PrunedEqual ==
  SelectSeq(timestamps, LAMBDA t : t > wall - Window)

\* Old timestamps are dropped from the front, up to the first that is not.
Pruned ==
  LET kept == {i \in 1..Len(timestamps) : timestamps[i] >= wall - Window}
  IN IF kept = {} THEN <<>>
     ELSE SubSeq(timestamps, CHOOSE i \in kept : \A j \in kept : i <= j,
                 Len(timestamps))

\* allow
Allow ==
  /\ requested < MaxRequested
  /\ requested' = requested + 1
  /\ IF Len(Pruned) >= MaxRequests
     THEN timestamps' = Pruned /\ UNCHANGED admitted
     ELSE /\ timestamps' = Append(Pruned, wall)
          /\ admitted' = Append(admitted, forward)
  /\ UNCHANGED <<wall, forward>>

Advance(d) ==
  /\ forward + d <= MaxForward
  /\ forward' = forward + d
  /\ wall' = wall + d
  /\ UNCHANGED <<timestamps, admitted, requested>>

Elapse == Advance(1)

PutForward(d) == Advance(d)

SetBack(d) ==
  /\ wall >= d
  /\ wall' = wall - d
  /\ UNCHANGED <<timestamps, forward, admitted, requested>>

WindowNext ==
  \/ Allow
  \/ Elapse
  \/ \E d \in Steps : PutForward(d) \/ SetBack(d)

WindowSpec == WindowInit /\ [][WindowNext]_window
-----------------------------------------------------------------------------
WindowTypeOK ==
  /\ timestamps \in Seq(Nat) /\ wall \in Nat /\ forward \in 0..MaxForward
  /\ admitted \in Seq(Nat) /\ requested \in 0..MaxRequested

\* A sustained limit: from one allowed request to the one max_requests later,
\* the clock runs forward by more than the window, whatever it was set back by
\* in between.  Where it is not put forward, that is the time that passes; a
\* step forward counts as time, and so may bring the window to an early end.
WindowBound ==
  \A i \in 1..Len(admitted) :
    i + MaxRequests <= Len(admitted) =>
      admitted[i + MaxRequests] - admitted[i] > Window

\* A caller that has been quiet for a window is served.
QuietIsServed ==
  (admitted # <<>> /\ forward - admitted[Len(admitted)] > Window)
    => Len(Pruned) < MaxRequests
=============================================================================
