----------------------------- MODULE EventFiles -----------------------------
(***************************************************************************)
(* What the telemetry event collection promises about event files, without *)
(* how the collector thread walks the directories: an event file is        *)
(* consumed by removing it, and its events reach the send handler's queue  *)
(* only in the step that removes it, at most as many as it holds, and only *)
(* while the send handler accepts events and has room for them.  Files may *)
(* also be discarded (residue cleanup, uninstall) without being sent.      *)
(* A removal may fail, at most MaxFailures times: then the file stays,     *)
(* and the events enqueued with it are enqueued again when it is consumed  *)
(* later.  A file's events are sent twice only through a failed removal.   *)
(* TelemetryCollector implements this specification.                       *)
(***************************************************************************)
EXTENDS Naturals

CONSTANTS
  Dirs,       \* event directories
  Files,      \* event file identities; a file is never written twice
  MaxEvents,  \* events one file may hold
  Capacity,   \* size of the send handler's queue
  MaxFailures \* removals that may fail

VARIABLES
  stored,     \* stored[d]: files present in directory d
  held,       \* held[f]: events file f holds (0: not written)
  queued,     \* events waiting in the send handler's queue
  accepting,  \* the send handler accepts events
  failures    \* removals that failed

absVars == <<stored, held, queued, accepting, failures>>

Init ==
  /\ stored = [d \in Dirs |-> {}]
  /\ held = [f \in Files |-> 0]
  /\ queued = 0
  /\ accepting = TRUE
  /\ failures = 0

\* A writer puts a new file with n events in directory d.
Write(d, f, n) ==
  /\ held[f] = 0
  /\ stored' = [stored EXCEPT ![d] = @ \cup {f}]
  /\ held' = [held EXCEPT ![f] = n]
  /\ UNCHANGED <<queued, accepting, failures>>

\* File f is consumed: removed, and k of its events enqueued with it.
Consume(d, f, k) ==
  /\ f \in stored[d]
  /\ k <= held[f]
  /\ k > 0 => accepting
  /\ queued + k <= Capacity
  /\ stored' = [stored EXCEPT ![d] = @ \ {f}]
  /\ queued' = queued + k
  /\ UNCHANGED <<held, accepting, failures>>

\* File f is read and k of its events enqueued, but its removal fails.
Deliver(d, f, k) ==
  /\ f \in stored[d]
  /\ k <= held[f]
  /\ k > 0 => accepting
  /\ queued + k <= Capacity
  /\ failures < MaxFailures
  /\ queued' = queued + k
  /\ failures' = failures + 1
  /\ UNCHANGED <<stored, held, accepting>>

\* Files are removed without being sent; some of the removals may fail.
Discard ==
  /\ \E s \in [Dirs -> SUBSET UNION {stored[d] : d \in Dirs}] :
       /\ \A d \in Dirs : s[d] \subseteq stored[d]
       /\ stored' = s
  /\ failures' \in failures..MaxFailures
  /\ UNCHANGED <<held, queued, accepting>>

\* The send handler sends the event at the head of its queue.
Send ==
  /\ accepting /\ queued > 0
  /\ queued' = queued - 1
  /\ UNCHANGED <<stored, held, accepting, failures>>

\* The send handler stops.
Stop ==
  /\ accepting' = FALSE
  /\ UNCHANGED <<stored, held, queued, failures>>

Next ==
  \/ \E d \in Dirs, f \in Files, n \in 1..MaxEvents : Write(d, f, n)
  \/ \E d \in Dirs, f \in Files, k \in 0..MaxEvents : Consume(d, f, k)
  \/ \E d \in Dirs, f \in Files, k \in 0..MaxEvents : Deliver(d, f, k)
  \/ Discard
  \/ Send
  \/ Stop

Spec == Init /\ [][Next]_absVars
=============================================================================
