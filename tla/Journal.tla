------------------------------- MODULE Journal -------------------------------
(***************************************************************************)
(* What the event log promises as long as every write(2) is whole: the log *)
(* is a sequence of events that only grows, append_event adds its event    *)
(* once, somewhere between the call and its return, and a reader goes      *)
(* through the events one by one, from where it was told to start.         *)
(*                                                                         *)
(* There are no bytes, no files and no cursors here.  EventLogJournal says *)
(* which bytes are which events, and EventLog implements this.             *)
(***************************************************************************)
EXTENDS Integers, Sequences

CONSTANTS
  Writers, Readers, Events,
  Filters,  \* the sets of events a reader can ask for
  Limits,   \* how many of them; None: all
  None

VARIABLES
  lines,  \* the events of the log
  call,   \* the append_event call of each writer; at: its event's place, 0 if it has none yet
  acked,  \* what calls that returned have appended, and where
  scan    \* the iteration of each reader

vars == <<lines, call, acked, scan>>

\* No iteration, or one from a cursor that is not between two events: of those
\* nothing is promised.
NoScan == [pc |-> "idle", accepts |-> {}, limit |-> None, until |-> None,
           next |-> 0, out |-> << >>, status |-> None]

Init ==
  /\ lines = << >>
  /\ call = [w \in Writers |-> None]
  /\ acked = {}
  /\ scan = [r \in Readers |-> NoScan]

Ask(w, e) ==
  /\ call[w] = None
  /\ call' = [call EXCEPT ![w] = [ev |-> e, at |-> 0]]
  /\ UNCHANGED <<lines, acked, scan>>

\* The event is appended, and the call may return at once.
Commit(w) ==
  /\ call[w] # None /\ call[w].at = 0
  /\ lines' = Append(lines, call[w].ev)
  /\ LET done == [call[w] EXCEPT !.at = Len(lines')]
     IN  \/ call' = [call EXCEPT ![w] = done] /\ UNCHANGED acked
         \/ call' = [call EXCEPT ![w] = None] /\ acked' = acked \union {done}
  /\ UNCHANGED scan

Return(w) ==
  /\ call[w] # None /\ call[w].at # 0
  /\ call' = [call EXCEPT ![w] = None]
  /\ acked' = acked \union {call[w]}
  /\ UNCHANGED <<lines, scan>>

\* The call fails or its caller dies, before or after the event was appended.
GiveUp(w) ==
  /\ call[w] # None
  /\ call' = [call EXCEPT ![w] = None]
  /\ UNCHANGED <<lines, acked, scan>>

\* An iteration over the accepted events after the first `next`, up to `until`.
\* Over a log that does not exist yet it ends where it begins.
Iterations ==
  [pc : {"reading"}, accepts : Filters, limit : Limits, until : 0 .. Len(lines) \union {None},
   next : 0 .. Len(lines), out : {<< >>}, status : {None}]

Ended(s) == [s EXCEPT !.pc = "idle", !.next = 0, !.status = "eof"]

Begin(r) ==
  /\ scan[r].pc = "idle"
  /\ \/ scan'[r] \in Iterations
     \/ lines = << >> /\ scan'[r] \in {Ended(s) : s \in Iterations}
  /\ scan' = [scan EXCEPT ![r] = scan'[r]]
  /\ UNCHANGED <<lines, call, acked>>

BeforeUntil(r) == scan[r].until # None => scan[r].next < scan[r].until

\* The next event, yielded or rejected by the filter.
Advance(r) ==
  LET n == scan[r].next + 1
      accepted == lines[n] \in scan[r].accepts
  IN  /\ scan[r].pc = "reading" /\ n <= Len(lines) /\ BeforeUntil(r)
      /\ accepted /\ scan[r].limit # None => Len(scan[r].out) < scan[r].limit
      /\ scan' = [scan EXCEPT ![r].next = n,
                              ![r].out = IF accepted THEN Append(@, n) ELSE @]
      /\ UNCHANGED <<lines, call, acked>>

\* It ends at the limit, at until, or at the end of the log, and never else.
End(r, status) ==
  /\ scan[r].pc = "reading"
  /\ CASE status = "limit" -> scan[r].limit # None /\ Len(scan[r].out) = scan[r].limit
       [] status = "until" -> ~ BeforeUntil(r)
       [] status = "eof" -> scan[r].next = Len(lines) /\ BeforeUntil(r)
  /\ scan' = [scan EXCEPT ![r].pc = "idle", ![r].next = 0, ![r].status = status]
  /\ UNCHANGED <<lines, call, acked>>

Drop(r) ==
  /\ scan[r].pc = "idle"
  /\ scan' = [scan EXCEPT ![r] = NoScan]
  /\ UNCHANGED <<lines, call, acked>>

Next ==
  \/ \E w \in Writers :
       (\E e \in Events : Ask(w, e)) \/ Commit(w) \/ Return(w) \/ GiveUp(w)
  \/ \E r \in Readers :
       \/ Begin(r)
       \/ Advance(r)
       \/ \E status \in {"limit", "until", "eof"} : End(r, status)
       \/ Drop(r)

Spec == Init /\ [][Next]_vars
=============================================================================
