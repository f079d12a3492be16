-------------------------- MODULE PassthroughStream --------------------------
(***************************************************************************)
(* The life of one passthrough stream as its observer sees it: the         *)
(* lifecycle that turns byte counts and outcomes into observations         *)
(* (passthrough_observer.go) and the goroutine of handleConnection that    *)
(* proxies the stream and settles how it ended (listener.go).              *)
(*                                                                         *)
(* An observation is marked under the lifecycle's mutex and handed to the  *)
(* observer after the unlock, so that it is pending with the goroutine     *)
(* that marked it for a while; two goroutines that copy bytes and the      *)
(* handler deliver independently of each other.                            *)
(*                                                                         *)
(* The proxy itself is the bifrost library: it fails before it opens a     *)
(* stream, or opens one, copies in both directions at once, calls          *)
(* AddBytes after each chunk and End at the end.  Whether it waits for     *)
(* both copies before End is a parameter of the behaviour (joins).         *)
(***************************************************************************)
EXTENDS Integers, SequencesExt

CONSTANTS
  Direction,  \* ingress to endpoint, endpoint to ingress
  Handler,    \* the goroutine of handleConnection
  MaxBytes    \* bound on the bytes copied in one direction

ASSUME HandlerAssumption ==
  Handler \notin Direction /\ "delivered" \notin Direction \cup {Handler}
ASSUME BoundAssumption == MaxBytes \in Nat

VARIABLES
  observer,   \* whether there is a stream observer
  joins,      \* whether the library waits for both copies before End
  handler,    \* where the handler is
  failed,     \* whether ProxyStreamWithObserver returned an error
  copying,    \* the directions in which the library still copies
  started, ended,  \* the flags of the lifecycle
  moved,      \* bytes reported to AddBytes, in each direction
  pending,    \* observations marked and not yet delivered, per goroutine
  delivered   \* what the observer was called with, in order

vars == <<observer, joins, handler, failed, copying, started, ended, moved,
          pending, delivered>>

Goroutine == Direction \cup {Handler}

Event == {"stream_started", "stream_usage_delta", "stream_ended",
          "stream_rejected"}
Observation == [event : Event, bytes : [Direction -> Nat]]

NoBytes == [d \in Direction |-> 0]
\* A faulty variant of Lifecycle, see below: the result in the event's place.
LifecycleResult(event) ==
  [event |-> CASE event = "stream_started" -> "started"
               [] event = "stream_ended" -> "ended"
               [] event = "stream_rejected" -> "rejected",
   bytes |-> NoBytes]

Lifecycle(event) == [event |-> event, bytes |-> NoBytes]
Usage(d, n) ==
  [event |-> "stream_usage_delta", bytes |-> [NoBytes EXCEPT ![d] = n]]

TypeOK ==
  /\ observer \in BOOLEAN /\ joins \in BOOLEAN /\ failed \in BOOLEAN
  /\ handler \in {"proxy", "copy", "settle", "end", "done"}
  /\ copying \in SUBSET Direction
  /\ started \in BOOLEAN /\ ended \in BOOLEAN
  /\ moved \in [Direction -> 0 .. MaxBytes]
  /\ pending \in [Goroutine -> Seq(Observation)]
  /\ delivered \in Seq(Observation)

Init ==
  /\ observer \in BOOLEAN
  /\ joins \in BOOLEAN
  /\ handler = "proxy"
  /\ failed = FALSE
  /\ copying = {}
  /\ started = FALSE /\ ended = FALSE
  /\ moved = NoBytes
  /\ pending = [g \in Goroutine |-> <<>>]
  /\ delivered = <<>>

-----------------------------------------------------------------------------
(* Faulty variants of the definitions below, which no specification uses:  *)
(* each is a bug the code could have, put in a definition's place to see   *)
(* that a property detects it.                                             *)

\* markEnded does not look whether the stream has ended already.
CanEndTwice == observer /\ started

\* markEnded has the conditions of markRejected.
CanEndUnstarted == observer /\ ~started /\ ~ended

\* markRejected looks at no flag.
CanAlwaysReject == observer

\* The first delta is spent on the start of the stream.
UsageMarksStartOnly(d, n) ==
  IF ~observer \/ ended THEN <<>>
  ELSE IF started THEN <<Usage(d, n)>> ELSE <<Lifecycle("stream_started")>>

\* end marks the end and does not call the observer.
MarkEndedSilently ==
  /\ ended' = (ended \/ (observer /\ started))
  /\ pending' = [pending EXCEPT ![Handler] = <<>>]

-----------------------------------------------------------------------------
(* The lifecycle                                                           *)

\* markEnded and markRejected answer whether there is something to observe.
CanEnd == observer /\ started /\ ~ended
CanReject == observer /\ ~started /\ ~ended

\* markUsageDelta: the first delta also starts the stream, one that comes after
\* the end is dropped.
UsageMarks(d, n) ==
  IF ~observer \/ ended THEN <<>>
  ELSE (IF started THEN <<>> ELSE <<Lifecycle("stream_started")>>)
       \o <<Usage(d, n)>>

\* The bookkeeping common to End and end: mark, then deliver unlocked.
MarkEnded ==
  /\ ended' = (ended \/ CanEnd)
  /\ pending' = [pending EXCEPT ![Handler] =
                   IF CanEnd THEN <<Lifecycle("stream_ended")>> ELSE <<>>]

\* A copy calls AddBytes; a chunk of no bytes would change nothing.
AddBytes(d, n) ==
  /\ d \in copying /\ pending[d] = <<>>
  /\ moved[d] + n <= MaxBytes
  /\ moved' = [moved EXCEPT ![d] = @ + n]
  /\ pending' = [pending EXCEPT ![d] = UsageMarks(d, n)]
  /\ started' = (started \/ UsageMarks(d, n) # <<>>)
  /\ UNCHANGED <<observer, joins, handler, failed, copying, ended, delivered>>

\* A goroutine calls the observer with the next thing it marked.
Deliver(g) ==
  /\ pending[g] # <<>>
  /\ delivered' = Append(delivered, Head(pending[g]))
  /\ pending' = [pending EXCEPT ![g] = Tail(@)]
  /\ UNCHANGED <<observer, joins, handler, failed, copying, started, ended,
                 moved>>

-----------------------------------------------------------------------------
(* The library's ProxyStreamWithOptions, external to the repository        *)

\* No session, no room for a stream, server not running, ...
OpenFails ==
  /\ handler = "proxy"
  /\ handler' = "settle"
  /\ failed' = TRUE
  /\ UNCHANGED <<observer, joins, copying, started, ended, moved, pending,
                 delivered>>

Opens ==
  /\ handler = "proxy"
  /\ handler' = "copy"
  /\ copying' = Direction
  /\ UNCHANGED <<observer, joins, failed, started, ended, moved, pending,
                 delivered>>

CopyReturns(d) ==
  /\ d \in copying /\ pending[d] = <<>>
  /\ copying' = copying \ {d}
  /\ UNCHANGED <<observer, joins, handler, failed, started, ended, moved,
                 pending, delivered>>

\* Both copies are over, or one is, or the context is: the library calls End and
\* returns nil or an error, in the handler's goroutine.  A copy that was not
\* joined may go on to report bytes.
LibraryEnd ==
  /\ handler = "copy"
  /\ joins => copying = {}
  /\ handler' = "settle"
  /\ failed' \in BOOLEAN
  /\ MarkEnded
  /\ UNCHANGED <<observer, joins, copying, started, moved, delivered>>

-----------------------------------------------------------------------------
(* The handler, after ProxyStreamWithObserver returned                     *)

\* An error: the stream is rejected if it was neither started nor ended, or
\* else the handler goes on to end it.
SettleReject ==
  /\ handler = "settle" /\ failed /\ pending[Handler] = <<>>
  /\ ended' = (ended \/ CanReject)
  /\ pending' = [pending EXCEPT ![Handler] =
                   IF CanReject THEN <<Lifecycle("stream_rejected")>> ELSE <<>>]
  /\ handler' = IF CanReject THEN "done" ELSE "end"
  /\ UNCHANGED <<observer, joins, failed, copying, started, moved, delivered>>

SettleEnd ==
  /\ handler = "end" \/ (handler = "settle" /\ ~failed)
  /\ pending[Handler] = <<>>
  /\ handler' = "done"
  /\ MarkEnded
  /\ UNCHANGED <<observer, joins, failed, copying, started, moved, delivered>>

Next ==
  \/ \E d \in Direction, n \in 1 .. MaxBytes : AddBytes(d, n)
  \/ \E d \in Direction : CopyReturns(d)
  \/ \E g \in Goroutine : Deliver(g)
  \/ OpenFails \/ Opens \/ LibraryEnd
  \/ SettleReject \/ SettleEnd

Spec == Init /\ [][Next]_vars

\* Goroutines keep running; the stream's peers hang up some time.
Fairness ==
  /\ \A d \in Direction : WF_vars(CopyReturns(d))
  /\ \A g \in Goroutine : WF_vars(Deliver(g))
  /\ WF_vars(OpenFails \/ Opens) /\ WF_vars(LibraryEnd)
  /\ WF_vars(SettleReject) /\ WF_vars(SettleEnd)

FairSpec == Spec /\ Fairness

-----------------------------------------------------------------------------
(* Properties                                                              *)

\* Where one of some events was marked so far: in what the observer saw, or in
\* what a goroutine has yet to deliver.
Marks(events) ==
  LET In(seq) == {k \in DOMAIN seq : seq[k].event \in events} IN
  ({"delivered"} \X In(delivered)) \cup UNION {{g} \X In(pending[g]) : g \in Goroutine}

AtMostOne(S) == \A x, y \in S : x = y

\* However End, end, reject and the copies' AddBytes overlap, a stream is
\* started at most once and has at most one outcome; it moves bytes and ends
\* only if it was started, and is rejected only if it never was.
OneOutcome ==
  /\ AtMostOne(Marks({"stream_started", "stream_rejected"}))
  /\ AtMostOne(Marks({"stream_ended", "stream_rejected"}))
  /\ Marks({"stream_usage_delta", "stream_ended"}) # {} =>
       Marks({"stream_started"}) # {}

\* The bytes of one direction in some observations.
BytesIn(seq, d) ==
  LET sum[n \in 0 .. Len(seq)] == IF n = 0 THEN 0 ELSE sum[n - 1] + seq[n].bytes[d]
  IN  sum[Len(seq)]

\* The deltas add up to the bytes the copies reported: none is counted twice or
\* under the wrong direction, and none is lost, the one that starts the stream
\* included, unless it comes after the end.
BytesConserved ==
  \A d \in Direction :
    LET marked == BytesIn(delivered, d) + BytesIn(pending[d], d) IN
    /\ marked <= moved[d]
    /\ observer /\ (joins \/ ~ended) => marked = moved[d]
    /\ \A g \in Goroutine \ {d} : BytesIn(pending[g], d) = 0

\* If the library waits for its copies, nothing follows stream_ended.
EndedIsLast ==
  joins => \A k \in DOMAIN delivered :
             delivered[k].event = "stream_ended" =>
               k = Len(delivered) /\ \A g \in Goroutine : pending[g] = <<>>

\* When the handler is done and the library waited for its copies, the observer
\* has seen the end of a stream that moved bytes; of one that moved none it has
\* seen a rejection if the proxy failed, opened or not, and else nothing.
NothingOwed ==
  joins /\ observer /\ handler = "done" /\ pending[Handler] = <<>> =>
    /\ moved # NoBytes => Last(delivered).event = "stream_ended"
    /\ ~failed /\ moved = NoBytes => delivered = <<>>
    /\ failed /\ moved = NoBytes =>
         delivered = <<Lifecycle("stream_rejected")>>

\* integration_test.go expects the first observation of a stream to be its
\* start and the deltas to follow (for a library that waits for its copies).
StartedIsFirst ==
  joins /\ delivered # <<>> =>
    Head(delivered).event \in {"stream_started", "stream_rejected"}

\* A stream that was started is ended in the end, if its copies return.
StartedEnds ==
  joins /\ started ~> \E k \in DOMAIN delivered :
                        delivered[k].event = "stream_ended"
=============================================================================
