-------------------------- MODULE LoggingTransport --------------------------
(***************************************************************************)
(* pkg/non2xx_log.go: the transport under the GitHub client reads the      *)
(* beginning of the body of every response that is not a success, for its  *)
(* log line, and hands a body on from which the client reads again.  The   *)
(* client tells a rate limit from other failures by that body.             *)
(*                                                                         *)
(* The call "request" is one HTTP request taken by itself.  Bytes are told *)
(* apart by their position and read one at a time: neither reader depends  *)
(* on how many a Read returns.                                             *)
(***************************************************************************)
EXTENDS ApiCall

CONSTANTS
  PeekBytes,  \* non2xxPeekBytes
  MaxBody     \* bound: bytes of a body that arrive

ASSUME LoggingTransportAssumption ==
  /\ PeekBytes \in Nat \ {0}
  /\ MaxBody \in Nat

VARIABLES
  phase,     \* "sent", "peeking" into the body or "handed" to the client
  sent,      \* the bytes of the body that arrive
  breaks,    \* the connection breaks after them
  source,    \* those not read from the connection yet
  met,       \* the transport has been given the error of a broken connection
  peeked,    \* the bytes the transport has read and the client has not
  rest,      \* what the body has after those: the "source" or the "error"
  received   \* the bytes the client has read

bodyVars == <<phase, sent, breaks, source, met, peeked, rest, received>>

TransportIdle ==
  /\ phase = "sent"
  /\ sent = <<>>
  /\ breaks = FALSE
  /\ source = <<>>
  /\ met = FALSE
  /\ peeked = <<>>
  /\ rest = "source"
  /\ received = <<>>

ForgetResponse ==
  /\ phase' = "sent"
  /\ sent' = <<>>
  /\ breaks' = FALSE
  /\ source' = <<>>
  /\ met' = FALSE
  /\ peeked' = <<>>
  /\ rest' = "source"
  /\ received' = <<>>

BeginRequest ==
  /\ Begin("request")
  /\ UNCHANGED bodyVars

Body(n) == [i \in 1..n |-> i]

\* The inner transport has a response.  A success passes untouched.
RoundTrip ==
  /\ op = "request"
  /\ phase = "sent"
  /\ ~cancelled
  /\ phase' \in {"peeking", "handed"}
  /\ \E n \in 0..MaxBody : sent' = Body(n) /\ source' = Body(n)
  /\ breaks' \in BOOLEAN
  /\ UNCHANGED <<callVars, met, peeked, rest, received>>

\* An error of the inner transport passes as well.
RoundTripFails ==
  /\ op = "request"
  /\ phase = "sent"
  /\ Return(Failed)
  /\ ForgetResponse

Peek ==
  /\ op = "request"
  /\ phase = "peeking"
  /\ Len(peeked) < PeekBytes
  /\ source # <<>>
  /\ peeked' = Append(peeked, Head(source))
  /\ source' = Tail(source)
  /\ UNCHANGED <<callVars, phase, sent, breaks, met, rest, received>>

\* Mutant: the body goes on with the source whatever that gave before.
FollowsSource(error) == "source"

\* What the client reads after the peeked bytes.
Follows(error) == IF error THEN "error" ELSE "source"

\* The peek is over.  It has met the error of a broken connection if it read
\* to the end, and may have if the error came together with the last byte
\* that it takes.
HandOver ==
  /\ op = "request"
  /\ phase = "peeking"
  /\ Len(peeked) = PeekBytes \/ source = <<>>
  /\ met' \in BOOLEAN
  /\ met' => source = <<>> /\ breaks
  /\ source = <<>> /\ breaks /\ Len(peeked) < PeekBytes => met'
  /\ rest' = Follows(met')
  /\ phase' = "handed"
  /\ UNCHANGED <<callVars, sent, breaks, source, peeked, received>>

\* The client reads on, first what the transport has read before it.
ReadPrefix ==
  /\ op = "request"
  /\ phase = "handed"
  /\ peeked # <<>>
  /\ received' = Append(received, Head(peeked))
  /\ peeked' = Tail(peeked)
  /\ UNCHANGED <<callVars, phase, sent, breaks, source, met, rest>>

ReadSource ==
  /\ op = "request"
  /\ phase = "handed"
  /\ peeked = <<>>
  /\ rest = "source"
  /\ source # <<>>
  /\ received' = Append(received, Head(source))
  /\ source' = Tail(source)
  /\ UNCHANGED <<callVars, phase, sent, breaks, met, peeked, rest>>

\* Nothing makes a source give its error a second time.
ReadEnds ==
  /\ op = "request"
  /\ phase = "handed"
  /\ peeked = <<>>
  /\ \/ rest = "error" /\ Return(Failed)
     \/ rest = "source" /\ source = <<>> /\ breaks /\ ~met /\ Return(Failed)
     \/ rest = "source" /\ source = <<>> /\ (met \/ ~breaks) /\ Return([kind |-> "ok"])
  /\ ForgetResponse

TransportStep ==
  \/ RoundTrip
  \/ RoundTripFails
  \/ Peek
  \/ HandOver
  \/ ReadPrefix
  \/ ReadSource
  \/ ReadEnds

-----------------------------------------------------------------------------
(* Properties *)

\* The client reads every byte that arrived, once and in order, however many
\* of them were peeked at, and learns that a connection broke even if the
\* error was given to the transport: non2xx_log.go:63.
BodyIsKept ==
  [][op = "request" /\ phase = "handed" /\ op' = "none" =>
       /\ received = sent
       /\ answer'.kind = "failed" <=> breaks]_<<callVars, bodyVars>>

=============================================================================
