---------------------------- MODULE SupplierClient ----------------------------
(***************************************************************************)
(* One call of supplier.HTTPClient.Book (internal/supplier/http.go and     *)
(* conn.go): the goroutine that called it, the goroutine of net/http that  *)
(* writes the request, and the counter they share.  The whole lifecycle    *)
(* rests on one claim of this code: NOT_SENT and PRE_SEND_FAILURE mean     *)
(* that no byte of the request left.                                       *)
(*                                                                         *)
(* net/http is outside the repository.  What is used of it: a request is   *)
(* written by a goroutine of its own, piece by piece; Do waits for that    *)
(* goroutine before it reports a failed round trip; a redirect is a new    *)
(* round trip on a new connection with the same context, so with the same  *)
(* counter and the same trace.  Keep-alives are off: nothing is replayed.  *)
(***************************************************************************)
EXTENDS Naturals

CONSTANTS
    MaxSetup,       \* writes a TLS handshake makes before GotConn
    RequestBytes,   \* bytes of the request
    MaxRedirects    \* redirects the HTTP client follows before it gives up

ASSUME ClientAssumption == /\ MaxSetup \in Nat
                           /\ RequestBytes \in Nat \ {0}
                           /\ MaxRedirects \in Nat

VARIABLES
    caller,     \* where Book is
    expired,    \* the deadline of the context has passed
    hop,        \* redirects followed
    setup,      \* handshake writes on this connection
    wire,       \* request bytes given to the socket on this connection
    reached,    \* history: request bytes left, on any connection
    writer,     \* the writing goroutine: idle, writing, onWire, done
    pending,    \* bytes on the wire that countingConn.Write has not added yet
    failing,    \* the write in progress returns an error with its count
    written,    \* the counter
    baseline,   \* its value at GotConn
    connected,  \* GotConn was called
    result      \* what Book returned

vars == <<caller, expired, hop, setup, wire, reached, writer, pending, failing,
          written, baseline, connected, result>>

socketVars == <<setup, wire, reached, writer, pending, failing, written>>
traceVars  == <<baseline, connected>>

\* The parts of an answer that classify tells apart.
Answer == [declined : BOOLEAN, ok : BOOLEAN, confirmed : BOOLEAN, reference : BOOLEAN]

\* A recognized decline first, whatever the status code; then a full confirmation.
classify(a) ==
    IF a.declined THEN "REJECTED"
    ELSE IF a.ok /\ a.confirmed /\ a.reference THEN "CONFIRMED"
    ELSE "AMBIGUOUS"

\* What a failed Do proves.
\* Mutants: handshake bytes count as the request's; any failure is NOT_SENT.
ProvesNotSentByCount == written = baseline
ProvesNotSent == ~connected \/ written = baseline

Init == /\ caller = "encode"
        /\ expired = FALSE
        /\ hop = 0
        /\ setup = 0 /\ wire = 0 /\ reached = FALSE
        /\ writer = "idle" /\ pending = 0 /\ failing = FALSE
        /\ written = 0 /\ baseline = 0 /\ connected = FALSE
        /\ result = "none"

Return(o) == caller' = "done" /\ result' = o

-----------------------------------------------------------------------------
(* The calling goroutine. *)

\* Encoding the payload or building the request fails, or neither does.
Prepare ==
    /\ caller = "encode"
    /\ \/ Return("PRE_SEND_FAILURE")
       \/ caller' = "dial" /\ UNCHANGED result
    /\ UNCHANGED <<expired, hop, socketVars, traceVars>>

\* dialCounting wraps the new connection around the counter of the context.
Dial ==
    /\ caller = "dial"
    /\ caller' = "handshake"
    /\ setup' = 0 /\ wire' = 0 /\ writer' = "idle"
    /\ UNCHANGED <<expired, hop, reached, pending, failing, written, traceVars, result>>

HandshakeWrite ==
    /\ caller = "handshake"
    /\ setup < MaxSetup
    /\ setup' = setup + 1
    /\ written' = written + 1
    /\ UNCHANGED <<caller, expired, hop, wire, reached, writer, pending, failing, traceVars, result>>

\* The connection is established: the trace marks it, the request is handed over.
GotConn ==
    /\ caller = "handshake"
    /\ baseline' = written
    /\ connected' = TRUE
    /\ caller' = "roundTrip"
    /\ writer' = "writing"
    /\ UNCHANGED <<expired, hop, setup, wire, reached, pending, failing, written, result>>

\* Dial or handshake fails, or the deadline passes in it: Do reports at once.
SetupFails ==
    /\ caller \in {"dial", "handshake"}
    /\ caller' = "failed"
    /\ UNCHANGED <<expired, hop, socketVars, traceVars, result>>

\* The connection breaks or the deadline passes: it is closed, on TLS with a
\* last alert through the same counter, and Do waits for the writer.
RoundTripFails ==
    /\ caller = "roundTrip"
    /\ caller' = "closing"
    /\ written' \in {written, written + 1}
    /\ UNCHANGED <<expired, hop, setup, wire, reached, writer, pending, failing, traceVars, result>>

WriterGone ==
    /\ caller = "closing"
    /\ writer = "done"
    /\ caller' = "failed"
    /\ UNCHANGED <<expired, hop, socketVars, traceVars, result>>

\* A redirect starts over on another connection; the counter goes on.  Past the
\* limit of the HTTP client it is an error.
\* Mutant: there is no limit.
RedirectedForever ==
    /\ caller = "roundTrip"
    /\ writer = "done"
    /\ wire > 0
    /\ caller' = "dial"
    /\ hop' = hop + 1
    /\ UNCHANGED <<expired, socketVars, traceVars, result>>

Redirected ==
    /\ caller = "roundTrip"
    /\ writer = "done"
    /\ wire > 0
    /\ IF hop < MaxRedirects
       THEN caller' = "dial" /\ hop' = hop + 1
       ELSE caller' = "failed" /\ UNCHANGED hop
    /\ UNCHANGED <<expired, socketVars, traceVars, result>>

\* The headers of an answer, possibly before the request was fully written.
Answered ==
    /\ caller = "roundTrip"
    /\ caller' = "body"
    /\ UNCHANGED <<expired, hop, socketVars, traceVars, result>>

ReadBody(a) ==
    /\ caller = "body"
    /\ Return(classify(a))
    /\ UNCHANGED <<expired, hop, socketVars, traceVars>>

\* io.ReadAll fails: the connection breaks, or the deadline cancels the body.
\* Mutants: the deadline covers Do only, so the supplier decides; the counter is
\* asked although there was an answer.
BodyFailsUntimed ==
    /\ caller = "body"
    /\ ~expired
    /\ Return("AMBIGUOUS")
    /\ UNCHANGED <<expired, hop, socketVars, traceVars>>

BodyFailsByCount ==
    /\ caller = "body"
    /\ Return(IF ProvesNotSent THEN "NOT_SENT" ELSE "AMBIGUOUS")
    /\ UNCHANGED <<expired, hop, socketVars, traceVars>>

BodyFails ==
    /\ caller = "body"
    /\ Return("AMBIGUOUS")
    /\ UNCHANGED <<expired, hop, socketVars, traceVars>>

DoFailed ==
    /\ caller = "failed"
    /\ Return(IF ProvesNotSent THEN "NOT_SENT" ELSE "AMBIGUOUS")
    /\ UNCHANGED <<expired, hop, socketVars, traceVars>>

Deadline ==
    /\ caller \notin {"encode", "done"}
    /\ ~expired
    /\ expired' = TRUE
    /\ UNCHANGED <<caller, hop, socketVars, traceVars, result>>

-----------------------------------------------------------------------------
(* The writing goroutine. *)

\* countingConn.Write, the system call: some bytes leave, perhaps with an error.
Write(n, err) ==
    /\ writer = "writing"
    /\ wire + n <= RequestBytes
    /\ n > 0 \/ err
    /\ wire' = wire + n
    /\ reached' = (reached \/ n > 0)
    /\ pending' = n
    /\ failing' = err
    /\ writer' = "onWire"
    /\ UNCHANGED <<caller, expired, hop, setup, written, traceVars, result>>

\* countingConn.Write, the addition: what left counts, whatever the error.
\* Mutant: a write that failed part way is not counted.
CountedIfNoError == IF failing THEN 0 ELSE pending
Counted == pending

CountWrite ==
    /\ writer = "onWire"
    /\ written' = written + Counted
    /\ pending' = 0
    /\ writer' = IF failing \/ wire = RequestBytes THEN "done" ELSE "writing"
    /\ UNCHANGED <<caller, expired, hop, setup, wire, reached, failing, traceVars, result>>

\* A write on a connection that was closed fails without a byte.
WriterStops ==
    /\ writer = "writing"
    /\ caller \notin {"roundTrip"}
    /\ writer' = "done"
    /\ UNCHANGED <<caller, expired, hop, setup, wire, reached, pending, failing, written,
                   traceVars, result>>

Returned == caller = "done" /\ writer \in {"idle", "done"} /\ UNCHANGED vars

Caller == \/ Prepare \/ Dial \/ HandshakeWrite \/ GotConn \/ SetupFails \/ RoundTripFails
          \/ WriterGone \/ Redirected \/ Answered \/ BodyFails \/ DoFailed
          \/ \E a \in Answer : ReadBody(a)

Writer == \/ CountWrite \/ WriterStops
          \/ \E n \in 0 .. RequestBytes, err \in BOOLEAN : Write(n, err)

Next == Caller \/ Writer \/ Deadline \/ Returned

Spec == Init /\ [][Next]_vars

-----------------------------------------------------------------------------
\* Every variable has its type, and the bytes of a connection never exceed the
\* request.
TypeOK ==
    /\ caller \in {"encode", "dial", "handshake", "roundTrip", "closing", "failed", "body", "done"}
    /\ writer \in {"idle", "writing", "onWire", "done"}
    /\ hop \in 0 .. MaxRedirects
    /\ setup \in 0 .. MaxSetup
    /\ wire \in 0 .. RequestBytes
    /\ pending \in 0 .. RequestBytes
    /\ written \in Nat
    /\ baseline \in Nat
    /\ {expired, reached, failing, connected} \subseteq BOOLEAN
    /\ result \in {"none", "CONFIRMED", "REJECTED", "AMBIGUOUS", "NOT_SENT", "PRE_SEND_FAILURE"}

\* http.go:84-87.  Unless a redirect was followed, NOT_SENT and PRE_SEND_FAILURE
\* are proofs: no byte of the request has left, and none leaves after Book
\* returned, however its two goroutines and its deadline interleave.
NotSentIsProof ==
    hop = 0 /\ result \in {"NOT_SENT", "PRE_SEND_FAILURE"} => ~reached

\* supplier.go:19.  NOT_SENT is a proof without exception.  A followed redirect
\* is one: its connection moves the baseline past what the first one carried.
NoBytesEverLeft == result = "NOT_SENT" => ~reached

\* http.go:89-92.  A call that never got a connection is not in doubt, whatever
\* bytes its handshake wrote.
SetupIsNotSent == result = "AMBIGUOUS" => connected

\* The call as the lifecycle sees it.  The request counts as received from the
\* first byte that left or was counted, or once there is an answer to it.
Exposed == \/ reached
           \/ connected /\ written # baseline
           \/ caller = "body"
           \/ result \in {"CONFIRMED", "REJECTED", "AMBIGUOUS"}

Call == INSTANCE SupplierCall WITH outcome <- result, exposed <- Exposed

\* supplier.go:11-21.  Up to its first redirect, the call is the one BookingRun
\* assumes: nothing leaves once NOT_SENT or PRE_SEND_FAILURE was returned, every
\* other outcome is about a request that may have been received, and a call
\* returns once.
KeepsCallContract ==
    Call!CallInit /\ [][hop' = 0 => Call!CallNext \/ UNCHANGED Call!callVars]_vars

\* The deadline bounds the call: the calling goroutine goes on once it can, and
\* the writer is not stuck in a closed connection.  The supplier owes nothing.
Unblocks == \/ Prepare \/ WriterGone \/ DoFailed
            \/ expired /\ (SetupFails \/ RoundTripFails \/ BodyFails)

FairSpec == /\ Spec
            /\ WF_vars(Deadline)
            /\ WF_vars(Unblocks)
            /\ WF_vars(CountWrite \/ WriterStops)

\* http.go:81-82.  Book returns: the deadline covers dial, handshake, round trip
\* and the reading of the body.
BookEnds == <>(caller = "done")
=============================================================================
