----------------------------- MODULE ClientProofs -----------------------------
(***************************************************************************)
(* That NOT_SENT is a proof, for requests of any size, handshakes of any   *)
(* length and any limit on redirects, and that the client implements the   *)
(* call the booking lifecycle assumes (SupplierCall).                      *)
(***************************************************************************)
EXTENDS SupplierClient, TLAPS

\* The result is not looked at before the call is over, and only a call that got
\* a connection goes further than the handshake.
Stages == /\ caller \in {"roundTrip", "closing", "body"} => connected
          /\ caller # "done" => result = "none"
          /\ result = "AMBIGUOUS" => connected

\* On the first connection, the counter is never behind the socket by more than
\* the write in progress; whoever reads it for a verdict waited for that write.
FirstHop ==
    hop = 0 =>
        /\ ~connected => /\ writer = "idle" /\ wire = 0 /\ ~reached
                         /\ caller \in {"encode", "dial", "handshake", "failed", "done"}
        /\ connected => caller \notin {"encode", "dial", "handshake"}
        /\ reached => wire > 0
        /\ writer # "onWire" => pending = 0
        /\ connected => wire + baseline <= written + pending
        /\ caller = "failed" => writer \in {"idle", "done"}
        /\ result \in {"NOT_SENT", "PRE_SEND_FAILURE"} =>
               /\ ~reached
               /\ writer \in {"idle", "done"}
               /\ connected => written = baseline

\* The counter never falls behind its value at GotConn.
Counting == baseline <= written

Inv == TypeOK /\ Stages /\ Counting /\ FirstHop

\* classify returns no NOT_SENT and no PRE_SEND_FAILURE.
LEMMA ClassifyAnswers == \A a : classify(a) \in {"REJECTED", "CONFIRMED", "AMBIGUOUS"}
  BY DEF classify

LEMMA InitInv == Init => Inv
<1> SUFFICES ASSUME Init PROVE Inv
  OBVIOUS
<1>1. TypeOK
  <2>1. 0 \in 0 .. MaxRedirects /\ 0 \in 0 .. MaxSetup /\ 0 \in 0 .. RequestBytes
    BY ClientAssumption
  <2> QED
    BY <2>1 DEF Init, TypeOK
<1>2. Stages /\ Counting /\ FirstHop
  BY DEF Init, Stages, Counting, FirstHop
<1> QED
  BY <1>1, <1>2 DEF Inv

LEMMA CallerInv == ASSUME Inv, Caller PROVE Inv'
<1> USE ClientAssumption DEF Inv, TypeOK, Stages, Counting, FirstHop, socketVars, traceVars
<1>1. CASE Prepare
  BY <1>1 DEF Prepare, Return
<1>2. CASE Dial
  BY <1>2 DEF Dial
<1>3. CASE HandshakeWrite
  <2>1. setup' \in 0 .. MaxSetup /\ written' \in Nat
    BY <1>3 DEF HandshakeWrite
  <2>2. TypeOK'
    BY <1>3, <2>1 DEF HandshakeWrite
  <2>3. Stages' /\ Counting' /\ FirstHop'
    BY <1>3 DEF HandshakeWrite
  <2> QED
    BY <2>2, <2>3
<1>4. CASE GotConn
  BY <1>4 DEF GotConn
<1>5. CASE SetupFails
  BY <1>5 DEF SetupFails
<1>6. CASE RoundTripFails
  <2>1. TypeOK'
    BY <1>6 DEF RoundTripFails
  <2>2. Stages' /\ Counting'
    BY <1>6 DEF RoundTripFails
  <2>3. /\ {wire, baseline, written, pending} \subseteq Nat
        /\ wire' = wire /\ baseline' = baseline /\ pending' = pending
        /\ written' = written \/ written' = written + 1
    BY <1>6 DEF RoundTripFails
  <2>4. wire + baseline <= written + pending => wire' + baseline' <= written' + pending'
    <3> HIDE DEF Inv, TypeOK, Stages, Counting, FirstHop
    <3> QED
      BY <2>3
  <2>5. FirstHop'
    BY <1>6, <2>4 DEF RoundTripFails
  <2> QED
    BY <2>1, <2>2, <2>5
<1>7. CASE WriterGone
  BY <1>7 DEF WriterGone
<1>8. CASE Redirected
  <2>1. TypeOK'
    BY <1>8 DEF Redirected
  <2>2. Stages' /\ Counting' /\ FirstHop'
    BY <1>8 DEF Redirected
  <2> QED
    BY <2>1, <2>2
<1>9. CASE Answered
  BY <1>9 DEF Answered
<1>10. CASE BodyFails
  BY <1>10 DEF BodyFails, Return
<1>11. CASE DoFailed
  BY <1>11 DEF DoFailed, Return, ProvesNotSent
<1>12. ASSUME NEW a \in Answer, ReadBody(a) PROVE Inv'
  BY <1>12, ClassifyAnswers DEF ReadBody, Return
<1> QED
  BY <1>1, <1>2, <1>3, <1>4, <1>5, <1>6, <1>7, <1>8, <1>9, <1>10, <1>11, <1>12 DEF Caller

LEMMA WriterInv == ASSUME Inv, Writer PROVE Inv'
<1> USE ClientAssumption DEF Inv, TypeOK, Stages, Counting, FirstHop, socketVars, traceVars
<1>1. CASE CountWrite
  BY <1>1 DEF CountWrite, Counted
<1>2. CASE WriterStops
  BY <1>2 DEF WriterStops
<1>3. ASSUME NEW n \in 0 .. RequestBytes, NEW err \in BOOLEAN, Write(n, err) PROVE Inv'
  BY <1>3 DEF Write
<1> QED
  BY <1>1, <1>2, <1>3 DEF Writer

LEMMA InvHolds == Spec => []Inv
<1>1. Inv /\ [Next]_vars => Inv'
  <2> SUFFICES ASSUME Inv, [Next]_vars PROVE Inv'
    OBVIOUS
  <2>1. CASE Deadline
    BY <2>1 DEF Deadline, socketVars, traceVars, Inv, TypeOK, Stages, Counting, FirstHop
  <2>2. CASE Returned \/ UNCHANGED vars
    BY <2>2 DEF Returned, vars, Inv, TypeOK, Stages, Counting, FirstHop
  <2> QED
    BY <2>1, <2>2, CallerInv, WriterInv DEF Next
<1> QED
  BY <1>1, InitInv, PTL DEF Spec

\* Every variable of the call keeps its type.
THEOREM ClientTypes == Spec => []TypeOK
  BY InvHolds, PTL DEF Inv

\* http.go:84-87.  NOT_SENT and PRE_SEND_FAILURE are proofs unless a redirect
\* was followed, for every interleaving of caller, writer and deadline.
THEOREM NotSentProves == Spec => []NotSentIsProof
<1>1. Inv => NotSentIsProof
  BY DEF Inv, FirstHop, NotSentIsProof
<1> QED
  BY <1>1, InvHolds, PTL

\* http.go:89-92.  A call that never got a connection is not in doubt.
THEOREM DoubtNeedsConnection == Spec => []SetupIsNotSent
<1>1. Inv => SetupIsNotSent
  BY DEF Inv, Stages, SetupIsNotSent
<1> QED
  BY <1>1, InvHolds, PTL

-----------------------------------------------------------------------------
(* The call as the lifecycle sees it, on its first connection. *)

Proven == {"NOT_SENT", "PRE_SEND_FAILURE"}

Received == {"CONFIRMED", "REJECTED", "AMBIGUOUS"}

\* A request that may have been received may have been received ever after.
LEMMA ExposedStays == ASSUME Inv, Next, hop' = 0, Exposed PROVE Exposed'
<1> USE DEF Inv, TypeOK, Stages, Counting, FirstHop, Exposed, socketVars, traceVars
<1>1. CASE Prepare \/ Dial \/ HandshakeWrite \/ GotConn
  BY <1>1 DEF Prepare, Dial, HandshakeWrite, GotConn, Return
<1>2. CASE SetupFails \/ RoundTripFails \/ WriterGone \/ Redirected \/ Answered
  BY <1>2, ClientAssumption DEF SetupFails, RoundTripFails, WriterGone, Redirected, Answered
<1>3. CASE BodyFails \/ DoFailed \/ Deadline \/ Returned
  BY <1>3 DEF BodyFails, DoFailed, Deadline, Returned, Return, vars
<1>4. ASSUME NEW a \in Answer, ReadBody(a) PROVE Exposed'
  BY <1>4, ClassifyAnswers DEF ReadBody, Return
<1>5. CASE CountWrite \/ WriterStops
  BY <1>5 DEF CountWrite, Counted, WriterStops
<1>6. ASSUME NEW n \in 0 .. RequestBytes, NEW err \in BOOLEAN, Write(n, err) PROVE Exposed'
  BY <1>6 DEF Write
<1> QED
  BY <1>1, <1>2, <1>3, <1>4, <1>5, <1>6 DEF Next, Caller, Writer

\* What a returned call proved is not taken back: nothing moves any more.
LEMMA ProofStays ==
    ASSUME Inv, Next, hop' = 0, result \in Proven
    PROVE  result' = result /\ ~Exposed /\ ~Exposed'
<1>1. /\ hop = 0 /\ caller = "done" /\ writer \in {"idle", "done"} /\ ~reached
      /\ connected => written = baseline
  <2>1. caller = "done"
    BY DEF Inv, Stages, Proven
  <2>2. hop = 0
    BY <2>1 DEF Next, Caller, Writer, Prepare, Dial, HandshakeWrite, GotConn, SetupFails,
                RoundTripFails, WriterGone, Redirected, Answered, BodyFails, DoFailed, ReadBody,
                CountWrite, WriterStops, Write, Deadline, Returned, vars
  <2> QED
    BY <2>1, <2>2 DEF Inv, FirstHop, Proven
<1>2. UNCHANGED vars
  BY <1>1 DEF Next, Caller, Writer, Prepare, Dial, HandshakeWrite, GotConn, SetupFails,
              RoundTripFails, WriterGone, Redirected, Answered, BodyFails, DoFailed, ReadBody,
              CountWrite, WriterStops, Write, Deadline, Returned
<1>3. ~Exposed
  BY <1>1 DEF Exposed, Proven
<1> QED
  BY <1>2, <1>3 DEF vars, Exposed

\* A call returns once, and what it returns fits what may have been received.
LEMMA ReturnsFit ==
    ASSUME Inv, Next, hop' = 0, result' # result
    PROVE  /\ result = "none"
           /\ \/ result' \in Proven /\ ~Exposed /\ ~Exposed'
              \/ result' \in Received /\ Exposed /\ Exposed'
<1> USE DEF Inv, TypeOK, Stages, FirstHop, Exposed, Return, socketVars, traceVars, Proven, Received
<1>1. CASE Prepare
  BY <1>1 DEF Prepare
<1>2. CASE BodyFails
  BY <1>2 DEF BodyFails
<1>3. CASE DoFailed
  BY <1>3 DEF DoFailed, ProvesNotSent
<1>4. ASSUME NEW a \in Answer, ReadBody(a)
      PROVE  /\ result = "none"
             /\ result' \in Received /\ Exposed /\ Exposed'
  BY <1>4, ClassifyAnswers DEF ReadBody
<1>5. Prepare \/ BodyFails \/ DoFailed \/ \E a \in Answer : ReadBody(a)
  BY DEF Next, Caller, Writer, Dial, HandshakeWrite, GotConn, SetupFails, RoundTripFails,
         WriterGone, Redirected, Answered, CountWrite, WriterStops, Write, Deadline, Returned, vars
<1> QED
  BY <1>1, <1>2, <1>3, <1>4, <1>5

\* supplier.go:11-21.  Up to its first redirect, for every size of request and
\* every interleaving, the call is the one the lifecycle is proved with: its
\* steps are an exposure, a return that fits it, or nothing.
THEOREM CallContractHolds == Spec => KeepsCallContract
<1>1. Init => Call!CallInit
  BY DEF Init, Call!CallInit, Exposed
<1>2. Inv /\ [Next]_vars => [hop' = 0 => Call!CallNext \/ UNCHANGED Call!callVars]_vars
  <2> SUFFICES ASSUME Inv, Next, hop' = 0 PROVE Call!CallNext \/ UNCHANGED Call!callVars
    OBVIOUS
  <2>1. Exposed \in BOOLEAN /\ Exposed' \in BOOLEAN
    BY DEF Exposed
  <2>2. CASE result' # result
    <3>1. result = "none"
      BY <2>2, ReturnsFit
    <3>2. CASE result' \in Proven /\ ~Exposed /\ ~Exposed'
      BY <2>1, <3>1, <3>2 DEF Call!CallNext, Call!ReturnProof, Call!Proofs, Proven
    <3>3. CASE result' \in Received /\ Exposed /\ Exposed'
      BY <2>1, <3>1, <3>3 DEF Call!CallNext, Call!ReturnWord, Call!Words, Received
    <3> QED
      BY <2>2, <3>2, <3>3, ReturnsFit
  <2>3. CASE result' = result /\ result = "none"
    BY <2>1, <2>3, ExposedStays DEF Call!CallNext, Call!Expose, Call!callVars
  <2>4. CASE result' = result /\ result \in Proven
    BY <2>1, <2>4, ProofStays DEF Call!callVars
  <2>5. CASE result' = result /\ result \in Received
    <3>1. Exposed /\ Exposed'
      BY <2>5 DEF Exposed, Received
    <3> QED
      BY <2>1, <2>5, <3>1 DEF Call!callVars
  <2> QED
    BY <2>2, <2>3, <2>4, <2>5 DEF Inv, TypeOK, Proven, Received
<1> QED
  BY <1>1, <1>2, InvHolds, PTL DEF Spec, KeepsCallContract
=============================================================================
