----------------------- MODULE WorkerSessions_proofs -----------------------
(***************************************************************************)
(* For any sessions, any messages of the runtime and any handlers: streams *)
(* are closed once, and every answer is well formed and comes to an end.   *)
(***************************************************************************)
EXTENDS WorkerSessions, SequenceTheorems, FiniteSetTheorems, TLAPS

USE DEF v1UtilitySession, v1Invoke, v1Write, v1Error, v1Close, NoStream

(***************************************************************************)
(* The inductive invariant.  Session numbers only grow, so no two          *)
(* invocations share one (NumbersGrow); what is beyond the invocations is  *)
(* untouched (NothingAhead); a session nobody was invoked for was sent     *)
(* nothing, and one with an open response nothing final (OpenUntilFinal);  *)
(* a closed response did send its final message, unless the socket was     *)
(* closed (ClosedIsFinal).                                                 *)
(***************************************************************************)
NumbersGrow ==
    /\ \A i \in 1..Len(invocations) : invocations[i] <= maxSession
    /\ \A i, j \in 1..Len(invocations) : i < j => invocations[i] < invocations[j]

NothingAhead ==
    \A i \in Invocation : i > Len(invocations) =>
        handler[i] = "none" /\ ~closed[i] /\ closes[i] = 0

OpenUntilFinal ==
    /\ \A s \in Session : s > maxSession => sent[s] = <<>>
    /\ \A i \in 1..Len(invocations) : ~closed[i] =>
          \A k \in DOMAIN sent[invocations[i]] : sent[invocations[i]][k] \notin Final

ClosedIsFinal ==
    \A i \in 1..Len(invocations) :
        /\ handler[i] = "done" => closed[i]
        /\ closed[i] /\ ~connClosed =>
              /\ sent[invocations[i]] # <<>>
              /\ sent[invocations[i]][Len(sent[invocations[i]])] \in Final

SessionsInv ==
    /\ TypeOK
    /\ NumbersGrow
    /\ NothingAhead
    /\ StreamsAreClosedOnce
    /\ OpenUntilFinal
    /\ OneFinalMessage
    /\ ClosedIsFinal

(***************************************************************************)
(* The dispatcher and the handlers keep the types of the worker's maps and *)
(* of the streams and responses.                                           *)
(***************************************************************************)
THEOREM TypeCorrect == Spec => []TypeOK
<1>1. Init => TypeOK
  <2> SUFFICES ASSUME Init PROVE TypeOK
    OBVIOUS
  <2>1. /\ <<>> \in Seq(Message) /\ <<>> \in Seq(Session) /\ Len(<<>>) = 0
        /\ <<>> \in Seq({v1Write, v1Error}) /\ <<>> \in Seq({v1Write, v1Error, v1Close})
    BY EmptySeq
  <2>2. /\ pushed \in [Invocation -> Seq({v1Write, v1Error})]
        /\ sent \in [Session -> Seq({v1Write, v1Error, v1Close})]
    BY <2>1 DEF Init
  <2>3. /\ sessions \in [Session -> Invocation \cup {NoStream}]
        /\ closes \in [Invocation -> Nat]
        /\ handler \in [Invocation -> {"none", "running", "done"}]
        /\ closed \in [Invocation -> BOOLEAN]
    BY DEF Init
  <2>4. /\ arrived \in Seq(Message) /\ invocations \in Seq(Session)
        /\ Len(invocations) <= Len(arrived) /\ Len(arrived) <= MaxArrived
    BY <2>1, SessionsAssumption DEF Init
  <2> QED
    BY <2>2, <2>3, <2>4 DEF Init, TypeOK
<1>2. TypeOK /\ [Next]_vars => TypeOK'
  <2> SUFFICES ASSUME TypeOK, [Next]_vars PROVE TypeOK'
    OBVIOUS
  <2> USE SessionsAssumption DEF streamVars, replyVars
  <2>1. ASSUME NEW msg \in Message, OnMessage(msg) PROVE TypeOK'
    <3>1. /\ msg.session \in Session /\ msg.type \in 0..3
          /\ Len(invocations) \in Nat /\ Len(arrived) \in Nat
      BY LenProperties DEF Message, Type, TypeOK
    <3>2. Arrives(msg)
      BY <2>1 DEF OnMessage, OnBadStart, OnCorruptedInvoke, OnInvoke,
                  OnChunkOrError, OnChoke, OnStray
    <3>3. /\ arrived' \in Seq(Message) /\ Len(arrived') = Len(arrived) + 1
          /\ Len(arrived) < MaxArrived
      BY <3>2, AppendProperties DEF Arrives, TypeOK
    <3>4. CASE OnBadStart(msg) \/ OnCorruptedInvoke(msg) \/ OnStray(msg)
      BY <3>1, <3>3, <3>4 DEF OnBadStart, OnCorruptedInvoke, OnStray, TypeOK
    <3>5. CASE OnInvoke(msg)
      <4>1. /\ Len(invocations) + 1 \in Invocation
            /\ invocations' \in Seq(Session)
            /\ Len(invocations') = Len(invocations) + 1
        BY <3>1, <3>3, <3>5, AppendProperties DEF OnInvoke, TypeOK, Invocation
      <4> QED
        BY <3>1, <3>3, <3>5, <4>1 DEF OnInvoke, TypeOK
    <3>6. CASE OnChunkOrError(msg)
      <4>1. sessions[msg.session] \in Invocation
        BY <3>1, <3>6 DEF OnChunkOrError, Registered, TypeOK
      <4>2. Append(pushed[sessions[msg.session]], msg.type) \in Seq({v1Write, v1Error})
        BY <3>6, <4>1, AppendProperties DEF OnChunkOrError, TypeOK
      <4>3. pushed' \in [Invocation -> Seq({v1Write, v1Error})]
        BY <3>6, <4>1, <4>2 DEF OnChunkOrError, TypeOK
      <4>4. UNCHANGED <<maxSession, sessions, invocations, closes, handler, closed, sent,
                        connClosed, panicked>>
        BY <3>6 DEF OnChunkOrError
      <4>5. Len(invocations) <= Len(arrived') /\ Len(arrived') <= MaxArrived
        BY <3>1, <3>3 DEF TypeOK
      <4> QED
        BY <3>3, <4>3, <4>4, <4>5 DEF TypeOK
    <3>7. CASE OnChoke(msg)
      <4>1. sessions[msg.session] \in Invocation
        BY <3>1, <3>7 DEF OnChoke, Registered, TypeOK
      <4> QED
        BY <3>1, <3>3, <3>7, <4>1 DEF OnChoke, TypeOK
    <3> QED
      BY <2>1, <3>4, <3>5, <3>6, <3>7 DEF OnMessage
  <2>2. ASSUME NEW i \in Invocation, Handler(i) PROVE TypeOK'
    <3>1. ASSUME NEW t \in {v1Write, v1Error, v1Close}, Send(i, t)
          PROVE  sent' \in [Session -> Seq({v1Write, v1Error, v1Close})]
      <4> DEFINE S == {v1Write, v1Error, v1Close}
      <4>1. ASSUME NEW s \in Session PROVE Append(sent[s], t) \in Seq(S)
        BY AppendProperties DEF TypeOK
      <4> HIDE DEF S
      <4>2. CASE sent' = [sent EXCEPT ![SessionOf(i)] = Append(sent[SessionOf(i)], t)]
        BY <4>1, <4>2 DEF TypeOK, S
      <4> QED
        BY <3>1, <4>2 DEF Send, TypeOK, S
    <3>2. CASE Write(i)
      BY <3>1, <3>2 DEF Write, TypeOK
    <3>3. ASSUME NEW t \in {v1Error, v1Close}, End(i, t)
          PROVE  /\ sent' \in [Session -> Seq({v1Write, v1Error, v1Close})]
                 /\ closed' \in [Invocation -> BOOLEAN]
      BY <3>1, <3>3 DEF End, TypeOK
    <3>4. CASE HandlerEnds(i)
      BY <3>3, <3>4 DEF HandlerEnds, TypeOK
    <3>5. CASE HandlerReturns(i)
      BY <3>3, <3>5 DEF HandlerReturns, TypeOK
    <3> QED
      BY <2>2, <3>2, <3>4, <3>5 DEF Handler
  <2>3. CASE ConnCloses
    BY <2>3 DEF ConnCloses, TypeOK
  <2>4. CASE UNCHANGED vars
    BY <2>4 DEF vars, TypeOK
  <2> QED
    BY <2>1, <2>2, <2>3, <2>4 DEF Next
<1> QED
  BY <1>1, <1>2, PTL DEF Spec

(***************************************************************************)
(* A running handler is one of the invocations, of a session that was      *)
(* asked for, and no other invocation has that session.                    *)
(***************************************************************************)
LEMMA RunningIsInvoked ==
    ASSUME SessionsInv, NEW i \in Invocation, handler[i] = "running"
    PROVE  /\ i \in 1..Len(invocations)
           /\ SessionOf(i) \in Session /\ SessionOf(i) <= maxSession
           /\ \A j \in 1..Len(invocations) : j # i => invocations[j] # SessionOf(i)
<1>1. Len(invocations) \in Nat
  BY LenProperties DEF SessionsInv, TypeOK
<1>2. i \in 1..Len(invocations)
  BY <1>1, SessionsAssumption DEF SessionsInv, NothingAhead, Invocation
<1>3. SessionOf(i) \in Session /\ SessionOf(i) <= maxSession
  BY <1>2, ElementOfSeq DEF SessionsInv, TypeOK, NumbersGrow, SessionOf
<1>4. ASSUME NEW j \in 1..Len(invocations), j # i
      PROVE  invocations[j] # invocations[i]
  <2>1. invocations[j] \in Nat /\ invocations[i] \in Nat
    BY <1>2, ElementOfSeq, SessionsAssumption DEF SessionsInv, TypeOK
  <2>2. i < j \/ j < i
    BY <1>2, <1>4
  <2> QED
    BY <1>2, <2>1, <2>2 DEF SessionsInv, NumbersGrow
<1> QED
  BY <1>2, <1>3, <1>4 DEF SessionOf

(***************************************************************************)
(* Sending appends to the session's own messages and to no others.         *)
(***************************************************************************)
LEMMA SendAppends ==
    ASSUME SessionsInv, NEW s \in Session, NEW t \in {v1Write, v1Error, v1Close},
           sent' = [sent EXCEPT ![s] = Append(@, t)]
    PROVE  /\ Len(sent[s]) \in Nat
           /\ DOMAIN sent[s] = 1..Len(sent[s])
           /\ DOMAIN sent'[s] = 1..(Len(sent[s]) + 1)
           /\ Len(sent'[s]) = Len(sent[s]) + 1
           /\ sent'[s] # <<>>
           /\ sent'[s][Len(sent[s]) + 1] = t
           /\ \A k \in 1..Len(sent[s]) : sent'[s][k] = sent[s][k]
           /\ \A r \in Session : r # s => sent'[r] = sent[r]
<1> DEFINE S == {v1Write, v1Error, v1Close}
<1>1. sent[s] \in Seq(S) /\ sent'[s] = Append(sent[s], t)
  BY DEF SessionsInv, TypeOK
<1>2. \A r \in Session : r # s => sent'[r] = sent[r]
  BY DEF SessionsInv, TypeOK
<1> HIDE DEF S
<1>3. t \in S
  BY DEF S
<1> QED
  BY <1>1, <1>2, <1>3, AppendProperties, LenProperties

(***************************************************************************)
(* Starting a handler (onInvoke) keeps the invariant.                      *)
(***************************************************************************)
LEMMA InvokeStep ==
    ASSUME SessionsInv, TypeOK', NEW msg \in Message, OnInvoke(msg)
    PROVE  SessionsInv'
<1> DEFINE n == Len(invocations)
           s == msg.session
<1>1. s \in Session /\ s \in Nat /\ n \in Nat /\ maxSession \in Nat /\ maxSession < s
  BY LenProperties, SessionsAssumption DEF Message, SessionsInv, TypeOK, OnInvoke, IsNew
<1>2. /\ Len(invocations') = n + 1 /\ invocations'[n + 1] = s
      /\ \A i \in 1..n : invocations'[i] = invocations[i]
  BY <1>1, AppendProperties DEF OnInvoke, SessionsInv, TypeOK
<1>3. ASSUME NEW i \in 1..n
      PROVE  invocations[i] \in Session /\ invocations[i] \in Nat /\ invocations[i] < s
  <2>1. invocations[i] \in Session /\ invocations[i] \in Nat
    BY ElementOfSeq, SessionsAssumption DEF SessionsInv, TypeOK
  <2>2. invocations[i] <= maxSession
    BY DEF SessionsInv, NumbersGrow
  <2> QED
    BY <1>1, <2>1, <2>2
<1>4. n + 1 \in Invocation
  BY <1>1, LenProperties, SessionsAssumption DEF OnInvoke, Arrives, Invocation, SessionsInv, TypeOK
<1>5. /\ maxSession' = s
      /\ sessions' = [sessions EXCEPT ![s] = n + 1]
      /\ handler' = [handler EXCEPT ![n + 1] = "running"]
      /\ UNCHANGED <<pushed, closes, closed, sent, connClosed>>
  BY DEF OnInvoke, streamVars
<1>6. handler[n + 1] = "none" /\ ~closed[n + 1] /\ closes[n + 1] = 0
  BY <1>1, <1>4 DEF SessionsInv, NothingAhead
<1>7. handler'[n + 1] = "running" /\ \A i \in Invocation : i # n + 1 => handler'[i] = handler[i]
  BY <1>4, <1>5 DEF SessionsInv, TypeOK
<1> HIDE DEF n, s
<1>8. NumbersGrow'
  <2>1. \A i \in 1..n + 1 : invocations'[i] <= s
    BY <1>1, <1>2, <1>3
  <2>2. ASSUME NEW i \in 1..n + 1, NEW j \in 1..n + 1, i < j
        PROVE  invocations'[i] < invocations'[j]
    <3>1. CASE j = n + 1
      BY <1>1, <1>2, <1>3, <2>2, <3>1
    <3>2. CASE j \in 1..n
      BY <1>1, <1>2, <2>2, <3>2 DEF SessionsInv, NumbersGrow, n
    <3> QED
      BY <1>1, <3>1, <3>2
  <2> QED
    BY <1>2, <1>5, <2>1, <2>2 DEF NumbersGrow
<1>9. NothingAhead'
  BY <1>1, <1>2, <1>5, <1>7, SessionsAssumption DEF SessionsInv, NothingAhead, Invocation, n
<1>10. StreamsAreClosedOnce'
  <2>1. ASSUME NEW r \in Session, sessions'[r] # NoStream
        PROVE  /\ sessions'[r] <= Len(invocations')
               /\ invocations'[sessions'[r]] = r
               /\ closes'[sessions'[r]] = 0
    <3>1. CASE r = s
      BY <1>1, <1>2, <1>5, <1>6, <3>1 DEF SessionsInv, TypeOK
    <3>2. CASE r # s
      <4>1. /\ sessions'[r] = sessions[r] /\ sessions[r] \in 1..n
            /\ invocations[sessions[r]] = r /\ closes[sessions[r]] = 0
        BY <1>1, <1>5, <2>1, <3>2, SessionsAssumption
           DEF SessionsInv, TypeOK, StreamsAreClosedOnce, SessionOf, Invocation, n
      <4> QED
        BY <1>1, <1>2, <1>5, <4>1
    <3> QED
      BY <3>1, <3>2
  <2> QED
    BY <1>5, <2>1 DEF StreamsAreClosedOnce, SessionsInv, SessionOf
<1>11. OpenUntilFinal'
  <2>1. ASSUME NEW r \in Session, r > s PROVE sent'[r] = <<>>
    BY <1>1, <1>5, <2>1, SessionsAssumption DEF SessionsInv, OpenUntilFinal
  <2>2. sent'[s] = <<>>
    BY <1>1, <1>5 DEF SessionsInv, OpenUntilFinal
  <2>3. ASSUME NEW i \in 1..n, ~closed'[i], NEW k \in DOMAIN sent'[invocations'[i]]
        PROVE  sent'[invocations'[i]][k] \notin Final
    BY <1>2, <1>5, <2>3 DEF SessionsInv, OpenUntilFinal, n
  <2>4. ASSUME NEW k \in DOMAIN sent'[s] PROVE FALSE
    BY <2>2, <2>4, EmptySeq, LenProperties
  <2>5. ASSUME NEW i \in 1..n + 1, ~closed'[i], NEW k \in DOMAIN sent'[invocations'[i]]
        PROVE  sent'[invocations'[i]][k] \notin Final
    <3>1. i \in 1..n \/ i = n + 1
      BY <1>1
    <3> QED
      BY <1>2, <2>3, <2>4, <2>5, <3>1
  <2> QED
    BY <1>2, <1>5, <2>1, <2>5 DEF OpenUntilFinal
<1>12. OneFinalMessage'
  BY <1>5 DEF SessionsInv, OneFinalMessage
<1>13. ClosedIsFinal'
  BY <1>1, <1>2, <1>4, <1>5, <1>6, <1>7, SessionsAssumption
     DEF SessionsInv, ClosedIsFinal, Invocation, n
<1> QED
  BY <1>8, <1>9, <1>10, <1>11, <1>12, <1>13 DEF SessionsInv

(***************************************************************************)
(* Every other message of the runtime keeps the invariant.                 *)
(***************************************************************************)
LEMMA DispatchStep ==
    ASSUME SessionsInv, TypeOK', NEW msg \in Message,
           \/ OnBadStart(msg) \/ OnCorruptedInvoke(msg)
           \/ OnChunkOrError(msg) \/ OnChoke(msg) \/ OnStray(msg)
    PROVE  SessionsInv'
<1>1. /\ msg.session \in Session /\ msg.session \in Nat /\ maxSession \in Nat
      /\ maxSession' = maxSession \/ (maxSession' = msg.session /\ maxSession < msg.session)
  <2>1. msg.session \in Session /\ msg.session \in Nat /\ maxSession \in Nat
    <3>1. msg.session \in Session
      BY DEF Message
    <3>2. maxSession \in Session \cup {1}
      BY DEF SessionsInv, TypeOK
    <3>3. \A r \in Session \cup {1} : r \in Nat
      BY SessionsAssumption
    <3> QED
      BY <3>1, <3>2, <3>3
  <2> QED
    BY <2>1 DEF IsNew, OnBadStart, OnCorruptedInvoke, OnChunkOrError, OnChoke, OnStray
<1>2. UNCHANGED <<invocations, handler, closed, sent, connClosed>>
  BY DEF OnBadStart, OnCorruptedInvoke, OnChunkOrError, OnChoke, OnStray,
         replyVars, streamVars
<1>3. NumbersGrow'
  <2>1. \A i \in 1..Len(invocations) : invocations[i] \in Nat
    BY ElementOfSeq, SessionsAssumption DEF SessionsInv, TypeOK
  <2> QED
    BY <1>1, <1>2, <2>1 DEF SessionsInv, NumbersGrow
<1>4. OpenUntilFinal'
  <2>1. \A r \in Session : r > maxSession' => r > maxSession
    BY <1>1, SessionsAssumption
  <2> QED
    BY <1>2, <2>1 DEF SessionsInv, OpenUntilFinal
<1>5. OneFinalMessage' /\ ClosedIsFinal'
  BY <1>2 DEF SessionsInv, OneFinalMessage, ClosedIsFinal
<1>6. CASE ~OnChoke(msg)
  <2>1. UNCHANGED <<closes, sessions>>
    BY <1>6 DEF OnBadStart, OnCorruptedInvoke, OnChunkOrError, OnStray, streamVars
  <2>2. NothingAhead' /\ StreamsAreClosedOnce'
    BY <1>2, <2>1 DEF SessionsInv, NothingAhead, StreamsAreClosedOnce, SessionOf
  <2> QED
    BY <1>3, <1>4, <1>5, <2>2 DEF SessionsInv
<1>7. CASE OnChoke(msg)
  <2> DEFINE c == sessions[msg.session]
  <2>1. /\ c \in Invocation /\ c \in 1..Len(invocations) /\ closes[c] = 0
        /\ invocations[c] = msg.session
    <3>1. c # NoStream /\ c \in Invocation /\ Len(invocations) \in Nat
      BY <1>1, <1>7, LenProperties DEF OnChoke, Registered, SessionsInv, TypeOK
    <3>2. c <= Len(invocations) /\ invocations[c] = msg.session /\ closes[c] = 0
      BY <1>1, <3>1 DEF SessionsInv, StreamsAreClosedOnce, SessionOf
    <3> QED
      BY <3>1, <3>2, SessionsAssumption DEF Invocation
  <2>2. /\ closes'[c] = 1 /\ \A i \in Invocation : i # c => closes'[i] = closes[i]
        /\ sessions'[msg.session] = NoStream
        /\ \A r \in Session : r # msg.session => sessions'[r] = sessions[r]
    BY <1>1, <1>7, <2>1 DEF OnChoke, SessionsInv, TypeOK
  <2> HIDE DEF c
  <2>3. NothingAhead'
    BY <1>2, <2>1, <2>2, LenProperties DEF SessionsInv, NothingAhead, TypeOK
  <2>4. ASSUME NEW r \in Session, sessions'[r] # NoStream
        PROVE  /\ sessions'[r] <= Len(invocations')
               /\ invocations'[sessions'[r]] = r
               /\ closes'[sessions'[r]] = 0
    <3>1. r # msg.session /\ sessions'[r] = sessions[r]
      BY <2>2, <2>4
    <3>2. /\ sessions[r] <= Len(invocations) /\ invocations[sessions[r]] = r
          /\ closes[sessions[r]] = 0 /\ sessions[r] \in Invocation
      BY <2>4, <3>1 DEF SessionsInv, TypeOK, StreamsAreClosedOnce, SessionOf
    <3>3. sessions[r] # c
      BY <2>1, <3>1, <3>2
    <3> QED
      BY <1>2, <2>2, <3>1, <3>2, <3>3
  <2>5. \A i \in Invocation : closes'[i] <= 1
    BY <2>1, <2>2 DEF SessionsInv, StreamsAreClosedOnce
  <2> QED
    BY <1>3, <1>4, <1>5, <2>3, <2>4, <2>5 DEF SessionsInv, StreamsAreClosedOnce, SessionOf
<1> QED
  BY <1>6, <1>7

(***************************************************************************)
(* What a handler does to its response keeps the invariant: one message    *)
(* more for its session, a chunk while the response is open or the final   *)
(* message that closes it.                                                 *)
(***************************************************************************)
LEMMA HandlerStep ==
    ASSUME SessionsInv, TypeOK', NEW i \in Invocation, Handler(i)
    PROVE  SessionsInv'
<1> DEFINE s == SessionOf(i)
<1>1. /\ handler[i] = "running"
      /\ UNCHANGED <<arrived, maxSession, sessions, invocations, pushed, closes, connClosed>>
  BY DEF Handler, Write, HandlerEnds, HandlerReturns, streamVars
<1>2. /\ i \in 1..Len(invocations) /\ s = invocations[i] /\ s \in Session
      /\ ~(s > maxSession)
      /\ \A j \in 1..Len(invocations) : j # i => invocations[j] # s
  <2>1. maxSession \in Nat /\ \A r \in Session : r \in Nat
    BY SessionsAssumption DEF SessionsInv, TypeOK
  <2> QED
    BY <1>1, <2>1, RunningIsInvoked DEF SessionOf
<1>3. \A j \in 1..Len(invocations) : invocations[j] \in Session /\ j \in Invocation
  BY ElementOfSeq, LenProperties, SessionsAssumption DEF SessionsInv, TypeOK, Invocation
<1> HIDE DEF s
<1>4. NumbersGrow' /\ StreamsAreClosedOnce'
  BY <1>1 DEF SessionsInv, NumbersGrow, StreamsAreClosedOnce, SessionOf
<1>5. \A j \in Invocation : j # i => handler'[j] = handler[j] /\ closed'[j] = closed[j]
  BY DEF Handler, Write, HandlerEnds, HandlerReturns, End, SessionsInv, TypeOK
<1>6. NothingAhead'
  BY <1>1, <1>2, <1>5, LenProperties DEF SessionsInv, NothingAhead, TypeOK
<1>7. /\ closed[i] => closed'[i]
      /\ handler'[i] = "done" => closed'[i]
  BY <1>1 DEF Handler, Write, HandlerEnds, HandlerReturns, End, SessionsInv, TypeOK
<1>8. CASE UNCHANGED sent /\ (closed'[i] /\ ~closed[i] => connClosed)
  <2>1. OpenUntilFinal' /\ OneFinalMessage'
    BY <1>1, <1>3, <1>5, <1>7, <1>8 DEF SessionsInv, OpenUntilFinal, OneFinalMessage
  <2>2. ClosedIsFinal'
    BY <1>1, <1>3, <1>5, <1>7, <1>8 DEF SessionsInv, ClosedIsFinal
  <2> QED
    BY <1>4, <1>6, <2>1, <2>2 DEF SessionsInv
<1>9. ASSUME NEW t \in {v1Write, v1Error, v1Close},
             ~closed[i], sent' = [sent EXCEPT ![s] = Append(@, t)],
             t \in Final <=> closed'[i]
      PROVE  SessionsInv'
  <2>1. /\ Len(sent[s]) \in Nat
        /\ DOMAIN sent[s] = 1..Len(sent[s])
        /\ DOMAIN sent'[s] = 1..(Len(sent[s]) + 1)
        /\ Len(sent'[s]) = Len(sent[s]) + 1
        /\ sent'[s] # <<>>
        /\ sent'[s][Len(sent[s]) + 1] = t
        /\ \A k \in 1..Len(sent[s]) : sent'[s][k] = sent[s][k]
        /\ \A r \in Session : r # s => sent'[r] = sent[r]
    BY <1>2, <1>9, SendAppends
  <2>2. \A k \in 1..Len(sent[s]) : sent'[s][k] \notin Final
    BY <1>2, <1>9, <2>1 DEF SessionsInv, OpenUntilFinal
  <2>3. OneFinalMessage'
    <3>1. ASSUME NEW k \in DOMAIN sent'[s], sent'[s][k] \in Final
          PROVE  k = Len(sent'[s])
      BY <2>1, <2>2, <3>1
    <3> QED
      BY <2>1, <3>1 DEF SessionsInv, OneFinalMessage
  <2>4. OpenUntilFinal'
    <3>1. \A r \in Session : r > maxSession' => sent'[r] = <<>>
      BY <1>1, <1>2, <2>1 DEF SessionsInv, OpenUntilFinal
    <3>2. ASSUME NEW j \in 1..Len(invocations), ~closed'[j],
                 NEW k \in DOMAIN sent'[invocations[j]]
          PROVE  sent'[invocations[j]][k] \notin Final
      <4>1. CASE j = i
        BY <1>2, <1>9, <2>1, <2>2, <3>2, <4>1
      <4>2. CASE j # i
        BY <1>2, <1>3, <1>5, <2>1, <3>2, <4>2 DEF SessionsInv, OpenUntilFinal
      <4> QED
        BY <4>1, <4>2
    <3> QED
      BY <1>1, <3>1, <3>2 DEF OpenUntilFinal
  <2>5. ClosedIsFinal'
    <3>1. ASSUME NEW j \in 1..Len(invocations)
          PROVE  /\ handler'[j] = "done" => closed'[j]
                 /\ closed'[j] /\ ~connClosed =>
                      /\ sent'[invocations[j]] # <<>>
                      /\ sent'[invocations[j]][Len(sent'[invocations[j]])] \in Final
      <4>1. CASE j = i
        BY <1>2, <1>7, <1>9, <2>1, <4>1
      <4>2. CASE j # i
        BY <1>2, <1>3, <1>5, <2>1, <4>2 DEF SessionsInv, ClosedIsFinal
      <4> QED
        BY <4>1, <4>2
    <3> QED
      BY <1>1, <3>1 DEF ClosedIsFinal
  <2> QED
    BY <1>4, <1>6, <2>3, <2>4, <2>5 DEF SessionsInv
<1>10. CASE Write(i)
  <2>1. ~closed[i] /\ ~closed'[i] /\ v1Write \notin Final
    BY <1>10 DEF Write, Final
  <2> QED
    BY <1>8, <1>9, <1>10, <2>1 DEF Write, Send, s
<1>11. ASSUME NEW t \in {v1Close, v1Error}, End(i, t) PROVE SessionsInv'
  <2>1. CASE closed[i]
    BY <1>8, <1>11, <2>1 DEF End
  <2>2. CASE ~closed[i]
    <3>1. closed'[i] /\ t \in Final /\ Send(i, t)
      BY <1>11, <2>2 DEF End, Final, SessionsInv, TypeOK
    <3> QED
      BY <1>8, <1>9, <2>2, <3>1 DEF Send, s
  <2> QED
    BY <2>1, <2>2
<1> QED
  BY <1>10, <1>11 DEF Handler, HandlerEnds, HandlerReturns

(***************************************************************************)
(* The invariant holds in every reachable state.                           *)
(***************************************************************************)
LEMMA SessionsInvHolds == Spec => []SessionsInv
<1>1. Init /\ TypeOK => SessionsInv
  <2> SUFFICES ASSUME Init, TypeOK PROVE SessionsInv
    OBVIOUS
  <2>1. Len(invocations) = 0 /\ \A s \in Session : sent[s] = <<>> /\ DOMAIN sent[s] = 1..0
    BY EmptySeq, LenProperties DEF Init
  <2>2. \A i \in 1..Len(invocations) : FALSE
    BY <2>1
  <2>3. NumbersGrow /\ OpenUntilFinal /\ ClosedIsFinal
    BY <2>1, <2>2 DEF NumbersGrow, OpenUntilFinal, ClosedIsFinal
  <2>4. OneFinalMessage
    BY <2>1 DEF OneFinalMessage
  <2>5. NothingAhead /\ StreamsAreClosedOnce
    BY DEF Init, NothingAhead, StreamsAreClosedOnce
  <2> QED
    BY <2>3, <2>4, <2>5 DEF SessionsInv
<1>2. SessionsInv /\ TypeOK' /\ [Next]_vars => SessionsInv'
  <2> SUFFICES ASSUME SessionsInv, TypeOK', [Next]_vars PROVE SessionsInv'
    OBVIOUS
  <2>1. ASSUME NEW msg \in Message, OnMessage(msg) PROVE SessionsInv'
    BY <2>1, InvokeStep, DispatchStep DEF OnMessage
  <2>2. ASSUME NEW i \in Invocation, Handler(i) PROVE SessionsInv'
    BY <2>2, HandlerStep
  <2>3. CASE ConnCloses
    <3>1. connClosed' /\ UNCHANGED <<arrived, maxSession, sessions, invocations,
                                     pushed, closes, handler, closed, sent>>
      BY <2>3 DEF ConnCloses, streamVars
    <3> QED
      BY <3>1 DEF SessionsInv, NumbersGrow, NothingAhead, StreamsAreClosedOnce,
                  SessionOf, OpenUntilFinal, OneFinalMessage, ClosedIsFinal
  <2>4. CASE UNCHANGED vars
    BY <2>4 DEF vars, SessionsInv, NumbersGrow, NothingAhead, StreamsAreClosedOnce,
                SessionOf, OpenUntilFinal, OneFinalMessage, ClosedIsFinal
  <2> QED
    BY <2>1, <2>2, <2>3, <2>4 DEF Next
<1> QED
  BY <1>1, <1>2, TypeCorrect, PTL DEF Spec

(***************************************************************************)
(* Per session: chunks, at most one final message, and nothing after it.   *)
(***************************************************************************)
THEOREM WellFormedAnswers == Spec => []OneFinalMessage
  BY SessionsInvHolds, PTL DEF SessionsInv

(***************************************************************************)
(* A finished handler has ended its session's answer, by itself or through *)
(* the deferred trap.                                                      *)
(***************************************************************************)
THEOREM EveryAnswerEnds == Spec => []DoneIsAnswered
<1>1. SessionsInv => DoneIsAnswered
  <2> SUFFICES ASSUME SessionsInv, NEW i \in Invocation, handler[i] = "done", ~connClosed
               PROVE  /\ sent[SessionOf(i)] # <<>>
                      /\ sent[SessionOf(i)][Len(sent[SessionOf(i)])] \in Final
    BY DEF DoneIsAnswered
  <2>1. i \in 1..Len(invocations)
    <3>1. Len(invocations) \in Nat /\ i \in Nat /\ i >= 1
      BY LenProperties, SessionsAssumption DEF SessionsInv, TypeOK, Invocation
    <3>2. ~(i > Len(invocations))
      BY DEF SessionsInv, NothingAhead
    <3> QED
      BY <3>1, <3>2
  <2> QED
    BY <2>1 DEF SessionsInv, ClosedIsFinal, SessionOf
<1> QED
  BY <1>1, SessionsInvHolds, PTL

(***************************************************************************)
(* The main loop never closes a stream twice and never pushes into a       *)
(* closed one: a registered stream is open and belongs to its session.     *)
(***************************************************************************)
THEOREM StreamsClosedOnce == Spec => []StreamsAreClosedOnce
  BY SessionsInvHolds, PTL DEF SessionsInv

-----------------------------------------------------------------------------
(* What the streams hold. *)

(***************************************************************************)
(* The invariant of the dispatcher's routing.  maxSession is the highest   *)
(* number an invoke came with (HighestInvoke); what is beyond the          *)
(* invocations got nothing; for every invoke that starts a handler there is*)
(* an invocation whose stream holds what it may read, and which is in the  *)
(* map until the first close (Routed); and every invocation has its invoke.*)
(***************************************************************************)
HighestInvoke ==
    /\ \A j \in 1..Len(arrived) :
          arrived[j].type = v1Invoke => arrived[j].session <= maxSession
    /\ maxSession # v1UtilitySession =>
          \E j \in 1..Len(arrived) :
              arrived[j].type = v1Invoke /\ arrived[j].session = maxSession

NothingPushedAhead == \A i \in Invocation : i > Len(invocations) => pushed[i] = <<>>

RoutedTo(k, i) ==
    /\ SessionOf(i) = arrived[k].session
    /\ Holds(pushed[i], k)
    /\ Ends(k) = {} <=> sessions[arrived[k].session] = i

Routed ==
    \A k \in Starts : ~arrived[k].corrupted => \E i \in 1..Len(invocations) : RoutedTo(k, i)

HasInvoke ==
    \A i \in 1..Len(invocations) : \E k \in Starts :
        arrived[k].session = SessionOf(i) /\ ~arrived[k].corrupted

RoutingInv == HighestInvoke /\ NothingPushedAhead /\ Routed /\ HasInvoke

(***************************************************************************)
(* A place in the stream: the places are counted from one.                 *)
(***************************************************************************)
LEMMA RankBounds ==
    ASSUME NEW m \in Nat, NEW P, P \subseteq 1..m, NEW j \in P
    PROVE  Rank(j, P) \in 1..Cardinality(P)
<1> DEFINE R == {l \in P : l <= j}
<1>1. R \subseteq P /\ j \in R
  OBVIOUS
<1>2. IsFiniteSet(P)
  <2>1. IsFiniteSet(1..m)
    BY FS_Interval
  <2> QED
    BY <2>1, FS_Subset
<1>3. Rank(j, P) = Cardinality(R)
  BY DEF Rank
<1> HIDE DEF R
<1>4. /\ IsFiniteSet(R) /\ Cardinality(R) \in Nat /\ Cardinality(R) <= Cardinality(P)
      /\ Cardinality(P) \in Nat
  BY <1>1, <1>2, FS_Subset, FS_CardinalityType
<1>5. Cardinality(R) # 0
  BY <1>1, <1>4, FS_EmptySet
<1> QED
  BY <1>3, <1>4, <1>5

(***************************************************************************)
(* What the arrival of one more message changes in what was to be routed.  *)
(***************************************************************************)
LEMMA Arrival ==
    ASSUME TypeOK, NEW msg \in Message, Arrives(msg), NEW n, n = Len(arrived) + 1
    PROVE  /\ n \in Nat /\ Len(arrived') = n /\ arrived'[n] = msg
           /\ \A j \in 1..Len(arrived) : arrived'[j] = arrived[j]
           /\ \A k \in 1..Len(arrived) :
                 /\ Ends(k) \subseteq 1..Len(arrived)
                 /\ Mine(k) \subseteq 1..Len(arrived)
                 /\ Ends(k)' =
                      IF msg.session = arrived[k].session /\ msg.type = v1Close
                        THEN Ends(k) \cup {n} ELSE Ends(k)
                 /\ Mine(k)' =
                      IF /\ msg.session = arrived[k].session
                         /\ msg.type \in {v1Write, v1Error} /\ Ends(k) = {}
                        THEN Mine(k) \cup {n} ELSE Mine(k)
                 /\ k \in Starts' <=> k \in Starts
           /\ n \in Starts' <=>
                 /\ msg.type = v1Invoke
                 /\ \A j \in 1..Len(arrived) :
                       arrived[j].type = v1Invoke => arrived[j].session < msg.session
           /\ Starts \subseteq 1..Len(arrived) /\ Starts' \subseteq 1..n
           /\ Ends(n)' = {} /\ Mine(n)' = {}
<1> DEFINE m == Len(arrived)
<1>1. /\ m \in Nat /\ n = m + 1 /\ n \in Nat /\ Len(arrived') = n /\ arrived'[n] = msg
      /\ DOMAIN arrived = 1..m /\ DOMAIN arrived' = 1..n
      /\ \A j \in 1..m : arrived'[j] = arrived[j]
  <2>1. arrived \in Seq(Message) /\ arrived' = Append(arrived, msg)
    BY DEF TypeOK, Arrives
  <2>2. Append(arrived, msg) \in Seq(Message)
    BY <2>1, AppendProperties
  <2> QED
    BY <2>1, <2>2, AppendProperties, LenProperties
<1> HIDE DEF m
<1>2. ASSUME NEW k \in 1..m
      PROVE  /\ Ends(k) = {j \in k + 1..m :
                              arrived[j].session = arrived[k].session /\ arrived[j].type = v1Close}
             /\ Ends(k)' = {j \in k + 1..n : arrived'[j].session = arrived[k].session
                                             /\ arrived'[j].type = v1Close}
             /\ k + 1..n = (k + 1..m) \cup {n}
             /\ \A j \in k + 1..m : arrived'[j] = arrived[j] /\ j < n
  BY <1>1 DEF Ends, m
<1>3. ASSUME NEW k \in 1..m
      PROVE  Ends(k)' = IF msg.session = arrived[k].session /\ msg.type = v1Close
                          THEN Ends(k) \cup {n} ELSE Ends(k)
  <2>1. /\ Ends(k) \subseteq k + 1..m /\ Ends(k)' \subseteq (k + 1..m) \cup {n}
        /\ n \notin k + 1..m
    BY <1>1, <1>2
  <2>2. \A j \in k + 1..m : j \in Ends(k)' <=> j \in Ends(k)
    BY <1>2
  <2>3. n \in Ends(k)' <=> msg.session = arrived[k].session /\ msg.type = v1Close
    BY <1>1, <1>2
  <2> QED
    BY <2>1, <2>2, <2>3
<1>4. ASSUME NEW k \in 1..m
      PROVE  Mine(k)' = IF /\ msg.session = arrived[k].session
                           /\ msg.type \in {v1Write, v1Error} /\ Ends(k) = {}
                          THEN Mine(k) \cup {n} ELSE Mine(k)
  <2>1. /\ Mine(k) = {j \in k + 1..m :
                        /\ arrived[j].session = arrived[k].session
                        /\ arrived[j].type \in {v1Write, v1Error}
                        /\ \A e \in Ends(k) : j < e}
        /\ Mine(k)' = {j \in k + 1..n :
                        /\ arrived'[j].session = arrived[k].session
                        /\ arrived'[j].type \in {v1Write, v1Error}
                        /\ \A e \in Ends(k)' : j < e}
    BY <1>1 DEF Mine, m
  <2>2. \A j \in k + 1..m : (\A e \in Ends(k)' : j < e) <=> (\A e \in Ends(k) : j < e)
    BY <1>2, <1>3
  <2>3. n \in Mine(k)' <=> /\ msg.session = arrived[k].session
                           /\ msg.type \in {v1Write, v1Error} /\ Ends(k) = {}
    <3>1. \A e \in Ends(k)' : e <= n
      BY <1>1, <1>2
    <3>2. \A e \in Ends(k) : e \in Nat /\ e < n
      BY <1>1, <1>2
    <3>3. msg.type \in {v1Write, v1Error} => Ends(k)' = Ends(k)
      BY <1>3
    <3>4. n \in k + 1..n /\ n \in Nat
      BY <1>1
    <3>5. Ends(k) = {} <=> \A e \in Ends(k) : n < e
      BY <3>2, <3>4
    <3> QED
      BY <1>1, <2>1, <3>3, <3>4, <3>5
  <2>4. \A j \in k + 1..m : j \in Mine(k)' <=> j \in Mine(k)
    BY <1>2, <2>1, <2>2
  <2>5. Mine(k) \subseteq k + 1..m /\ Mine(k)' \subseteq (k + 1..m) \cup {n} /\ n \notin k + 1..m
    BY <1>1, <1>2, <2>1
  <2> QED
    BY <2>3, <2>4, <2>5
<1>5. ASSUME NEW k \in 1..m
      PROVE  Ends(k) \subseteq 1..m /\ Mine(k) \subseteq 1..m
  BY <1>1 DEF Ends, Mine, m
<1>6. ASSUME NEW k \in 1..m PROVE k \in Starts' <=> k \in Starts
  BY <1>1 DEF Starts
<1>7. n \in Starts' <=> /\ msg.type = v1Invoke
                        /\ \A j \in 1..m :
                              arrived[j].type = v1Invoke => arrived[j].session < msg.session
  BY <1>1 DEF Starts
<1>8. Starts \subseteq 1..m /\ Starts' \subseteq 1..n
  BY <1>1 DEF Starts
<1>9. Ends(n)' = {} /\ Mine(n)' = {}
  <2>1. n + 1..Len(arrived') = {}
    BY <1>1
  <2>2. Ends(n)' \subseteq n + 1..Len(arrived') /\ Mine(n)' \subseteq n + 1..Len(arrived')
    BY DEF Ends, Mine
  <2> QED
    BY <2>1, <2>2
<1> QED
  BY <1>1, <1>3, <1>4, <1>5, <1>6, <1>7, <1>8, <1>9 DEF m

(***************************************************************************)
(* The messages at the places that a stream holds do not change when more  *)
(* arrive: a stream that got nothing new, and had nothing to get, holds    *)
(* what it held.                                                           *)
(***************************************************************************)
LEMMA HeldStays ==
    ASSUME TypeOK, NEW msg \in Message, Arrives(msg), NEW k \in 1..Len(arrived),
           NEW i \in Invocation, Mine(k)' = Mine(k), pushed'[i] = pushed[i]
    PROVE  Holds(pushed[i], k) => Holds(pushed[i], k)'
<1>1. \A j \in Mine(k) : arrived'[j] = arrived[j]
  <2>1. PICK n : n = Len(arrived) + 1
    OBVIOUS
  <2> QED
    BY <2>1, Arrival
<1> QED
  BY <1>1 DEF Holds

(***************************************************************************)
(* One more chunk or error for an open session: its stream, and no other,  *)
(* holds one more message.                                                 *)
(***************************************************************************)
LEMMA HeldGrows ==
    ASSUME TypeOK, NEW msg \in Message, Arrives(msg), NEW k \in 1..Len(arrived),
           NEW i \in Invocation, msg.type \in {v1Write, v1Error}, Holds(pushed[i], k),
           Mine(k)' = Mine(k) \cup {Len(arrived) + 1},
           pushed'[i] = Append(pushed[i], msg.type)
    PROVE  Holds(pushed[i], k)'
<1>0. PICK P, m, n, q, t, S :
        /\ P = Mine(k) /\ m = Len(arrived) /\ n = m + 1 /\ q = pushed[i] /\ t = msg.type
        /\ S = {v1Write, v1Error}
  OBVIOUS
<1>1. /\ m \in Nat /\ P \subseteq 1..m
      /\ arrived'[n] = msg /\ \A j \in P : arrived'[j] = arrived[j]
  <2>1. m \in Nat
    BY <1>0, LenProperties DEF TypeOK
  <2> QED
    BY <1>0, <2>1, Arrival
<1>2. /\ Len(q) = Cardinality(P)
      /\ \A j \in P : q[Rank(j, P)] = arrived[j].type
  BY <1>0 DEF Holds
<1>3. q \in Seq(S) /\ t \in S
  BY <1>0 DEF TypeOK
<1>4. n = m + 1
  BY <1>0
<1>5. Mine(k)' = P \cup {n} /\ pushed'[i] = Append(q, t) /\ t = msg.type
  BY <1>0
<1>6. /\ Cardinality(P \cup {n}) = Cardinality(P) + 1 /\ Cardinality(P) \in Nat
      /\ Rank(n, P \cup {n}) = Cardinality(P \cup {n})
  <2>1. IsFiniteSet(1..m) /\ n \notin 1..m
    <3>1. 1 \in Int /\ m \in Int /\ n \notin 1..m
      BY <1>1, <1>4
    <3> QED
      BY <3>1, FS_Interval
  <2>2. IsFiniteSet(P) /\ n \notin P
    BY <1>1, <2>1, FS_Subset
  <2>3. ASSUME NEW l \in P \cup {n} PROVE l <= n
    <3>1. CASE l \in P
      <4>1. l \in 1..m /\ m \in Nat
        BY <1>1, <3>1
      <4> QED
        BY <1>4, <4>1
    <3>2. CASE l = n
      BY <1>1, <1>4, <3>2
    <3> QED
      BY <3>1, <3>2
  <2>4. {l \in P \cup {n} : l <= n} = P \cup {n}
    BY <2>3
  <2> QED
    BY <2>2, <2>4, FS_AddElement, FS_CardinalityType DEF Rank
<1>7. /\ Len(Append(q, t)) = Len(q) + 1 /\ Append(q, t)[Len(q) + 1] = t
      /\ \A x \in 1..Len(q) : Append(q, t)[x] = q[x]
  BY <1>3, AppendProperties
<1>8. ASSUME NEW j \in P \cup {n}
      PROVE  Append(q, t)[Rank(j, P \cup {n})] = arrived'[j].type
  <2>1. CASE j = n
    BY <1>1, <1>2, <1>5, <1>6, <1>7, <2>1
  <2>2. CASE j \in P
    <3>1. Rank(j, P) \in 1..Cardinality(P)
      BY <1>1, <2>2, RankBounds
    <3>2. Rank(j, P \cup {n}) = Rank(j, P)
      <4>1. {l \in P \cup {n} : l <= j} = {l \in P : l <= j}
        BY <1>1, <1>4, <2>2
      <4> QED
        BY <4>1 DEF Rank
    <3>3. q[Rank(j, P)] = arrived[j].type
      BY <1>2, <2>2
    <3> QED
      BY <1>1, <1>2, <1>7, <2>2, <3>1, <3>2, <3>3
  <2> QED
    BY <2>1, <2>2
<1> QED
  BY <1>2, <1>5, <1>6, <1>7, <1>8 DEF Holds

(***************************************************************************)
(* Two invocations of one session are one.                                 *)
(***************************************************************************)
LEMMA OneInvocation ==
    ASSUME SessionsInv, NEW i \in 1..Len(invocations), NEW j \in 1..Len(invocations),
           invocations[i] = invocations[j]
    PROVE  i = j
<1>1. Len(invocations) \in Nat /\ invocations[i] \in Nat /\ invocations[j] \in Nat
  BY LenProperties, ElementOfSeq, SessionsAssumption DEF SessionsInv, TypeOK
<1>2. i < j => invocations[i] < invocations[j]
  BY DEF SessionsInv, NumbersGrow
<1>3. j < i => invocations[j] < invocations[i]
  BY DEF SessionsInv, NumbersGrow
<1> QED
  BY <1>1, <1>2, <1>3

(***************************************************************************)
(* Every message of the runtime, whichever session and type it has, is     *)
(* routed as the property says.                                            *)
(***************************************************************************)
LEMMA RoutingStep ==
    ASSUME SessionsInv, RoutingInv, NEW msg \in Message, OnMessage(msg)
    PROVE  RoutingInv'
<1>0. PICK m, n, s, v :
        m = Len(arrived) /\ n = m + 1 /\ s = msg.session /\ v = Len(invocations)
  OBVIOUS
<1>1. Arrives(msg)
  BY DEF OnMessage, OnBadStart, OnCorruptedInvoke, OnInvoke, OnChunkOrError, OnChoke, OnStray
<1>2. /\ TypeOK /\ m \in Nat /\ s \in Session /\ s \in Nat /\ maxSession \in Nat /\ v \in Nat
      /\ s > 1 /\ msg.type \in 0..3 /\ maxSession >= 1
      /\ \A j \in 1..m : arrived[j] \in Message /\ arrived[j].session \in Nat
      /\ \A i \in 1..v : i \in Invocation
  <2>1. /\ TypeOK /\ m \in Nat /\ v \in Nat /\ s \in Session /\ msg.type \in 0..3
        /\ v <= m /\ m <= MaxArrived /\ maxSession \in Session \cup {1}
    BY <1>0, LenProperties DEF SessionsInv, TypeOK, Message, Type
  <2>2. \A r \in Session \cup {1} : r \in Nat /\ r >= 1 /\ (r # 1 \/ r \notin Session)
    BY SessionsAssumption
  <2>3. \A j \in 1..m : arrived[j] \in Message
    BY <1>0, <2>1, ElementOfSeq DEF TypeOK
  <2>4. \A x \in Message : x.session \in Session
    BY DEF Message
  <2>5. \A i \in 1..v : i \in Invocation
    BY <2>1, SessionsAssumption DEF Invocation
  <2> QED
    BY <2>1, <2>2, <2>3, <2>4, <2>5
<1>3. /\ n \in Nat /\ Len(arrived') = n /\ arrived'[n] = msg
      /\ \A j \in 1..m : arrived'[j] = arrived[j]
      /\ \A k \in 1..m :
            /\ Ends(k)' = IF s = arrived[k].session /\ msg.type = v1Close
                            THEN Ends(k) \cup {n} ELSE Ends(k)
            /\ Mine(k)' = IF /\ s = arrived[k].session
                             /\ msg.type \in {v1Write, v1Error} /\ Ends(k) = {}
                            THEN Mine(k) \cup {n} ELSE Mine(k)
            /\ k \in Starts' <=> k \in Starts
      /\ n \in Starts' <=>
            /\ msg.type = v1Invoke
            /\ \A j \in 1..m : arrived[j].type = v1Invoke => arrived[j].session < s
      /\ Starts \subseteq 1..m /\ Starts' \subseteq 1..n
      /\ Ends(n)' = {} /\ Mine(n)' = {}
  BY <1>0, <1>1, <1>2, Arrival
<1>4. maxSession' = IF maxSession < s /\ msg.type = v1Invoke THEN s ELSE maxSession
  BY <1>0, <1>2 DEF OnMessage, OnBadStart, OnCorruptedInvoke, OnInvoke, OnChunkOrError,
      OnChoke, OnStray, IsNew
<1>5. n \notin 1..m /\ 1..n = (1..m) \cup {n} /\ n \in 1..n /\ 1..m \subseteq 1..n
  BY <1>0, <1>2
<1>6. HighestInvoke'
  <2>1. /\ \A j \in 1..m : arrived[j].type = v1Invoke => arrived[j].session <= maxSession
        /\ maxSession # 1 => \E j \in 1..m :
              arrived[j].type = v1Invoke /\ arrived[j].session = maxSession
    BY <1>0 DEF RoutingInv, HighestInvoke
  <2>2. \A j \in 1..n :
            arrived'[j].type = v1Invoke => arrived'[j].session <= maxSession'
    BY <1>0, <1>2, <1>3, <1>4, <1>5, <2>1
  <2>3. ASSUME maxSession' # 1
        PROVE  \E j \in 1..n :
                  arrived'[j].type = v1Invoke /\ arrived'[j].session = maxSession'
    <3>1. CASE maxSession < s /\ msg.type = v1Invoke
      BY <1>0, <1>3, <1>4, <1>5, <3>1
    <3>2. CASE ~(maxSession < s /\ msg.type = v1Invoke)
      BY <1>3, <1>4, <1>5, <2>1, <2>3, <3>2
    <3> QED
      BY <3>1, <3>2
  <2> QED
    BY <1>3, <2>2, <2>3 DEF HighestInvoke
<1>7. n \in Starts' <=> msg.type = v1Invoke /\ maxSession < s
  <2>1. /\ \A j \in 1..m : arrived[j].type = v1Invoke => arrived[j].session <= maxSession
        /\ maxSession # 1 => \E j \in 1..m :
              arrived[j].type = v1Invoke /\ arrived[j].session = maxSession
    BY <1>0 DEF RoutingInv, HighestInvoke
  <2>2. (\A j \in 1..m : arrived[j].type = v1Invoke => arrived[j].session < s)
          <=> maxSession < s
    BY <1>2, <2>1
  <2> QED
    BY <1>3, <2>2
<1>8. ASSUME NEW k \in Starts
      PROVE  /\ k \in 1..m /\ k \in Starts' /\ arrived'[k] = arrived[k]
             /\ arrived[k].session <= maxSession
  BY <1>0, <1>3 DEF Starts, RoutingInv, HighestInvoke
<1>9. ASSUME NEW k \in Starts', k # n PROVE k \in Starts
  BY <1>3, <1>5, <1>9
<1>10. ASSUME NEW k \in Starts, NEW i \in 1..v, RoutedTo(k, i), Mine(k)' = Mine(k),
              (Ends(k) = {} <=> Ends(k)' = {}),
              pushed'[i] = pushed[i], invocations'[i] = invocations[i],
              sessions'[arrived[k].session] = sessions[arrived[k].session]
       PROVE  RoutedTo(k, i)'
  <2>1. Holds(pushed[i], k)'
    BY <1>0, <1>1, <1>2, <1>8, <1>10, HeldStays DEF RoutedTo
  <2> QED
    BY <1>8, <1>10, <2>1 DEF RoutedTo, SessionOf
<1>11. ASSUME UNCHANGED <<sessions, invocations, pushed>>,
              \A k \in Starts : ~arrived[k].corrupted =>
                  Mine(k)' = Mine(k) /\ (Ends(k) = {} <=> Ends(k)' = {}),
              n \in Starts' => msg.corrupted
       PROVE  RoutingInv'
  <2>1. NothingPushedAhead'
    BY <1>11 DEF RoutingInv, NothingPushedAhead
  <2>2. Routed'
    <3> SUFFICES ASSUME NEW k \in Starts', ~arrived'[k].corrupted
                 PROVE  \E i \in 1..v : RoutedTo(k, i)'
      BY <1>0, <1>11 DEF Routed
    <3>1. k # n /\ k \in Starts
      BY <1>3, <1>9, <1>11
    <3>2. PICK i \in 1..v : RoutedTo(k, i)
      BY <1>0, <1>8, <3>1 DEF RoutingInv, Routed
    <3>3. RoutedTo(k, i)'
      BY <1>8, <1>10, <1>11, <3>1, <3>2
    <3> QED
      BY <3>3
  <2>3. HasInvoke'
    <3> SUFFICES ASSUME NEW i \in 1..v
                 PROVE  \E k \in Starts' :
                            arrived'[k].session = invocations[i] /\ ~arrived'[k].corrupted
      BY <1>0, <1>11 DEF HasInvoke, SessionOf
    <3>1. PICK k \in Starts : arrived[k].session = invocations[i] /\ ~arrived[k].corrupted
      BY <1>0 DEF RoutingInv, HasInvoke, SessionOf
    <3> QED
      BY <1>8, <3>1
  <2> QED
    BY <1>6, <2>1, <2>2, <2>3 DEF RoutingInv
<1>12. CASE OnBadStart(msg) \/ OnCorruptedInvoke(msg)
  <2>1. /\ maxSession < s /\ UNCHANGED <<sessions, invocations, pushed>>
        /\ msg.type = v1Invoke => msg.corrupted
    BY <1>0, <1>12 DEF OnBadStart, OnCorruptedInvoke, IsNew, streamVars
  <2>2. \A k \in Starts : arrived[k].session # s
    BY <1>2, <1>8, <2>1
  <2> QED
    BY <1>3, <1>7, <1>8, <1>11, <2>1, <2>2
<1>13. CASE OnStray(msg)
  <2>1. /\ ~(maxSession < s) /\ UNCHANGED <<sessions, invocations, pushed>>
        /\ msg.type \in {v1Write, v1Error, v1Close} => sessions[s] = NoStream
    BY <1>0, <1>13 DEF OnStray, IsNew, Registered, streamVars
  <2>2. ASSUME NEW k \in Starts, ~arrived[k].corrupted, arrived[k].session = s,
               msg.type \in {v1Write, v1Error, v1Close}
        PROVE  Ends(k) # {}
    <3>1. PICK i \in 1..v : RoutedTo(k, i)
      BY <1>0, <2>2 DEF RoutingInv, Routed
    <3>2. i # NoStream
      BY <1>2
    <3> QED
      BY <2>1, <2>2, <3>1, <3>2 DEF RoutedTo
  <2>3. ASSUME NEW k \in Starts, ~arrived[k].corrupted
        PROVE  Mine(k)' = Mine(k) /\ (Ends(k) = {} <=> Ends(k)' = {})
    BY <1>3, <1>8, <2>2, <2>3
  <2> QED
    BY <1>7, <1>11, <2>1, <2>3
<1>14. CASE OnInvoke(msg)
  <2>1. /\ maxSession < s /\ msg.type = v1Invoke /\ ~msg.corrupted
        /\ sessions' = [sessions EXCEPT ![s] = v + 1]
        /\ invocations' = Append(invocations, s) /\ pushed' = pushed
    BY <1>0, <1>14 DEF OnInvoke, IsNew, streamVars
  <2>2. /\ Len(invocations') = v + 1 /\ invocations'[v + 1] = s
        /\ \A i \in 1..v : invocations'[i] = invocations[i]
    BY <1>0, <1>2, <2>1, AppendProperties DEF TypeOK
  <2>3. /\ sessions'[s] = v + 1 /\ \A r \in Session : r # s => sessions'[r] = sessions[r]
        /\ v + 1 \in Invocation /\ pushed[v + 1] = <<>>
    <3>1. v + 1 \in Invocation
      BY <1>0, <1>1, <1>2, SessionsAssumption DEF Arrives, TypeOK, Invocation
    <3>2. pushed[v + 1] = <<>>
      BY <1>0, <1>2, <3>1 DEF RoutingInv, NothingPushedAhead
    <3> QED
      BY <1>2, <2>1, <3>1, <3>2 DEF TypeOK
  <2>4. NothingPushedAhead'
    BY <1>0, <1>2, <2>1, <2>2, SessionsAssumption DEF RoutingInv, NothingPushedAhead, Invocation
  <2>5. RoutedTo(n, v + 1)'
    <3> DEFINE x == v + 1
    <3>1. Holds(pushed[x], n)'
      <4>1. pushed'[x] = <<>> /\ Len(<<>>) = 0 /\ Cardinality({}) = 0
        BY <2>1, <2>3, EmptySeq, FS_EmptySet
      <4> HIDE DEF x
      <4> QED
        BY <1>3, <4>1 DEF Holds
    <3> QED
      BY <1>0, <1>3, <2>2, <2>3, <3>1 DEF RoutedTo, SessionOf
  <2>6. ASSUME NEW k \in Starts, NEW i \in 1..v, RoutedTo(k, i) PROVE RoutedTo(k, i)'
    <3>1. arrived[k].session # s /\ arrived[k].session \in Session
      BY <1>2, <1>8, <2>1 DEF Message
    <3>2. /\ pushed'[i] = pushed[i] /\ invocations'[i] = invocations[i]
          /\ sessions'[arrived[k].session] = sessions[arrived[k].session]
      BY <2>1, <2>2, <2>3, <3>1
    <3>3. Mine(k)' = Mine(k) /\ (Ends(k) = {} <=> Ends(k)' = {})
      BY <1>3, <1>8, <3>1
    <3> QED
      BY <1>10, <2>6, <3>2, <3>3
  <2>7. Routed'
    <3> SUFFICES ASSUME NEW k \in Starts', ~arrived'[k].corrupted
                 PROVE  \E i \in 1..(v + 1) : RoutedTo(k, i)'
      BY <2>2 DEF Routed
    <3>1. CASE k = n
      BY <1>2, <2>5, <3>1
    <3>2. CASE k # n
      <4>1. k \in Starts
        BY <1>9, <3>2
      <4>2. PICK i \in 1..v : RoutedTo(k, i)
        BY <1>0, <1>8, <4>1 DEF RoutingInv, Routed
      <4>3. RoutedTo(k, i)' /\ i \in 1..(v + 1)
        BY <1>2, <2>6, <4>1, <4>2
      <4> QED
        BY <4>3
    <3> QED
      BY <3>1, <3>2
  <2>8. HasInvoke'
    <3> SUFFICES ASSUME NEW i \in 1..(v + 1)
                 PROVE  \E k \in Starts' :
                            arrived'[k].session = invocations'[i] /\ ~arrived'[k].corrupted
      BY <2>2 DEF HasInvoke, SessionOf
    <3>1. CASE i = v + 1
      BY <1>0, <1>3, <1>7, <2>1, <2>2, <3>1
    <3>2. CASE i # v + 1
      <4>1. i \in 1..v
        BY <1>2, <3>2
      <4>2. PICK k \in Starts : arrived[k].session = invocations[i] /\ ~arrived[k].corrupted
        BY <1>0, <4>1 DEF RoutingInv, HasInvoke, SessionOf
      <4> QED
        BY <1>8, <2>2, <4>1, <4>2
    <3> QED
      BY <3>1, <3>2
  <2> QED
    BY <1>6, <2>4, <2>7, <2>8 DEF RoutingInv
<1>15. ASSUME NEW c, c = sessions[s], c # NoStream,
              UNCHANGED invocations, ~(maxSession < s),
              \A i \in Invocation : i # c => pushed'[i] = pushed[i],
              \A r \in Session : r # s => sessions'[r] = sessions[r],
              \A k \in Starts : arrived[k].session = s /\ RoutedTo(k, c) => RoutedTo(k, c)'
       PROVE  RoutingInv'
  <2>1. c \in 1..v /\ c \in Invocation /\ invocations[c] = s
    BY <1>0, <1>2, <1>15, SessionsAssumption
    DEF SessionsInv, StreamsAreClosedOnce, TypeOK, SessionOf, Invocation
  <2>2. NothingPushedAhead'
    BY <1>0, <1>2, <1>15, <2>1 DEF RoutingInv, NothingPushedAhead
  <2>3. ASSUME NEW k \in Starts, NEW i \in 1..v, RoutedTo(k, i) PROVE RoutedTo(k, i)'
    <3>1. invocations[i] = arrived[k].session
      BY <2>3 DEF RoutedTo, SessionOf
    <3>2. CASE arrived[k].session = s
      <4>1. i = c
        BY <1>0, <2>1, <3>1, <3>2, OneInvocation
      <4> QED
        BY <1>15, <2>3, <3>2, <4>1
    <3>3. CASE arrived[k].session # s
      <4>1. i # c /\ i \in Invocation /\ arrived[k].session \in Session
        BY <1>2, <1>8, <2>1, <3>1, <3>3 DEF Message
      <4> QED
        BY <1>3, <1>8, <1>10, <1>15, <2>3, <3>3, <4>1
    <3> QED
      BY <3>2, <3>3
  <2>4. Starts' = Starts
    <3>1. n \notin Starts'
      BY <1>7, <1>15
    <3>2. \A k \in Starts' : k \in Starts
      BY <1>9, <3>1
    <3>3. \A k \in Starts : k \in Starts'
      BY <1>8
    <3> QED
      BY <3>2, <3>3
  <2>5. Routed'
    <3> SUFFICES ASSUME NEW k \in Starts', ~arrived'[k].corrupted
                 PROVE  \E i \in 1..v : RoutedTo(k, i)'
      BY <1>0, <1>15 DEF Routed
    <3>1. PICK i \in 1..v : RoutedTo(k, i)
      BY <1>0, <1>8, <2>4 DEF RoutingInv, Routed
    <3> QED
      BY <2>3, <2>4, <3>1
  <2>6. HasInvoke'
    BY <1>0, <1>8, <1>15, <2>4 DEF RoutingInv, HasInvoke, SessionOf
  <2> QED
    BY <1>6, <2>2, <2>5, <2>6 DEF RoutingInv
<1>16. CASE OnChunkOrError(msg)
  <2>0. PICK c : c = sessions[s]
    OBVIOUS
  <2>1. /\ ~(maxSession < s) /\ msg.type \in {v1Write, v1Error} /\ c # NoStream
        /\ pushed' = [pushed EXCEPT ![c] = Append(pushed[c], msg.type)]
        /\ UNCHANGED <<sessions, invocations>>
    BY <1>0, <1>16, <2>0 DEF OnChunkOrError, IsNew, Registered
  <2>2. c \in Invocation
    BY <1>2, <2>0, <2>1 DEF TypeOK
  <2>3. /\ pushed'[c] = Append(pushed[c], msg.type)
        /\ \A i \in Invocation : i # c => pushed'[i] = pushed[i]
    BY <1>2, <2>1, <2>2 DEF TypeOK
  <2>4. ASSUME NEW k \in Starts, arrived[k].session = s, RoutedTo(k, c) PROVE RoutedTo(k, c)'
    <3>1. Ends(k) = {} /\ Ends(k)' = {} /\ Mine(k)' = Mine(k) \cup {n}
      BY <1>3, <1>8, <2>0, <2>1, <2>4 DEF RoutedTo
    <3>2. Holds(pushed[c], k)'
      BY <1>0, <1>1, <1>2, <1>8, <2>1, <2>2, <2>3, <2>4, <3>1, HeldGrows DEF RoutedTo
    <3> QED
      BY <1>8, <2>0, <2>1, <2>4, <3>1, <3>2 DEF RoutedTo, SessionOf
  <2> QED
    BY <1>15, <2>0, <2>1, <2>3, <2>4
<1>17. CASE OnChoke(msg)
  <2>0. PICK c : c = sessions[s]
    OBVIOUS
  <2>1. /\ ~(maxSession < s) /\ msg.type = v1Close /\ c # NoStream
        /\ sessions' = [sessions EXCEPT ![s] = NoStream]
        /\ UNCHANGED <<pushed, invocations>>
    BY <1>0, <1>17, <2>0 DEF OnChoke, IsNew, Registered
  <2>2. c \in Invocation
    BY <1>2, <2>0, <2>1 DEF TypeOK
  <2>3. /\ sessions'[s] = NoStream
        /\ \A r \in Session : r # s => sessions'[r] = sessions[r]
    BY <1>2, <2>1 DEF TypeOK
  <2>4. ASSUME NEW k \in Starts, arrived[k].session = s, RoutedTo(k, c) PROVE RoutedTo(k, c)'
    <3>1. Ends(k)' # {} /\ Mine(k)' = Mine(k)
      BY <1>3, <1>8, <2>1, <2>4
    <3>2. Holds(pushed[c], k)'
      BY <1>0, <1>1, <1>2, <1>8, <2>1, <2>2, <2>4, <3>1, HeldStays DEF RoutedTo
    <3> QED
      BY <1>8, <2>0, <2>1, <2>3, <2>4, <3>1, <3>2 DEF RoutedTo, SessionOf
  <2> QED
    BY <1>15, <2>0, <2>1, <2>3, <2>4
<1> QED
  BY <1>12, <1>13, <1>14, <1>16, <1>17 DEF OnMessage

(***************************************************************************)
(* Whatever the runtime sends, in whatever order and of whatever sessions, *)
(* a handler reads the chunks and errors of its own session that came      *)
(* between its invoke and the next close, in order and all of them, and    *)
(* exactly the invokes with a fresh number start one.                      *)
(***************************************************************************)
THEOREM RoutesAsSent == Spec => []RoutedAsSent
<1>1. Init => RoutingInv
  <2> SUFFICES ASSUME Init PROVE RoutingInv
    OBVIOUS
  <2>1. Len(arrived) = 0 /\ Len(invocations) = 0 /\ maxSession = 1
    BY EmptySeq DEF Init
  <2>2. Starts = {}
    BY DEF Init, Starts
  <2>3. HighestInvoke /\ HasInvoke
    BY <2>1 DEF HighestInvoke, HasInvoke
  <2>4. NothingPushedAhead /\ Routed
    BY <2>2 DEF Init, NothingPushedAhead, Routed
  <2> QED
    BY <2>3, <2>4 DEF RoutingInv
<1>2. SessionsInv /\ RoutingInv /\ [Next]_vars => RoutingInv'
  <2> SUFFICES ASSUME SessionsInv, RoutingInv, [Next]_vars PROVE RoutingInv'
    OBVIOUS
  <2>1. ASSUME NEW msg \in Message, OnMessage(msg) PROVE RoutingInv'
    BY <2>1, RoutingStep
  <2>2. CASE (\E i \in Invocation : Handler(i)) \/ ConnCloses \/ UNCHANGED vars
    <3>1. UNCHANGED <<arrived, maxSession, sessions, invocations, pushed>>
      BY <2>2 DEF Handler, Write, HandlerEnds, HandlerReturns, ConnCloses, vars, streamVars
    <3> QED
      <4>1. Starts' = Starts /\ \A k : Ends(k)' = Ends(k)
        BY <3>1 DEF Starts, Ends
      <4>2. \A k : Mine(k)' = Mine(k)
        BY <3>1, <4>1 DEF Mine
      <4>3. \A k, i : Holds(pushed[i], k)' = Holds(pushed[i], k)
        BY <3>1, <4>2 DEF Holds
      <4>4. \A k, i : RoutedTo(k, i)' <=> RoutedTo(k, i)
        BY <3>1, <4>1, <4>3 DEF RoutedTo, SessionOf
      <4> QED
        BY <3>1, <4>1, <4>4 DEF RoutingInv, HighestInvoke, NothingPushedAhead, Routed,
            HasInvoke, SessionOf
  <2> QED
    BY <2>1, <2>2 DEF Next
<1>3. SessionsInv /\ RoutingInv => RoutedAsSent
  BY DEF SessionsInv, NumbersGrow, RoutingInv, Routed, RoutedTo, HasInvoke, RoutedAsSent,
      SessionOf
<1> QED
  BY <1>1, <1>2, <1>3, SessionsInvHolds, PTL DEF Spec

=============================================================================
