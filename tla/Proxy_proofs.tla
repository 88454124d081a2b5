---------------------------- MODULE Proxy_proofs ----------------------------
(***************************************************************************)
(* The reply of an HTTP handler for any status codes, any Content-Length   *)
(* and any number and sizes of Writes: it begins with one head, its body   *)
(* has no gap and fits the head, and it ends once; and the proxy passes it *)
(* on as it is, whenever it reads, gives up or loses the application.      *)
(***************************************************************************)
EXTENDS Proxy, SequenceTheorems, TLAPS

(***************************************************************************)
(* The first n chunks of s are a head and then the data of Write's calls   *)
(* 1, 2, ... without a gap.                                                *)
(***************************************************************************)
Framed(s, n) ==
    \A k \in 1..n : IF k = 1 THEN s[k].kind = "head" ELSE s[k] = Body(k - 1)

Ending == {Close, Error(ErrorPanicInHandler), Error(ErrorNoEventHandler)}

(***************************************************************************)
(* The inductive invariant.  What is sent stays framed while the stream is *)
(* open and has one ending after it; the ResponseWriter's wroteHeader says *)
(* whether anything was sent; and as long as the handler runs, either no   *)
(* Write was refused, or the status and the count of bytes will refuse     *)
(* every later one.                                                        *)
(***************************************************************************)
OpenIsFramed == ~closed => Framed(out, Len(out))

ClosedHasEnd ==
    closed => out # <<>> /\ out[Len(out)] \in Ending /\ Framed(out, Len(out) - 1)

ClosedAtTrap == closed <=> pc \in {"trap", "done"}

NothingBeforeServe ==
    pc \in {"call", "read", "unpack"} =>
        out = <<>> /\ ~wroteHeader /\ calls = 0 /\ written = 0 /\ bodyBytes = 0

HeaderIsFirst ==
    pc = "serve" =>
        IF wroteHeader
          THEN out # <<>> /\ out[1] = Header(status, contentLength)
          ELSE out = <<>> /\ calls = 0 /\ written = 0 /\ bodyBytes = 0

Refusing == status = StatusNotModified \/ (contentLength # -1 /\ written > contentLength)

RefusingForGood ==
    pc = "serve" /\ wroteHeader =>
        /\ Refusing \/ (Len(out) = calls + 1 /\ bodyBytes = written)
        /\ status = StatusNotModified => Len(out) = 1
        /\ contentLength # -1 => bodyBytes <= contentLength

BodyFits ==
    calls > 0 /\ Bodies # {} =>
        /\ out[1].code # StatusNotModified
        /\ out[1].length # -1 => bodyBytes <= out[1].length

EndIsAnswer ==
    /\ pc \in {"call", "read", "unpack", "serve"} => ~panicking
    /\ pc = "close" /\ ~panicking => out # <<>>
    /\ closed /\ ~panicking =>
         \/ Len(out) >= 2 /\ out[Len(out)] = Close
         \/ out = <<Error(ErrorNoEventHandler)>>

HttpInv ==
    /\ TypeOK
    /\ OpenIsFramed
    /\ ClosedHasEnd
    /\ ClosedAtTrap
    /\ NothingBeforeServe
    /\ HeaderIsFirst
    /\ RefusingForGood
    /\ BodyFits
    /\ EndIsAnswer

-----------------------------------------------------------------------------
(***************************************************************************)
(* The kinds of the messages that response.Write, Close and ErrorMsg send. *)
(***************************************************************************)
LEMMA Kinds ==
    /\ \A c \in Nat, l \in Nat \cup {-1} :
          Header(c, l) \in Message /\ Header(c, l).kind = "head"
    /\ \A i \in Nat : Body(i) \in Message /\ Body(i).kind = "body" /\ Body(i).call = i
    /\ \A e \in Ending : e \in Message /\ e.kind \in {"close", "error"}
  BY DEF Header, Body, Ending, Close, Error, Message, Chunk

(***************************************************************************)
(* What a chunk or an end behind the messages sent so far makes of them.   *)
(***************************************************************************)
LEMMA Behind ==
    ASSUME NEW s \in Seq(Message), NEW m \in Message
    PROVE  /\ Append(s, m) \in Seq(Message) /\ Len(Append(s, m)) = Len(s) + 1
           /\ Len(s) \in Nat
           /\ Append(s, m)[Len(s) + 1] = m
           /\ \A k \in 1..Len(s) : Append(s, m)[k] = s[k]
           /\ s \o <<m>> = Append(s, m) /\ s \o <<>> = s /\ <<>> \o s = s
<1>1. /\ Append(s, m) \in Seq(Message) /\ Len(Append(s, m)) = Len(s) + 1
      /\ Append(s, m)[Len(s) + 1] = m
      /\ \A k \in 1..Len(s) : Append(s, m)[k] = s[k]
  BY AppendProperties
<1>2. s \o <<m>> = Append(s, m)
  BY AppendIsConcat
<1> QED
  BY <1>1, <1>2, LenProperties, ConcatEmptySeq

(***************************************************************************)
(* WriteHeader sends the head when nothing was sent, and else nothing.     *)
(***************************************************************************)
LEMMA RespondHead ==
    ASSUME HttpInv, pc = "serve", NEW code \in Nat, Respond(code, <<>>)
    PROVE  /\ lengthHeader' \in Declared \cup {Absent, Garbage}
           /\ wroteHeader' = TRUE /\ status' \in Nat /\ contentLength' \in Nat \cup {-1}
           /\ IF wroteHeader
                THEN out' = out /\ status' = status /\ contentLength' = contentLength
                ELSE out' = <<Header(code, contentLength')>> /\ status' = code
<1> USE HttpAssumption
<1>1. ~closed
  BY DEF HttpInv, ClosedAtTrap
<1>2. ParsedLength(lengthHeader) \in Nat \cup {-1}
  BY DEF ParsedLength
<1>3. CASE wroteHeader
  <2>1. out \o <<>> = out
    BY ConcatEmptySeq DEF HttpInv, TypeOK
  <2> QED
    BY <1>1, <1>3, <2>1 DEF Respond, Sent, HttpInv, TypeOK
<1>4. CASE ~wroteHeader
  <2> DEFINE h == Header(code, ParsedLength(lengthHeader))
  <2>1. h \in Message /\ out = <<>>
    BY <1>2, <1>4, Kinds DEF HttpInv, HeaderIsFirst
  <2> HIDE DEF h
  <2>2. <<h>> \o <<>> = <<h>> /\ <<>> \o <<h>> = <<h>>
    <3>1. <<h>> \in Seq(Message)
      BY <2>1
    <3> QED
      BY <3>1, ConcatEmptySeq
  <2>3. out' = <<h>> /\ contentLength' = ParsedLength(lengthHeader)
    BY <1>1, <1>4, <2>1, <2>2 DEF Respond, Sent, h
  <2> QED
    BY <1>2, <1>4, <2>3 DEF Respond, HttpInv, TypeOK, h
<1> QED
  BY <1>3, <1>4

(***************************************************************************)
(* write sends the data behind what was sent, with the head before it when *)
(* nothing was sent.                                                       *)
(***************************************************************************)
LEMMA RespondBody ==
    ASSUME HttpInv, pc = "serve", NEW b \in Nat, Respond(StatusOK, <<Body(b)>>)
    PROVE  /\ lengthHeader' \in Declared \cup {Absent, Garbage}
           /\ wroteHeader' = TRUE /\ status' \in Nat /\ contentLength' \in Nat \cup {-1}
           /\ IF wroteHeader
                THEN /\ out' = Append(out, Body(b)) /\ status' = status
                     /\ contentLength' = contentLength
                ELSE /\ out' = Append(<<Header(StatusOK, contentLength')>>, Body(b))
                     /\ status' = StatusOK
                     /\ contentLength' = ParsedLength(lengthHeader)
<1> USE HttpAssumption
<1> DEFINE d == Body(b)
<1>1. ~closed /\ out \in Seq(Message) /\ d \in Message
  BY Kinds DEF HttpInv, ClosedAtTrap, TypeOK
<1>2. ParsedLength(lengthHeader) \in Nat \cup {-1} /\ StatusOK \in Nat
  BY DEF ParsedLength, StatusOK
<1>3. CASE wroteHeader
  <2> HIDE DEF d
  <2>1. out \o <<d>> = Append(out, d)
    BY <1>1, Behind
  <2> QED
    BY <1>1, <1>3, <2>1 DEF Respond, Sent, HttpInv, TypeOK, d
<1>4. CASE ~wroteHeader
  <2> DEFINE h == Header(StatusOK, ParsedLength(lengthHeader))
  <2>1. h \in Message /\ out = <<>>
    BY <1>2, <1>4, Kinds DEF HttpInv, HeaderIsFirst
  <2> HIDE DEF h, d
  <2>2. <<h>> \in Seq(Message)
    BY <2>1
  <2>3. <<h>> \o <<d>> = Append(<<h>>, d) /\ Append(<<h>>, d) \in Seq(Message)
    BY <1>1, <2>2, Behind
  <2>4. <<>> \o Append(<<h>>, d) = Append(<<h>>, d)
    BY <2>3, ConcatEmptySeq
  <2>5. out' = Append(<<h>>, d) /\ contentLength' = ParsedLength(lengthHeader)
    BY <1>1, <1>4, <2>1, <2>3, <2>4 DEF Respond, Sent, h, d
  <2> QED
    BY <1>2, <1>4, <2>5 DEF Respond, HttpInv, TypeOK, h, d
<1> QED
  BY <1>3, <1>4

(***************************************************************************)
(* The first Close or ErrorMsg of the response puts one end behind a framed*)
(* reply, and changes neither its head nor its body.                       *)
(***************************************************************************)
LEMMA EndsOnce ==
    ASSUME HttpInv, ~closed, NEW e \in Ending, End(e), UNCHANGED <<calls, bodyBytes>>
    PROVE  /\ out' = Append(out, e) /\ out' \in Seq(Message) /\ closed' = TRUE
           /\ out' # <<>> /\ out'[Len(out')] = e /\ Framed(out', Len(out') - 1)
           /\ Len(out') = Len(out) + 1
           /\ BodyFits'
<1>1. /\ out' = Append(out, e) /\ closed' = TRUE
      /\ e \in Message /\ out \in Seq(Message) /\ e.kind \in {"close", "error"}
  BY Kinds DEF End, HttpInv, TypeOK
<1>2. /\ out' \in Seq(Message) /\ Len(out') = Len(out) + 1 /\ Len(out) \in Nat
      /\ out'[Len(out) + 1] = e
      /\ \A k \in 1..Len(out) : out'[k] = out[k]
  BY <1>1, Behind
<1>3. out' # <<>>
  BY <1>2, EmptySeq
<1>4. Framed(out', Len(out') - 1)
  BY <1>2 DEF Framed, HttpInv, OpenIsFramed
<1>5. Bodies' = Bodies /\ (Bodies # {} => out'[1] = out[1])
  <2>1. DOMAIN out = 1..Len(out) /\ DOMAIN out' = 1..(Len(out) + 1)
    BY <1>1, <1>2, LenProperties
  <2>2. e.kind # "body"
    BY <1>1
  <2>3. Bodies' = Bodies
    BY <1>2, <2>1, <2>2 DEF Bodies
  <2>4. Bodies # {} => 1 \in 1..Len(out)
    BY <1>2, <2>1 DEF Bodies
  <2> QED
    BY <1>2, <2>3, <2>4
<1>6. BodyFits'
  BY <1>5 DEF BodyFits, HttpInv
<1> QED
  BY <1>1, <1>2, <1>3, <1>4, <1>6

(***************************************************************************)
(* A new invocation has sent nothing.                                      *)
(***************************************************************************)
LEMMA HttpInit == Init => HttpInv
<1> USE HttpAssumption
<1> SUFFICES ASSUME Init PROVE HttpInv
  OBVIOUS
<1>1. TypeOK
  BY EmptySeq DEF Init, TypeOK
<1>2. Len(out) = 0
  BY EmptySeq DEF Init
<1>3. Bodies = {}
  BY DEF Init, Bodies
<1> QED
  BY <1>1, <1>2, <1>3
  DEF Init, HttpInv, OpenIsFramed, ClosedHasEnd, ClosedAtTrap, NothingBeforeServe,
      HeaderIsFirst, RefusingForGood, BodyFits, EndIsAnswer, Framed

(***************************************************************************)
(* Every step of the handler and of its wrappers keeps HttpInv.            *)
(***************************************************************************)
LEMMA HttpStep == HttpInv /\ [Next]_vars => HttpInv'
<1> USE HttpAssumption
<1> SUFFICES ASSUME HttpInv, [Next]_vars PROVE HttpInv'
  OBVIOUS
<1>0. out \in Seq(Message) /\ Len(out) \in Nat /\ DOMAIN out = 1..Len(out)
  BY LenProperties DEF HttpInv, TypeOK
<1>1. CASE NoHandler
  <2>1. ~closed /\ out = <<>> /\ Error(ErrorNoEventHandler) \in Ending
    BY <1>1 DEF NoHandler, HttpInv, ClosedAtTrap, NothingBeforeServe, Ending
  <2>2. End(Error(ErrorNoEventHandler)) /\ UNCHANGED <<calls, bodyBytes>>
    BY <1>1 DEF NoHandler
  <2> DEFINE e == Error(ErrorNoEventHandler)
  <2>3. e \in Ending /\ End(e)
    BY <2>1, <2>2
  <2> HIDE DEF e
  <2>4. /\ out' = Append(out, e) /\ out' \in Seq(Message) /\ closed' = TRUE
        /\ out' # <<>> /\ out'[Len(out')] = e /\ Framed(out', Len(out') - 1)
        /\ BodyFits'
    BY <2>1, <2>2, <2>3, EndsOnce
  <2>5. out' = <<e>>
    BY <2>1, <2>4
  <2>6. TypeOK' /\ pc' = "trap"
    BY <1>1, <2>4 DEF NoHandler, HttpInv, TypeOK, writerVars
  <2> QED
    BY <2>3, <2>4, <2>5, <2>6
    DEF HttpInv, OpenIsFramed, ClosedHasEnd, ClosedAtTrap, NothingBeforeServe,
        HeaderIsFirst, RefusingForGood, EndIsAnswer, e
<1>2. CASE CallHandler \/ ReadRequest \/ Unpacked
  BY <1>2 DEF CallHandler, ReadRequest, Unpacked, writerVars, HttpInv, TypeOK,
      OpenIsFramed, ClosedHasEnd, ClosedAtTrap, NothingBeforeServe,
      HeaderIsFirst, RefusingForGood, Refusing, BodyFits, Bodies, EndIsAnswer
<1>3. ASSUME NEW code \in Nat, pc \in {"read", "unpack"}, Refuse(code) PROVE HttpInv'
  <2> DEFINE h == Header(code, -1)
             d == Body(1)
  <2>1. ~closed /\ out = <<>> /\ calls = 0 /\ bodyBytes = 0
    BY <1>3 DEF HttpInv, ClosedAtTrap, NothingBeforeServe
  <2>2. h \in Message /\ h.kind = "head" /\ d \in Message
    BY Kinds
  <2>3. out' = <<>> \o <<h, d>>
    BY <1>3, <2>1 DEF Refuse, Sent
  <2> HIDE DEF h, d
  <2>4. <<h, d>> \in Seq(Message) /\ Len(<<h, d>>) = 2
    BY <2>2
  <2>5. out' = <<h, d>>
    BY <2>3, <2>4, ConcatEmptySeq
  <2>6. Framed(out', Len(out')) /\ out' # <<>>
    BY <2>2, <2>4, <2>5 DEF Framed, d
  <2>7. TypeOK' /\ pc' = "close" /\ closed' = FALSE /\ calls' = 0
    BY <1>3, <2>1, <2>4, <2>5 DEF Refuse, HttpInv, TypeOK, writerVars
  <2> QED
    BY <2>6, <2>7
    DEF HttpInv, OpenIsFramed, ClosedHasEnd, ClosedAtTrap, NothingBeforeServe,
        HeaderIsFirst, RefusingForGood, BodyFits, EndIsAnswer
<1>4. ASSUME NEW v \in Declared \cup {Absent, Garbage}, SetLength(v) PROVE HttpInv'
  BY <1>4 DEF SetLength, HttpInv, TypeOK, OpenIsFramed, ClosedHasEnd, ClosedAtTrap,
      NothingBeforeServe, HeaderIsFirst, RefusingForGood, Refusing, BodyFits, Bodies,
      EndIsAnswer
<1>5. ASSUME NEW code \in Nat, pc = "serve", Respond(code, <<>>), pc' \in {"serve", "close"},
             UNCHANGED <<written, calls, bodyBytes, panicking, closed>>
      PROVE  HttpInv'
  <2>1. /\ lengthHeader' \in Declared \cup {Absent, Garbage}
        /\ wroteHeader' = TRUE /\ status' \in Nat /\ contentLength' \in Nat \cup {-1}
        /\ IF wroteHeader
             THEN out' = out /\ status' = status /\ contentLength' = contentLength
             ELSE out' = <<Header(code, contentLength')>> /\ status' = code
    BY <1>5, RespondHead
  <2>2. CASE wroteHeader
    BY <1>5, <2>1, <2>2
    DEF HttpInv, TypeOK, OpenIsFramed, ClosedHasEnd, ClosedAtTrap, NothingBeforeServe,
        HeaderIsFirst, RefusingForGood, Refusing, BodyFits, Bodies, EndIsAnswer
  <2>3. CASE ~wroteHeader
    <3> DEFINE h == Header(code, contentLength')
    <3>1. h \in Message /\ h.kind = "head"
      BY <2>1, Kinds
    <3>2. out' = <<h>>
      BY <2>1, <2>3
    <3>3. out = <<>> /\ calls = 0 /\ written = 0 /\ bodyBytes = 0
      BY <1>5, <2>3 DEF HttpInv, HeaderIsFirst
    <3> HIDE DEF h
    <3>4. out' \in Seq(Message) /\ Len(out') = 1 /\ out'[1] = h /\ out' # <<>>
      BY <3>1, <3>2
    <3>5. Framed(out', Len(out'))
      BY <3>1, <3>4 DEF Framed
    <3>6. TypeOK'
      BY <1>5, <2>1, <3>4 DEF HttpInv, TypeOK
    <3>7. out'[1] = Header(status', contentLength')
      BY <2>1, <2>3, <3>4 DEF h
    <3> QED
      BY <1>5, <2>1, <3>3, <3>4, <3>5, <3>6, <3>7
      DEF HttpInv, OpenIsFramed, ClosedHasEnd, ClosedAtTrap, NothingBeforeServe,
          HeaderIsFirst, RefusingForGood, Refusing, BodyFits, EndIsAnswer, TypeOK
  <2> QED
    BY <2>2, <2>3
<1>6. ASSUME NEW n \in Size, Write(n) PROVE HttpInv'
  <2> USE <1>6
  <2>1. /\ pc = "serve" /\ pc' = "serve" /\ n \in Nat /\ n > 0
        /\ calls \in Nat /\ calls' = calls + 1
        /\ written \in Nat /\ bodyBytes \in Nat /\ ~closed /\ ~panicking
        /\ closed' = FALSE /\ panicking' = FALSE
        /\ written' = IF StatusNow = StatusNotModified THEN written ELSE written + n
    BY DEF Write, HttpInv, TypeOK, ClosedAtTrap, EndIsAnswer
  <2>2. /\ StatusOK \in Nat /\ StatusOK # StatusNotModified
        /\ ParsedLength(lengthHeader) \in Nat \cup {-1}
    BY DEF StatusOK, StatusNotModified, ParsedLength
  <2>3. SUFFICES
          /\ lengthHeader' \in Declared \cup {Absent, Garbage}
          /\ wroteHeader' = TRUE /\ status' \in Nat /\ contentLength' \in Nat \cup {-1}
          /\ out' \in Seq(Message) /\ Framed(out', Len(out'))
          /\ Len(out') > 0 /\ out'[1] = Header(status', contentLength')
          /\ bodyBytes' \in Nat
          /\ Refusing' \/ (Len(out') = calls' + 1 /\ bodyBytes' = written')
          /\ status' = StatusNotModified => Len(out') = 1
          /\ contentLength' # -1 => bodyBytes' <= contentLength'
    <3>1. TypeOK'
      <4>1. written' \in Nat /\ calls' \in Nat
        BY <2>1
      <4> QED
        BY <2>1, <2>3, <4>1 DEF TypeOK
    <3>2. /\ out'[1].kind = "head" /\ out'[1].code = status'
          /\ out'[1].length = contentLength'
      BY <2>3 DEF Header
    <3>3. Len(out') = 1 => Bodies' = {}
      <4>1. DOMAIN out' = 1..Len(out')
        BY <2>3, LenProperties
      <4> QED
        BY <3>2, <4>1 DEF Bodies
    <3>4. BodyFits'
      BY <2>3, <3>2, <3>3 DEF BodyFits
    <3>5. out' # <<>>
      BY <2>3, EmptySeq
    <3> QED
      BY <2>1, <2>3, <3>1, <3>4, <3>5
      DEF HttpInv, OpenIsFramed, ClosedHasEnd, ClosedAtTrap, NothingBeforeServe,
          HeaderIsFirst, RefusingForGood, EndIsAnswer
  <2>4. CASE Refused(written + n)
    <3>1. Respond(StatusOK, <<>>) /\ bodyBytes' = bodyBytes
      BY <2>4 DEF Write
    <3>2. /\ lengthHeader' \in Declared \cup {Absent, Garbage}
          /\ wroteHeader' = TRUE /\ status' \in Nat /\ contentLength' \in Nat \cup {-1}
          /\ IF wroteHeader
               THEN out' = out /\ status' = status /\ contentLength' = contentLength
               ELSE out' = <<Header(StatusOK, contentLength')>> /\ status' = StatusOK
      BY <2>1, <2>2, <3>1, RespondHead
    <3>3. status' = StatusNow /\ contentLength' = LengthNow
      BY <2>1, <3>1, <3>2 DEF StatusNow, LengthNow, Respond
    <3>4. Refusing'
      BY <2>1, <2>4, <3>3 DEF Refusing, Refused
    <3>5. CASE wroteHeader
      <4>1. Len(out) > 0
        BY <1>0, <2>1, <3>5, EmptySeq DEF HttpInv, HeaderIsFirst
      <4> QED
        BY <1>0, <2>1, <3>1, <3>2, <3>4, <3>5, <4>1
        DEF HttpInv, OpenIsFramed, HeaderIsFirst, RefusingForGood
    <3>6. CASE ~wroteHeader
      <4> DEFINE h == Header(StatusOK, contentLength')
      <4>1. h \in Message /\ h.kind = "head" /\ h = Header(status', contentLength')
        BY <2>2, <3>2, <3>6, Kinds
      <4>2. out' = <<h>>
        BY <3>2, <3>6
      <4> HIDE DEF h
      <4>3. out' \in Seq(Message) /\ Len(out') = 1 /\ out'[1] = h
        BY <4>1, <4>2
      <4>4. Framed(out', Len(out'))
        BY <4>1, <4>3 DEF Framed
      <4>5. bodyBytes = 0
        BY <2>1, <3>6 DEF HttpInv, HeaderIsFirst
      <4> QED
        BY <3>1, <3>2, <3>4, <4>1, <4>3, <4>4, <4>5
    <3> QED
      BY <3>5, <3>6
  <2>5. CASE ~Refused(written + n)
    <3> DEFINE d == Body(calls + 1)
    <3>1. Respond(StatusOK, <<Body(calls + 1)>>) /\ bodyBytes' = bodyBytes + n
      BY <2>5 DEF Write
    <3>2. /\ lengthHeader' \in Declared \cup {Absent, Garbage}
          /\ wroteHeader' = TRUE /\ status' \in Nat /\ contentLength' \in Nat \cup {-1}
          /\ IF wroteHeader
               THEN /\ out' = Append(out, d) /\ status' = status
                    /\ contentLength' = contentLength
               ELSE /\ out' = Append(<<Header(StatusOK, contentLength')>>, d)
                    /\ status' = StatusOK
                    /\ contentLength' = ParsedLength(lengthHeader)
      <4> DEFINE b == calls + 1
      <4>1. b \in Nat /\ Respond(StatusOK, <<Body(b)>>) /\ d = Body(b)
        BY <2>1, <3>1
      <4> HIDE DEF b, d
      <4> QED
        BY <2>1, <4>1, RespondBody
    <3>3. status' = StatusNow /\ contentLength' = LengthNow
      BY <3>2 DEF StatusNow, LengthNow
    <3>4. /\ status' # StatusNotModified /\ written' = written + n
          /\ contentLength' # -1 => written + n <= contentLength'
      BY <2>1, <2>5, <3>2, <3>3 DEF Refused
    <3>5. d \in Message
      BY <2>1, Kinds
    <3>6. PICK s \in Seq(Message) :
            /\ out' = Append(s, d) /\ Framed(s, Len(s)) /\ Len(s) = calls + 1
            /\ s[1] = Header(status', contentLength')
            /\ bodyBytes = written
      <4>1. CASE wroteHeader
        <5>1. ~Refusing
          BY <2>1, <3>2, <3>4, <4>1 DEF Refusing
        <5> QED
          BY <1>0, <2>1, <3>2, <4>1, <5>1
          DEF HttpInv, OpenIsFramed, HeaderIsFirst, RefusingForGood
      <4>2. CASE ~wroteHeader
        <5> DEFINE h == Header(StatusOK, contentLength')
        <5>1. h \in Message /\ h.kind = "head" /\ h = Header(status', contentLength')
          BY <2>2, <3>2, <4>2, Kinds
        <5>2. out' = Append(<<h>>, d)
          BY <3>2, <4>2
        <5> DEFINE t == <<h>>
        <5> HIDE DEF h, d
        <5>3. t \in Seq(Message) /\ Len(t) = 1 /\ t[1] = h
          BY <5>1
        <5>4. Framed(t, Len(t))
          BY <5>1, <5>3 DEF Framed
        <5>5. calls = 0 /\ bodyBytes = 0 /\ written = 0
          BY <2>1, <4>2 DEF HttpInv, HeaderIsFirst
        <5>6. out' = Append(t, d)
          BY <5>2
        <5> HIDE DEF t
        <5>7. Len(t) = calls + 1 /\ t[1] = Header(status', contentLength')
          BY <5>1, <5>3, <5>5
        <5> QED
          BY <5>3, <5>4, <5>5, <5>6, <5>7
      <4> QED
        BY <4>1, <4>2
    <3>7. /\ out' \in Seq(Message) /\ Len(out') = calls + 2
          /\ out'[calls + 2] = d
          /\ \A k \in 1..(calls + 1) : out'[k] = s[k]
      <4> HIDE DEF d
      <4>1. /\ Append(s, d) \in Seq(Message) /\ Len(Append(s, d)) = Len(s) + 1
            /\ Append(s, d)[Len(s) + 1] = d
            /\ \A k \in 1..Len(s) : Append(s, d)[k] = s[k]
        BY <3>5, Behind
      <4> QED
        BY <2>1, <3>6, <4>1
    <3>8. Framed(out', Len(out'))
      <4>1. ASSUME NEW k \in 1..(calls + 2)
            PROVE  IF k = 1 THEN out'[k].kind = "head" ELSE out'[k] = Body(k - 1)
        <5>1. CASE k = calls + 2
          <6>1. k # 1 /\ k - 1 = calls + 1
            BY <2>1, <5>1
          <6> QED
            BY <3>7, <5>1, <6>1
        <5>2. CASE k # calls + 2
          <6>1. k \in 1..(calls + 1)
            BY <2>1, <5>2
          <6> QED
            BY <3>6, <3>7, <6>1 DEF Framed
        <5> QED
          BY <5>1, <5>2
      <4> QED
        BY <3>7, <4>1 DEF Framed
    <3>9. out'[1] = Header(status', contentLength')
      BY <2>1, <3>6, <3>7
    <3> QED
      BY <2>1, <3>1, <3>2, <3>4, <3>6, <3>7, <3>8, <3>9
  <2> QED
    BY <2>4, <2>5
<1>7. CASE HandlerPanics
  BY <1>7 DEF HandlerPanics, writerVars, HttpInv, TypeOK, OpenIsFramed, ClosedHasEnd,
      ClosedAtTrap, NothingBeforeServe, HeaderIsFirst, RefusingForGood, BodyFits,
      Bodies, EndIsAnswer
<1>8. CASE DeferredClose
  <2>1. ~closed /\ Close \in Ending /\ End(Close) /\ UNCHANGED <<calls, bodyBytes>>
    BY <1>8 DEF DeferredClose, HttpInv, ClosedAtTrap, Ending
  <2>2. /\ out' = Append(out, Close) /\ out' \in Seq(Message) /\ closed' = TRUE
        /\ out' # <<>> /\ out'[Len(out')] = Close /\ Framed(out', Len(out') - 1)
        /\ Len(out') = Len(out) + 1
        /\ BodyFits'
    BY <2>1, EndsOnce
  <2>3. TypeOK' /\ pc' = "trap" /\ panicking' = panicking
    BY <1>8, <2>2 DEF DeferredClose, HttpInv, TypeOK, writerVars
  <2>4. ~panicking => Len(out) >= 1
    BY <1>0, <1>8, EmptySeq DEF DeferredClose, HttpInv, EndIsAnswer
  <2> QED
    BY <1>0, <2>1, <2>2, <2>3, <2>4
    DEF HttpInv, OpenIsFramed, ClosedHasEnd, ClosedAtTrap, NothingBeforeServe,
        HeaderIsFirst, RefusingForGood, EndIsAnswer
<1>9. CASE Trap
  <2>1. closed /\ out' = out /\ closed' = TRUE
    BY <1>9 DEF Trap, End, HttpInv, ClosedAtTrap
  <2> QED
    BY <1>9, <2>1 DEF Trap, writerVars, HttpInv, TypeOK, OpenIsFramed, ClosedHasEnd,
        ClosedAtTrap, NothingBeforeServe, HeaderIsFirst, RefusingForGood, BodyFits,
        Bodies, EndIsAnswer
<1>10. CASE UNCHANGED vars
  BY <1>10 DEF vars, writerVars, HttpInv, TypeOK, OpenIsFramed, ClosedHasEnd,
      ClosedAtTrap, NothingBeforeServe, HeaderIsFirst, RefusingForGood, Refusing,
      BodyFits, Bodies, EndIsAnswer
<1>11. CASE ReadFails \/ Malformed
  BY <1>3, <1>11 DEF ReadFails, Malformed, StatusBadRequest, StatusRequestTimeout
<1>12. ASSUME NEW code \in Code, WriteHeader(code) PROVE HttpInv'
  BY <1>5, <1>12 DEF WriteHeader
<1>13. CASE WriteNothing \/ HandlerReturns
  BY <1>5, <1>13 DEF WriteNothing, HandlerReturns, StatusOK
<1> QED
  BY <1>1, <1>2, <1>4, <1>6, <1>7, <1>8, <1>9, <1>10, <1>11, <1>12, <1>13
  DEF Next, Serve

(***************************************************************************)
(* HttpInv holds in every reachable state.                                 *)
(***************************************************************************)
LEMMA HttpInvHolds == Spec => []HttpInv
  BY HttpInit, HttpStep, PTL DEF Spec

-----------------------------------------------------------------------------
(***************************************************************************)
(* What every state that HttpInv allows looks like to the client: a chunk  *)
(* is a head only in the first place, the data of call k - 1 of Write only *)
(* in place k behind a head, and an end only in the last place.            *)
(***************************************************************************)
LEMMA Shape ==
    ASSUME HttpInv, NEW k \in DOMAIN out
    PROVE  /\ k \in 1..Len(out) /\ Len(out) \in Nat
           /\ \/ k = 1 /\ out[k].kind = "head"
              \/ k > 1 /\ out[k] = Body(k - 1) /\ out[1].kind = "head"
              \/ k = Len(out) /\ out[k].kind \in {"close", "error"}
<1>1. k \in 1..Len(out) /\ Len(out) \in Nat
  BY LenProperties DEF HttpInv, TypeOK
<1>2. CASE ~closed
  <2>1. Framed(out, Len(out))
    BY <1>2 DEF HttpInv, OpenIsFramed
  <2> QED
    BY <1>1, <2>1 DEF Framed
<1>3. CASE closed
  <2>1. out[Len(out)] \in Ending /\ Framed(out, Len(out) - 1)
    BY <1>3 DEF HttpInv, ClosedHasEnd
  <2>2. CASE k = Len(out)
    BY <1>1, <2>1, <2>2, Kinds
  <2>3. CASE k # Len(out)
    <3>1. k \in 1..(Len(out) - 1) /\ 1 \in 1..(Len(out) - 1)
      BY <1>1, <2>3
    <3> QED
      BY <1>1, <2>1, <3>1 DEF Framed
  <2> QED
    BY <2>2, <2>3
<1> QED
  BY <1>1, <1>2, <1>3

(***************************************************************************)
(* The variables of the ResponseWriter and what is sent keep their types:  *)
(* in particular a Content-Length the writer believes is never negative.   *)
(***************************************************************************)
THEOREM TypeCorrect == Spec => []TypeOK
<1>1. HttpInv => TypeOK
  BY DEF HttpInv
<1> QED
  BY <1>1, HttpInvHolds, PTL

(***************************************************************************)
(* However the application mixes WriteHeader, Write and its end, the client*)
(* gets one head, first, and one end, last.                                *)
(***************************************************************************)
THEOREM HeadComesFirst == Spec => []HeadFirst
<1>1. HttpInv => HeadFirst
  <2> SUFFICES ASSUME HttpInv, NEW k \in DOMAIN out
               PROVE  /\ out[k].kind = "head" => k = 1
                      /\ out[k].kind = "body" => k > 1 /\ out[1].kind = "head"
                      /\ out[k].kind \in {"close", "error"} => k = Len(out)
    BY DEF HeadFirst
  <2>1. /\ k \in 1..Len(out) /\ Len(out) \in Nat
        /\ \/ k = 1 /\ out[k].kind = "head"
           \/ k > 1 /\ out[k] = Body(k - 1) /\ out[1].kind = "head"
           \/ k = Len(out) /\ out[k].kind \in {"close", "error"}
    BY Shape
  <2>2. out[k] = Body(k - 1) => out[k].kind = "body"
    BY DEF Body
  <2> QED
    BY <2>1, <2>2
<1> QED
  BY <1>1, HttpInvHolds, PTL

(***************************************************************************)
(* What write sends of the body is what the application wrote up to the    *)
(* first refused call, and it fits the head.                               *)
(***************************************************************************)
THEOREM BodyHasNoGap == Spec => []BodyIsAPrefix
<1>1. HttpInv => BodyIsAPrefix
  <2> SUFFICES ASSUME HttpInv PROVE BodyIsAPrefix
    OBVIOUS
  <2>1. ASSUME NEW k \in Bodies PROVE out[k].call = k - 1
    <3>1. k \in DOMAIN out /\ out[k].kind = "body"
      BY DEF Bodies
    <3>2. /\ \/ k = 1 /\ out[k].kind = "head"
             \/ k > 1 /\ out[k] = Body(k - 1) /\ out[1].kind = "head"
             \/ k = Len(out) /\ out[k].kind \in {"close", "error"}
      BY <3>1, Shape
    <3>3. out[k] = Body(k - 1)
      BY <3>1, <3>2
    <3> QED
      BY <3>3 DEF Body
  <2> QED
    BY <2>1 DEF BodyIsAPrefix, HttpInv, BodyFits
<1> QED
  BY <1>1, HttpInvHolds, PTL

(***************************************************************************)
(* A handler that returns leaves a status and a close behind it: finish-   *)
(* Request sends the head no Write and no WriteHeader sent.                *)
(***************************************************************************)
THEOREM ReturnAnswers == Spec => []ReturnIsAnswered
<1>1. HttpInv => ReturnIsAnswered
  <2> SUFFICES ASSUME HttpInv, pc = "done", ~panicking
               PROVE  \/ Len(out) >= 2 /\ out[1].kind = "head" /\ out[Len(out)] = Close
                      \/ out = <<Error(ErrorNoEventHandler)>>
    BY DEF ReturnIsAnswered
  <2>1. closed /\ Framed(out, Len(out) - 1) /\ Len(out) \in Nat
    BY LenProperties DEF HttpInv, TypeOK, ClosedAtTrap, ClosedHasEnd
  <2>2. Len(out) >= 2 => out[1].kind = "head"
    BY <2>1 DEF Framed
  <2> QED
    BY <2>1, <2>2 DEF HttpInv, EndIsAnswer
<1> QED
  BY <1>1, HttpInvHolds, PTL

-----------------------------------------------------------------------------
(* The proxy in front of the handler. *)

(***************************************************************************)
(* The invariant of process.  It has taken no more than was sent, and      *)
(* nothing and written nothing before it asks for the head; what it wrote  *)
(* is the status of the head and then the chunks it took, one by one; and  *)
(* it stops without giving up only at a message that is not a chunk.       *)
(***************************************************************************)
Replies == [kind : {"status"}, code : Nat] \cup [kind : {"body"}, call : Nat]

Asking == {"parse", "connect", "pack", "enqueue", "write", "head"}

ProxyTypes ==
    /\ stage \in Asking \cup {"body", "refused", "done"}
    /\ taken \in Nat
    /\ cut \in BOOLEAN
    /\ client \in Seq(Replies)

TakenWasSent == taken <= Len(out)

NothingBeforeHead == stage \in Asking => taken = 0 /\ client = <<>>

EndsWithStatus == stage \in {"refused", "done"} => client # <<>>

PassesOn ==
    /\ stage = "body" => Len(client) = taken /\ taken > 0
    /\ Len(client) > 1 \/ stage = "body" =>
        /\ Len(client) <= taken
        /\ client[1] = Status(out[1].code)
        /\ \A k \in 2..Len(client) : client[k] = out[k] /\ out[k].kind = "body"

StopsAtTheEnd ==
    stage = "done" /\ ~cut /\ taken > 1 =>
        Len(client) = taken - 1 /\ out[taken].kind # "body"

ProxyInv ==
    /\ HttpInv
    /\ ProxyTypes
    /\ TakenWasSent
    /\ NothingBeforeHead
    /\ EndsWithStatus
    /\ PassesOn
    /\ StopsAtTheEnd

(***************************************************************************)
(* Every step of the proxy is one of the handler or leaves the handler     *)
(* alone: behind the proxy it behaves as HttpHandler says, and every       *)
(* theorem above holds of it.                                              *)
(***************************************************************************)
LEMMA HandlerBehindProxy == ProxySpec => Spec
<1>1. ProxyInit => Init
  BY DEF ProxyInit
<1>2. [ProxyNext]_allVars => [Next]_vars
  BY DEF ProxyNext, allVars, ParseFails, Parsed, ConnectFails, Connected, PackFails, Packed,
      EnqueueFails, Enqueued, WriteFails, Written, Answer, Proceed, GetHead, GetBody, Get,
      GetFails, Application
<1> QED
  BY <1>1, <1>2, PTL DEF Spec, ProxySpec

(***************************************************************************)
(* So the reply is well framed, without a gap, and answered also when the  *)
(* proxy reads it while it is written and gives it up half-way.            *)
(***************************************************************************)
THEOREM RepliesBehindProxy == ProxySpec => [](HeadFirst /\ BodyIsAPrefix /\ ReturnIsAnswered)
  BY HandlerBehindProxy, HeadComesFirst, BodyHasNoGap, ReturnAnswers, PTL

(***************************************************************************)
(* What was sent stays sent: a step of the handler only adds behind it.    *)
(***************************************************************************)
LEMMA SentStays ==
    ASSUME HttpInv, [Next]_vars
    PROVE  /\ Len(out) \in Nat /\ Len(out') \in Nat /\ Len(out) <= Len(out')
           /\ \A k \in 1..Len(out) : out'[k] = out[k]
<1> USE HttpAssumption
<1>0. out \in Seq(Message) /\ Len(out) \in Nat
  BY LenProperties DEF HttpInv, TypeOK
<1>1. HttpInv'
  BY HttpStep
<1>2. out' \in Seq(Message) /\ Len(out') \in Nat
  BY <1>1, LenProperties DEF HttpInv, TypeOK
<1>3. CASE out' = out
  BY <1>0, <1>3
<1>4. CASE out = <<>>
  <2>1. Len(out) = 0
    BY <1>4, EmptySeq
  <2> QED
    BY <1>2, <2>1
<1>5. ASSUME NEW m \in Message, out' = Append(out, m)
      PROVE  Len(out) <= Len(out') /\ \A k \in 1..Len(out) : out'[k] = out[k]
  BY <1>0, <1>5, Behind
<1>6. ASSUME NEW e \in Ending, End(e)
      PROVE  Len(out) <= Len(out') /\ \A k \in 1..Len(out) : out'[k] = out[k]
  <2>1. e \in Message
    BY Kinds
  <2> QED
    BY <1>3, <1>5, <1>6, <2>1 DEF End
<1>7. ASSUME pc = "serve", NEW code \in Nat, Respond(code, <<>>)
      PROVE  Len(out) <= Len(out') /\ \A k \in 1..Len(out) : out'[k] = out[k]
  <2>1. CASE wroteHeader
    <3>1. out' = out
      BY <1>7, <2>1, RespondHead
    <3> QED
      BY <1>3, <3>1
  <2>2. CASE ~wroteHeader
    <3>1. out = <<>>
      BY <1>7, <2>2 DEF HttpInv, HeaderIsFirst
    <3> QED
      BY <1>4, <3>1
  <2> QED
    BY <2>1, <2>2
<1>8. ASSUME NEW n \in Size, Write(n)
      PROVE  Len(out) <= Len(out') /\ \A k \in 1..Len(out) : out'[k] = out[k]
  <2>1. pc = "serve" /\ calls + 1 \in Nat /\ StatusOK \in Nat
    BY <1>8 DEF Write, HttpInv, TypeOK, StatusOK
  <2>2. CASE Respond(StatusOK, <<>>)
    BY <1>7, <2>1, <2>2
  <2>3. CASE Respond(StatusOK, <<Body(calls + 1)>>) /\ wroteHeader
    <3> DEFINE b == calls + 1
    <3>1. b \in Nat /\ Respond(StatusOK, <<Body(b)>>)
      BY <2>1, <2>3
    <3> HIDE DEF b
    <3>2. out' = Append(out, Body(b)) /\ Body(b) \in Message
      BY <2>1, <2>3, <3>1, RespondBody, Kinds
    <3> QED
      BY <1>5, <3>2
  <2>4. CASE ~wroteHeader
    <3>1. out = <<>>
      BY <2>1, <2>4 DEF HttpInv, HeaderIsFirst
    <3> QED
      BY <1>4, <3>1
  <2> QED
    BY <1>8, <2>2, <2>3, <2>4 DEF Write
<1>9. CASE NoHandler \/ ReadFails \/ Malformed
  <2>1. out = <<>>
    BY <1>9 DEF NoHandler, ReadFails, Malformed, HttpInv, NothingBeforeServe
  <2> QED
    BY <1>0, <1>2, <1>4, <2>1
<1>10. CASE CallHandler \/ ReadRequest \/ Unpacked \/ HandlerPanics \/ UNCHANGED vars
  BY <1>0, <1>2, <1>3, <1>10
  DEF CallHandler, ReadRequest, Unpacked, HandlerPanics, vars
<1>11. CASE Serve \/ HandlerReturns
  <2>1. ASSUME NEW v \in Declared \cup {Absent, Garbage}, SetLength(v) PROVE out' = out
    BY <2>1 DEF SetLength
  <2>2. ASSUME NEW code \in Code, WriteHeader(code)
        PROVE  pc = "serve" /\ code \in Nat /\ Respond(code, <<>>)
    BY <2>2 DEF WriteHeader
  <2>3. CASE WriteNothing \/ HandlerReturns
    BY <1>7, <2>3, <1>0, <1>2 DEF WriteNothing, HandlerReturns, StatusOK
  <2> QED
    BY <1>0, <1>2, <1>3, <1>7, <1>8, <1>11, <2>1, <2>2, <2>3 DEF Serve
<1>12. CASE DeferredClose \/ Trap
  BY <1>0, <1>2, <1>6, <1>12 DEF DeferredClose, Trap, Ending
<1> QED
  BY <1>9, <1>10, <1>11, <1>12 DEF Next

(***************************************************************************)
(* ProxyInv holds in every reachable state.                                *)
(***************************************************************************)
LEMMA ProxyInvHolds == ProxySpec => []ProxyInv
<1>1. ProxyInit => ProxyInv
  <2> SUFFICES ASSUME ProxyInit PROVE ProxyInv
    OBVIOUS
  <2>1. HttpInv
    BY HttpInit DEF ProxyInit
  <2>2. client \in Seq(Replies) /\ Len(client) = 0 /\ Len(out) = 0
    BY EmptySeq DEF ProxyInit, Init
  <2>3. stage = "parse" /\ taken = 0 /\ cut = FALSE /\ client = <<>>
    BY DEF ProxyInit
  <2>4. ~(Len(client) > 1) /\ taken <= Len(out)
    BY <2>2, <2>3
  <2> QED
    BY <2>1, <2>2, <2>3, <2>4 DEF ProxyInv, ProxyTypes, TakenWasSent, NothingBeforeHead,
        EndsWithStatus, PassesOn, StopsAtTheEnd, Asking
<1>2. ProxyInv /\ [ProxyNext]_allVars => ProxyInv'
  <2> SUFFICES ASSUME ProxyInv, [ProxyNext]_allVars PROVE ProxyInv'
    OBVIOUS
  <2>0. /\ out \in Seq(Message) /\ Len(out) \in Nat /\ DOMAIN out = 1..Len(out)
        /\ client \in Seq(Replies) /\ Len(client) \in Nat /\ taken \in Nat
        /\ \A k \in 1..Len(client) : client[k] \in Replies
    <3>1. out \in Seq(Message) /\ client \in Seq(Replies) /\ taken \in Nat
      BY DEF ProxyInv, HttpInv, TypeOK, ProxyTypes
    <3> QED
      BY <3>1, LenProperties, ElementOfSeq
  <2>1. ASSUME NEW c \in Nat
        PROVE  /\ <<Status(c)>> \in Seq(Replies) /\ Len(<<Status(c)>>) = 1
               /\ <<Status(c)>>[1] = Status(c) /\ <<Status(c)>> # <<>>
    <3> DEFINE st == Status(c)
    <3>1. st \in Replies
      BY DEF Status, Replies
    <3> HIDE DEF st
    <3>2. <<st>> \in Seq(Replies) /\ Len(<<st>>) = 1 /\ <<st>>[1] = st /\ <<st>> # <<>>
      BY <3>1
    <3> QED
      BY <3>2 DEF st
  <2>2. UNCHANGED vars => HttpInv'
    BY HttpStep DEF ProxyInv
  <2>3. ASSUME NEW from, NEW to \in Asking, from \in Asking, Proceed(from, to)
        PROVE  ProxyInv'
    BY <2>2, <2>3 DEF Proceed, ProxyInv, ProxyTypes, TakenWasSent, NothingBeforeHead,
        EndsWithStatus, PassesOn, StopsAtTheEnd, Asking, vars
  <2>4. ASSUME NEW code \in Nat, NEW to \in {"refused", "done"}, stage \in Asking,
               Answer(code, to)
        PROVE  ProxyInv'
    <3>1. client' = <<Status(code)>> /\ stage' = to /\ UNCHANGED <<vars, taken, cut>>
      BY <2>4 DEF Answer
    <3>2. client' \in Seq(Replies) /\ Len(client') = 1 /\ client' # <<>>
      BY <2>1, <3>1
    <3>3. taken = 0
      BY <2>4 DEF ProxyInv, NothingBeforeHead
    <3> QED
      BY <2>2, <2>4, <3>1, <3>2, <3>3 DEF ProxyInv, ProxyTypes, TakenWasSent,
          NothingBeforeHead, EndsWithStatus, PassesOn, StopsAtTheEnd, Asking, vars
  <2>5. CASE GetHead
    <3>1. /\ stage = "head" /\ taken = 0 /\ taken' = 1 /\ taken < Len(out)
          /\ UNCHANGED <<vars, cut>>
      BY <2>5 DEF GetHead, Get, ProxyInv, NothingBeforeHead, Asking
    <3>2. out' = out /\ HttpInv' /\ 1 \in 1..Len(out)
      BY <2>0, <2>2, <3>1 DEF vars
    <3>3. CASE out[1].kind = "head"
      <4>1. client' = <<Status(out[1].code)>> /\ stage' = "body"
        BY <2>5, <3>3 DEF GetHead
      <4>2. out[1].code \in Nat
        <5>1. out[1] \in Message
          BY <2>0, <3>2, ElementOfSeq
        <5> QED
          BY <3>3, <5>1 DEF Message, Chunk, Close, Error
      <4>3. /\ client' \in Seq(Replies) /\ Len(client') = 1
            /\ client'[1] = Status(out[1].code)
        BY <2>1, <4>1, <4>2
      <4> QED
        BY <2>0, <3>1, <3>2, <4>1, <4>3 DEF ProxyInv, ProxyTypes, TakenWasSent,
            NothingBeforeHead, EndsWithStatus, PassesOn, StopsAtTheEnd, Asking
    <3>4. CASE out[1].kind # "head"
      <4>1. client' = <<Status(StatusInternalServerError)>> /\ stage' = "done"
        BY <2>5, <3>4 DEF GetHead
      <4>2. client' \in Seq(Replies) /\ Len(client') = 1 /\ client' # <<>>
        BY <2>1, <4>1 DEF StatusInternalServerError
      <4> QED
        BY <2>0, <3>1, <3>2, <4>1, <4>2 DEF ProxyInv, ProxyTypes, TakenWasSent,
            NothingBeforeHead, EndsWithStatus, PassesOn, StopsAtTheEnd, Asking
    <3> QED
      BY <3>3, <3>4
  <2>6. CASE GetBody
    <3>1. /\ stage = "body" /\ taken' = taken + 1 /\ taken < Len(out)
          /\ UNCHANGED <<vars, cut>> /\ taken > 0 /\ Len(client) = taken
      BY <2>6 DEF GetBody, Get, ProxyInv, PassesOn
    <3>2. out' = out /\ HttpInv' /\ taken + 1 \in 1..Len(out)
      BY <2>0, <2>2, <3>1 DEF vars
    <3>3. /\ client[1] = Status(out[1].code)
          /\ \A k \in 2..Len(client) : client[k] = out[k] /\ out[k].kind = "body"
      BY <3>1 DEF ProxyInv, PassesOn
    <3>4. CASE out[taken + 1].kind = "body"
      <4> DEFINE d == out[taken + 1]
      <4>1. client' = Append(client, d) /\ stage' = "body"
        BY <2>6, <3>1, <3>4 DEF GetBody
      <4>2. d \in Replies
        <5>1. d \in Message
          BY <2>0, <3>2, ElementOfSeq
        <5> QED
          BY <3>4, <5>1 DEF Message, Chunk, Close, Error, Replies
      <4> HIDE DEF d
      <4>3. /\ client' \in Seq(Replies) /\ Len(client') = taken + 1
            /\ client'[taken + 1] = d /\ \A k \in 1..taken : client'[k] = client[k]
        BY <2>0, <3>1, <4>1, <4>2, AppendProperties
      <4>4. client'[1] = Status(out[1].code)
        BY <2>0, <3>1, <3>3, <4>3
      <4>5. ASSUME NEW k \in 2..Len(client')
            PROVE  client'[k] = out[k] /\ out[k].kind = "body"
        <5>1. CASE k = taken + 1
          BY <3>4, <4>3, <5>1 DEF d
        <5>2. CASE k # taken + 1
          <6>1. k \in 1..taken /\ k \in 2..Len(client)
            BY <2>0, <3>1, <4>3, <5>2
          <6> QED
            BY <3>3, <4>3, <6>1
        <5> QED
          BY <5>1, <5>2
      <4> QED
        BY <2>0, <3>1, <3>2, <4>1, <4>3, <4>4, <4>5 DEF ProxyInv, ProxyTypes,
            TakenWasSent, NothingBeforeHead, EndsWithStatus, PassesOn, StopsAtTheEnd,
            Asking
    <3>5. CASE out[taken + 1].kind # "body"
      <4>1. client' = client /\ stage' = "done"
        BY <2>6, <3>1, <3>5 DEF GetBody
      <4>2. client # <<>>
        BY <2>0, <3>1, EmptySeq
      <4> QED
        BY <2>0, <3>1, <3>2, <3>3, <3>5, <4>1, <4>2 DEF ProxyInv, ProxyTypes,
            TakenWasSent, NothingBeforeHead, EndsWithStatus, PassesOn, StopsAtTheEnd,
            Asking
    <3> QED
      BY <3>4, <3>5
  <2>7. CASE GetFails
    <3>1. /\ stage \in {"head", "body"} /\ cut' = TRUE /\ stage' = "done" /\ taken' = taken
          /\ UNCHANGED vars /\ out' = out /\ HttpInv'
      BY <2>2, <2>7 DEF GetFails, vars
    <3>2. CASE stage = "head"
      <4>1. client' = <<Status(StatusInternalServerError)>>
        BY <2>7, <3>2 DEF GetFails
      <4>2. client' \in Seq(Replies) /\ Len(client') = 1 /\ client' # <<>>
        BY <2>1, <4>1 DEF StatusInternalServerError
      <4> QED
        BY <2>0, <3>1, <4>2 DEF ProxyInv, ProxyTypes, TakenWasSent,
            NothingBeforeHead, EndsWithStatus, PassesOn, StopsAtTheEnd, Asking
    <3>3. CASE stage = "body"
      <4>1. client' = client
        BY <2>7, <3>3 DEF GetFails
      <4>2. client # <<>>
        BY <2>0, <3>3, EmptySeq DEF ProxyInv, PassesOn
      <4> QED
        BY <2>0, <3>1, <3>3, <4>1, <4>2 DEF ProxyInv, ProxyTypes, TakenWasSent,
            NothingBeforeHead, EndsWithStatus, PassesOn, StopsAtTheEnd, Asking
    <3> QED
      BY <3>1, <3>2, <3>3
  <2>8. CASE Application \/ UNCHANGED allVars
    <3>1. [Next]_vars /\ UNCHANGED <<stage, taken, cut, client>>
      BY <2>8 DEF Application, allVars, proxyVars
    <3>2. HttpInv' /\ HttpInv
      BY <3>1, HttpStep DEF ProxyInv
    <3>3. /\ Len(out') \in Nat /\ Len(out) <= Len(out')
          /\ \A k \in 1..Len(out) : out'[k] = out[k]
      BY <3>1, <3>2, SentStays
    <3>4. taken <= Len(out) /\ taken <= Len(out')
      BY <2>0, <3>3 DEF ProxyInv, TakenWasSent
    <3>5. \A k \in 1..taken : out'[k] = out[k]
      BY <2>0, <3>3, <3>4
    <3>6. PassesOn'
      <4>1. SUFFICES ASSUME Len(client) > 1 \/ stage = "body"
                     PROVE  /\ client[1] = Status(out'[1].code)
                            /\ \A k \in 2..Len(client) :
                                  client[k] = out'[k] /\ out'[k].kind = "body"
        BY <3>1 DEF ProxyInv, PassesOn
      <4>2. /\ Len(client) <= taken /\ taken > 0
            /\ client[1] = Status(out[1].code)
            /\ \A k \in 2..Len(client) : client[k] = out[k] /\ out[k].kind = "body"
        BY <2>0, <4>1 DEF ProxyInv, PassesOn
      <4>3. out'[1] = out[1] /\ \A k \in 2..Len(client) : out'[k] = out[k]
        BY <2>0, <3>5, <4>2
      <4> QED
        BY <4>2, <4>3
    <3>7. StopsAtTheEnd'
      BY <2>0, <3>1, <3>5 DEF ProxyInv, StopsAtTheEnd
    <3> QED
      BY <3>1, <3>2, <3>4, <3>6, <3>7 DEF ProxyInv, ProxyTypes, TakenWasSent,
          NothingBeforeHead, EndsWithStatus
  <2>9. CASE Parsed \/ Connected \/ Packed \/ Enqueued \/ Written
    BY <2>3, <2>9 DEF Parsed, Connected, Packed, Enqueued, Written, Asking
  <2>10. CASE ParseFails \/ ConnectFails \/ PackFails \/ EnqueueFails \/ WriteFails
    BY <2>4, <2>10 DEF ParseFails, ConnectFails, PackFails, EnqueueFails, WriteFails,
        Asking, StatusBadRequest, StatusInternalServerError
  <2> QED
    BY <2>5, <2>6, <2>7, <2>8, <2>9, <2>10 DEF ProxyNext
<1> QED
  BY <1>1, <1>2, PTL DEF ProxySpec

(***************************************************************************)
(* The HTTP client of the proxy gets the application's reply: its status,  *)
(* its chunks in order and all of them unless the proxy gave up, and some  *)
(* status whatever fails and whenever.                                     *)
(***************************************************************************)
THEOREM ReplyIsPassedOn == ProxySpec => []ClientSeesTheReply
<1>1. ProxyInv => ClientSeesTheReply
  <2> SUFFICES ASSUME ProxyInv PROVE ClientSeesTheReply
    OBVIOUS
  <2>0. /\ out \in Seq(Message) /\ Len(out) \in Nat /\ DOMAIN out = 1..Len(out)
        /\ taken \in Nat /\ taken <= Len(out) /\ HttpInv
    BY LenProperties DEF ProxyInv, HttpInv, TypeOK, ProxyTypes, TakenWasSent
  <2>1. ASSUME stage = "done", ~cut, taken > 1, NEW k \in 2..Len(out)
        PROVE  out[k].kind = "body" <=> k <= Len(client)
    <3>1. Len(client) = taken - 1 /\ out[taken].kind # "body"
      BY <2>1 DEF ProxyInv, StopsAtTheEnd
    <3>2. \A j \in 2..Len(out) :
             \/ out[j] = Body(j - 1)
             \/ j = Len(out) /\ out[j].kind \in {"close", "error"}
      <4>1. TAKE j \in 2..Len(out)
      <4>2. j \in DOMAIN out /\ j # 1
        BY <2>0
      <4> QED
        BY <2>0, <4>2, Shape
    <3>3. \A j \in Nat : Body(j).kind = "body"
      BY Kinds
    <3>4. taken = Len(out)
      <4>1. taken \in 2..Len(out) /\ taken - 1 \in Nat
        BY <2>0, <2>1
      <4>2. out[taken] # Body(taken - 1)
        BY <3>1, <3>3, <4>1
      <4> QED
        BY <3>2, <4>1, <4>2
    <3>5. CASE k = Len(out)
      BY <2>0, <3>1, <3>4, <3>5
    <3>6. CASE k # Len(out)
      <4>1. out[k] = Body(k - 1)
        BY <3>2, <3>6
      <4>2. k - 1 \in Nat /\ k <= Len(out) - 1
        <5>1. Len(out) \in Nat /\ k \in 2..Len(out)
          BY <2>0, <2>1
        <5> QED
          BY <3>6, <5>1
      <4>3. out[k].kind = "body"
        BY <3>3, <4>1, <4>2
      <4> QED
        BY <3>1, <3>4, <4>2, <4>3
    <3> QED
      BY <3>5, <3>6
  <2>2. /\ stage \in {"refused", "done"} => client # <<>>
        /\ Len(client) > 1 \/ stage = "body" =>
             /\ client[1] = Status(out[1].code)
             /\ \A k \in 2..Len(client) : client[k] = out[k] /\ out[k].kind = "body"
    BY DEF ProxyInv, EndsWithStatus, PassesOn
  <2> QED
    BY <2>1, <2>2 DEF ClientSeesTheReply
<1> QED
  BY <1>1, ProxyInvHolds, PTL

=============================================================================
