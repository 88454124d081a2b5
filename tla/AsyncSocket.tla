---------------------------- MODULE AsyncSocket ----------------------------
(***************************************************************************)
(* asyncRWSocket of cocaine12/asocket.go: goroutines that Send, a goroutine*)
(* that writes to the connection, one that reads from it, one that calls   *)
(* Close, and a peer that may stall, finish, reset the connection or send  *)
(* bytes that do not decode.  The two asyncBuffs between them are what     *)
(* AsyncBuff is proved to implement: FifoChannels, stopped by giving them  *)
(* leave to drop.                                                          *)
(***************************************************************************)
EXTENDS Naturals, Sequences

CONSTANTS
    Msg,            \* messages
    Unencodable,    \* the ones the encoder refuses
    NoMsg,          \* no message
    Sender,         \* goroutines that Send
    MaxSent,        \* bound: messages the senders send
    Script          \* the messages the peer has to send, in order

ASSUME SocketAssumption ==
    /\ Unencodable \subseteq Msg /\ NoMsg \notin Msg
    /\ MaxSent \in Nat /\ Script \in Seq(Msg)

VARIABLES
    upSent, upGot, upStatus, upStop,            \* upstreamBuf
    downSent, downGot, downStatus, downStop,    \* downstreamBuf
    sender,         \* the message each sender is blocked on in Send
    submitted,      \* how many messages were given to Send
    writer,         \* writeloop: "range", "encode", "failed", "blackhole", "done"
    broken,         \* bufio.Writer keeps the first error it met
    written,        \* history: the messages that reached the peer
    reader,         \* readloop: "decode", "put", "close", "done"
    decoded,        \* how many of the peer's messages readloop has decoded
    inClosed,       \* downstreamBuf.in: "no", closed at the peer's "end" or on an "error"
    fromPeer,       \* history: the messages the peer sent
    peer,           \* "up", after its last message "finished" or "garbled", or "reset"
    closed,         \* sock.closed, and with it the connection
    closer          \* Close: "idle", "stopDown", "close", "done"

upVars == <<upSent, upGot, upStatus, upStop>>
downVars == <<downSent, downGot, downStatus, downStop>>
sendVars == <<sender, submitted>>
writeVars == <<writer, broken, written>>
readVars == <<reader, decoded, inClosed>>
peerVars == <<fromPeer, peer>>
vars == <<upVars, downVars, sendVars, writeVars, readVars, peerVars, closed, closer>>

Up == INSTANCE FifoChannel WITH
        sent <- upSent, got <- upGot, status <- upStatus, mayDrop <- upStop

Down == INSTANCE FifoChannel WITH
        sent <- downSent, got <- downGot, status <- downStatus, mayDrop <- downStop

TypeOK ==
    /\ Up!TypeOK /\ Down!TypeOK
    /\ sender \in [Sender -> Msg \cup {NoMsg}]
    /\ submitted \in 0..MaxSent
    /\ writer \in {"range", "encode", "failed", "blackhole", "done"}
    /\ broken \in BOOLEAN
    /\ written \in Seq(Msg)
    /\ reader \in {"decode", "put", "close", "done"}
    /\ decoded \in 0..Len(Script)
    /\ inClosed \in {"no", "end", "error"}
    /\ fromPeer \in Seq(Msg)
    /\ peer \in {"up", "finished", "garbled", "reset"}
    /\ closed \in BOOLEAN
    /\ closer \in {"idle", "stopDown", "close", "done"}

\* newAsyncRW
Init ==
    /\ Up!Init /\ Down!Init
    /\ sender = [s \in Sender |-> NoMsg] /\ submitted = 0
    /\ writer = "range" /\ broken = FALSE /\ written = <<>>
    /\ reader = "decode" /\ decoded = 0 /\ inClosed = "no"
    /\ fromPeer = <<>> /\ peer = "up"
    /\ closed = FALSE /\ closer = "idle"

-----------------------------------------------------------------------------
(* Send, by any goroutine. *)

Send(s, m) ==
    /\ sender[s] = NoMsg /\ submitted < MaxSent
    /\ sender' = [sender EXCEPT ![s] = m]
    /\ submitted' = submitted + 1
    /\ UNCHANGED <<upVars, downVars, writeVars, readVars, peerVars, closed, closer>>

SendAccepted(s) ==
    /\ sender[s] # NoMsg
    /\ Up!Put(sender[s])
    /\ sender' = [sender EXCEPT ![s] = NoMsg]
    /\ UNCHANGED <<downVars, submitted, writeVars, readVars, peerVars, closed, closer>>

\* The socket is closed: the message is dropped.
SendDropped(s) ==
    /\ sender[s] # NoMsg /\ closed
    /\ sender' = [sender EXCEPT ![s] = NoMsg]
    /\ UNCHANGED <<upVars, downVars, submitted, writeVars, readVars, peerVars, closed, closer>>

-----------------------------------------------------------------------------
(* writeloop *)

WriterTakes ==
    /\ writer = "range"
    /\ Up!Take
    /\ writer' = "encode"
    /\ UNCHANGED <<downVars, sendVars, broken, written, readVars, peerVars, closed, closer>>

Encoding == upGot[Len(upGot)]

Alive == peer \in {"up", "garbled"} /\ ~closed

\* Encode and Flush; what Flush returns is not looked at.
WriterWrites ==
    /\ writer = "encode" /\ Encoding \notin Unencodable /\ ~broken
    /\ IF Alive
         THEN written' = Append(written, Encoding) /\ UNCHANGED broken
         ELSE broken' \in BOOLEAN /\ UNCHANGED written
    /\ writer' = "range"
    /\ UNCHANGED <<upVars, downVars, sendVars, readVars, peerVars, closed, closer>>

\* Mutant: a message that cannot be encoded is skipped.
EncodeFailsSkips ==
    /\ writer = "encode"
    /\ Encoding \in Unencodable \/ broken
    /\ writer' = "range"
    /\ UNCHANGED <<upVars, downVars, sendVars, broken, written, readVars, peerVars,
                   closed, closer>>

\* The message cannot be encoded, or a write failed, now or before.
EncodeFails ==
    /\ writer = "encode"
    /\ Encoding \in Unencodable \/ broken \/ ~Alive
    /\ writer' = "failed"
    /\ UNCHANGED <<upVars, downVars, sendVars, broken, written, readVars, peerVars,
                   closed, closer>>

\* sock.close(), then everything that comes is thrown away.
WriterCloses ==
    /\ writer = "failed"
    /\ closed' = TRUE
    /\ writer' = "blackhole"
    /\ UNCHANGED <<upVars, downVars, sendVars, broken, written, readVars, peerVars, closer>>

Blackhole ==
    /\ writer = "blackhole"
    /\ Up!Take
    /\ UNCHANGED <<downVars, sendVars, writeVars, readVars, peerVars, closed, closer>>

WriterEnds ==
    /\ writer \in {"range", "blackhole"} /\ upStatus = "closed"
    /\ writer' = "done"
    /\ UNCHANGED <<upVars, downVars, sendVars, broken, written, readVars, peerVars,
                   closed, closer>>

-----------------------------------------------------------------------------
(* readloop *)

Decode ==
    /\ reader = "decode" /\ decoded < Len(fromPeer)
    /\ decoded' = decoded + 1
    /\ reader' = "put"
    /\ UNCHANGED <<upVars, downVars, sendVars, writeVars, inClosed, peerVars, closed, closer>>

\* Mutant: a message that the buffer does not take at once is dropped.
ReaderPutsMaybe ==
    /\ reader = "put"
    /\ Down!Put(fromPeer[decoded]) \/ UNCHANGED downVars
    /\ reader' = "decode"
    /\ UNCHANGED <<upVars, sendVars, writeVars, decoded, inClosed, peerVars, closed, closer>>

ReaderPuts ==
    /\ reader = "put"
    /\ Down!Put(fromPeer[decoded])
    /\ reader' = "decode"
    /\ UNCHANGED <<upVars, sendVars, writeVars, decoded, inClosed, peerVars, closed, closer>>

\* Behind the peer's last message: the end of the stream, or bytes that are no
\* message although the connection lives.
AtEnd == peer \in {"finished", "garbled"} /\ decoded = Len(fromPeer)

\* The decoder fails: close(downstreamBuf.in)
DecodeFails ==
    /\ reader = "decode"
    /\ AtEnd \/ closed \/ peer = "reset"
    /\ inClosed' = IF AtEnd THEN "end" ELSE "error"
    /\ reader' = "close"
    /\ UNCHANGED <<upVars, downVars, sendVars, writeVars, decoded, peerVars, closed, closer>>

\* Mutant: readloop ends and leaves the socket open.
ReaderEndsQuietly ==
    /\ reader = "close"
    /\ reader' = "done"
    /\ UNCHANGED <<upVars, downVars, sendVars, writeVars, decoded, inClosed, peerVars,
                   closed, closer>>

\* sock.close()
ReaderCloses ==
    /\ reader = "close"
    /\ closed' = TRUE
    /\ reader' = "done"
    /\ UNCHANGED <<upVars, downVars, sendVars, writeVars, decoded, inClosed, peerVars, closer>>

-----------------------------------------------------------------------------
(* The loops of the two buffers, and the goroutine that reads from Read(). *)

UpCloses ==
    /\ Up!Close
    /\ UNCHANGED <<downVars, sendVars, writeVars, readVars, peerVars, closed, closer>>

DownEnds ==
    /\ inClosed # "no"
    /\ Down!EndInput
    /\ UNCHANGED <<upVars, sendVars, writeVars, readVars, peerVars, closed, closer>>

DownCloses ==
    /\ Down!Close
    /\ UNCHANGED <<upVars, sendVars, writeVars, readVars, peerVars, closed, closer>>

Read ==
    /\ Down!Take
    /\ UNCHANGED <<upVars, sendVars, writeVars, readVars, peerVars, closed, closer>>

-----------------------------------------------------------------------------
(* Close: each Stop returns when its loop has, or after a second.          *)

CloseStopsUp ==
    /\ closer = "idle"
    /\ Up!AllowDrop
    /\ closer' = "stopDown"
    /\ UNCHANGED <<downVars, sendVars, writeVars, readVars, peerVars, closed>>

\* Mutant: Close stops the upstream buffer only.
CloseForgetsDown ==
    /\ closer = "stopDown"
    /\ closer' = "close"
    /\ UNCHANGED <<upVars, downVars, sendVars, writeVars, readVars, peerVars, closed>>

CloseStopsDown ==
    /\ closer = "stopDown"
    /\ Down!AllowDrop
    /\ closer' = "close"
    /\ UNCHANGED <<upVars, sendVars, writeVars, readVars, peerVars, closed>>

\* Mutant: Close stops the buffers and closes the connection, but not sock.closed.
CloseKeepsQuiet ==
    /\ closer = "close"
    /\ closer' = "done"
    /\ UNCHANGED <<upVars, downVars, sendVars, writeVars, readVars, peerVars, closed>>

CloseEnds ==
    /\ closer = "close"
    /\ closed' = TRUE
    /\ closer' = "done"
    /\ UNCHANGED <<upVars, downVars, sendVars, writeVars, readVars, peerVars>>

-----------------------------------------------------------------------------
(* The peer. *)

PeerSends ==
    /\ peer = "up" /\ ~closed /\ Len(fromPeer) < Len(Script)
    /\ fromPeer' = Append(fromPeer, Script[Len(fromPeer) + 1])
    /\ UNCHANGED <<upVars, downVars, sendVars, writeVars, readVars, peer, closed, closer>>

PeerLeaves ==
    /\ \/ peer = "up" /\ peer' \in {"finished", "garbled", "reset"}
       \/ peer = "garbled" /\ peer' = "reset"
    /\ UNCHANGED <<upVars, downVars, sendVars, writeVars, readVars, fromPeer, closed, closer>>

-----------------------------------------------------------------------------
Writer ==
    WriterTakes \/ WriterWrites \/ EncodeFails \/ WriterCloses \/ Blackhole \/ WriterEnds

Reader == Decode \/ ReaderPuts \/ DecodeFails \/ ReaderCloses

Buffers == UpCloses \/ DownEnds \/ DownCloses

Closing == CloseStopsUp \/ CloseStopsDown \/ CloseEnds

Next ==
    \/ \E s \in Sender : SendAccepted(s) \/ SendDropped(s) \/ \E m \in Msg : Send(s, m)
    \/ Writer \/ Reader \/ Buffers \/ Read \/ Closing
    \/ PeerSends \/ PeerLeaves

Spec == Init /\ [][Next]_vars

(***************************************************************************)
(* Goroutines run.  A write to a peer that is there may block for ever;    *)
(* once the connection is dead or closed it returns.  Nobody has to read   *)
(* from Read() or to call Close.                                           *)
(***************************************************************************)
Fairness ==
    /\ \A s \in Sender : WF_vars(SendAccepted(s) \/ SendDropped(s))
    /\ WF_vars(WriterTakes \/ WriterCloses \/ Blackhole \/ WriterEnds)
    /\ WF_vars(~Alive /\ (WriterWrites \/ EncodeFails))
    /\ WF_vars(Reader)
    /\ WF_vars(UpCloses) /\ WF_vars(DownEnds) /\ WF_vars(DownCloses)
    /\ WF_vars(CloseStopsDown \/ CloseEnds)

FairSpec == Spec /\ Fairness

-----------------------------------------------------------------------------
(***************************************************************************)
(* What reaches the peer is what Send accepted, from the first message on: *)
(* a message lost on the way is the last one written, none is skipped.     *)
(***************************************************************************)
WrittenInOrder ==
    /\ Len(written) <= Len(upSent)
    /\ \A k \in DOMAIN written : written[k] = upSent[k]

(***************************************************************************)
(* A reader of Read() gets the peer's messages in order.  When readloop    *)
(* came to their end (the peer finished, or sent bytes that do not decode) *)
(* and nobody called Close, it got all of them before Read() ended.        *)
(***************************************************************************)
ReadInOrder ==
    /\ Len(downGot) <= Len(fromPeer)
    /\ \A k \in DOMAIN downGot : downGot[k] = fromPeer[k]
    /\ downStatus = "closed" /\ inClosed = "end" /\ ~downStop => downGot = fromPeer

(***************************************************************************)
(* Send returns, whether the peer reads, stalls or is gone, and whatever   *)
(* writeloop, readloop and Close are doing to the socket.                  *)
(***************************************************************************)
SendReturns == \A s \in Sender : sender[s] # NoMsg ~> sender[s] = NoMsg

(***************************************************************************)
(* A connection that the peer left, or filled with bytes that do not       *)
(* decode, is given up: the socket becomes closed, also when nobody reads  *)
(* from Read() and nobody writes.                                          *)
(***************************************************************************)
DisconnectIsNoticed == peer # "up" ~> closed

(***************************************************************************)
(* After Close both buffers and writeloop end.                             *)
(***************************************************************************)
CloseReleases ==
    closer = "done" ~> (upStatus = "closed" /\ downStatus = "closed" /\ writer = "done")
=============================================================================
