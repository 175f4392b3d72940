----------------------------- MODULE NodeSession -----------------------------
(***************************************************************************)
(* The TCP sessions of server/go on the bootstrap and node ports (tcp.go), *)
(* from the accepted connection to its close: the two halves of the key    *)
(* exchange, the wait for early bytes that tells an account session from a *)
(* node session, the RC4 handshake (legacy.c) and the frames.              *)
(*                                                                         *)
(* TCP keeps the order of bytes and nothing else, so that a read returns   *)
(* any number of those on their way. A client sends each part when it has  *)
(* the server's answer to the part before, and everything that follows the *)
(* server's hash at any time: 16 bytes, of which the last two begin the    *)
(* stream of frames, then the rest of that stream. Bytes of the exchange   *)
(* are counted; those of the stream are chosen when they are read. A       *)
(* deadline may pass whenever the server reads.                            *)
(***************************************************************************)
EXTENDS FrameBuffer, FiniteSets, SequencesExt

CONSTANTS
  Conn,      \* connections
  Slots,     \* 128: sessions at a time
  HelloLen, SniffLen,  \* 48, and the 8 bytes that the first read must bring of it
  HashLen,   \* 8
  EarlyLen,  \* 5: what is waited for during 500 ms
  ShakeLen,  \* 16: the client's RC4 handshake
  MinFrame,  \* 4: DecodeNodeFrame refuses what is shorter
  Sent,      \* the bytes that clients send
  MaxData    \* bound on the bytes of a stream in a behaviour

ASSUME SessionAssumption ==
  /\ Slots \in Nat \ {0} /\ HashLen \in Nat \ {0}
  /\ HelloLen \in Nat /\ SniffLen \in 1 .. HelloLen
  /\ ShakeLen \in Nat /\ EarlyLen \in 1 .. ShakeLen - 2
  /\ MinFrame \in Nat
  /\ MaxData \in Nat \ {0, 1}  \* two bytes of the stream come with the handshake
  /\ Sent \subseteq Byte

VARIABLES
  slots,    \* tokens in the channel `sem`
  session,  \* [Conn -> Session]
  stream,   \* history: [Conn -> the bytes of the stream the client sent, as far as read]
  handled   \* history: [Conn -> the frames processed]

vars == <<slots, session, stream, handled>>

Phase == {"new", "sniff", "hello", "hash", "early", "shake", "serve", "stock", "closed"}

\* Sessions in these phases hold a token.
Active == Phase \ {"new", "closed"}

(***************************************************************************)
(* `got` counts the bytes of the part that is being read, `offset` those   *)
(* read since the server's hash. The cipher of a direction is ready from   *)
(* its handshake on; that of the client's has decrypted `decrypted` bytes, *)
(* the handshake included, and every byte must meet the place in the key   *)
(* stream it was encrypted with. `garbage` is the flag for the first       *)
(* frame, `pending` is kept by the frame buffer. Of a closed session stays *)
(* whether it failed the signature, and whether early bytes were lost.     *)
(***************************************************************************)
Session ==
  [phase : Phase, got : Nat, offset : Nat, sendReady : BOOLEAN, recvReady : BOOLEAN,
   decrypted : Nat, pending : Seq(Byte), garbage : BOOLEAN,
   unsigned : BOOLEAN, lost : BOOLEAN]

NewSession(phase) ==
  [phase |-> phase, got |-> 0, offset |-> 0, sendReady |-> FALSE, recvReady |-> FALSE,
   decrypted |-> 0, pending |-> <<>>, garbage |-> TRUE, unsigned |-> FALSE, lost |-> FALSE]

Init ==
  /\ slots = 0
  /\ session = [c \in Conn |-> NewSession("new")]
  /\ stream = [c \in Conn |-> <<>>]
  /\ handled = [c \in Conn |-> <<>>]

history == <<stream, handled>>

Set(c, s) == session' = [session EXCEPT ![c] = s]

\* Mistake: a session that ends keeps its token.
CloseAsKeeping(c, closed) ==
  /\ slots' = slots
  /\ Set(c, closed)
  /\ stream' = [stream EXCEPT ![c] = <<>>]
  /\ handled' = [handled EXCEPT ![c] = <<>>]

\* The deferred function of runPort: the token goes back, the connection is closed.
CloseAs(c, closed) ==
  /\ slots' = slots - 1
  /\ Set(c, closed)
  /\ stream' = [stream EXCEPT ![c] = <<>>]
  /\ handled' = [handled EXCEPT ![c] = <<>>]

Close(c) == CloseAs(c, NewSession("closed"))

-----------------------------------------------------------------------------
(***************************************************************************)
(* os_session of legacy.c: the ciphers of one connection.                  *)
(***************************************************************************)
MakeHandshake(s) == [s EXCEPT !.sendReady = TRUE]

ClientHandshake(s) == [s EXCEPT !.recvReady = TRUE, !.decrypted = ShakeLen]

Decrypt(s, n) == [s EXCEPT !.decrypted = @ + n]

-----------------------------------------------------------------------------
\* runPort: without a token left the connection is closed at once.
Accept(c) ==
  /\ session[c].phase = "new"
  /\ IF slots < Slots
     THEN slots' = slots + 1 /\ Set(c, NewSession("sniff"))
     ELSE slots' = slots /\ Set(c, NewSession("closed"))
  /\ UNCHANGED history

(***************************************************************************)
(* The first read is judged alone: fewer than 8 bytes are no fallback, nor *)
(* are the words of HTTP and TLS.                                          *)
(***************************************************************************)
Sniff(c) ==
  /\ session[c].phase = "sniff"
  /\ \E n \in 1 .. HelloLen :
       \/ n >= SniffLen
          /\ Set(c, [session[c] EXCEPT !.phase = "hello", !.got = n])
          /\ UNCHANGED <<slots, history>>
       \/ Close(c)

\* A read of part of what is still needed.
ReadPart(c, phase, need) ==
  LET s == session[c] IN
  /\ s.phase = phase
  /\ \E n \in 1 .. need - s.got - 1 : Set(c, [s EXCEPT !.got = @ + n])
  /\ UNCHANGED <<slots, history>>

\* The 48 bytes are there, and are answered; the client's hash is compared and answered.
EndHello(c) ==
  /\ session[c].phase = "hello"
  /\ Set(c, [session[c] EXCEPT !.phase = "hash", !.got = 0])
  /\ UNCHANGED <<slots, history>>

EndHash(c) ==
  /\ session[c].phase = "hash"
  /\ Set(c, [session[c] EXCEPT !.phase = "early", !.got = 0])
  /\ UNCHANGED <<slots, history>>

(***************************************************************************)
(* io.ReadFull of 5 bytes within 500 ms. When it has them, they begin a    *)
(* login record, and the session goes on in HandleStock, or else the RC4   *)
(* handshake. When it has not, those that came are lost: the timeout and   *)
(* the end of the connection go on without them. The server's handshake    *)
(* readies the one cipher, the client's the other.                         *)
(***************************************************************************)
ReadEarly(c) ==
  LET s == session[c] IN
  /\ s.phase = "early"
  /\ \E n \in 1 .. EarlyLen - s.got - 1 : Set(c, [s EXCEPT !.got = @ + n, !.offset = @ + n])
  /\ UNCHANGED <<slots, history>>

\* Mistake: the early bytes are read and not put before the handshake.
EndEarlyDropping(c) ==
  LET s == session[c] IN
  /\ s.phase = "early"
  /\ \/ Set(c, [s EXCEPT !.phase = "stock", !.got = 0, !.offset = EarlyLen])
     \/ Set(c, MakeHandshake([s EXCEPT !.phase = "shake", !.got = 0, !.offset = EarlyLen]))
  /\ UNCHANGED <<slots, history>>

EndEarly(c) ==
  LET s == session[c] IN
  /\ s.phase = "early"
  /\ \/ Set(c, [s EXCEPT !.phase = "stock", !.got = 0, !.offset = EarlyLen])
     \/ Set(c, MakeHandshake([s EXCEPT !.phase = "shake", !.got = EarlyLen,
                                       !.offset = EarlyLen]))
  /\ UNCHANGED <<slots, history>>

EarlyTimeout(c) ==
  LET s == session[c] IN
  /\ s.phase = "early"
  /\ Set(c, MakeHandshake([s EXCEPT !.phase = "shake", !.got = 0, !.lost = s.got > 0]))
  /\ UNCHANGED <<slots, history>>

-----------------------------------------------------------------------------
(***************************************************************************)
(* `process`: the first frame is garbage, and skipped. Each other one is   *)
(* decoded and answered, or ends the session: it is too short or does not  *)
(* decode, a command of it is refused, or an answer cannot be written.     *)
(***************************************************************************)
Process(c, s, data, frames) ==
  \E n \in 0 .. Len(frames) :
    LET skipped == IF s.garbage THEN 1 ELSE 0 IN
    /\ \A i \in skipped + 1 .. n : Len(frames[i]) >= MinFrame
    /\ IF n = Len(frames)
       THEN /\ Set(c, [s EXCEPT !.garbage = @ /\ n = 0])
            /\ stream' = [stream EXCEPT ![c] = @ \o data]
            /\ handled' = [handled EXCEPT ![c] = @ \o SubSeq(frames, skipped + 1, n)]
            /\ slots' = slots
       ELSE n >= skipped /\ Close(c)

(***************************************************************************)
(* The handshake is whole: it decrypts to its signature if no byte before  *)
(* it is missing (one in 2^64 others would), and its last two bytes go to  *)
(* the frame buffer, whose error ends the session here.                    *)
(***************************************************************************)
\* Mistake: the signature is not compared.
SignatureUnchecked(c) == TRUE

SignatureMatches(c) == session[c].offset = session[c].got

EndShake(c) ==
  /\ session[c].phase = "shake"
  /\ LET s == [session[c] EXCEPT !.offset = @ + ShakeLen - session[c].got] IN
     IF SignatureMatches(c)
     THEN \E data \in [1 .. 2 -> Sent] :
            LET buffer == Feed(<<>>, data) IN
            IF buffer.bad THEN Close(c)
            ELSE Process(c, ClientHandshake([s EXCEPT !.phase = "serve", !.got = 0,
                                                      !.pending = buffer.pending]),
                         data, buffer.frames)
     ELSE CloseAs(c, [NewSession("closed") EXCEPT !.unsigned = TRUE, !.lost = s.lost])

ReadShake(c) ==
  LET s == session[c] IN
  /\ s.phase = "shake"
  /\ \E n \in 1 .. ShakeLen - s.got - 1 : Set(c, [s EXCEPT !.got = @ + n, !.offset = @ + n])
  /\ UNCHANGED <<slots, history>>

(***************************************************************************)
(* The loop: `e` of Append is overwritten by that of `process`, so that a  *)
(* length that is malformed loses the frames before it in the same read    *)
(* and leaves the session open.                                            *)
(***************************************************************************)
Serve(c) ==
  LET s == session[c] IN
  /\ s.phase = "serve" /\ s.recvReady /\ s.sendReady
  /\ \E n \in 1 .. MaxData - Len(stream[c]) : \E data \in [1 .. n -> Sent] :
       LET buffer == Feed(s.pending, data) IN
       Process(c, Decrypt([s EXCEPT !.offset = @ + n, !.pending = buffer.pending], n),
               data, buffer.frames)

\* Mistake: the deadline of 10 s is cleared, not set again, after the wait of 500 ms.
EndButStock(c) ==
  /\ session[c].phase \in Active \ {"stock"}
  /\ Close(c)

\* A deadline passes, the peer closes, a write or a check fails; HandleStock returns.
End(c) ==
  /\ session[c].phase \in Active
  /\ Close(c)

-----------------------------------------------------------------------------
Step(c) ==
  \/ End(c)
  \/ Sniff(c) \/ ReadPart(c, "hello", HelloLen) \/ EndHello(c)
  \/ ReadPart(c, "hash", HashLen) \/ EndHash(c)
  \/ ReadEarly(c) \/ EndEarly(c) \/ EarlyTimeout(c)
  \/ ReadShake(c) \/ EndShake(c) \/ Serve(c)

Next == \E c \in Conn : Accept(c) \/ Step(c)

(***************************************************************************)
(* The goroutine of a session runs, and each of its reads ends with bytes  *)
(* or at its deadline. That a session which is served reads MaxData bytes  *)
(* at most says that its client falls silent.                              *)
(***************************************************************************)
Spec == Init /\ [][Next]_vars /\ \A c \in Conn : WF_vars(Step(c))

-----------------------------------------------------------------------------
TypeOK ==
  /\ slots \in 0 .. Slots
  /\ slots = Cardinality({c \in Conn : session[c].phase \in Active})
  /\ session \in [Conn -> Session]
  /\ \A c \in Conn : Len(stream[c]) <= MaxData

(* Reads cut the stream of a client anywhere, and what is handled does not *)
(* depend on where: all frames of the stream but the first, in order, and  *)
(* what is kept for the next read is all that follows the last of them. A  *)
(* malformed length is the exception: frames read with it are lost, no     *)
(* later one is made up, and nothing is handled any more.                  *)
FramesOfStream ==
  \A c \in Conn :
    session[c].phase = "serve" =>
      LET cut == Cut(stream[c])
          all == SubSeq(cut, 2, Len(cut))
      IN
      IF Hopeless(session[c].pending) THEN IsPrefix(handled[c], all)
      ELSE /\ handled[c] = all
           /\ FlattenSeq(cut) \o session[c].pending = stream[c]

(* Every byte is decrypted with the place in the key stream that it was    *)
(* encrypted with: a session that lost early bytes is not served garbage   *)
(* of the right length.                                                    *)
KeyStreamsMeet ==
  \A c \in Conn :
    session[c].phase = "serve" => session[c].offset = session[c].decrypted

(* A client that keeps to the protocol fails the signature only because    *)
(* the wait of 500 ms ended amid its first five bytes; when all of them    *)
(* are there in time they are put back before the handshake.               *)
OnlyLossIsUnsigned == \A c \in Conn : session[c].unsigned => session[c].lost

(* Every session ends once its client falls silent, wherever it stopped,   *)
(* and gives its token back.                                               *)
SessionsEnd ==
  \A c \in Conn : session[c].phase \in Active ~> session[c].phase = "closed"
=============================================================================
