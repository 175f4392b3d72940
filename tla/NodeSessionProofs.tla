-------------------------- MODULE NodeSessionProofs --------------------------
(***************************************************************************)
(* Theorems about the sessions of NodeSession, for any number of           *)
(* connections and of tokens, any lengths of the exchange and any bytes.   *)
(***************************************************************************)
EXTENDS NodeSession, FrameBufferProofs, FiniteSetTheorems

ActiveSet == {c \in Conn : session[c].phase \in Active}

\* TypeOK, the types of the histories, and that there is no stream before it is read.
Types ==
  /\ TypeOK
  /\ IsFiniteSet(ActiveSet)
  /\ stream \in [Conn -> Seq(Byte)]
  /\ handled \in [Conn -> Seq(Seq(Byte))]
  /\ \A c \in Conn : session[c].phase # "serve" => stream[c] = <<>> /\ handled[c] = <<>>

LEMMA NewSessionType ==
  /\ \A phase \in Phase : NewSession(phase) \in Session
  /\ \A lost \in BOOLEAN :
       [NewSession("closed") EXCEPT !.unsigned = TRUE, !.lost = lost] \in Session
<1>1. <<>> \in Seq(Byte)
  BY EmptySeq
<1>2. "closed" \in Phase
  BY DEF Phase
<1>3. QED
  BY <1>1, <1>2 DEF NewSession, Session

LEMMA InitTypes == Init => Types
<1> SUFFICES ASSUME Init PROVE Types
  OBVIOUS
<1>1. "new" \in Phase /\ ~ ("new" \in Active) /\ "new" # "serve"
  BY DEF Phase, Active
<1>2. session \in [Conn -> Session] /\ \A c \in Conn : session[c].phase = "new"
  BY <1>1, NewSessionType DEF Init, NewSession
<1>3. ActiveSet = {}
  BY <1>1, <1>2 DEF ActiveSet
<1>4. IsFiniteSet(ActiveSet) /\ Cardinality(ActiveSet) = 0
  BY <1>3, FS_EmptySet
<1>5. <<>> \in Seq(Byte) /\ <<>> \in Seq(Seq(Byte)) /\ Len(<<>>) = 0
  BY EmptySeq
<1>6. TypeOK
  BY <1>2, <1>4, <1>5, SessionAssumption DEF TypeOK, Init, ActiveSet
<1>7. QED
  BY <1>4, <1>5, <1>6 DEF Types, Init

\* What happens to the tokens when one session changes its phase.
LEMMA TokensFollow ==
  ASSUME Types, NEW c \in Conn, NEW s \in Session, Set(c, s)
  PROVE  /\ session' \in [Conn -> Session]
         /\ IsFiniteSet(ActiveSet')
         /\ session[c].phase \in Active /\ s.phase \in Active =>
              Cardinality(ActiveSet') = slots
         /\ session[c].phase \in Active /\ ~ (s.phase \in Active) =>
              slots > 0 /\ Cardinality(ActiveSet') = slots - 1
         /\ ~ (session[c].phase \in Active) /\ s.phase \in Active =>
              Cardinality(ActiveSet') = slots + 1
         /\ ~ (session[c].phase \in Active) /\ ~ (s.phase \in Active) =>
              Cardinality(ActiveSet') = slots
<1>1. session' \in [Conn -> Session] /\ session'[c] = s
      /\ \A d \in Conn \ {c} : session'[d] = session[d]
  BY DEF Types, TypeOK, Set
<1>2. ActiveSet' = IF s.phase \in Active THEN ActiveSet \cup {c} ELSE ActiveSet \ {c}
  BY <1>1 DEF ActiveSet
<1>3. c \in ActiveSet <=> session[c].phase \in Active
  BY DEF ActiveSet
<1>4. IsFiniteSet(ActiveSet) /\ slots = Cardinality(ActiveSet) /\ slots \in Nat
  BY SessionAssumption DEF Types, TypeOK, ActiveSet
<1>5. /\ IsFiniteSet(ActiveSet \cup {c})
      /\ Cardinality(ActiveSet \cup {c}) = IF c \in ActiveSet THEN slots ELSE slots + 1
  BY <1>4, FS_AddElement
<1>6. /\ IsFiniteSet(ActiveSet \ {c})
      /\ Cardinality(ActiveSet \ {c}) = IF c \in ActiveSet THEN slots - 1 ELSE slots
  BY <1>4, FS_RemoveElement
<1>7. c \in ActiveSet => slots > 0
  <2>1. c \in ActiveSet => ActiveSet # {}
    OBVIOUS
  <2>2. ActiveSet # {} => slots # 0
    BY <1>4, FS_EmptySet
  <2>3. QED
    BY <1>4, <2>1, <2>2
<1>8. QED
  BY <1>1, <1>2, <1>3, <1>5, <1>6, <1>7

\* A step within a session that reads nothing of the stream.
LEMMA MoveKeepsTypes ==
  ASSUME Types, NEW c \in Conn, NEW s \in Session,
         session[c].phase \in Active \ {"serve"}, s.phase \in Active \ {"serve"},
         Set(c, s), UNCHANGED <<slots, history>>
  PROVE  Types'
<1>1. session' \in [Conn -> Session] /\ IsFiniteSet(ActiveSet') /\ Cardinality(ActiveSet') = slots
  BY TokensFollow
<1>2. \A d \in Conn : session'[d].phase # "serve" => session[d].phase # "serve"
  BY DEF Set, Types, TypeOK
<1>3. TypeOK'
  BY <1>1 DEF Types, TypeOK, ActiveSet, history
<1>4. QED
  BY <1>1, <1>2, <1>3 DEF Types, history

\* The end of a session.
LEMMA CloseKeepsTypes ==
  ASSUME Types, NEW c \in Conn, NEW s \in Session,
         session[c].phase \in Active, s.phase = "closed", CloseAs(c, s)
  PROVE  Types'
<1>1. Set(c, s) /\ ~ (s.phase \in Active) /\ slots' = slots - 1
  BY DEF CloseAs, Active
<1>2. /\ session' \in [Conn -> Session] /\ IsFiniteSet(ActiveSet')
      /\ slots > 0 /\ Cardinality(ActiveSet') = slots'
  BY <1>1, TokensFollow
<1>3. <<>> \in Seq(Byte) /\ <<>> \in Seq(Seq(Byte)) /\ Len(<<>>) = 0
  BY EmptySeq
<1>4. /\ stream' \in [Conn -> Seq(Byte)] /\ handled' \in [Conn -> Seq(Seq(Byte))]
      /\ stream'[c] = <<>> /\ handled'[c] = <<>>
      /\ \A d \in Conn \ {c} : /\ stream'[d] = stream[d] /\ handled'[d] = handled[d]
                               /\ session'[d] = session[d]
  BY <1>3 DEF Types, TypeOK, CloseAs, Set
<1>5. ASSUME NEW d \in Conn PROVE Len(stream'[d]) <= MaxData
  <2>1. Len(stream[d]) <= MaxData
    BY DEF Types, TypeOK
  <2>2. Len(stream'[c]) <= MaxData
    BY <1>3, <1>4, SessionAssumption
  <2>3. QED
    BY <1>4, <2>1, <2>2
<1>6. slots' \in 0 .. Slots
  BY <1>1, <1>2, SessionAssumption DEF Types, TypeOK
<1>7. TypeOK'
  BY <1>2, <1>5, <1>6 DEF TypeOK, ActiveSet
<1>8. QED
  BY <1>2, <1>4, <1>7 DEF Types

\* Frames are processed, or one of them ends the session.
LEMMA ProcessKeepsTypes ==
  ASSUME Types, NEW c \in Conn, NEW s \in Session,
         session[c].phase \in {"shake", "serve"}, s.phase = "serve",
         NEW data \in Seq(Byte), NEW frames \in Seq(Seq(Byte)),
         Len(stream[c]) + Len(data) <= MaxData,
         Process(c, s, data, frames)
  PROVE  Types'
<1>1. session[c].phase \in Active /\ s.phase \in Active /\ "closed" \in Phase
  BY DEF Active, Phase
<1>2. PICK n \in 0 .. Len(frames) :
        LET skipped == IF s.garbage THEN 1 ELSE 0 IN
        IF n = Len(frames)
        THEN /\ Set(c, [s EXCEPT !.garbage = @ /\ n = 0])
             /\ stream' = [stream EXCEPT ![c] = @ \o data]
             /\ handled' = [handled EXCEPT ![c] = @ \o SubSeq(frames, skipped + 1, n)]
             /\ slots' = slots
        ELSE n >= skipped /\ Close(c)
  BY DEF Process
<1>3. CASE n # Len(frames)
  <2>1. CloseAs(c, NewSession("closed"))
    BY <1>2, <1>3 DEF Close
  <2>2. QED
    BY <1>1, <2>1, NewSessionType, CloseKeepsTypes DEF NewSession
<1>4. CASE n = Len(frames)
  <2> DEFINE skipped == IF s.garbage THEN 1 ELSE 0
             t == [s EXCEPT !.garbage = @ /\ n = 0]
             more == SubSeq(frames, skipped + 1, n)
  <2>1. t \in Session /\ t.phase = "serve"
    <3>1. (s.garbage /\ n = 0) \in BOOLEAN
      OBVIOUS
    <3>2. \A e \in BOOLEAN : [s EXCEPT !.garbage = e] \in Session
                             /\ [s EXCEPT !.garbage = e].phase = "serve"
      BY DEF Session
    <3>3. QED
      BY <3>1, <3>2, Zenon
  <2>2. more \in Seq(Seq(Byte))
    <3>1. \A i \in skipped + 1 .. n : frames[i] \in Seq(Byte)
      BY <1>4
    <3>2. QED
      BY <3>1, SubSeqProperties
  <2>3. /\ Set(c, t) /\ slots' = slots
        /\ stream' = [stream EXCEPT ![c] = @ \o data]
        /\ handled' = [handled EXCEPT ![c] = @ \o more]
    BY <1>2, <1>4
  <2> HIDE DEF t, more
  <2>4. /\ session' \in [Conn -> Session] /\ IsFiniteSet(ActiveSet')
        /\ Cardinality(ActiveSet') = slots
    BY <1>1, <2>1, <2>3, TokensFollow
  <2>5. /\ stream[c] \o data \in Seq(Byte)
        /\ Len(stream[c] \o data) = Len(stream[c]) + Len(data)
    BY ConcatProperties DEF Types
  <2>6. handled[c] \o more \in Seq(Seq(Byte))
    BY <2>2, ConcatProperties DEF Types
  <2>7. /\ stream' \in [Conn -> Seq(Byte)] /\ handled' \in [Conn -> Seq(Seq(Byte))]
        /\ stream'[c] = stream[c] \o data
        /\ session'[c].phase = "serve"
        /\ \A d \in Conn \ {c} : /\ stream'[d] = stream[d] /\ handled'[d] = handled[d]
                                 /\ session'[d] = session[d]
    BY <2>1, <2>3, <2>5, <2>6 DEF Types, TypeOK, Set
  <2>8. \A d \in Conn : Len(stream'[d]) <= MaxData
    BY <2>5, <2>7 DEF Types, TypeOK
  <2>9. TypeOK'
    BY <2>3, <2>4, <2>8 DEF Types, TypeOK, ActiveSet
  <2>10. QED
    BY <2>4, <2>7, <2>9 DEF Types
<1>5. QED
  BY <1>3, <1>4

\* Bytes as TLC enumerates them are a sequence.
LEMMA DataType ==
  ASSUME NEW n \in Nat, NEW data \in [1 .. n -> Sent]
  PROVE  data \in Seq(Byte) /\ Len(data) = n
<1>1. data \in [1 .. n -> Byte]
  BY SessionAssumption
<1>2. data \in Seq(Byte)
  BY <1>1, SeqDef
<1>3. DOMAIN data = 1 .. Len(data) /\ Len(data) \in Nat
  BY <1>2, LenProperties
<1>4. QED
  BY <1>1, <1>2, <1>3

LEMMA LengthTypes ==
  /\ EarlyLen \in Nat /\ ShakeLen \in Nat /\ HelloLen \in Nat /\ HashLen \in Nat
  /\ EarlyLen > 0 /\ EarlyLen + 2 <= ShakeLen
  BY SessionAssumption

LEMMA NextTypes == Types /\ [Next]_vars => Types'
<1> SUFFICES ASSUME Types, [Next]_vars PROVE Types'
  OBVIOUS
<1>1. CASE UNCHANGED vars
  BY <1>1 DEF vars, Types, TypeOK, ActiveSet
<1>2. CASE Next
  <2>1. PICK c \in Conn : Accept(c) \/ Step(c)
    BY <1>2 DEF Next
  <2> DEFINE s == session[c]
  <2>2. s \in Session
    BY DEF Types, TypeOK
  <2>3. CASE Accept(c)
    <3>1. s.phase = "new" /\ ~ (s.phase \in Active)
      BY <2>3 DEF Accept, Active
    <3>2. PICK phase \in {"sniff", "closed"} :
            /\ Set(c, NewSession(phase))
            /\ slots' = IF phase = "sniff" THEN slots + 1 ELSE slots
            /\ phase = "sniff" => slots < Slots
            /\ UNCHANGED history
      BY <2>3 DEF Accept
    <3>3. NewSession(phase) \in Session /\ NewSession(phase).phase = phase
          /\ (phase \in Active <=> phase = "sniff")
      BY NewSessionType DEF NewSession, Phase, Active
    <3>4. /\ session' \in [Conn -> Session] /\ IsFiniteSet(ActiveSet')
          /\ Cardinality(ActiveSet') = slots'
      BY <3>1, <3>2, <3>3, TokensFollow
    <3>5. slots' \in 0 .. Slots
      BY <3>2, SessionAssumption DEF Types, TypeOK
    <3>6. \A d \in Conn : session'[d].phase # "serve" => session[d].phase # "serve"
      BY <3>1, <3>2 DEF Set, Types, TypeOK
    <3>7. TypeOK'
      BY <3>2, <3>4, <3>5 DEF Types, TypeOK, ActiveSet, history
    <3>8. QED
      BY <3>2, <3>4, <3>6, <3>7 DEF Types, history
  <2>4. CASE s.phase \in Active /\ Close(c)
    BY <2>4, NewSessionType, CloseKeepsTypes DEF Close, NewSession, Phase
  <2>5. CASE End(c)
    BY <2>4, <2>5 DEF End
  <2>6. CASE Sniff(c)
    <3>1. s.phase = "sniff" /\ s.phase \in Active \ {"serve"}
      BY <2>6 DEF Sniff, Active, Phase
    <3>2. PICK n \in 1 .. HelloLen :
            \/ Set(c, [s EXCEPT !.phase = "hello", !.got = n]) /\ UNCHANGED <<slots, history>>
            \/ Close(c)
      BY <2>6 DEF Sniff
    <3>3. [s EXCEPT !.phase = "hello", !.got = n] \in Session
          /\ [s EXCEPT !.phase = "hello", !.got = n].phase \in Active \ {"serve"}
      <4>1. n \in Nat /\ "hello" \in Phase /\ "hello" \in Active \ {"serve"}
        BY DEF Phase, Active
      <4>2. QED
        BY <2>2, <4>1 DEF Session
    <3>4. QED
      BY <2>4, <3>1, <3>2, <3>3, MoveKeepsTypes
  <2>7. ASSUME NEW phase \in {"hello", "hash"}, NEW need \in Nat, ReadPart(c, phase, need)
        PROVE  Types'
    <3>1. s.phase = phase /\ s.phase \in Active \ {"serve"}
      BY <2>7 DEF ReadPart, Active, Phase
    <3>2. PICK n \in 1 .. need - s.got - 1 :
            Set(c, [s EXCEPT !.got = @ + n]) /\ UNCHANGED <<slots, history>>
      BY <2>7 DEF ReadPart
    <3>3. [s EXCEPT !.got = @ + n] \in Session
          /\ [s EXCEPT !.got = @ + n].phase = s.phase
      <4>1. s.got \in Nat
        BY <2>2 DEF Session
      <4>2. n \in Nat /\ s.got + n \in Nat
        BY <4>1
      <4>3. QED
        BY <2>2, <4>2 DEF Session
    <3>4. QED
      BY <3>1, <3>2, <3>3, MoveKeepsTypes
  <2>8. CASE EndHello(c)
    <3>1. s.phase \in Active \ {"serve"}
          /\ Set(c, [s EXCEPT !.phase = "hash", !.got = 0]) /\ UNCHANGED <<slots, history>>
      BY <2>8 DEF EndHello, Active, Phase
    <3>2. [s EXCEPT !.phase = "hash", !.got = 0] \in Session
          /\ [s EXCEPT !.phase = "hash", !.got = 0].phase \in Active \ {"serve"}
      BY <2>2 DEF Session, Phase, Active
    <3>3. QED
      BY <3>1, <3>2, MoveKeepsTypes
  <2>9. CASE EndHash(c)
    <3>1. s.phase \in Active \ {"serve"}
          /\ Set(c, [s EXCEPT !.phase = "early", !.got = 0]) /\ UNCHANGED <<slots, history>>
      BY <2>9 DEF EndHash, Active, Phase
    <3>2. [s EXCEPT !.phase = "early", !.got = 0] \in Session
          /\ [s EXCEPT !.phase = "early", !.got = 0].phase \in Active \ {"serve"}
      BY <2>2 DEF Session, Phase, Active
    <3>3. QED
      BY <3>1, <3>2, MoveKeepsTypes
  <2>10. CASE ReadEarly(c) \/ ReadShake(c)
    <3>1. s.phase \in {"early", "shake"} /\ s.phase \in Active \ {"serve"}
      BY <2>10 DEF ReadEarly, ReadShake, Active, Phase
    <3>2. PICK n \in Nat :
            Set(c, [s EXCEPT !.got = @ + n, !.offset = @ + n]) /\ UNCHANGED <<slots, history>>
      <4>1. PICK m \in 1 .. EarlyLen + ShakeLen :
              Set(c, [s EXCEPT !.got = @ + m, !.offset = @ + m]) /\ UNCHANGED <<slots, history>>
        <5>1. s.got \in Nat
          BY <2>2 DEF Session
        <5>2. /\ 1 .. EarlyLen - s.got - 1 \subseteq 1 .. EarlyLen + ShakeLen
              /\ 1 .. ShakeLen - s.got - 1 \subseteq 1 .. EarlyLen + ShakeLen
          BY <5>1, LengthTypes
        <5>3. QED
          BY <2>10, <5>2 DEF ReadEarly, ReadShake
      <4>2. m \in Nat
        OBVIOUS
      <4>3. QED
        BY <4>1, <4>2
    <3>3. [s EXCEPT !.got = @ + n, !.offset = @ + n] \in Session
          /\ [s EXCEPT !.got = @ + n, !.offset = @ + n].phase = s.phase
      <4>1. s.got + n \in Nat /\ s.offset + n \in Nat
        BY <2>2 DEF Session
      <4>2. QED
        BY <2>2, <4>1 DEF Session
    <3>4. QED
      BY <3>1, <3>2, <3>3, MoveKeepsTypes
  <2>11. CASE EndEarly(c)
    <3> DEFINE t == [s EXCEPT !.phase = "stock", !.got = 0, !.offset = EarlyLen]
               u == MakeHandshake([s EXCEPT !.phase = "shake", !.got = EarlyLen,
                                            !.offset = EarlyLen])
    <3>1. s.phase \in Active \ {"serve"} /\ UNCHANGED <<slots, history>>
          /\ (Set(c, t) \/ Set(c, u))
      BY <2>11 DEF EndEarly, Active, Phase
    <3>2. t \in Session /\ t.phase \in Active \ {"serve"}
      BY <2>2, LengthTypes DEF Session, Phase, Active
    <3>3. u \in Session /\ u.phase \in Active \ {"serve"}
      BY <2>2, LengthTypes DEF Session, Phase, Active, MakeHandshake
    <3> HIDE DEF t, u
    <3>4. QED
      BY <3>1, <3>2, <3>3, MoveKeepsTypes
  <2>12. CASE EarlyTimeout(c)
    <3> DEFINE t(e) == MakeHandshake([s EXCEPT !.phase = "shake", !.got = 0, !.lost = e])
    <3>1. s.phase \in Active \ {"serve"} /\ UNCHANGED <<slots, history>>
          /\ Set(c, t(s.got > 0))
      BY <2>12 DEF EarlyTimeout, Active, Phase
    <3>2. \A e \in BOOLEAN : t(e) \in Session /\ t(e).phase \in Active \ {"serve"}
      BY <2>2 DEF Session, Phase, Active, MakeHandshake
    <3>3. (s.got > 0) \in BOOLEAN
      OBVIOUS
    <3> HIDE DEF t
    <3>4. t(s.got > 0) \in Session /\ t(s.got > 0).phase \in Active \ {"serve"}
      BY <3>2, <3>3, Zenon
    <3>5. QED
      BY <3>1, <3>4, MoveKeepsTypes
  <2>13. CASE EndShake(c)
    <3> DEFINE r == [s EXCEPT !.offset = @ + ShakeLen - s.got]
    <3>1. s.phase = "shake" /\ s.phase \in Active
      BY <2>13 DEF EndShake, Active, Phase
    <3>2. CASE SignatureMatches(c)
      <4>1. PICK data \in [1 .. 2 -> Sent] :
              LET buffer == Feed(<<>>, data) IN
              IF buffer.bad THEN Close(c)
              ELSE Process(c, ClientHandshake([r EXCEPT !.phase = "serve", !.got = 0,
                                                        !.pending = buffer.pending]),
                           data, buffer.frames)
        BY <2>13, <3>2 DEF EndShake
      <4>2. data \in Seq(Byte) /\ Len(data) = 2
        BY DataType
      <4>3. <<>> \in Seq(Byte) /\ Len(<<>>) = 0
        BY EmptySeq
      <4> DEFINE buffer == Feed(<<>>, data)
                 t == ClientHandshake([r EXCEPT !.phase = "serve", !.got = 0,
                                                !.pending = buffer.pending])
      <4>4. buffer \in Buffer
        BY <4>2, <4>3, FeedType
      <4> HIDE DEF buffer
      <4>5. s.offset + ShakeLen - s.got \in Nat
        BY <2>2, <3>2, LengthTypes DEF SignatureMatches, Session
      <4>6. t \in Session /\ t.phase = "serve"
        BY <2>2, <4>4, <4>5, LengthTypes DEF Session, Phase, ClientHandshake, Buffer
      <4> HIDE DEF t
      <4>7. Len(stream[c]) + Len(data) <= MaxData
        BY <3>1, <4>2, <4>3, SessionAssumption DEF Types
      <4>8. buffer.bad \/ Process(c, t, data, buffer.frames)
        BY <4>1 DEF buffer, t
      <4>9. CASE ~ buffer.bad
        BY <3>1, <4>2, <4>4, <4>6, <4>7, <4>8, <4>9, ProcessKeepsTypes DEF Buffer
      <4>10. CASE buffer.bad
        BY <2>4, <3>1, <4>1, <4>10 DEF buffer
      <4>11. QED
        BY <4>9, <4>10
    <3>3. CASE ~ SignatureMatches(c)
      <4>1. CloseAs(c, [NewSession("closed") EXCEPT !.unsigned = TRUE, !.lost = s.lost])
        BY <2>13, <3>3 DEF EndShake
      <4>2. s.lost \in BOOLEAN
        BY <2>2 DEF Session
      <4>3. /\ [NewSession("closed") EXCEPT !.unsigned = TRUE, !.lost = s.lost] \in Session
            /\ [NewSession("closed") EXCEPT !.unsigned = TRUE, !.lost = s.lost].phase = "closed"
        BY <4>2, NewSessionType DEF NewSession
      <4>4. QED
        BY <3>1, <4>1, <4>3, CloseKeepsTypes
    <3>4. QED
      BY <3>2, <3>3
  <2>14. CASE Serve(c)
    <3>1. s.phase = "serve"
      BY <2>14 DEF Serve
    <3>2. PICK n \in 1 .. MaxData - Len(stream[c]) : \E data \in [1 .. n -> Sent] :
            LET buffer == Feed(s.pending, data) IN
            Process(c, Decrypt([s EXCEPT !.offset = @ + n, !.pending = buffer.pending], n),
                    data, buffer.frames)
      BY <2>14 DEF Serve
    <3>3. PICK data \in [1 .. n -> Sent] :
            LET buffer == Feed(s.pending, data) IN
            Process(c, Decrypt([s EXCEPT !.offset = @ + n, !.pending = buffer.pending], n),
                    data, buffer.frames)
      BY <3>2
    <3>4. n \in Nat /\ data \in Seq(Byte) /\ Len(data) = n
      BY DataType
    <3>5. Len(stream[c]) + Len(data) <= MaxData
      <4>1. Len(stream[c]) \in Nat
        BY LenProperties DEF Types
      <4>2. QED
        BY <3>4, <4>1, SessionAssumption
    <3> DEFINE buffer == Feed(s.pending, data)
               t == Decrypt([s EXCEPT !.offset = @ + n, !.pending = buffer.pending], n)
    <3>6. buffer \in Buffer
      BY <2>2, <3>4, FeedType DEF Session
    <3> HIDE DEF buffer
    <3>7. t \in Session /\ t.phase = "serve"
      <4>1. s.offset + n \in Nat /\ s.decrypted + n \in Nat
        BY <2>2, <3>4 DEF Session
      <4>2. buffer.pending \in Seq(Byte)
        BY <3>6 DEF Buffer
      <4>3. t = [s EXCEPT !.offset = @ + n, !.pending = buffer.pending, !.decrypted = @ + n]
        BY <2>2 DEF Session, Decrypt
      <4> HIDE DEF t
      <4>4. QED
        BY <2>2, <3>1, <4>1, <4>2, <4>3 DEF Session
    <3> HIDE DEF t
    <3>8. Process(c, t, data, buffer.frames)
      BY <3>3 DEF buffer, t
    <3>9. QED
      BY <3>1, <3>4, <3>5, <3>6, <3>7, <3>8, ProcessKeepsTypes DEF Buffer
  <2>15. CASE ReadPart(c, "hello", HelloLen) \/ ReadPart(c, "hash", HashLen)
    BY <2>7, <2>15, LengthTypes
  <2>16. QED
    BY <2>1, <2>3, <2>5, <2>6, <2>8, <2>9, <2>10, <2>11, <2>12, <2>13, <2>14, <2>15 DEF Step
<1>3. QED
  BY <1>1, <1>2

(* The tokens of the semaphore are those of the open sessions, at most     *)
(* Slots of them, whatever ends a session (TCPProbeServer.runPort).        *)
THEOREM TypeCorrect == Spec => []TypeOK
<1>1. Types => TypeOK
  BY DEF Types
<1>2. QED
  BY InitTypes, NextTypes, <1>1, PTL DEF Spec

-----------------------------------------------------------------------------
(***************************************************************************)
(* The place of a session in the key stream. Bytes of the early wait are   *)
(* counted twice, as part of the handshake and of the stream, unless they  *)
(* were lost; whoever then passes the signature has lost none.             *)
(***************************************************************************)
InPlace(s) ==
  /\ s.phase \in {"new", "sniff", "hello", "hash"} => s.offset = 0
  /\ s.phase = "early" => s.offset = s.got
  /\ s.phase = "shake" => s.lost \/ s.offset = s.got
  /\ s.phase = "serve" => s.offset = s.decrypted
  /\ s.unsigned => s.phase = "closed" /\ s.lost

Places == \A c \in Conn : InPlace(session[c])

LEMMA SetPlaces ==
  ASSUME Types, Places, NEW c \in Conn, NEW s, InPlace(s), Set(c, s)
  PROVE  Places'
<1>1. session'[c] = s /\ \A d \in Conn \ {c} : session'[d] = session[d]
  BY DEF Set, Types, TypeOK
<1>2. QED
  BY <1>1 DEF Places

LEMMA ClosePlaces ==
  ASSUME Types, Places, NEW c \in Conn, Close(c)
  PROVE  Places'
<1>1. InPlace(NewSession("closed"))
  BY DEF InPlace, NewSession
<1>2. QED
  BY <1>1, SetPlaces DEF Close, CloseAs

\* Processing frames moves nothing in the key stream.
LEMMA ProcessPlaces ==
  ASSUME Types, Places, NEW c \in Conn, NEW s \in Session, InPlace(s), NEW data, NEW frames,
         Process(c, s, data, frames)
  PROVE  Places'
<1> DEFINE t(e) == [s EXCEPT !.garbage = e]
<1>1. PICK n \in 0 .. Len(frames) : Set(c, t(s.garbage /\ n = 0)) \/ Close(c)
  BY DEF Process
<1>2. \A e \in BOOLEAN : InPlace(t(e))
  BY DEF InPlace, Session
<1>3. (s.garbage /\ n = 0) \in BOOLEAN
  OBVIOUS
<1> HIDE DEF t
<1>4. InPlace(t(s.garbage /\ n = 0))
  BY <1>2, <1>3, Zenon
<1>5. QED
  BY <1>1, <1>4, SetPlaces, ClosePlaces

LEMMA NextPlaces == Types /\ Places /\ [Next]_vars => Places'
<1> SUFFICES ASSUME Types, Places, [Next]_vars PROVE Places'
  OBVIOUS
<1>1. CASE UNCHANGED vars
  BY <1>1 DEF vars, Places
<1>2. CASE Next
  <2>1. PICK c \in Conn : Accept(c) \/ Step(c)
    BY <1>2 DEF Next
  <2> DEFINE s == session[c]
  <2>2. s \in Session /\ InPlace(s)
    BY DEF Types, TypeOK, Places
  <2>3. CASE Accept(c)
    <3>1. PICK phase \in {"sniff", "closed"} : Set(c, NewSession(phase))
      BY <2>3 DEF Accept
    <3>2. InPlace(NewSession(phase))
      BY DEF InPlace, NewSession
    <3>3. QED
      BY <3>1, <3>2, SetPlaces
  <2>4. CASE End(c)
    BY <2>4, ClosePlaces DEF End
  <2>5. CASE Sniff(c)
    <3>1. PICK n \in 1 .. HelloLen :
            Set(c, [s EXCEPT !.phase = "hello", !.got = n]) \/ Close(c)
      BY <2>5 DEF Sniff
    <3>2. InPlace([s EXCEPT !.phase = "hello", !.got = n])
      BY <2>2, <2>5 DEF InPlace, Session, Sniff
    <3>3. QED
      BY <3>1, <3>2, SetPlaces, ClosePlaces
  <2>6. CASE ReadPart(c, "hello", HelloLen) \/ ReadPart(c, "hash", HashLen)
    <3>1. PICK n \in Int : Set(c, [s EXCEPT !.got = @ + n])
      BY <2>6 DEF ReadPart
    <3>2. s.phase \in {"hello", "hash"}
      BY <2>6 DEF ReadPart
    <3>3. InPlace([s EXCEPT !.got = @ + n])
      BY <2>2, <3>2 DEF InPlace, Session
    <3>4. QED
      BY <3>1, <3>3, SetPlaces
  <2>7. CASE EndHello(c)
    <3>1. InPlace([s EXCEPT !.phase = "hash", !.got = 0])
      BY <2>2, <2>7 DEF InPlace, Session, EndHello
    <3>2. QED
      BY <2>7, <3>1, SetPlaces DEF EndHello
  <2>8. CASE EndHash(c)
    <3>1. InPlace([s EXCEPT !.phase = "early", !.got = 0])
      BY <2>2, <2>8 DEF InPlace, Session, EndHash
    <3>2. QED
      BY <2>8, <3>1, SetPlaces DEF EndHash
  <2>9. CASE ReadEarly(c) \/ ReadShake(c)
    <3>1. PICK n \in Int : Set(c, [s EXCEPT !.got = @ + n, !.offset = @ + n])
      <4>1. CASE ReadEarly(c)
        <5>1. PICK n \in 1 .. EarlyLen - s.got - 1 :
                Set(c, [s EXCEPT !.got = @ + n, !.offset = @ + n])
          BY <4>1 DEF ReadEarly
        <5>2. n \in Int
          OBVIOUS
        <5>3. QED
          BY <5>1, <5>2, Zenon
      <4>2. CASE ReadShake(c)
        <5>1. PICK n \in 1 .. ShakeLen - s.got - 1 :
                Set(c, [s EXCEPT !.got = @ + n, !.offset = @ + n])
          BY <4>2 DEF ReadShake
        <5>2. n \in Int
          OBVIOUS
        <5>3. QED
          BY <5>1, <5>2, Zenon
      <4>3. QED
        BY <2>9, <4>1, <4>2
    <3>2. s.phase \in {"early", "shake"}
      BY <2>9 DEF ReadEarly, ReadShake
    <3>3. InPlace([s EXCEPT !.got = @ + n, !.offset = @ + n])
      BY <2>2, <3>2 DEF InPlace, Session
    <3>4. QED
      BY <3>1, <3>3, SetPlaces
  <2>10. CASE EndEarly(c)
    <3> DEFINE t == [s EXCEPT !.phase = "stock", !.got = 0, !.offset = EarlyLen]
               u == MakeHandshake([s EXCEPT !.phase = "shake", !.got = EarlyLen,
                                            !.offset = EarlyLen])
    <3>1. s.phase = "early" /\ (Set(c, t) \/ Set(c, u))
      BY <2>10 DEF EndEarly
    <3>2. InPlace(t) /\ InPlace(u)
      BY <2>2, <3>1 DEF InPlace, Session, MakeHandshake
    <3> HIDE DEF t, u
    <3>3. QED
      BY <3>1, <3>2, SetPlaces
  <2>11. CASE EarlyTimeout(c)
    <3> DEFINE t(e) == MakeHandshake([s EXCEPT !.phase = "shake", !.got = 0, !.lost = e])
    <3>1. s.phase = "early" /\ Set(c, t(s.got > 0))
      BY <2>11 DEF EarlyTimeout
    <3>2. \A e \in BOOLEAN : e \/ s.got = 0 => InPlace(t(e))
      BY <2>2, <3>1 DEF InPlace, Session, MakeHandshake
    <3>3. (s.got > 0) \in BOOLEAN /\ ((s.got > 0) \/ s.got = 0)
      BY <2>2 DEF Session
    <3> HIDE DEF t
    <3>4. InPlace(t(s.got > 0))
      BY <3>2, <3>3, Zenon
    <3>5. QED
      BY <3>1, <3>4, SetPlaces
  <2>12. CASE EndShake(c)
    <3> DEFINE r == [s EXCEPT !.offset = @ + ShakeLen - s.got]
    <3>1. s.phase = "shake"
      BY <2>12 DEF EndShake
    <3>2. CASE SignatureMatches(c)
      <4>1. PICK data \in [1 .. 2 -> Sent] :
              LET buffer == Feed(<<>>, data) IN
              IF buffer.bad THEN Close(c)
              ELSE Process(c, ClientHandshake([r EXCEPT !.phase = "serve", !.got = 0,
                                                        !.pending = buffer.pending]),
                           data, buffer.frames)
        BY <2>12, <3>2 DEF EndShake
      <4> DEFINE buffer == Feed(<<>>, data)
                 t == ClientHandshake([r EXCEPT !.phase = "serve", !.got = 0,
                                                !.pending = buffer.pending])
      <4>2. buffer \in Buffer
        <5>1. data \in Seq(Byte)
          BY DataType
        <5>2. <<>> \in Seq(Byte)
          BY EmptySeq
        <5>3. QED
          BY <5>1, <5>2, FeedType
      <4> HIDE DEF buffer
      <4>3. s.offset + ShakeLen - s.got = ShakeLen /\ ShakeLen \in Nat
        BY <2>2, <3>2, LengthTypes DEF SignatureMatches, Session
      <4>4. t \in Session /\ InPlace(t)
        <5>1. t = [s EXCEPT !.offset = ShakeLen, !.phase = "serve", !.got = 0,
                            !.pending = buffer.pending, !.recvReady = TRUE,
                            !.decrypted = ShakeLen]
          BY <2>2, <4>3 DEF Session, ClientHandshake
        <5> HIDE DEF t
        <5>2. "serve" \in Phase /\ buffer.pending \in Seq(Byte)
          BY <4>2 DEF Phase, Buffer
        <5>3. t \in Session
          BY <2>2, <4>3, <5>1, <5>2 DEF Session
        <5>4. t.phase = "serve" /\ t.offset = ShakeLen /\ t.decrypted = ShakeLen
              /\ t.unsigned = s.unsigned
          BY <2>2, <5>1 DEF Session
        <5>5. QED
          BY <2>2, <3>1, <5>3, <5>4 DEF InPlace
      <4> HIDE DEF t
      <4>5. Close(c) \/ Process(c, t, data, buffer.frames)
        BY <4>1 DEF buffer, t
      <4>6. QED
        BY <4>4, <4>5, ClosePlaces, ProcessPlaces
    <3>3. CASE ~ SignatureMatches(c)
      <4> DEFINE t == [NewSession("closed") EXCEPT !.unsigned = TRUE, !.lost = s.lost]
      <4>1. Set(c, t)
        BY <2>12, <3>3 DEF EndShake, CloseAs
      <4>2. s.lost = TRUE
        BY <2>2, <3>1, <3>3 DEF SignatureMatches, InPlace, Session
      <4>3. InPlace(t)
        BY <4>2 DEF InPlace, NewSession
      <4> HIDE DEF t
      <4>4. QED
        BY <4>1, <4>3, SetPlaces
    <3>4. QED
      BY <3>2, <3>3
  <2>13. CASE Serve(c)
    <3>1. PICK n \in 1 .. MaxData - Len(stream[c]) : \E data \in [1 .. n -> Sent] :
            LET buffer == Feed(s.pending, data) IN
            Process(c, Decrypt([s EXCEPT !.offset = @ + n, !.pending = buffer.pending], n),
                    data, buffer.frames)
      BY <2>13 DEF Serve
    <3>2. PICK data \in [1 .. n -> Sent] :
            LET buffer == Feed(s.pending, data) IN
            Process(c, Decrypt([s EXCEPT !.offset = @ + n, !.pending = buffer.pending], n),
                    data, buffer.frames)
      BY <3>1
    <3> DEFINE buffer == Feed(s.pending, data)
               t == Decrypt([s EXCEPT !.offset = @ + n, !.pending = buffer.pending], n)
    <3>3. buffer \in Buffer
      <4>1. n \in Nat /\ data \in Seq(Byte) /\ s.pending \in Seq(Byte)
        BY <2>2, DataType DEF Session
      <4>2. QED
        BY <4>1, FeedType
    <3> HIDE DEF buffer
    <3>4. t \in Session /\ InPlace(t)
      <4>1. t = [s EXCEPT !.offset = @ + n, !.pending = buffer.pending, !.decrypted = @ + n]
        BY <2>2 DEF Session, Decrypt
      <4> HIDE DEF t
      <4>2. s.offset + n \in Nat /\ s.decrypted + n \in Nat /\ buffer.pending \in Seq(Byte)
        BY <2>2, <3>3 DEF Session, Buffer
      <4>3. t \in Session
        BY <2>2, <4>1, <4>2 DEF Session
      <4>4. s.phase = "serve" /\ s.offset = s.decrypted
        BY <2>2, <2>13 DEF Serve, InPlace
      <4>5. t.phase = "serve" /\ t.offset = s.offset + n /\ t.decrypted = s.decrypted + n
            /\ t.unsigned = s.unsigned
        BY <2>2, <4>1, <4>4 DEF Session
      <4>6. QED
        BY <2>2, <4>3, <4>4, <4>5 DEF InPlace
    <3> HIDE DEF t
    <3>5. Process(c, t, data, buffer.frames)
      BY <3>2 DEF buffer, t
    <3>6. QED
      BY <3>4, <3>5, ProcessPlaces
  <2>14. QED
    BY <2>1, <2>3, <2>4, <2>5, <2>6, <2>7, <2>8, <2>9, <2>10, <2>11, <2>12, <2>13 DEF Step
<1>3. QED
  BY <1>1, <1>2

LEMMA PlacesHold == Spec => [](Types /\ Places)
<1>1. Init => Places
  BY DEF Init, Places, InPlace, NewSession
<1>2. QED
  BY InitTypes, NextTypes, NextPlaces, <1>1, PTL DEF Spec

(* Whatever was read when, a session that is served decrypts each byte     *)
(* with its own place in the key stream (TCPProbeServer.handle).           *)
THEOREM ServedInPlace == Spec => []KeyStreamsMeet
<1>1. Places => KeyStreamsMeet
  BY DEF Places, InPlace, KeyStreamsMeet
<1>2. QED
  BY PlacesHold, <1>1, PTL

(* Only the timeout amid the first five bytes makes a client that keeps to *)
(* the protocol fail the signature (TCPProbeServer.handle).                *)
THEOREM UnsignedHasLost == Spec => []OnlyLossIsUnsigned
<1>1. Places => OnlyLossIsUnsigned
  BY DEF Places, InPlace, OnlyLossIsUnsigned
<1>2. QED
  BY PlacesHold, <1>1, PTL

-----------------------------------------------------------------------------
(***************************************************************************)
(* The frames of a session. While the end of its stream may begin a frame, *)
(* the bytes that the frame buffer keeps are those after the frames of the *)
(* stream, all of which but the first were handled; the first is yet to    *)
(* come while the flag for it is set.                                      *)
(***************************************************************************)
Rest(fs) == SubSeq(fs, 2, Len(fs))

Framed(pending, garbage, s, fs) ==
  LET cut == Cut(s) IN
  IF Hopeless(pending) THEN IsPrefix(fs, Rest(cut))
  ELSE /\ IsCut(s, cut, pending)
       /\ fs = Rest(cut)
       /\ garbage <=> cut = <<>>

SessionFramed(s, c) ==
  IF s.phase = "serve" THEN Framed(s.pending, s.garbage, stream[c], handled[c])
  ELSE s.garbage

Framing == \A c \in Conn : SessionFramed(session[c], c)

\* The rest of a sequence, and of one that goes on.
LEMMA RestType ==
  ASSUME NEW S, NEW fs \in Seq(S)
  PROVE  /\ Rest(fs) \in Seq(S)
         /\ Len(Rest(fs)) = IF Len(fs) > 1 THEN Len(fs) - 1 ELSE 0
         /\ \A i \in 1 .. Len(fs) - 1 : Rest(fs)[i] = fs[i + 1]
<1>1. Len(fs) \in Nat
  BY LenProperties
<1>2. \A i \in 2 .. Len(fs) : fs[i] \in S
  BY <1>1, ElementOfSeq
<1>3. /\ Rest(fs) \in Seq(S)
      /\ Len(Rest(fs)) = IF 2 <= Len(fs) THEN Len(fs) - 2 + 1 ELSE 0
      /\ \A i \in 1 .. Len(fs) - 2 + 1 : Rest(fs)[i] = fs[2 + i - 1]
  BY <1>1, <1>2, SubSeqProperties DEF Rest
<1>4. QED
  BY <1>1, <1>3

LEMMA RestConcat ==
  ASSUME NEW S, NEW fs \in Seq(S), NEW gs \in Seq(S)
  PROVE  Rest(fs \o gs) = Rest(fs) \o (IF fs = <<>> THEN Rest(gs) ELSE gs)
<1>1. CASE fs = <<>>
  <2>1. Rest(gs) \in Seq(S)
    BY RestType
  <2>2. Rest(fs) = <<>>
    <3>1. Len(fs) = 0
      BY <1>1, EmptySeq
    <3>2. QED
      BY <3>1, SubSeqEmpty DEF Rest
  <2>3. <<>> \o gs = gs /\ <<>> \o Rest(gs) = Rest(gs)
    BY <2>1, ConcatEmptySeq
  <2>4. QED
    BY <1>1, <2>2, <2>3, Zenon
<1>2. CASE fs # <<>>
  <2>1. PICK hs, rs, us : hs = fs \o gs /\ rs = Rest(fs) /\ us = rs \o gs
    OBVIOUS
  <2>2. /\ hs \in Seq(S) /\ Len(hs) = Len(fs) + Len(gs)
        /\ \A i \in 1 .. Len(fs) + Len(gs) :
             hs[i] = IF i <= Len(fs) THEN fs[i] ELSE gs[i - Len(fs)]
    BY <2>1, ConcatProperties, Zenon
  <2>3. /\ rs \in Seq(S) /\ Len(fs) \in Nat \ {0} /\ Len(gs) \in Nat
        /\ Len(rs) = Len(fs) - 1
        /\ \A i \in 1 .. Len(fs) - 1 : rs[i] = fs[i + 1]
    BY <1>2, <2>1, RestType, EmptySeq, LenProperties
  <2>4. /\ us \in Seq(S) /\ Len(us) = Len(rs) + Len(gs)
        /\ \A i \in 1 .. Len(rs) + Len(gs) :
             us[i] = IF i <= Len(rs) THEN rs[i] ELSE gs[i - Len(rs)]
    BY <2>1, <2>3, ConcatProperties, Zenon
  <2>5. /\ Rest(hs) \in Seq(S) /\ Len(Rest(hs)) = Len(us)
        /\ \A i \in 1 .. Len(us) : Rest(hs)[i] = hs[i + 1]
    <3>1. /\ Rest(hs) \in Seq(S)
          /\ Len(Rest(hs)) = IF Len(hs) > 1 THEN Len(hs) - 1 ELSE 0
          /\ \A i \in 1 .. Len(hs) - 1 : Rest(hs)[i] = hs[i + 1]
      BY <2>2, RestType, Zenon
    <3>2. Len(hs) - 1 = Len(us) /\ (Len(hs) > 1 \/ Len(hs) - 1 = 0)
      BY <2>2, <2>3, <2>4
    <3>3. QED
      BY <2>2, <3>1, <3>2
  <2>6. ASSUME NEW i \in 1 .. Len(us) PROVE Rest(hs)[i] = us[i]
    <3>1. CASE i <= Len(rs)
      BY <2>2, <2>3, <2>4, <2>5, <3>1
    <3>2. CASE ~ (i <= Len(rs))
      <4>1. hs[i + 1] = gs[(i + 1) - Len(fs)] /\ us[i] = gs[i - Len(rs)]
        BY <2>2, <2>3, <2>4, <3>2
      <4>2. (i + 1) - Len(fs) = i - Len(rs)
        BY <2>3
      <4>3. QED
        BY <2>5, <4>1, <4>2
    <3>3. QED
      BY <3>1, <3>2
  <2>7. Rest(hs) = us
    BY <2>4, <2>5, <2>6, SeqEqual
  <2>8. QED
    BY <1>2, <2>1, <2>7, Zenon
<1>3. QED
  BY <1>1, <1>2

LEMMA FramesGoOn ==
  \A fs, gs \in Seq(Seq(Byte)) :
    Rest(fs \o gs) = Rest(fs) \o (IF fs = <<>> THEN Rest(gs) ELSE gs)
  BY RestConcat

\* A beginning stays one when the sequence goes on.
LEMMA PrefixGrows ==
  ASSUME NEW S, NEW us \in Seq(S), NEW fs \in Seq(S), NEW gs \in Seq(S), IsPrefix(us, fs)
  PROVE  IsPrefix(us, fs \o gs)
<1>1. Len(us) \in Nat /\ Len(fs) \in Nat /\ Len(us) <= Len(fs)
      /\ SubSeq(us, 1, Len(us)) = SubSeq(fs, 1, Len(us))
  BY LenProperties DEF IsPrefix
<1>2. Len(fs \o gs) = Len(fs) + Len(gs) /\ Len(gs) \in Nat
  BY ConcatProperties, LenProperties
<1>3. SubSeq(fs \o gs, 1, Len(us)) = SubSeq(fs, 1, Len(us))
  <2>1. CASE Len(us) = 0
    <3>1. \A s : SubSeq(s, 1, 0) = <<>>
      BY SubSeqEmpty
    <3>2. QED
      BY <2>1, <3>1, Zenon
  <2>2. CASE Len(us) # 0
    <3>1. 1 \in 1 .. Len(fs) /\ Len(us) \in 1 .. Len(fs)
      BY <1>1, <2>2
    <3>2. QED
      BY <3>1, SubSeqOfConcat1
  <2>3. QED
    BY <2>1, <2>2
<1>4. Len(us) <= Len(fs \o gs)
  BY <1>1, <1>2
<1>5. QED
  BY <1>1, <1>3, <1>4, Zenon DEF IsPrefix

LEMMA PrefixOfSelf ==
  ASSUME NEW S, NEW us \in Seq(S)
  PROVE  IsPrefix(us, us)
  BY LenProperties DEF IsPrefix

\* The frames of a stream that goes on: handled ones stay its first.
LEMMA LaterFrames ==
  ASSUME NEW s \in Seq(Byte), NEW us \in Seq(Seq(Byte)), IsPrefix(us, Rest(Cut(s))),
         NEW data \in Seq(Byte)
  PROVE  IsPrefix(us, Rest(Cut(s \o data)))
<1>1. PICK fs \in Seq(Seq(Byte)) : fs = Cut(s)
  BY CutGrows
<1>2. PICK gs \in Seq(Seq(Byte)) : Cut(s \o data) = fs \o gs
  BY <1>1, CutGrows, Zenon
<1>3. PICK hs : hs = IF fs = <<>> THEN Rest(gs) ELSE gs
  OBVIOUS
<1>4. hs \in Seq(Seq(Byte)) /\ Rest(fs \o gs) = Rest(fs) \o hs
  <2>1. hs \in Seq(Seq(Byte))
    BY <1>3, RestType
  <2>2. QED
    BY <1>3, <2>1, FramesGoOn, Zenon
<1>5. Rest(fs) \in Seq(Seq(Byte)) /\ IsPrefix(us, Rest(fs))
  BY <1>1, RestType
<1>6. IsPrefix(us, Rest(fs) \o hs)
  BY <1>4, <1>5, PrefixGrows, Zenon
<1>7. QED
  BY <1>2, <1>4, <1>6, Zenon

(***************************************************************************)
(* A read: what Feed returns for it, with the first frame skipped while    *)
(* the flag is set, goes on with the frames of the stream.                 *)
(***************************************************************************)
LEMMA ReadFramed ==
  ASSUME NEW pending \in Seq(Byte), NEW garbage \in BOOLEAN, NEW s \in Seq(Byte),
         NEW us \in Seq(Seq(Byte)), Framed(pending, garbage, s, us),
         NEW data \in Seq(Byte), data # <<>>,
         NEW buffer, buffer = Feed(pending, data),
         NEW n, n = Len(buffer.frames),
         NEW skipped, skipped = IF garbage THEN 1 ELSE 0,
         NEW first, first = (garbage /\ n = 0)
  PROVE  Framed(buffer.pending, first, s \o data,
                us \o SubSeq(buffer.frames, skipped + 1, n))
<1>1. buffer \in Buffer
  BY FeedType
<1>2. buffer.pending \in Seq(Byte) /\ buffer.frames \in Seq(Seq(Byte))
  BY <1>1 DEF Buffer
<1>3. PICK fs \in Seq(Seq(Byte)) : fs = Cut(s)
  BY CutGrows
<1>4. PICK t \in Seq(Byte) : t = s \o data
  BY ConcatProperties
<1>5. ASSUME IsPrefix(us, Rest(Cut(s))), Hopeless(buffer.pending), buffer.frames = <<>>
      PROVE  Framed(buffer.pending, first, t, us \o SubSeq(buffer.frames, skipped + 1, n))
  <2>1. n = 0 /\ skipped + 1 > 0 /\ skipped + 1 \in Int
    BY <1>5, EmptySeq
  <2>2. SubSeq(buffer.frames, skipped + 1, n) = <<>>
    BY <2>1, SubSeqEmpty
  <2>3. us \o <<>> = us
    BY ConcatEmptySeq
  <2>4. IsPrefix(us, Rest(Cut(t)))
    BY <1>4, <1>5, LaterFrames, Zenon
  <2>5. us \o SubSeq(buffer.frames, skipped + 1, n) = us
    BY <2>2, <2>3, Zenon
  <2>6. QED
    BY <1>5, <2>4, <2>5, Zenon DEF Framed
<1>6. CASE Hopeless(pending)
  <2>1. IsPrefix(us, Rest(Cut(s)))
    BY <1>6 DEF Framed
  <2>2. Hopeless(buffer.pending) /\ buffer.frames = <<>>
    BY <1>6, FeedHopeless
  <2>3. QED
    BY <1>4, <1>5, <2>1, <2>2, Zenon
<1>7. CASE ~ Hopeless(pending)
  <2>1. IsCut(s, fs, pending) /\ us = Rest(fs) /\ (garbage <=> fs = <<>>)
    BY <1>3, <1>7, Zenon DEF Framed
  <2>2. FeedFrom(pending, data, buffer)
    <3>1. Partial(pending)
      BY <2>1 DEF IsCut
    <3>2. QED
      BY <1>7, <3>1, FeedCuts
  <2>3. CASE buffer.bad
    <3>1. Hopeless(buffer.pending) /\ buffer.frames = <<>>
      BY <2>2, <2>3 DEF FeedFrom
    <3>2. IsPrefix(us, Rest(Cut(s)))
      BY <1>3, <2>1, PrefixOfSelf
    <3>3. QED
      BY <1>4, <1>5, <3>1, <3>2, Zenon
  <2>4. CASE ~ buffer.bad
    <3>1. PICK gs \in Seq(Seq(Byte)), q \in Seq(Byte) : gs = buffer.frames /\ q = buffer.pending
      BY <1>2
    <3>2. IsCut(pending \o data, gs, q) /\ ~ Hopeless(q)
      BY <2>2, <2>4, <3>1, Zenon DEF FeedFrom
    <3>3. IsCut(t, fs \o gs, q)
      BY <1>4, <2>1, <3>2, CutConcat, Zenon
    <3>4. fs \o gs \in Seq(Seq(Byte)) /\ (fs \o gs = <<>> <=> fs = <<>> /\ gs = <<>>)
      BY ConcatProperties, ConcatEqualIffEmpty
    <3>5. PICK hs \in Seq(Seq(Byte)) : hs = fs \o gs /\ (hs = <<>> <=> fs = <<>> /\ gs = <<>>)
      BY <3>4, Zenon
    <3>6. IsCut(t, hs, q)
      BY <3>3, <3>5, Zenon
    <3>7. Cut(t) = hs
      BY <3>6, CutIs
    <3>8. Rest(fs \o gs) = Rest(fs) \o SubSeq(gs, skipped + 1, Len(gs))
      <4>1. SubSeq(gs, skipped + 1, Len(gs)) = IF fs = <<>> THEN Rest(gs) ELSE gs
        <5>1. SubSeq(gs, 1, Len(gs)) = gs
          BY SubSeqFull
        <5>2. IF fs = <<>> THEN skipped + 1 = 2 ELSE skipped + 1 = 1
          BY <2>1
        <5>3. QED
          BY <5>1, <5>2, Zenon DEF Rest
      <4>2. QED
        BY <4>1, FramesGoOn, Zenon
    <3>9. Rest(hs) = us \o SubSeq(buffer.frames, skipped + 1, n)
      BY <2>1, <3>1, <3>5, <3>8, Zenon
    <3>10. first <=> hs = <<>>
      <4>1. n = 0 <=> gs = <<>>
        BY <3>1, EmptySeq
      <4>2. QED
        BY <2>1, <3>5, <4>1
    <3>11. QED
      BY <1>4, <3>1, <3>2, <3>6, <3>7, <3>9, <3>10, Zenon DEF Framed
  <2>5. QED
    BY <2>3, <2>4
<1>8. QED
  BY <1>4, <1>6, <1>7, Zenon

\* The other sessions keep their streams when one changes.
LEMMA OthersFramed ==
  ASSUME Types, Framing, NEW c \in Conn, NEW s, Set(c, s),
         \A d \in Conn \ {c} : stream'[d] = stream[d] /\ handled'[d] = handled[d],
         IF s.phase = "serve" THEN Framed(s.pending, s.garbage, stream'[c], handled'[c])
         ELSE s.garbage
  PROVE  Framing'
<1>1. session'[c] = s /\ \A d \in Conn \ {c} : session'[d] = session[d]
  BY DEF Set, Types, TypeOK
<1>2. SessionFramed(session[c], c)'
  BY <1>1, Zenon DEF SessionFramed
<1>3. ASSUME NEW d \in Conn \ {c} PROVE SessionFramed(session[d], d)'
  BY <1>1, <1>3, Zenon DEF SessionFramed, Framing
<1>4. QED
  BY <1>2, <1>3, Zenon DEF Framing

\* A step that reads nothing of the stream, and the end of a session.
LEMMA SetFraming ==
  ASSUME Types, Framing, NEW c \in Conn, NEW s, Set(c, s), s.phase # "serve", s.garbage,
         UNCHANGED history
  PROVE  Framing'
  BY OthersFramed DEF history

LEMMA CloseFraming ==
  ASSUME Types, Framing, NEW c \in Conn, NEW s, CloseAs(c, s), s.phase = "closed", s.garbage
  PROVE  Framing'
<1>1. Set(c, s) /\ s.phase # "serve"
      /\ \A d \in Conn \ {c} : stream'[d] = stream[d] /\ handled'[d] = handled[d]
  BY DEF CloseAs, Types
<1>2. QED
  BY <1>1, OthersFramed

\* A read of the stream, into what was kept of it before.
LEMMA ProcessFraming ==
  ASSUME Types, Framing, NEW c \in Conn, NEW s \in Session, s.phase = "serve",
         NEW pending \in Seq(Byte), Framed(pending, s.garbage, stream[c], handled[c]),
         NEW data \in Seq(Byte), data # <<>>, NEW buffer, buffer = Feed(pending, data),
         s.pending = buffer.pending, Process(c, s, data, buffer.frames)
  PROVE  Framing'
<1>1. PICK n \in 0 .. Len(buffer.frames) :
        LET skipped == IF s.garbage THEN 1 ELSE 0 IN
        IF n = Len(buffer.frames)
        THEN /\ Set(c, [s EXCEPT !.garbage = @ /\ n = 0])
             /\ stream' = [stream EXCEPT ![c] = @ \o data]
             /\ handled' = [handled EXCEPT ![c] = @ \o SubSeq(buffer.frames, skipped + 1, n)]
             /\ slots' = slots
        ELSE n >= skipped /\ Close(c)
  BY DEF Process
<1>2. CASE n # Len(buffer.frames)
  <2>1. CloseAs(c, NewSession("closed"))
    BY <1>1, <1>2 DEF Close
  <2>2. QED
    BY <2>1, CloseFraming DEF NewSession
<1>3. CASE n = Len(buffer.frames)
  <2>1. PICK skipped : skipped = IF s.garbage THEN 1 ELSE 0
    OBVIOUS
  <2>2. PICK first : first = (s.garbage /\ n = 0)
    OBVIOUS
  <2>3. PICK more : more = SubSeq(buffer.frames, skipped + 1, n)
    OBVIOUS
  <2>4. PICK t : t = [s EXCEPT !.garbage = first]
    OBVIOUS
  <2>5. /\ Set(c, t)
        /\ stream' = [stream EXCEPT ![c] = @ \o data]
        /\ handled' = [handled EXCEPT ![c] = @ \o more]
    <3>1. [s EXCEPT !.garbage = @ /\ n = 0] = [s EXCEPT !.garbage = s.garbage /\ n = 0]
      BY Zenon
    <3>2. QED
      BY <1>1, <1>3, <2>1, <2>2, <2>3, <2>4, <3>1, Zenon
  <2>6. t.phase = "serve" /\ t.pending = buffer.pending /\ t.garbage = first
    <3>1. \A e \in BOOLEAN :
            /\ [s EXCEPT !.garbage = e].phase = s.phase
            /\ [s EXCEPT !.garbage = e].pending = s.pending
            /\ [s EXCEPT !.garbage = e].garbage = e
      BY DEF Session
    <3>2. first \in BOOLEAN
      BY <2>2
    <3>3. QED
      BY <2>4, <3>1, <3>2, Zenon
  <2>7. Framed(buffer.pending, first, stream[c] \o data, handled[c] \o more)
    <3>1. PICK us \in Seq(Byte), hs \in Seq(Seq(Byte)) : us = stream[c] /\ hs = handled[c]
      BY DEF Types
    <3>2. s.garbage \in BOOLEAN
      BY DEF Session
    <3>3. Framed(pending, s.garbage, us, hs)
      BY <3>1, Zenon
    <3>4. Framed(buffer.pending, first, us \o data,
                 hs \o SubSeq(buffer.frames, skipped + 1, n))
      BY <1>3, <2>1, <2>2, <3>2, <3>3, ReadFramed, Zenon
    <3>5. QED
      BY <2>3, <3>1, <3>4, Zenon
  <2>8. /\ stream'[c] = stream[c] \o data /\ handled'[c] = handled[c] \o more
        /\ \A d \in Conn \ {c} : stream'[d] = stream[d] /\ handled'[d] = handled[d]
    BY <2>5, Zenon DEF Types
  <2>9. Framed(t.pending, t.garbage, stream'[c], handled'[c])
    BY <2>6, <2>7, <2>8, Zenon
  <2>10. QED
    BY <2>5, <2>6, <2>8, <2>9, OthersFramed, Zenon
<1>4. QED
  BY <1>2, <1>3

\* Before the first byte of a stream.
LEMMA NothingFramed == Framed(<<>>, TRUE, <<>>, <<>>)
<1>1. <<>> \in Seq(Byte) /\ <<>> \in Seq(Seq(Byte)) /\ Len(<<>>) = 0
  BY EmptySeq
<1>2. Cut(<<>>) = <<>>
  BY <1>1, EmptyCut, CutIs
<1>3. Rest(<<>>) = <<>>
  BY <1>1, SubSeqEmpty DEF Rest
<1>4. QED
  BY <1>2, <1>3, EmptyCut, EmptyIsOpen, Zenon DEF Framed

LEMMA NextFraming == Types /\ Framing /\ [Next]_vars => Framing'
<1> SUFFICES ASSUME Types, Framing, [Next]_vars PROVE Framing'
  OBVIOUS
<1>1. CASE UNCHANGED vars
  BY <1>1 DEF vars, Framing, SessionFramed
<1>2. CASE Next
  <2>1. PICK c \in Conn : Accept(c) \/ Step(c)
    BY <1>2 DEF Next
  <2> DEFINE s == session[c]
  <2>2. s \in Session /\ SessionFramed(s, c)
    BY DEF Types, TypeOK, Framing
  <2>3. \A phase : NewSession(phase).phase = phase /\ NewSession(phase).garbage = TRUE
    BY DEF NewSession
  <2>4. CASE Accept(c)
    <3>1. PICK phase \in {"sniff", "closed"} : Set(c, NewSession(phase)) /\ UNCHANGED history
      BY <2>4 DEF Accept
    <3>2. QED
      BY <2>3, <3>1, SetFraming
  <2>5. CASE Close(c)
    BY <2>3, <2>5, CloseFraming DEF Close
  <2>6. CASE End(c)
    BY <2>5, <2>6 DEF End
  <2>7. CASE Sniff(c)
    <3>1. PICK n \in 1 .. HelloLen :
            \/ Set(c, [s EXCEPT !.phase = "hello", !.got = n]) /\ UNCHANGED history
            \/ Close(c)
      BY <2>7 DEF Sniff
    <3>2. [s EXCEPT !.phase = "hello", !.got = n].phase = "hello"
          /\ [s EXCEPT !.phase = "hello", !.got = n].garbage
      BY <2>2, <2>7 DEF SessionFramed, Session, Sniff
    <3>3. QED
      BY <2>5, <3>1, <3>2, SetFraming
  <2>8. CASE \/ ReadPart(c, "hello", HelloLen) \/ ReadPart(c, "hash", HashLen)
             \/ EndHello(c) \/ EndHash(c) \/ ReadEarly(c) \/ ReadShake(c)
             \/ EndEarly(c) \/ EarlyTimeout(c)
    <3>1. s.phase # "serve" /\ s.garbage
      BY <2>2, <2>8 DEF ReadPart, EndHello, EndHash, ReadEarly, ReadShake, EndEarly,
                        EarlyTimeout, SessionFramed
    <3>2. PICK t : Set(c, t) /\ t.phase # "serve" /\ t.garbage = s.garbage /\ UNCHANGED history
      <4>1. CASE ReadPart(c, "hello", HelloLen) \/ ReadPart(c, "hash", HashLen)
        <5>1. PICK n : Set(c, [s EXCEPT !.got = @ + n]) /\ UNCHANGED history
          BY <4>1 DEF ReadPart
        <5>2. [s EXCEPT !.got = @ + n].phase = s.phase
              /\ [s EXCEPT !.got = @ + n].garbage = s.garbage
          BY <2>2 DEF Session
        <5>3. QED
          BY <3>1, <5>1, <5>2
      <4>2. CASE EndHello(c)
        BY <2>2, <4>2 DEF EndHello, Session
      <4>3. CASE EndHash(c)
        BY <2>2, <4>3 DEF EndHash, Session
      <4>4. CASE ReadEarly(c) \/ ReadShake(c)
        <5>1. PICK n : Set(c, [s EXCEPT !.got = @ + n, !.offset = @ + n]) /\ UNCHANGED history
          BY <4>4 DEF ReadEarly, ReadShake
        <5>2. [s EXCEPT !.got = @ + n, !.offset = @ + n].phase = s.phase
              /\ [s EXCEPT !.got = @ + n, !.offset = @ + n].garbage = s.garbage
          BY <2>2 DEF Session
        <5>3. QED
          BY <3>1, <5>1, <5>2
      <4>5. CASE EndEarly(c)
        BY <2>2, <4>5 DEF EndEarly, MakeHandshake, Session
      <4>6. CASE EarlyTimeout(c)
        <5> DEFINE t(e) == MakeHandshake([s EXCEPT !.phase = "shake", !.got = 0, !.lost = e])
        <5>1. Set(c, t(s.got > 0)) /\ UNCHANGED history
          BY <4>6 DEF EarlyTimeout
        <5>2. \A e \in BOOLEAN : t(e).phase = "shake" /\ t(e).garbage = s.garbage
          BY <2>2 DEF MakeHandshake, Session
        <5>3. (s.got > 0) \in BOOLEAN
          OBVIOUS
        <5> HIDE DEF t
        <5>4. t(s.got > 0).phase = "shake" /\ t(s.got > 0).garbage = s.garbage
          BY <5>2, <5>3, Zenon
        <5>5. QED
          BY <5>1, <5>4
      <4>7. QED
        BY <2>8, <4>1, <4>2, <4>3, <4>4, <4>5, <4>6
    <3>3. QED
      BY <3>1, <3>2, SetFraming
  <2>9. CASE EndShake(c)
    <3> DEFINE r == [s EXCEPT !.offset = @ + ShakeLen - s.got]
    <3>1. s.phase = "shake" /\ s.garbage
      BY <2>2, <2>9 DEF EndShake, SessionFramed
    <3>2. CASE SignatureMatches(c)
      <4>1. PICK data \in [1 .. 2 -> Sent] :
              LET buffer == Feed(<<>>, data) IN
              IF buffer.bad THEN Close(c)
              ELSE Process(c, ClientHandshake([r EXCEPT !.phase = "serve", !.got = 0,
                                                        !.pending = buffer.pending]),
                           data, buffer.frames)
        BY <2>9, <3>2 DEF EndShake
      <4>2. data \in Seq(Byte) /\ data # <<>> /\ <<>> \in Seq(Byte)
        <5>1. data \in Seq(Byte) /\ Len(data) = 2
          BY DataType
        <5>2. <<>> \in Seq(Byte) /\ Len(<<>>) = 0
          BY EmptySeq
        <5>3. Len(data) # 0
          BY <5>1
        <5>4. QED
          BY <5>1, <5>2, <5>3, Zenon
      <4>3. PICK buffer : buffer = Feed(<<>>, data)
        OBVIOUS
      <4>4. PICK t : t = ClientHandshake([r EXCEPT !.phase = "serve", !.got = 0,
                                                   !.pending = buffer.pending])
        OBVIOUS
      <4>5. Close(c) \/ Process(c, t, data, buffer.frames)
        BY <4>1, <4>3, <4>4, Zenon
      <4>6. t \in Session /\ t.phase = "serve" /\ t.garbage = TRUE /\ t.pending = buffer.pending
        <5>1. s.offset + ShakeLen - s.got \in Nat /\ ShakeLen \in Nat
          BY <2>2, <3>2, LengthTypes DEF SignatureMatches, Session
        <5>2. t = [s EXCEPT !.offset = s.offset + ShakeLen - s.got, !.phase = "serve", !.got = 0,
                            !.pending = buffer.pending, !.recvReady = TRUE,
                            !.decrypted = ShakeLen]
          BY <2>2, <4>4 DEF Session, ClientHandshake
        <5>3. "serve" \in Phase /\ buffer.pending \in Seq(Byte)
          BY <4>2, <4>3, FeedType DEF Phase, Buffer
        <5>4. QED
          BY <2>2, <3>1, <5>1, <5>2, <5>3 DEF Session
      <4>7. stream[c] = <<>> /\ handled[c] = <<>>
        BY <3>1 DEF Types
      <4>8. Framed(<<>>, t.garbage, stream[c], handled[c])
        BY <4>6, <4>7, NothingFramed, Zenon
      <4>9. CASE Process(c, t, data, buffer.frames)
        BY <4>2, <4>3, <4>6, <4>8, <4>9, ProcessFraming, Zenon
      <4>10. QED
        BY <2>5, <4>5, <4>9
    <3>3. CASE ~ SignatureMatches(c)
      <4>1. CloseAs(c, [NewSession("closed") EXCEPT !.unsigned = TRUE, !.lost = s.lost])
        BY <2>9, <3>3 DEF EndShake
      <4>2. /\ [NewSession("closed") EXCEPT !.unsigned = TRUE, !.lost = s.lost].phase = "closed"
            /\ [NewSession("closed") EXCEPT !.unsigned = TRUE, !.lost = s.lost].garbage
        BY DEF NewSession
      <4>3. QED
        BY <4>1, <4>2, CloseFraming
    <3>4. QED
      BY <3>2, <3>3
  <2>10. CASE Serve(c)
    <3>1. s.phase = "serve"
      BY <2>10 DEF Serve
    <3>2. PICK n \in 1 .. MaxData - Len(stream[c]) : \E data \in [1 .. n -> Sent] :
            LET buffer == Feed(s.pending, data) IN
            Process(c, Decrypt([s EXCEPT !.offset = @ + n, !.pending = buffer.pending], n),
                    data, buffer.frames)
      BY <2>10 DEF Serve
    <3>3. PICK data \in [1 .. n -> Sent] :
            LET buffer == Feed(s.pending, data) IN
            Process(c, Decrypt([s EXCEPT !.offset = @ + n, !.pending = buffer.pending], n),
                    data, buffer.frames)
      BY <3>2
    <3>4. n \in Nat /\ data \in Seq(Byte) /\ data # <<>> /\ s.pending \in Seq(Byte)
      <4>1. n \in Nat /\ n > 0
        OBVIOUS
      <4>2. data \in Seq(Byte) /\ Len(data) = n
        BY <4>1, DataType
      <4>3. data # <<>>
        BY <4>1, <4>2, EmptySeq
      <4>4. QED
        BY <2>2, <4>1, <4>2, <4>3 DEF Session
    <3>5. PICK buffer : buffer = Feed(s.pending, data)
      OBVIOUS
    <3>6. PICK t : t = Decrypt([s EXCEPT !.offset = @ + n, !.pending = buffer.pending], n)
      OBVIOUS
    <3>7. Process(c, t, data, buffer.frames)
      BY <3>3, <3>5, <3>6, Zenon
    <3>8. t \in Session /\ t.phase = "serve" /\ t.garbage = s.garbage
          /\ t.pending = buffer.pending
      <4>1. t = [s EXCEPT !.offset = @ + n, !.pending = buffer.pending, !.decrypted = @ + n]
        BY <2>2, <3>6 DEF Session, Decrypt
      <4>2. s.offset + n \in Nat /\ s.decrypted + n \in Nat
        BY <2>2, <3>4 DEF Session
      <4>3. buffer.pending \in Seq(Byte)
        BY <3>4, <3>5, FeedType DEF Buffer
      <4>4. QED
        BY <2>2, <3>1, <4>1, <4>2, <4>3 DEF Session
    <3>9. Framed(s.pending, t.garbage, stream[c], handled[c])
      BY <2>2, <3>1, <3>8, Zenon DEF SessionFramed
    <3>10. QED
      BY <3>1, <3>4, <3>5, <3>7, <3>8, <3>9, ProcessFraming, Zenon
  <2>11. QED
    BY <2>1, <2>4, <2>6, <2>7, <2>8, <2>9, <2>10 DEF Step
<1>3. QED
  BY <1>1, <1>2

(* However reads cut the stream of a client, the frames handled are those  *)
(* of the stream but the first, and the bytes kept are what follows them;  *)
(* a malformed length loses frames and makes none up (FrameBuffer.Append,  *)
(* TCPProbeServer.handle).                                                 *)
THEOREM HandledAsSent == Spec => []FramesOfStream
<1>1. Init => Framing
  BY DEF Init, Framing, SessionFramed, NewSession
<1>2. Framing => FramesOfStream
  BY Zenon DEF Framing, SessionFramed, Framed, IsCut, Rest, FramesOfStream
<1>3. QED
  BY InitTypes, NextTypes, NextFraming, <1>1, <1>2, PTL DEF Spec
=============================================================================
