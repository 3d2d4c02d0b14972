---------------------- MODULE RemoteAttestationProofs -----------------------
(***************************************************************************)
(* The services that the platform gives a guest, for every size of buffer, *)
(* of chunk, of message and of write: the loop in which the attester       *)
(* receives, the buffer in which the output is stored, and the clock.      *)
(* Then the remote attestation: the steps of the verifier preserve the     *)
(* invariant, and each is a stage of AttestedDelivery or none; and its     *)
(* safety, for any number of keys, launches and messages in flight.        *)
(***************************************************************************)
EXTENDS AttesterProofs, ChunkedReceive, OutputBuffer, TzTime

(***************************************************************************)
(* Receiving in chunks                                                     *)
(***************************************************************************)
(* NothingLost needs ZeroOnlyAtEnd: the loop can end before the buffer is  *)
(* full only because chunk_size became 0.  Once the peer has closed it     *)
(* sends nothing more, which keeps both.                                   *)
ReceiveInv == ReceiveTypeOK /\ StaysInBuffer /\ NothingLost /\ ZeroOnlyAtEnd

(* The loop starts with nothing received.                                  *)
LEMMA ReceiveInitInv == ReceiveInit => ReceiveInv
  <1>1. ReceiveInit => ReceiveTypeOK
    BY ReceiveAssumption DEF ReceiveInit, ReceiveTypeOK
  <1>2. ReceiveInit => StaysInBuffer /\ NothingLost /\ ZeroOnlyAtEnd
    BY ReceiveAssumption DEF ReceiveInit, StaysInBuffer, NothingLost, ZeroOnlyAtEnd
  <1> QED
    BY Zenon, <1>1, <1>2 DEF ReceiveInv

(* Every step of the loop and of the peer keeps the inductive invariant.   *)
LEMMA ReceiveStepInv == ReceiveInv /\ [ReceiveNext]_receiveVars => ReceiveInv'
  <1> SUFFICES ASSUME ReceiveInv, [ReceiveNext]_receiveVars PROVE ReceiveInv'
    OBVIOUS
  <1> USE ReceiveAssumption DEF ReceiveInv, ReceiveTypeOK, StaysInBuffer, NothingLost,
            ZeroOnlyAtEnd
  <1>1. CASE recv
    BY <1>1 DEF recv, RecvGives, LoopGuard, peerVars
  <1>2. CASE recvError
    BY <1>2 DEF recvError, peerVars
  <1>3. CASE loopEnd
    BY <1>3 DEF loopEnd, LoopGuard, peerVars
  <1>4. CASE PeerSends
    BY <1>4 DEF PeerSends
  <1>5. CASE PeerCloses
    BY <1>5 DEF PeerCloses
  <1>6. CASE UNCHANGED receiveVars
    BY <1>6 DEF receiveVars
  <1> QED
    BY <1>1, <1>2, <1>3, <1>4, <1>5, <1>6
       DEF ReceiveNext, receive_socket_per_chunk, ReceiveFinished

(* The inductive invariant holds in every behaviour.                       *)
THEOREM ReceiveInductive == ReceiveSpec => []ReceiveInv
  BY ReceiveInitInv, ReceiveStepInv, PTL DEF ReceiveSpec

(* For every buffer and chunk size, the bytes that receive_socket_per_chunk*)
(* stores stay in the buffer.                                              *)
THEOREM BufferSafe == ReceiveSpec => []StaysInBuffer
  <1>1. ReceiveInv => StaysInBuffer
    BY DEF ReceiveInv
  <1> QED
    BY <1>1, ReceiveInductive, PTL

(* For every buffer and chunk size, a receive that succeeds has filled the *)
(* buffer or has everything the peer sent before it closed.                *)
THEOREM Lossless == ReceiveSpec => []NothingLost
  <1>1. ReceiveInv => NothingLost
    BY DEF ReceiveInv
  <1> QED
    BY <1>1, ReceiveInductive, PTL

(* For every buffer and chunk size, recv is never asked for 0 bytes while  *)
(* the peer has more to send: chunk_size is 0 only at the end.             *)
THEOREM EndSafe == ReceiveSpec => []ZeroOnlyAtEnd
  <1>1. ReceiveInv => ZeroOnlyAtEnd
    BY DEF ReceiveInv
  <1> QED
    BY <1>1, ReceiveInductive, PTL

(***************************************************************************)
(* The output of a guest                                                   *)
(***************************************************************************)
(* A size cut to the width of the setter is no larger than the size.       *)
LEMMA TruncationShrinks ==
    ASSUME NEW a \in Nat, NEW w \in Nat \ {0}
    PROVE  a % w \in Nat /\ a % w <= a
  OBVIOUS

(* The room is accounted for exactly, and one byte of it always stays: a   *)
(* write is stored only when it is shorter than the room.                  *)
RoomInv ==
    /\ output_buffer + output_buffer_size = size % Word
    /\ size % Word # 0 => output_buffer_size > 0

OutputInv == OutputTypeOK /\ RoomInv /\ StoredInOrder

(* Before the first run there is no buffer.                                *)
LEMMA OutputInitInv == OutputInit => OutputInv
  BY OutputAssumption DEF OutputInit, OutputInv, OutputTypeOK, RoomInv, StoredInOrder

(* A new buffer is empty, whatever its size.                               *)
LEMMA SetPreserves == OutputInv /\ vedliot_set_output_buffer => OutputInv'
  <1> SUFFICES ASSUME OutputInv, vedliot_set_output_buffer PROVE OutputInv'
    OBVIOUS
  <1>1. size' \in Sizes /\ size' \in Nat
    BY OutputAssumption DEF vedliot_set_output_buffer
  <1>2. size' % Word \in Nat
    BY Zenon, <1>1, TruncationShrinks, OutputAssumption
  <1>3. /\ output_buffer' = 0 /\ output_buffer_size' = size' % Word
      /\ stored' = {} /\ refused' = {} /\ writes' = 0
    BY DEF vedliot_set_output_buffer
  <1>4. OutputTypeOK'
    BY Zenon, <1>1, <1>2, <1>3 DEF OutputTypeOK
  <1>5. RoomInv'
    BY <1>2, <1>3 DEF RoomInv
  <1>6. StoredInOrder'
    BY <1>3 DEF StoredInOrder
  <1> QED
    BY Zenon, <1>4, <1>5, <1>6 DEF OutputInv

(* A write goes behind the ones before it, or nowhere.                     *)
LEMMA WritePreserves == OutputInv /\ writev => OutputInv'
  <1> SUFFICES ASSUME OutputInv, writev PROVE OutputInv'
    OBVIOUS
  <1>1. PICK nchars \in Lengths :
          \/ /\ Fits(nchars)
             /\ stored' = stored \cup {[n |-> writes', at |-> output_buffer, len |-> nchars]}
             /\ output_buffer' = output_buffer + nchars
             /\ output_buffer_size' = output_buffer_size - nchars
             /\ UNCHANGED refused
          \/ /\ ~Fits(nchars)
             /\ refused' = refused \cup {writes'}
             /\ UNCHANGED <<stored, output_buffer, output_buffer_size>>
    BY DEF writev
  <1>2. nchars \in Nat /\ size' = size /\ writes' = writes + 1 /\ writes \in Nat
    BY OutputAssumption DEF writev, OutputInv, OutputTypeOK
  <1> DEFINE new == [n |-> writes', at |-> output_buffer, len |-> nchars]
  <1>3. CASE Fits(nchars) /\ stored' = stored \cup {new}
             /\ output_buffer' = output_buffer + nchars
             /\ output_buffer_size' = output_buffer_size - nchars
             /\ UNCHANGED refused
    <2>1. new \in [n : Nat, at : Nat, len : Nat]
        BY <1>2 DEF OutputInv, OutputTypeOK
    <2>2. OutputTypeOK'
        BY <1>2, <1>3, <2>1 DEF OutputInv, OutputTypeOK, Fits
    <2>3. RoomInv'
        BY <1>2, <1>3 DEF OutputInv, OutputTypeOK, RoomInv, Fits
    <2>4. \A w \in stored' : w.n <= writes' /\ w.at + w.len <= output_buffer'
        BY <1>2, <1>3, <2>1 DEF OutputInv, OutputTypeOK, StoredInOrder
    <2>5. ASSUME NEW v \in stored', NEW w \in stored', v.n < w.n
          PROVE  v.at + v.len <= w.at
        BY <1>2, <1>3, <2>1, <2>5 DEF OutputInv, OutputTypeOK, StoredInOrder
    <2>6. ASSUME NEW p \in 0..(output_buffer' - 1)
          PROVE  \E w \in stored' : w.at <= p /\ p < w.at + w.len
        <3>1. CASE p < output_buffer
            BY <1>2, <1>3, <3>1 DEF OutputInv, OutputTypeOK, StoredInOrder
        <3>2. CASE p >= output_buffer
            <4>1. new.at <= p /\ p < new.at + new.len
                BY <1>2, <1>3, <3>2 DEF OutputInv, OutputTypeOK
            <4> QED
                BY Zenon, <1>3, <4>1
        <3> QED
            BY <1>2, <1>3, <3>1, <3>2 DEF OutputInv, OutputTypeOK
    <2>7. ASSUME NEW k \in 1..writes'
          PROVE  k \in refused' \/ \E w \in stored' : w.n = k
        <3>1. CASE k \in 1..writes
            BY <1>3, <3>1 DEF OutputInv, StoredInOrder
        <3>2. CASE k = writes'
            <4>1. new.n = k /\ new \in stored'
                BY <1>3, <3>2
            <4> QED
                BY <4>1
        <3> QED
            BY <1>2, <3>1, <3>2
    <2> QED
        BY <2>2, <2>3, <2>4, <2>5, <2>6, <2>7 DEF OutputInv, StoredInOrder
  <1>4. CASE refused' = refused \cup {writes'}
             /\ UNCHANGED <<stored, output_buffer, output_buffer_size>>
  BY <1>2, <1>4 DEF OutputInv, OutputTypeOK, StoredInOrder, RoomInv
  <1> QED
    BY <1>1, <1>3, <1>4

(* The inductive invariant holds in every behaviour.                       *)
THEOREM OutputInductive == OutputSpec => []OutputInv
  <1>1. OutputInv /\ UNCHANGED outputVars => OutputInv'
    BY DEF OutputInv, OutputTypeOK, RoomInv, StoredInOrder, outputVars
  <1> QED
    BY <1>1, OutputInitInv, SetPreserves, WritePreserves, PTL DEF OutputSpec, OutputNext

(* For every size of buffer and every sequence of writes, the writes lie   *)
(* in the buffer one behind the other, without holes.                      *)
THEOREM OrderSafe == OutputSpec => []StoredInOrder
  <1>1. OutputInv => StoredInOrder
    BY DEF OutputInv
  <1> QED
    BY <1>1, OutputInductive, PTL

(* For every size of buffer and every sequence of writes, writev stays     *)
(* inside the buffer and leaves its last byte alone.                       *)
THEOREM RoomSafe == OutputSpec => []RoomIsAccounted
  <1>1. ASSUME OutputInv PROVE RoomIsAccounted
  BY <1>1, TruncationShrinks, OutputAssumption DEF OutputInv, OutputTypeOK, RoomInv,
     RoomIsAccounted
  <1> QED
    BY <1>1, OutputInductive, PTL

(***************************************************************************)
(* The clock                                                               *)
(***************************************************************************)
(* Quotient and remainder.                                                *)
LEMMA Division ==
    ASSUME NEW w \in Nat \ {0}, NEW x \in Nat
    PROVE  /\ x \div w \in Nat
           /\ x % w \in 0..w - 1
           /\ x = w * (x \div w) + (x % w)
  OBVIOUS

(* The remainder is the only one below the divisor.                        *)
LEMMA Remainder ==
    ASSUME NEW w \in Nat \ {0}, NEW q \in Nat, NEW r \in 0..w - 1
    PROVE  (w * q + r) % w = r
  OBVIOUS

(* A wrapped number times k wraps to the same as the number times k.       *)
LEMMA WrapOfWrapped ==
    ASSUME NEW w \in Nat \ {0}, NEW k \in Nat, NEW a \in Nat
    PROVE  ((a % w) * k) % w = (a * k) % w
  <1> DEFINE q == a \div w
             r == a % w
             p == (r * k) \div w
             s == (r * k) % w
  <1>1. /\ q \in Nat /\ r \in Nat /\ a = w * q + r
    BY Division
  <1>2. r * k \in Nat
    BY <1>1
  <1>3. /\ p \in Nat /\ s \in 0..w - 1 /\ r * k = w * p + s
    BY Zenon, <1>2, Division
  <1> HIDE DEF q, r, p, s
  <1>4. a * k = w * (q * k + p) + s /\ q * k + p \in Nat
    BY <1>1, <1>3
  <1> QED
    BY Zenon, <1>3, <1>4, Remainder DEF r, s

(* What os_time_get_boot_microsecond computes in two multiplications of 32 *)
(* bits, the first of which may wrap, is the time wrapped once.            *)
LEMMA ReadingIsWrapped ==
    ASSUME now \in Nat
    PROVE  os_time_get_boot_microsecond = (now * Kilo) % TimeWord
  <1>1. tee_time_to_ms(now \div Kilo, now % Kilo) = now % TimeWord
    <2>1. now = Kilo * (now \div Kilo) + (now % Kilo) /\ now \div Kilo \in Nat
      BY Division, TimeAssumption
    <2> QED
      BY <2>1, TimeAssumption DEF tee_time_to_ms
  <1> QED
    BY Zenon, <1>1, WrapOfWrapped, TimeAssumption DEF os_time_get_boot_microsecond

(* Between two times of one period of the counter the difference of the    *)
(* readings is that of the times.                                          *)
LEMMA DifferenceOfWrapped ==
    ASSUME NEW w \in Nat \ {0}, NEW a \in Nat, NEW b \in Nat, a \div w = b \div w
    PROVE  (b % w) - (a % w) = b - a
  <1>1. /\ a = w * (a \div w) + (a % w) /\ b = w * (b \div w) + (b % w)
        /\ a % w \in Int /\ b % w \in Int /\ w * (a \div w) \in Int
    BY Division
  <1> QED
    BY <1>1

(* The first reading is the time at which the measurement began, wrapped.  *)
ClockInv ==
    /\ now \in Nat
    /\ began # -1 => began \in Nat /\ start = (began * Kilo) % TimeWord

(* Every step of the clock and of its user preserves it.                   *)
LEMMA ClockStep == ClockInv /\ [TimeNext]_timeVars => ClockInv'
  <1> SUFFICES ASSUME ClockInv, [TimeNext]_timeVars PROVE ClockInv'
    OBVIOUS
  <1>1. CASE StartMeasure
    BY <1>1, ReadingIsWrapped DEF ClockInv, StartMeasure
  <1>2. CASE TimePasses
    BY <1>2 DEF TimePasses, ClockInv
  <1>3. CASE EndMeasure
    BY <1>3 DEF EndMeasure, ClockInv
  <1>4. CASE UNCHANGED timeVars
    BY <1>4 DEF timeVars, ClockInv
  <1> QED
    BY <1>1, <1>2, <1>3, <1>4 DEF TimeNext

(* The second reading of such a measurement.                               *)
LEMMA ClockExact ==
    ASSUME ClockInv, EndMeasure,
           (began * Kilo) \div TimeWord = (now * Kilo) \div TimeWord
    PROVE  measured' = (now - began) * Kilo
  <1>1. began \in Nat /\ now \in Nat /\ start = (began * Kilo) % TimeWord
    BY DEF ClockInv, EndMeasure
  <1>2. measured' = ((now * Kilo) % TimeWord) - ((began * Kilo) % TimeWord)
    BY <1>1, ReadingIsWrapped DEF EndMeasure
  <1>3. now * Kilo \in Nat /\ began * Kilo \in Nat
    BY <1>1, TimeAssumption
  <1>4. measured' = now * Kilo - began * Kilo
    BY <1>2, <1>3, DifferenceOfWrapped, TimeAssumption
  <1> QED
    BY <1>1, <1>4, TimeAssumption

(* A measurement with os_time_get_boot_microsecond that begins and ends in *)
(* the same period of the 32-bit counter of microseconds is exact, for     *)
(* every width of the counter and however long the clock has been running. *)
THEOREM ClockSafe == TimeSpec => ExactWithinOneWrap
  <1>1. TimeInit => ClockInv
    BY TimeAssumption DEF TimeInit, ClockInv
  <1>2. ClockInv /\ [TimeNext]_timeVars
           => [EndMeasure /\ (began * Kilo) \div TimeWord = (now * Kilo) \div TimeWord
               => measured' = (now - began) * Kilo]_timeVars
    BY ClockExact
  <1> QED
    BY <1>1, <1>2, ClockStep, PTL DEF TimeSpec, ExactWithinOneWrap

(***************************************************************************)
(* The verifier's process and its trusted application.                     *)
(***************************************************************************)

(* What prepare_msg3 makes of a secret and of the exchange it is meant for *)
(* is a message.                                                           *)
LEMMA SecretMessage ==
    ASSUME NEW x \in Exchanges, NEW d \in Secrets
    PROVE  /\ DerivedKey("SK", x).kdk = x
           /\ Msg3(DerivedKey("SK", x), d) \in Msg3s
           /\ [ex |-> x, data |-> d] \in Deliveries
  <1>1. DerivedKey("SK", x) \in Derived("SK") /\ DerivedKey("SK", x).kdk = x
    BY Zenon DEF DerivedKey, Derived
  <1>2. [key |-> DerivedKey("SK", x), data |-> d] \in [key : Derived("SK"), data : Secrets]
    BY Zenon, <1>1
  <1>3. Msg3(DerivedKey("SK", x), d) \in Msg3s
    BY Zenon, <1>2 DEF Msg3, Msg3s
  <1> QED
    BY Zenon, <1>1, <1>3 DEF Deliveries

(* The steps before msg0 and after the last command.                       *)
LEMMA Step_prepare_tee_session ==
    ASSUME VerifierInv, prepare_tee_session
    PROVE  VerifierInv' /\ h_buf' = Fragment
  <1>1. PICK k \in ServiceKeys \ s_used, n \in SecretSizes :
            /\ h_size' = n + SizeofMsg3 + CiphertextOverhead
            /\ s_used' = s_used \cup {k}
            /\ vctx' = TA_OpenSession(k)
    BY Zenon DEF prepare_tee_session
  <1>2. /\ h_pc' = "bootstrap" /\ h_buf' = Fragment
        /\ UNCHANGED <<v_used, offered, accepted, released>>
    BY Zenon DEF prepare_tee_session
  <1>3. vctx' = [key |-> k, secret |-> None, ga |-> None, gv |-> None, kdk |-> None,
                 mac |-> None, session |-> None, sig |-> None, valid |-> FALSE,
                 objs |-> {"ecdsa_attester", "ecdsa_local"}]
    BY Zenon, <1>1 DEF TA_OpenSession, generate_ecdsa_keypair, import_attester_attestation_key,
         context_singleton
  <1>4. h_size' \in Nat
    BY <1>1, SizesAssumption DEF SizeofMsg3, CiphertextOverhead
  <1>5. VerifierTypeOK'
    BY <1>1, <1>2, <1>3, <1>4 DEF VerifierInv, VerifierTypeOK, VObjects, Messages
  <1>6. VerifierPhase' /\ VerifierFresh'
    BY Zenon, <1>2, <1>3 DEF VerifierInv, VerifierPhase, VerifierFresh, Serving, Exchanging
  <1> QED
    BY Zenon, <1>2, <1>5, <1>6 DEF VerifierInv

(* Configuring the secret changes the verifier's context in that field     *)
(* alone.                                                                  *)
LEMMA Step_bootstrap_secret ==
    ASSUME VerifierInv, bootstrap_secret
    PROVE  VerifierInv'
  <1>1. PICK ok \in BOOLEAN, secret \in Secrets :
            /\ Goes("bootstrap", ok, "listen")
            /\ vctx' = IF ok THEN TA_ConfigureCustomSecret(vctx, secret) ELSE vctx
            /\ UNCHANGED <<v_used, s_used, offered, accepted, released, h_buf, h_size>>
    BY Zenon DEF bootstrap_secret
  <1>2. CASE ok
    <2>1. h_pc = "bootstrap" /\ h_pc' = "listen" /\ vctx' = [vctx EXCEPT !.secret = secret]
      BY Zenon, <1>1, <1>2 DEF Goes, TA_ConfigureCustomSecret
    <2>2. VerifierTypeOK' /\ vctx'.key = vctx.key /\ vctx'.secret = secret
      BY ZenonT(30), <1>1, <2>1 DEF VerifierInv, VerifierTypeOK
    <2>3. VerifierPhase' /\ VerifierFresh'
      BY Zenon, <1>1, <2>1, <2>2
         DEF VerifierInv, VerifierPhase, VerifierFresh, Serving, Exchanging
    <2> QED
      BY Zenon, <2>2, <2>3 DEF VerifierInv
  <1>3. CASE ~ok
    <2>1. h_pc' = "terminate" /\ vctx' = vctx
      BY Zenon, <1>1, <1>3 DEF Goes
    <2> QED
      BY Zenon, <1>1, <2>1 DEF VerifierInv, VerifierTypeOK, VerifierPhase, VerifierFresh, Serving,
           Exchanging
  <1> QED
    BY Zenon, <1>2, <1>3

(* Starting to listen leaves the trusted application alone.                *)
LEMMA Step_start_verifier_server ==
    ASSUME VerifierInv, start_verifier_server
    PROVE  VerifierInv' /\ srv' \in {srv, "listening"}
  <1>1. /\ h_pc \in {"listen", "listening"} /\ h_pc' \in {"listening", "read_msg0", "terminate"}
        /\ srv' \in {srv, "listening"}
        /\ UNCHANGED <<h_buf, h_size, taVars>>
    BY Zenon DEF start_verifier_server, Goes
  <1> QED
    BY <1>1 DEF VerifierInv, VerifierTypeOK, VerifierPhase, VerifierFresh, Serving, Exchanging,
         taVars

(* What read() puts in the buffer was in the stream, or in the buffer.     *)
LEMMA ReadUpKnown ==
    ASSUME NetworkInv, ReadUp(h_buf, h_buf'),
           UNCHANGED <<offered, attested, released, board>>
    PROVE  NetworkInv' /\ h_buf' \in Messages
  <1>1. Known = Known' /\ Known \subseteq Messages
    BY Zenon DEF Known, MessageKnown, SignatureKnown, QuoteKnown, BodyKnown
  <1>2. up \in Seq(Known) /\ down' = down /\ conn' = conn /\ srv' = srv
    BY Zenon DEF NetworkInv, NetKnowledge, ReadUp
  <1>3. up' \in Seq(Known) /\ h_buf' \in Known
    <2>1. CASE up # <<>> /\ h_buf' = Head(up) /\ up' = Tail(up)
      BY <1>2, <2>1
    <2>2. CASE up # <<>> /\ h_buf' = Fragment /\ up' = <<Fragment>> \o Tail(up)
      <3>1. <<Fragment>> \o Tail(up) \in Seq(Known)
        BY <1>2, <2>2, FragmentKnown
      <3> QED
        BY Zenon, <2>2, <3>1, FragmentKnown
    <2>3. CASE h_buf' = h_buf /\ up' = up
      BY Zenon, <2>3 DEF NetworkInv, NetKnowledge
    <2> QED
      BY Zenon, <2>1, <2>2, <2>3 DEF ReadUp
  <1>4. up' \in Seq(Messages) /\ down' \in Seq(Messages)
    BY Zenon, <1>1, <1>2, <1>3, SeqGrows DEF NetworkInv, NetworkTypeOK
  <1> QED
    BY Zenon, <1>1, <1>2, <1>3, <1>4 DEF NetworkInv, NetKnowledge, NetworkTypeOK

(* Reading a message changes the host's buffer and its step, nothing else. *)
LEMMA Step_read_msg ==
    ASSUME VerifierInv, h_buf' \in Messages,
           read_msg("read_msg0", "msg0") \/ read_msg("read_msg2", "msg2")
    PROVE  VerifierInv'
  <1>1. /\ \/ h_pc = "read_msg0" /\ h_pc' = "msg0"
           \/ h_pc = "read_msg2" /\ h_pc' = "msg2"
        /\ UNCHANGED <<h_size, taVars>>
    BY Zenon DEF read_msg, Goes
  <1> QED
    BY Zenon, <1>1
       DEF VerifierInv, VerifierTypeOK, VerifierPhase, VerifierFresh, Serving, Exchanging,
         taVars

(* handle_msg0 takes a new key pair and derives every key from it and from *)
(* what the buffer holds.                                                  *)
LEMMA Step_receive_msg0 ==
    ASSUME VerifierInv, HistoryInv, AttesterInv, receive_msg0
    PROVE  VerifierInv'
  <1> DEFINE Contexts == [key : ServiceKeys \cup {None}, secret : Secrets \cup {None},
                          ga : AnyGa \cup {None}, gv : VerifierKeys \cup {None},
                          kdk : Exchanges \cup {None}, mac : Derived("SMK") \cup {None},
                          session : Derived("SK") \cup {None}, sig : Signatures \cup {None},
                          valid : BOOLEAN, objs : SUBSET VObjects]
  <1>1. PICK ok \in BOOLEAN :
            /\ Goes("msg0", ok, "prepare_msg1")
            /\ handle_msg0(h_buf, h_size, ok)
            /\ UNCHANGED <<h_buf, h_size>>
    BY Zenon DEF receive_msg0
  <1>2. PICK k \in VerifierKeys \ v_used :
            LET c1 == verifier_generate_ecdh_keypair(vctx, k)
                c2 == store_msg0(c1, h_buf)
                c3 == populate_attester_key(c2)
                c4 == verifier_derive_shared_key(c3)
                c5 == derive_mac_key(c4)
                c6 == derive_session_key(c5)
            IN  /\ v_used' = v_used \cup {k}
                /\ IF ok THEN vctx' = c6 ELSE vctx' \in {vctx, c1, c2, c3, c4, c5, c6}
                /\ UNCHANGED <<s_used, offered, accepted, released>>
    BY Zenon, <1>1 DEF handle_msg0
  <1> DEFINE c1 == verifier_generate_ecdh_keypair(vctx, k)
             c2 == store_msg0(c1, h_buf)
             c3 == populate_attester_key(c2)
             c4 == verifier_derive_shared_key(c3)
             c5 == derive_mac_key(c4)
             c6 == derive_session_key(c5)
             a == AsMsg0(h_buf).ga
  <1>3. /\ v_used' = v_used \cup {k}
        /\ IF ok THEN vctx' = c6 ELSE vctx' \in {vctx, c1, c2, c3, c4, c5, c6}
        /\ UNCHANGED <<s_used, offered, accepted, released, h_buf, h_size>>
    BY Zenon, <1>1, <1>2
  <1>4. a \in AnyGa
    BY Zenon, MessageTypes DEF VerifierInv, VerifierTypeOK, AsMsg0, Msg0, Msg0s, AnyGa
  <1>5. vctx \in Contexts
    BY Zenon DEF VerifierInv, VerifierTypeOK
  <1>6. c1 \in Contexts /\ c1.gv = k /\ c1.key = vctx.key /\ c1.secret = vctx.secret
    BY ZenonT(60), <1>5 DEF verifier_generate_ecdh_keypair, VObjects
  <1> HIDE DEF c1
  <1>7. c2 \in Contexts /\ c2.gv = k /\ c2.ga = a /\ c2.key = vctx.key /\ c2.secret = vctx.secret
    BY Zenon, <1>4, <1>6 DEF store_msg0
  <1> HIDE DEF c2
  <1>8. c3 \in Contexts /\ c3.gv = k /\ c3.ga = a /\ c3.key = vctx.key /\ c3.secret = vctx.secret
    BY Zenon, <1>7 DEF populate_attester_key, VObjects
  <1> HIDE DEF c3
  <1>9. Exchange(c3.ga, c3.gv) \in Exchanges
    BY Zenon, <1>4, <1>8 DEF Exchange, Exchanges, AnyGv
  <1>10. /\ c4 \in Contexts /\ c4.gv = k /\ c4.ga = a /\ c4.kdk = Exchange(a, k)
         /\ c4.key = vctx.key /\ c4.secret = vctx.secret
    BY ZenonT(60), <1>8, <1>9 DEF verifier_derive_shared_key, VObjects
  <1> HIDE DEF c4
  <1>11. /\ DerivedKey("SMK", c4.kdk) \in Derived("SMK")
         /\ DerivedKey("SK", c4.kdk) \in Derived("SK")
    BY Zenon, <1>8, <1>9, <1>10 DEF DerivedKey, Derived
  <1>12. /\ c5 \in Contexts /\ c5.gv = k /\ c5.ga = a /\ c5.kdk = Exchange(a, k)
         /\ c5.key = vctx.key /\ c5.secret = vctx.secret
         /\ c5.mac = DerivedKey("SMK", Exchange(a, k))
    BY ZenonT(60), <1>10, <1>11 DEF derive_mac_key, VObjects
  <1> HIDE DEF c5
  <1>13. /\ c6 \in Contexts /\ c6.gv = k /\ c6.ga = a /\ c6.kdk = Exchange(a, k)
         /\ c6.key = vctx.key /\ c6.secret = vctx.secret
         /\ c6.mac = DerivedKey("SMK", Exchange(a, k))
         /\ c6.session = DerivedKey("SK", Exchange(a, k))
    <2>1. DerivedKey("SK", c5.kdk) \in Derived("SK")
      BY Zenon, <1>10, <1>11, <1>12
    <2>2. c6 = [c5 EXCEPT !.session = DerivedKey("SK", c5.kdk), !.objs = @ \cup {"session"}]
      BY Zenon DEF derive_session_key
    <2>3. c6 \in Contexts
      BY ZenonT(60), <1>12, <2>1, <2>2 DEF VObjects
    <2>4. /\ c6.gv = c5.gv /\ c6.ga = c5.ga /\ c6.kdk = c5.kdk /\ c6.key = c5.key
          /\ c6.secret = c5.secret /\ c6.mac = c5.mac /\ c6.session = DerivedKey("SK", c5.kdk)
      BY Zenon, <1>12, <2>2
    <2> QED
      BY Zenon, <1>12, <2>3, <2>4
  <1> HIDE DEF c6, a
  <1>14. vctx' \in Contexts
    BY Zenon, <1>3, <1>5, <1>6, <1>7, <1>8, <1>10, <1>12, <1>13
  <1>15. VerifierTypeOK'
    BY ZenonT(60), <1>3, <1>14 DEF VerifierInv, VerifierTypeOK
  <1>16. VerifierFresh'
    BY Zenon, <1>3 DEF VerifierInv, VerifierFresh
  <1>17. /\ \A o \in offered : o.ex[2] # k
         /\ \A r \in released : r.ex[2] # k
    <2>1. \A o \in offered : o.ex[2] \in v_used
      BY Zenon DEF VerifierInv, VerifierFresh
    <2>2. \A r \in released : \E o \in offered : o.ex = r.ex
      BY Zenon DEF HistoryInv, Stages, SecretOnlyToAttested, AcceptedQuoteIsFresh,
           HandshakeIsWithTheService
    <2> QED
      BY Zenon, <2>1, <2>2
  <1>18. CASE ok
    <2>1. h_pc = "msg0" /\ h_pc' = "prepare_msg1" /\ vctx' = c6
      BY Zenon, <1>1, <1>3, <1>18 DEF Goes
    <2>2. vctx.key \in ServiceKeys /\ vctx.secret \in Secrets
      BY Zenon, <2>1 DEF VerifierInv, VerifierPhase, Serving
    <2>3. VerifierPhase'
      BY Zenon, <1>3, <1>4, <1>13, <1>17, <2>1, <2>2 DEF VerifierPhase, Serving, Exchanging
    <2> QED
      BY Zenon, <1>15, <1>16, <2>3 DEF VerifierInv
  <1>19. CASE ~ok
    <2>1. h_pc' = "terminate"
      BY Zenon, <1>1, <1>19 DEF Goes
    <2> QED
      BY Zenon, <1>15, <1>16, <2>1 DEF VerifierInv, VerifierPhase, Serving, Exchanging
  <1> QED
    BY Zenon, <1>18, <1>19

(* Sending the host's buffer keeps the network known when the buffer is.   *)
LEMMA SendDownKnown ==
    ASSUME NetworkInv, h_buf' \in Known', SendDown(h_buf') \/ UNCHANGED tcpVars,
           offered \subseteq offered', attested \subseteq attested',
           released \subseteq released', board' = board
    PROVE  NetworkInv'
  <1>1. Known \subseteq Known' /\ Known' \subseteq Messages
    BY Zenon, KnownGrows DEF Known
  <1>2. up \in Seq(Known') /\ down \in Seq(Known')
    BY Zenon, <1>1, SeqGrows DEF NetworkInv, NetKnowledge
  <1>3. UNCHANGED <<conn, srv, up>> /\ down' \in {down, Append(down, h_buf')}
    BY Zenon DEF SendDown, tcpVars
  <1>4. Append(down, h_buf') \in Seq(Known')
    BY <1>2
  <1>5. up' \in Seq(Known') /\ down' \in Seq(Known')
    BY Zenon, <1>2, <1>3, <1>4
  <1>6. up' \in Seq(Messages) /\ down' \in Seq(Messages)
    BY Zenon, <1>1, <1>5, SeqGrows
  <1> QED
    BY Zenon, <1>3, <1>5, <1>6 DEF NetworkInv, NetKnowledge, NetworkTypeOK

(* The verifier signs the exchange of its new key, once.                   *)
LEMMA Step_host_prepare_msg1 ==
    ASSUME VerifierInv, NetworkInv, HistoryInv, host_prepare_msg1, UNCHANGED attVars
    PROVE  /\ VerifierInv' /\ NetworkInv' /\ HistoryInv' /\ offered \subseteq offered'
           /\ UNCHANGED Abs!absVars \/ Abs!AbsNext
  <1> USE DEF Serving, Exchanging
  <1>1. PICK ok \in BOOLEAN, killed \in BOOLEAN :
            /\ Goes("prepare_msg1", ok /\ ~killed, "read_msg2")
            /\ prepare_msg1(h_size, ok, h_buf')
            /\ IF ok THEN SendDown(h_buf') ELSE UNCHANGED tcpVars
            /\ UNCHANGED h_size
    BY ZenonT(60) DEF host_prepare_msg1
  <1> DEFINE s == Sign(vctx.key, <<vctx.gv, vctx.ga>>)
             e == Exchange(vctx.ga, vctx.gv)
             o == [ex |-> e, key |-> vctx.key]
             m == Msg1(vctx.gv, vctx.key, s, MacTag(vctx.mac, <<vctx.gv, vctx.key, s>>))
  <1>2. /\ h_pc = "prepare_msg1" /\ h_pc' \in {"read_msg2", "terminate"}
        /\ UNCHANGED <<v_used, s_used, accepted, released, h_size>>
    BY Zenon, <1>1 DEF Goes, prepare_msg1
  <1>3. /\ vctx.key \in ServiceKeys /\ vctx.secret \in Secrets /\ vctx.ga \in AnyGa
        /\ vctx.gv \in v_used /\ vctx.gv \in VerifierKeys
        /\ vctx.kdk = e /\ vctx.mac = DerivedKey("SMK", e)
        /\ vctx.session = DerivedKey("SK", e)
        /\ \A r \in released : r.ex[2] # vctx.gv
        /\ \A p \in offered : p.ex[2] # vctx.gv
    BY Zenon, <1>2 DEF VerifierInv, VerifierPhase, VerifierTypeOK
  <1>4. s \in Signatures /\ e \in Exchanges /\ e[2] = vctx.gv
    BY Zenon, <1>3 DEF Sign, Signatures, AnyGv, Exchange, Exchanges
  <1>5. vctx' \in {vctx, [vctx EXCEPT !.sig = s]}
    BY Zenon, <1>1 DEF prepare_msg1, append_ecdh_public_keys_signature
  <1>6. /\ vctx'.key = vctx.key /\ vctx'.secret = vctx.secret /\ vctx'.ga = vctx.ga
        /\ vctx'.gv = vctx.gv /\ vctx'.kdk = vctx.kdk /\ vctx'.mac = vctx.mac
        /\ vctx'.session = vctx.session
    BY Zenon, <1>5 DEF VerifierInv, VerifierTypeOK
  <1>7. \/ ~ok /\ h_pc' = "terminate" /\ h_buf' = Fragment /\ offered' = offered
        \/ ok /\ h_buf' = m /\ offered' = offered \cup {o}
    <2>1. CASE ok
      <3>1. LET c1 == append_ecdh_public_keys_signature(vctx)
            IN  /\ h_buf' = Msg1(c1.gv, c1.key, c1.sig, append_mac(c1))
                /\ offered' = offered \cup {[ex |-> Exchange(c1.ga, c1.gv), key |-> c1.key]}
        BY Zenon, <1>1, <2>1 DEF prepare_msg1
      <3> DEFINE c1 == append_ecdh_public_keys_signature(vctx)
      <3>2. /\ c1.gv = vctx.gv /\ c1.key = vctx.key /\ c1.sig = s /\ c1.ga = vctx.ga
            /\ c1.mac = vctx.mac
        BY Zenon DEF append_ecdh_public_keys_signature, VerifierInv, VerifierTypeOK
      <3> QED
        BY Zenon, <2>1, <3>1, <3>2 DEF append_mac
    <2>2. CASE ~ok
      BY ZenonT(60), <1>1, <2>2 DEF prepare_msg1, Goes
    <2> QED
      BY Zenon, <2>1, <2>2
  <1>8. m \in Msg1s /\ m.sig = s
    <2>1. vctx.mac \in Derived("SMK")
      BY Zenon, <1>3, <1>4, DerivedTyped
    <2>2. MacTag(vctx.mac, <<vctx.gv, vctx.key, s>>) \in Tags
      BY Zenon, <1>3, <1>4, <2>1 DEF MacTag, Tags, AnyGv
    <2> QED
      BY ZenonT(60), <1>3, <1>4, <2>2 DEF Msg1, Msg1s, AnyGv
  <1>9. h_buf' \in Known' /\ h_buf' \in Messages
    <2>1. CASE h_buf' = Fragment
      BY Zenon, <2>1, FragmentKnown DEF Known
    <2>2. CASE h_buf' = m /\ offered' = offered \cup {o}
      <3>1. o = [ex |-> Exchange(s.over[2], s.over[1]), key |-> s.by]
        BY Zenon DEF Sign
      <3> QED
        BY ZenonT(60), <1>8, <2>2, <3>1 DEF Known, MessageKnown, SignatureKnown, Messages, Msg1s
    <2> QED
      BY Zenon, <1>7, <2>1, <2>2
  <1>10. offered \subseteq offered' /\ offered' \subseteq offered \cup {o}
    BY Zenon, <1>7
  <1> HIDE DEF m, s
  <1>11. VerifierInv'
    <2>1. VerifierTypeOK'
      BY ZenonT(60), <1>2, <1>4, <1>5, <1>9 DEF VerifierInv, VerifierTypeOK
    <2>2. VerifierPhase'
      BY ZenonT(60), <1>2, <1>3, <1>6 DEF VerifierPhase
    <2>3. VerifierFresh'
      BY <1>2, <1>3, <1>4, <1>10 DEF VerifierInv, VerifierFresh
    <2> QED
      BY Zenon, <2>1, <2>2, <2>3 DEF VerifierInv
  <1>12. NetworkInv'
    BY ZenonT(60), <1>1, <1>2, <1>9, <1>10, SendDownKnown DEF attVars
  <1>13. HistoryInv'
    <2>1. HandshakeIsWithTheService'
      BY Zenon, <1>10 DEF HistoryInv, Stages, HandshakeIsWithTheService, attVars
    <2> QED
      BY <1>2, <1>3, <1>4, <1>10, <2>1
         DEF HistoryInv, HistoryTypeOK, Stages, KeysServeOneExchange, AcceptedQuoteIsFresh,
             SecretOnlyToAttested, DeliveredAsReleased, attVars
  <1>14. CASE offered' = offered
    BY Zenon, <1>2, <1>10, <1>11, <1>12, <1>13, <1>14 DEF Abs!absVars, attVars
  <1>15. CASE offered' = offered \cup {o}
    <2>1. Abs!Offer(vctx.ga, vctx.gv, vctx.key)
      BY ZenonT(60), <1>2, <1>3, <1>15 DEF Abs!Offer, Exchange, attVars
    <2>2. Abs!AbsNext
      BY ZenonT(60), <1>3, <2>1 DEF Abs!AbsNext, AnyGa
    <2> QED
      BY ZenonT(60), <1>10, <1>11, <1>12, <1>13, <2>2
  <1> QED
    BY Zenon, <1>7, <1>14, <1>15

(* A quote that handle_msg2 accepts is one the board signed for this very  *)
(* exchange.                                                               *)
LEMMA Step_receive_msg2 ==
    ASSUME IInv, receive_msg2, UNCHANGED attVars
    PROVE  /\ VerifierInv' /\ NetworkInv' /\ HistoryInv' /\ offered \subseteq offered'
           /\ UNCHANGED Abs!absVars \/ Abs!AbsNext
  <1> USE DEF Serving, Exchanging
  <1>1. PICK ok \in BOOLEAN :
            /\ Goes("msg2", ok, "prepare_msg3")
            /\ handle_msg2(h_buf, h_size, ok)
            /\ UNCHANGED <<h_buf, h_size, tcpVars>>
    BY Zenon DEF receive_msg2
  <1> DEFINE e == Exchange(vctx.ga, vctx.gv)
             m == AsMsg2(h_buf)
  <1>2. /\ h_pc = "msg2"
        /\ UNCHANGED <<v_used, s_used, offered, released, h_buf, h_size, tcpVars>>
    BY Zenon, <1>1 DEF Goes, handle_msg2
  <1>3. PICK b \in BOOLEAN : vctx' = [vctx EXCEPT !.valid = b]
    BY Zenon, <1>1 DEF handle_msg2
  <1>4. \/ ~ok /\ h_pc' = "terminate" /\ accepted' = accepted
        \/ /\ ok /\ h_pc' = "prepare_msg3" /\ accepted' = accepted \cup {e}
           /\ verify_quote_signature(vctx, m) /\ verify_anchor(vctx, m)
    BY Zenon, <1>1 DEF handle_msg2, Goes
  <1>5. /\ vctx'.key = vctx.key /\ vctx'.secret = vctx.secret /\ vctx'.ga = vctx.ga
        /\ vctx'.gv = vctx.gv /\ vctx'.kdk = vctx.kdk /\ vctx'.mac = vctx.mac
        /\ vctx'.session = vctx.session /\ VerifierTypeOK'
    BY Zenon, <1>2, <1>3 DEF IInv, VerifierInv, VerifierTypeOK
  <1>6. VerifierInv'
    <2>1. VerifierPhase'
      BY Zenon, <1>2, <1>4, <1>5 DEF IInv, VerifierInv, VerifierPhase
    <2> QED
      BY ZenonT(60), <1>2, <1>5, <2>1 DEF IInv, VerifierInv, VerifierFresh
  <1>7. NetworkInv'
    BY Zenon, <1>2, NetworkFrame DEF IInv, attVars
  <1>8. CASE accepted' = accepted
    BY Zenon, <1>2, <1>6, <1>7, <1>8, HistoryFrame DEF IInv, historyVars, Abs!absVars, attVars
  <1>9. CASE /\ accepted' = accepted \cup {e}
             /\ verify_quote_signature(vctx, m) /\ verify_anchor(vctx, m)
    <2>1. e \in Exchanges
      BY Zenon, <1>2
         DEF IInv, VerifierInv, VerifierPhase, VerifierTypeOK, Exchange, Exchanges, AnyGv
    <2>2. m.quote.by = ImxKey /\ m.quote.anchor = e /\ ImxKey # Garbled
      BY Zenon, <1>9, KeysAssumption DEF verify_quote_signature, verify_anchor
    <2>3. h_buf.type = "msg2" /\ m = h_buf
      BY Zenon, <2>2 DEF AsMsg2, Msg2, GarbledQuote, Quote
    <2>4. QuoteKnown(m.quote)
      BY Zenon, <2>3 DEF IInv, NetworkInv, NetKnowledge, Known, MessageKnown
    <2>5. board = ImxKey /\ e \in attested
      BY ZenonT(60), <2>1, <2>2, <2>4, TermsAssumption DEF QuoteKnown
    <2>6. HistoryInv'
      BY ZenonT(60), <1>2, <1>9, <2>1, <2>5
         DEF IInv, HistoryInv, HistoryTypeOK, Stages, KeysServeOneExchange,
             HandshakeIsWithTheService, AcceptedQuoteIsFresh, SecretOnlyToAttested,
             DeliveredAsReleased, attVars
    <2>7. e \in completed
      BY Zenon, <2>5 DEF IInv, HistoryInv, Stages, AcceptedQuoteIsFresh
    <2>8. PICK a \in AttesterKeys, v \in VerifierKeys : e = <<a, v>>
      BY ZenonT(60), <2>7, CompletedKeys DEF IInv
    <2>9. Abs!Accept(a, v)
      BY Zenon, <1>2, <1>9, <2>5, <2>8 DEF Abs!Accept, attVars
    <2>10. Abs!AbsNext
      BY Zenon, <2>9 DEF Abs!AbsNext
    <2> QED
      BY ZenonT(60), <1>2, <1>6, <1>7, <2>6, <2>10
  <1> QED
    BY Zenon, <1>4, <1>8, <1>9

(* The secret is encrypted under the keys of the accepted exchange, once.  *)
LEMMA Step_host_prepare_msg3 ==
    ASSUME IInv, host_prepare_msg3, UNCHANGED attVars
    PROVE  /\ VerifierInv' /\ NetworkInv' /\ HistoryInv' /\ offered \subseteq offered'
           /\ UNCHANGED Abs!absVars \/ Abs!AbsNext
  <1> USE DEF Serving, Exchanging
  <1>1. PICK ok \in BOOLEAN :
            /\ Goes("prepare_msg3", ok, "terminate")
            /\ prepare_msg3(h_size, ok, h_buf')
            /\ IF ok THEN SendDown(h_buf') ELSE UNCHANGED tcpVars
            /\ UNCHANGED h_size
    BY Zenon DEF host_prepare_msg3
  <1> DEFINE e == Exchange(vctx.ga, vctx.gv)
             r == [ex |-> e, data |-> vctx.secret]
             m == Msg3(vctx.session, vctx.secret)
  <1>2. /\ h_pc = "prepare_msg3" /\ h_pc' = "terminate"
        /\ UNCHANGED <<vctx, v_used, s_used, offered, accepted, h_size>>
    BY Zenon, <1>1 DEF Goes, prepare_msg3
  <1>3. /\ vctx.secret \in Secrets /\ vctx.session = DerivedKey("SK", e)
        /\ e \in accepted /\ e[2] = vctx.gv
        /\ \A q \in released : q.ex[2] # vctx.gv
    BY ZenonT(60), <1>2 DEF IInv, VerifierInv, VerifierPhase, Exchange
  <1>e. e \in Exchanges
    BY Zenon, <1>3 DEF IInv, HistoryInv, HistoryTypeOK
  <1>4. vctx.session.kdk = e /\ m \in Msg3s /\ r \in Deliveries
    BY Zenon, <1>3, <1>e, SecretMessage
  <1>5. \/ h_buf' = Fragment /\ released' = released
        \/ h_buf' = m /\ released' = released \cup {r}
    BY Zenon, <1>1, <1>4 DEF prepare_msg3, encrypt_msg3
  <1>6. h_buf' \in Known' /\ h_buf' \in Messages
    <2>1. CASE h_buf' = Fragment
      BY ZenonT(60), <2>1, FragmentKnown DEF Known
    <2>2. CASE h_buf' = m /\ released' = released \cup {r}
      <3>1. r = [ex |-> m.body.key.kdk, data |-> m.body.data] /\ m.type = "msg3"
        BY ZenonT(60), <1>4 DEF Msg3
      <3> QED
        BY ZenonT(60), <1>4, <2>2, <3>1 DEF Known, MessageKnown, BodyKnown, Messages
    <2> QED
      BY Zenon, <1>5, <2>1, <2>2
  <1> HIDE DEF m
  <1>7. VerifierInv'
    BY ZenonT(60), <1>2, <1>6 DEF IInv, VerifierInv, VerifierTypeOK, VerifierPhase, VerifierFresh
  <1>8. NetworkInv'
    BY Zenon, <1>1, <1>2, <1>5, <1>6, SendDownKnown DEF IInv, attVars
  <1>9. CASE released' = released
    BY Zenon, <1>2, <1>7, <1>8, <1>9, HistoryFrame DEF IInv, historyVars, Abs!absVars, attVars
  <1>10. CASE released' = released \cup {r}
    <2>0. UNCHANGED <<offered, completed, attested, accepted, delivered, pin, board>>
      BY Zenon, <1>2 DEF attVars
    <2>t. HistoryTypeOK'
      BY ZenonT(30), <1>4, <1>10, <2>0 DEF IInv, HistoryInv, HistoryTypeOK
    <2>s. SecretOnlyToAttested'
      BY <1>3, <1>10, <2>0 DEF IInv, HistoryInv, Stages, SecretOnlyToAttested
    <2>d. DeliveredAsReleased'
      BY Zenon, <1>10, <2>0 DEF IInv, HistoryInv, Stages, DeliveredAsReleased
    <2>1. Stages'
      BY Zenon, <2>0, <2>s, <2>d DEF IInv, HistoryInv, Stages, HandshakeIsWithTheService,
                                     AcceptedQuoteIsFresh
    <2>2. KeysServeOneExchange'
      <3>1. \A q \in released : q.ex # e
        BY Zenon, <1>3
      <3>2. r.ex = e
        OBVIOUS
      <3> HIDE DEF e, r
      <3>3. \A p, q \in released' : p.ex = q.ex => p = q
        BY Zenon, <1>10, <3>1, <3>2 DEF IInv, HistoryInv, KeysServeOneExchange
      <3> QED
        BY Zenon, <1>2, <3>3 DEF IInv, HistoryInv, KeysServeOneExchange, attVars
    <2>3. PICK a \in AttesterKeys, v \in VerifierKeys : e = <<a, v>>
      BY Zenon, <1>3, CompletedKeys DEF IInv, HistoryInv, Stages, AcceptedQuoteIsFresh
    <2>4. Abs!Release(a, v, vctx.secret)
      BY Zenon, <1>2, <1>3, <1>10, <2>3 DEF Abs!Release, attVars
    <2>5. Abs!AbsNext
      BY Zenon, <1>3, <2>4 DEF Abs!AbsNext
    <2> QED
      BY ZenonT(60), <1>2, <1>7, <1>8, <2>t, <2>1, <2>2, <2>5 DEF HistoryInv
  <1> QED
    BY Zenon, <1>5, <1>9, <1>10

(* Closing the session disposes of the context and keeps the histories.    *)
LEMMA Step_terminate_tee_session ==
    ASSUME VerifierInv, terminate_tee_session
    PROVE  VerifierInv' /\ h_buf' = Fragment
  <1>1. /\ h_pc' = "exited" /\ h_buf' = Fragment /\ h_size' = 0
        /\ vctx' = [context_singleton EXCEPT !.objs = dispose_ra_context(vctx).objs]
        /\ UNCHANGED <<v_used, s_used, offered, accepted, released>>
    BY Zenon DEF terminate_tee_session, TA_CloseSession
  <1>2. dispose_ra_context(vctx).objs = {}
    BY Zenon DEF dispose_ra_context, VerifierInv, VerifierTypeOK
  <1>3. VerifierTypeOK' /\ vctx'.objs = {}
    BY ZenonT(60), <1>1, <1>2 DEF VerifierInv, VerifierTypeOK, context_singleton, Messages
  <1> QED
    BY Zenon, <1>1, <1>3 DEF VerifierInv, VerifierPhase, VerifierFresh, Serving, Exchanging

(* A step of the verifier, put together.                                   *)
LEMMA VerifierPreserves ==
    ASSUME IInv, VerifierStep
    PROVE  IInv' /\ (UNCHANGED Abs!absVars \/ Abs!AbsNext)
  <1>1. HostNext /\ UNCHANGED attVars
    BY Zenon DEF VerifierStep
  <1>2. UNCHANGED <<attested, board>>
    BY Zenon, <1>1 DEF attVars
  <1>3. CASE host_prepare_msg1 \/ receive_msg2 \/ host_prepare_msg3
    <2>1. /\ VerifierInv' /\ NetworkInv' /\ HistoryInv' /\ offered \subseteq offered'
          /\ UNCHANGED Abs!absVars \/ Abs!AbsNext
      BY Zenon, <1>1, <1>3, Step_host_prepare_msg1, Step_receive_msg2, Step_host_prepare_msg3
         DEF IInv
    <2> QED
      BY Zenon, <1>1, <2>1, AttesterFrame DEF IInv
  <1>4. CASE ~(host_prepare_msg1 \/ receive_msg2 \/ host_prepare_msg3)
    <2>1. UNCHANGED <<offered, accepted, released>>
      BY Zenon, <1>1, <1>4 DEF HostNext, handle_connection, prepare_tee_session, bootstrap_secret,
           start_verifier_server, read_msg, receive_msg0, handle_msg0, terminate_tee_session,
           TA_CloseSession, taVars
    <2>2. AttesterInv' /\ HistoryInv' /\ UNCHANGED Abs!absVars
      BY ZenonT(60), <1>1, <2>1, AttesterFrame, HistoryFrame
         DEF IInv, historyVars, attVars, Abs!absVars
    <2>3. Known = Known'
      BY Zenon, <1>2, <2>1 DEF Known, MessageKnown, SignatureKnown, QuoteKnown, BodyKnown
    <2>4. CASE prepare_tee_session
      <3>1. VerifierInv' /\ h_buf' = Fragment /\ UNCHANGED tcpVars
        BY Zenon, <2>4, Step_prepare_tee_session DEF IInv, prepare_tee_session
      <3>2. NetworkInv'
        BY Zenon, <2>3, <3>1, FragmentKnown
           DEF IInv, NetworkInv, NetKnowledge, NetworkTypeOK, tcpVars
      <3> QED
        BY Zenon, <2>2, <3>1, <3>2 DEF IInv
    <2>5. CASE bootstrap_secret \/ receive_msg0
      <3>1. VerifierInv' /\ UNCHANGED <<h_buf, tcpVars>>
        BY Zenon, <2>5, Step_bootstrap_secret, Step_receive_msg0
           DEF IInv, bootstrap_secret, receive_msg0
      <3> QED
        BY Zenon, <1>2, <2>1, <2>2, <3>1, NetworkFrame DEF IInv
    <2>6. CASE start_verifier_server
      <3>1. VerifierInv' /\ srv' \in {srv, "listening"} /\ UNCHANGED <<h_buf, conn, up, down>>
        BY Zenon, <2>6, Step_start_verifier_server DEF IInv, start_verifier_server
      <3>2. NetworkInv'
        BY Zenon, <2>3, <3>1 DEF IInv, NetworkInv, NetKnowledge, NetworkTypeOK
      <3> QED
        BY Zenon, <2>2, <3>1, <3>2 DEF IInv
    <2>7. CASE read_msg("read_msg0", "msg0") \/ read_msg("read_msg2", "msg2")
      <3>1. ReadUp(h_buf, h_buf')
        BY Zenon, <2>7 DEF read_msg
      <3>2. NetworkInv' /\ h_buf' \in Messages
        BY Zenon, <1>2, <2>1, <3>1, ReadUpKnown DEF IInv
      <3>3. VerifierInv'
        BY Zenon, <2>7, <3>2, Step_read_msg DEF IInv
      <3> QED
        BY Zenon, <2>2, <3>2, <3>3 DEF IInv
    <2>8. CASE terminate_tee_session
      <3>1. VerifierInv' /\ h_buf' = Fragment
        BY Zenon, <2>8, Step_terminate_tee_session DEF IInv
      <3>2. srv' = "none" /\ up' = <<>> /\ UNCHANGED <<conn, down>>
        BY Zenon, <2>8 DEF terminate_tee_session
      <3>3. up' \in Seq(Known) /\ up' \in Seq(Messages)
        BY <3>2, EmptySeq, Zenon
      <3>4. NetworkInv'
        BY Zenon, <2>3, <3>1, <3>2, <3>3, FragmentKnown
           DEF IInv, NetworkInv, NetKnowledge, NetworkTypeOK
      <3> QED
        BY Zenon, <2>2, <3>1, <3>4 DEF IInv
    <2> QED
      BY Zenon, <1>1, <1>4, <2>4, <2>5, <2>6, <2>7, <2>8 DEF HostNext, handle_connection
  <1> QED
    BY Zenon, <1>3, <1>4

(***************************************************************************)
(* The composition.                                                        *)
(***************************************************************************)

(* Every step of the composition keeps the invariant, and is a stage of an *)
(* exchange or none.                                                       *)
LEMMA NextPreserves ==
    ASSUME IInv, [Next]_vars
    PROVE  IInv' /\ (UNCHANGED Abs!absVars \/ Abs!AbsNext)
  <1>1. CASE UNCHANGED vars
    <2>1. UNCHANGED <<attVars, taVars, hostVars, tcpVars>>
      BY Zenon, <1>1 DEF vars
    <2>2. AttesterInv' /\ VerifierInv' /\ HistoryInv' /\ UNCHANGED Abs!absVars
      BY Zenon, <2>1, AttesterFrame, VerifierFrame, HistoryFrame
         DEF IInv, attVars, taVars, historyVars, Abs!absVars
    <2>3. NetworkInv'
      BY Zenon, <2>1, NetworkFrame DEF IInv, attVars, taVars, hostVars
    <2> QED
      BY Zenon, <2>2, <2>3 DEF IInv
  <1> QED
    BY Zenon, <1>1, AttesterPreserves, VerifierPreserves, FaultPreserves DEF Next, Finished

(***************************************************************************)
(* The theorems.                                                           *)
(***************************************************************************)

(* The invariant holds of the attester, the verifier and the network of    *)
(* the code, whatever the sets of keys, the secrets and the window.        *)
THEOREM Inductive == Spec => []IInv
  <1>1. IInv /\ [Next]_vars => IInv'
    BY Zenon, NextPreserves
  <1> QED
    BY InitEstablishes, <1>1, PTL DEF Spec

(* Every variable of the two trusted applications, of the verifier's       *)
(* process and of the connection keeps to its type.                        *)
THEOREM TypeSafe == Spec => []TypeOK
  <1>1. IInv => TypeOK
    BY Zenon DEF IInv, AttesterInv, VerifierInv, NetworkInv, HistoryInv, TypeOK
  <1> QED
    BY Inductive, <1>1, PTL

(* ra_net_handshake succeeds only with a verifier that signed the          *)
(* exchange, under the key the guest asked for.                            *)
THEOREM HandshakeSafe == Spec => []HandshakeIsWithTheService
  <1>1. IInv => HandshakeIsWithTheService
    BY Zenon DEF IInv, HistoryInv, Stages
  <1> QED
    BY Inductive, <1>1, PTL

(* handle_msg2 accepts only quotes that the trusted board made for the     *)
(* exchange at hand, after its handshake.                                  *)
THEOREM QuoteSafe == Spec => []AcceptedQuoteIsFresh
  <1>1. IInv => AcceptedQuoteIsFresh
    BY Zenon DEF IInv, HistoryInv, Stages
  <1> QED
    BY Inductive, <1>1, PTL

(* prepare_msg3 encrypts a secret only for an exchange that handle_msg2    *)
(* accepted.                                                               *)
THEOREM SecretSafe == Spec => []SecretOnlyToAttested
  <1>1. IInv => SecretOnlyToAttested
    BY Zenon DEF IInv, HistoryInv, Stages
  <1> QED
    BY Inductive, <1>1, PTL

(* ra_net_receive_data delivers only what prepare_msg3 released for the    *)
(* same exchange.                                                          *)
THEOREM DeliverySafe == Spec => []DeliveredAsReleased
  <1>1. IInv => DeliveredAsReleased
    BY Zenon DEF IInv, HistoryInv, Stages
  <1> QED
    BY Inductive, <1>1, PTL

(* No ECDH key pair of either side completes two exchanges, and no         *)
(* exchange has two secrets.                                               *)
THEOREM KeysSafe == Spec => []KeysServeOneExchange
  <1>1. IInv => KeysServeOneExchange
    BY Zenon DEF IInv, HistoryInv
  <1> QED
    BY Inductive, <1>1, PTL

(* dispose_ra_context leaves no object when the verifier's process ends.   *)
THEOREM VerifierDisposes == Spec => []VerifierLeavesNoObject
  <1>1. IInv => VerifierLeavesNoObject
    BY Zenon DEF IInv, VerifierInv, VerifierPhase, VerifierLeavesNoObject
  <1> QED
    BY Inductive, <1>1, PTL

(* After ra_net_dispose the context holds no object, no socket and no      *)
(* buffer, except one for a msg3 of which no byte came.                    *)
THEOREM AttesterDisposes == Spec => DisposedContextHoldsNothing
  <1>1. ASSUME IInv, ra_net_dispose
        PROVE  /\ ctx'.objs = {} /\ conn' = "none"
               /\ ctx'.msg3 = "none" \/ ctx.msg3 = "empty"
    BY Zenon, <1>1 DEF IInv, AttesterInv, AttesterTypeOK, ra_net_dispose, free_ra_context
  <1>2. IInv /\ [Next]_vars =>
          [ra_net_dispose => /\ ctx'.objs = {} /\ conn' = "none"
                             /\ ctx'.msg3 = "none" \/ ctx.msg3 = "empty"]_vars
    BY Zenon, <1>1
  <1> QED
    BY Inductive, <1>2, PTL DEF Spec, DisposedContextHoldsNothing

(* The two programs implement the attested delivery of a secret: every     *)
(* step is a stage of an exchange, in its order, or none.                  *)
THEOREM Refinement == Spec => AbsSpec
  <1>1. Init => Abs!AbsInit
    BY Zenon DEF Init, AttInit, TaInit, Abs!AbsInit
  <1>2. IInv /\ [Next]_vars => [Abs!AbsNext]_(Abs!absVars)
    BY Zenon, NextPreserves
  <1> QED
    BY Inductive, <1>1, <1>2, PTL DEF Spec, AbsSpec, Abs!AbsSpec

=============================================================================
