--------------------------- MODULE RecoveryUsbProofs ---------------------------
(***************************************************************************)
(* The exchange of recovery_usb.c keeps UsbInv for any set of requests and *)
(* any number of them: one request at a time, its buffers left alone until *)
(* its answer is out, whatever interrupt comes between two steps of the    *)
(* loop.                                                                   *)
(***************************************************************************)
EXTENDS RecoveryUsb, SequenceTheorems, TLAPS

\* What is answered of an exchange whose last request is still open.
LEMMA AppendKeeps ==
    ASSUME NEW S, NEW s \in Seq(S), NEW e \in S
    PROVE  /\ Append(s, e) \in Seq(S)
           /\ Len(Append(s, e)) = Len(s) + 1
           /\ SubSeq(Append(s, e), 1, Len(s)) = s
<1>1. Append(s, e) \in Seq(S) /\ Len(Append(s, e)) = Len(s) + 1
  BY AppendProperties
<1>2. \A i \in 1 .. Len(s) : Append(s, e)[i] = s[i]
  BY AppendProperties
<1>3. QED
  BY <1>1, <1>2

LEMMA InitHolds == Init => UsbInv
<1> SUFFICES ASSUME Init PROVE UsbInv
  OBVIOUS
<1>1. accepted \in Seq(Packets) /\ answered \in Seq(Packets \cup {NoPacket})
  BY DEF Init
<1>2. TypeOK
  BY <1>1 DEF Init, TypeOK
<1>3. ExchangeInv
  BY DEF Init, ExchangeInv, Working
<1>4. QED
  BY <1>2, <1>3 DEF UsbInv

LEMMA NextKeepsTypes ==
    ASSUME TypeOK, [Next]_vars
    PROVE  TypeOK'
<1> USE DEF TypeOK
<1>0. ASSUME Wake PROVE cpu' \in {"service", "idle", "wfi", "engine", "send"}
  BY <1>0 DEF Wake
<1>1. CASE UNCHANGED vars
  BY <1>1 DEF vars
<1>2. ASSUME NEW p \in Packets, Receive(p) PROVE TypeOK'
  <2>1. Append(accepted, p) \in Seq(Packets)
    OBVIOUS
  <2>2. QED
    BY <1>0, <1>2, <2>1 DEF Receive, engineVars
<1>3. CASE Sent
  <2>1. Append(answered, in) \in Seq(Packets \cup {NoPacket})
    OBVIOUS
  <2>2. QED
    BY <1>0, <1>3, <2>1 DEF Sent, engineVars
<1>4. CASE BusReset \/ Configure \/ ConfigureAgain
  <2>1. CASE BusReset
    <3>1. /\ attached' = FALSE /\ armed' = FALSE /\ sending' = FALSE
          /\ cpu' \in {"service", "idle", "wfi", "engine", "send"}
          /\ events' \in Nat
      BY <1>0, <2>1 DEF BusReset
    <3>2. UNCHANGED <<out, pending, taken, cache, in, accepted, answered>>
      BY <2>1 DEF BusReset, engineVars
    <3>3. QED
      BY <3>1, <3>2
  <2>2. CASE Configure
    BY <1>0, <2>2 DEF Configure, engineVars, historyVars
  <2>3. CASE ConfigureAgain
    BY <1>0, <2>3 DEF ConfigureAgain, engineVars
  <2>4. QED
    BY <1>4, <2>1, <2>2, <2>3
<1>5. CASE Tick \/ Idle \/ WaitForInterrupt \/ TakeRequest
  BY <1>5 DEF Tick, Idle, WaitForInterrupt, TakeRequest, endpointVars, engineVars, historyVars
<1>6. CASE EngineAnswers
  BY <1>6 DEF EngineAnswers, endpointVars, historyVars
<1>7. CASE Send
  BY <1>7 DEF Send, engineVars, historyVars
<1>8. QED
  BY <1>1, <1>2, <1>3, <1>4, <1>5, <1>6, <1>7 DEF Next, Interrupt, Foreground

\* A step that counts no event leaves the exchange in order.
LEMMA NextKeepsExchange ==
    ASSUME TypeOK, ExchangeInv, [Next]_vars
    PROVE  ExchangeInv'
<1> SUFFICES ASSUME events' = 0 PROVE ExchangeInv'
  BY DEF ExchangeInv
<1>1. events = 0 /\ ~BusReset /\ ~ConfigureAgain
  BY DEF TypeOK, Next, vars, Interrupt, Foreground, Receive, Sent, BusReset, Configure,
         ConfigureAgain, Tick, Idle, WaitForInterrupt, TakeRequest, EngineAnswers, Send,
         historyVars
<1> USE DEF ExchangeInv, Working
<1>2. CASE UNCHANGED vars
  BY <1>1, <1>2 DEF vars
<1>3. ASSUME NEW p \in Packets, Receive(p) PROVE ExchangeInv'
  BY <1>1, <1>3 DEF TypeOK, Receive, Wake, engineVars
<1>4. CASE Sent
  BY <1>1, <1>4 DEF TypeOK, Sent, Wake, engineVars
<1>5. CASE Configure
  BY <1>1, <1>5 DEF TypeOK, Configure, Wake, engineVars, historyVars
<1>6. CASE Tick \/ Idle \/ WaitForInterrupt \/ TakeRequest
  BY <1>1, <1>6 DEF TypeOK, Tick, Idle, WaitForInterrupt, TakeRequest, endpointVars,
                    engineVars, historyVars
<1>7. CASE EngineAnswers
  BY <1>1, <1>7 DEF TypeOK, EngineAnswers, endpointVars, historyVars
<1>8. CASE Send
  BY <1>1, <1>8 DEF TypeOK, Send, engineVars, historyVars
<1>9. QED
  BY <1>1, <1>2, <1>3, <1>4, <1>5, <1>6, <1>7, <1>8 DEF Next, Interrupt, Foreground

\* TypeOK and ExchangeInv hold in every reachable state.
THEOREM ExchangeHolds == Spec => []UsbInv
<1>1. UsbInv /\ [Next]_vars => UsbInv'
  BY NextKeepsTypes, NextKeepsExchange DEF UsbInv
<1>2. QED
  BY InitHolds, <1>1, PTL DEF Spec

\* While the host leaves the bus alone the retry cache answers a request with
\* its own response only.
THEOREM CacheIsRight == Spec => []CacheAnswersItsRequest
<1>1. UsbInv => CacheAnswersItsRequest
  BY DEF UsbInv, ExchangeInv, CacheAnswersItsRequest
<1>2. QED
  BY <1>1, ExchangeHolds, PTL

\* While the host leaves the bus alone every request is answered once and in
\* order.
THEOREM AnswersInOrder == Spec => []AnsweredInOrder
<1>1. ASSUME UsbInv PROVE AnsweredInOrder
  <2> SUFFICES ASSUME events = 0 PROVE AnsweredInOrder
    BY DEF AnsweredInOrder
  <2>1. /\ answered \in Seq(Packets \cup {NoPacket}) /\ out \in Packets \cup {NoPacket}
        /\ accepted = answered \/ accepted = Append(answered, out)
    BY <1>1 DEF UsbInv, TypeOK, ExchangeInv
  <2>2. CASE accepted = answered
    <3>1. Len(accepted) = Len(answered) + 0 /\ answered = SubSeq(accepted, 1, Len(answered))
      BY <2>1, <2>2
    <3>2. QED
      BY <3>1 DEF AnsweredInOrder
  <2>3. CASE accepted = Append(answered, out)
    <3>1. Len(accepted) = Len(answered) + 1 /\ answered = SubSeq(accepted, 1, Len(answered))
      BY <2>1, <2>3, AppendKeeps
    <3>2. QED
      BY <3>1 DEF AnsweredInOrder
  <2>4. QED
    BY <2>1, <2>2, <2>3
<1>2. QED
  BY <1>1, ExchangeHolds, PTL

\* The endpoint is armed under an open request only after a bus event: what
\* the comment in recovery_usb.c says is true until then.
THEOREM UnarmedWithoutEvents == Spec => [](events = 0 => UnarmedUntilAnswered)
<1>1. UsbInv => (events = 0 => UnarmedUntilAnswered)
  BY DEF UsbInv, ExchangeInv, UnarmedUntilAnswered, Working
<1>2. QED
  BY <1>1, ExchangeHolds, PTL
=============================================================================
