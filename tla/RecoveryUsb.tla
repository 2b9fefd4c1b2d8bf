----------------------------- MODULE RecoveryUsb -----------------------------
(***************************************************************************)
(* recovery_usb.c: one HID report in, one out.  The USB interrupt receives *)
(* a request into g_out_packet and leaves it to the foreground loop, which *)
(* runs the engine on that buffer, sends g_in_packet and waits for the     *)
(* next interrupt.  An interrupt can come between any two foreground steps *)
(* and during the engine's work, which an erase makes long.                *)
(*                                                                         *)
(* The engine is reduced to what it does with the buffers: the response    *)
(* answers the packet that was there when it started, and the retry cache  *)
(* keeps a copy of the packet that is there when it ends.                  *)
(***************************************************************************)
EXTENDS Naturals, Sequences

CONSTANTS Packets,    \* the requests that the host sends
          NoPacket,
          MaxSends,   \* bound on requests sent
          MaxEvents   \* bound on bus events

ASSUME RecoveryUsbAssumption ==
    /\ NoPacket \notin Packets
    /\ MaxSends \in Nat /\ MaxEvents \in Nat

VARIABLES attached,  \* g_usb.attached
          armed,     \* the OUT endpoint accepts a report
          out,       \* g_out_packet
          pending,   \* g_usb.request_pending
          cpu,       \* where the foreground is
          taken,     \* the request that the engine is working on
          cache,     \* engine->previous_request and the request it answers
          in,        \* the request that g_in_packet answers
          sending,   \* the IN endpoint has a report to send
          accepted, answered,  \* requests received, responses sent (history)
          events

endpointVars == <<attached, armed, sending>>
engineVars == <<taken, cache, in>>
historyVars == <<accepted, answered, events>>
vars == <<attached, armed, out, pending, cpu, taken, cache, in, sending,
          accepted, answered, events>>

Init ==
    /\ attached = FALSE
    /\ armed = FALSE
    /\ out = NoPacket
    /\ pending = FALSE
    /\ cpu = "service"
    /\ taken = NoPacket
    /\ cache = [request |-> NoPacket, answers |-> NoPacket]
    /\ in = NoPacket
    /\ sending = FALSE
    /\ accepted = << >>
    /\ answered = << >>
    /\ events = 0

-----------------------------------------------------------------------------
(* Interrupts.  Each of them ends a wfi.                                   *)

Wake == cpu' = IF cpu = "wfi" THEN "service" ELSE cpu

\* hid_callback, kUSB_DeviceHidEventRecvResponse.  The host polls nothing
\* while the endpoint is not armed.
ReceiveKeepsArmed(p) ==
    /\ armed /\ attached
    /\ Len(accepted) < MaxSends
    /\ out' = p
    /\ pending' = TRUE
    /\ accepted' = Append(accepted, p)
    /\ Wake
    /\ UNCHANGED <<endpointVars, engineVars, answered, events>>

Receive(p) ==
    /\ armed /\ attached
    /\ Len(accepted) < MaxSends
    /\ out' = p
    /\ armed' = FALSE
    /\ pending' = TRUE
    /\ accepted' = Append(accepted, p)
    /\ Wake
    /\ UNCHANGED <<attached, sending, engineVars, answered, events>>

\* hid_callback, kUSB_DeviceHidEventSendResponse.
SentForgetsArm ==
    /\ sending
    /\ sending' = FALSE
    /\ answered' = Append(answered, in)
    /\ Wake
    /\ UNCHANGED <<attached, armed, out, pending, engineVars, accepted, events>>

Sent ==
    /\ sending
    /\ sending' = FALSE
    /\ armed' = TRUE
    /\ answered' = Append(answered, in)
    /\ Wake
    /\ UNCHANGED <<attached, out, pending, engineVars, accepted, events>>

\* device_callback, kUSB_DeviceEventBusReset, or kUSB_DeviceEventSetConfiguration
\* with 0: the USB stack closes the endpoints, which drop what they had.
BusReset ==
    /\ events < MaxEvents
    /\ events' = events + 1
    /\ attached' = FALSE
    /\ armed' = FALSE
    /\ sending' = FALSE
    /\ Wake
    /\ UNCHANGED <<out, pending, engineVars, accepted, answered>>

\* kUSB_DeviceEventSetConfiguration, the first of them after a bus reset.
Configure ==
    /\ ~attached
    /\ attached' = TRUE
    /\ armed' = TRUE
    /\ Wake
    /\ UNCHANGED <<out, pending, engineVars, sending, historyVars>>

\* kUSB_DeviceEventSetConfiguration or kUSB_DeviceEventSetInterface with the
\* configuration that is already set.
ConfigureAgain ==
    /\ attached
    /\ events < MaxEvents
    /\ events' = events + 1
    /\ armed' = TRUE
    /\ Wake
    /\ UNCHANGED <<attached, out, pending, engineVars, sending, accepted, answered>>

\* SysTick_Handler, which is there to blink the indicator.
TickNeverStarted ==
    /\ cpu = "wfi"
    /\ cpu' = "wfi"
    /\ UNCHANGED <<endpointVars, out, pending, engineVars, historyVars>>

Tick ==
    /\ cpu = "wfi"
    /\ cpu' = "service"
    /\ UNCHANGED <<endpointVars, out, pending, engineVars, historyVars>>

-----------------------------------------------------------------------------
(* The foreground: ncr2_recovery_usb_service and wfi.                      *)

\* Nothing to do; an interrupt that came since then is not remembered.
Idle ==
    /\ cpu = "service"
    /\ ~(pending /\ attached)
    /\ cpu' = "idle"
    /\ UNCHANGED <<endpointVars, out, pending, engineVars, historyVars>>

WaitForInterrupt ==
    /\ cpu = "idle"
    /\ cpu' = "wfi"
    /\ UNCHANGED <<endpointVars, out, pending, engineVars, historyVars>>

\* request_pending is cleared before the engine starts on g_out_packet.
TakeRequest ==
    /\ cpu = "service"
    /\ pending /\ attached
    /\ pending' = FALSE
    /\ taken' = out
    /\ cpu' = "engine"
    /\ UNCHANGED <<endpointVars, out, cache, in, historyVars>>

\* recovery_engine_process ends; all of it is reduced to the retry cache.
EngineAnswers ==
    /\ cpu = "engine"
    /\ IF taken = cache.request
       THEN in' = cache.answers /\ UNCHANGED cache
       ELSE in' = taken /\ cache' = [request |-> out, answers |-> taken]
    /\ cpu' = "send"
    /\ UNCHANGED <<endpointVars, out, pending, taken, historyVars>>

\* USB_DeviceHidSend, which refuses without a configuration or while the
\* endpoint is busy; arm_receive then.
Send ==
    /\ cpu = "send"
    /\ IF attached /\ ~sending
       THEN sending' = TRUE /\ UNCHANGED armed
       ELSE armed' = attached /\ UNCHANGED sending
    /\ cpu' = "idle"
    /\ UNCHANGED <<attached, out, pending, engineVars, historyVars>>

-----------------------------------------------------------------------------

Interrupt ==
    \/ \E p \in Packets : Receive(p)
    \/ Sent \/ BusReset \/ Configure \/ ConfigureAgain \/ Tick

Foreground == Idle \/ WaitForInterrupt \/ TakeRequest \/ EngineAnswers \/ Send

Next == Interrupt \/ Foreground

Spec == Init /\ [][Next]_vars

\* The processor runs, SysTick ticks and the host polls the IN endpoint and
\* configures the device; nothing obliges it to send another request.
FairSpec ==
    /\ Spec
    /\ WF_vars(Foreground) /\ WF_vars(Tick) /\ WF_vars(Sent) /\ WF_vars(Configure)

-----------------------------------------------------------------------------
(* Properties.                                                             *)

TypeOK ==
    /\ attached \in BOOLEAN /\ armed \in BOOLEAN /\ pending \in BOOLEAN /\ sending \in BOOLEAN
    /\ cpu \in {"service", "idle", "wfi", "engine", "send"}
    /\ {out, taken, in} \subseteq Packets \cup {NoPacket}
    /\ cache \in [request : Packets \cup {NoPacket}, answers : Packets \cup {NoPacket}]
    /\ accepted \in Seq(Packets) /\ answered \in Seq(Packets \cup {NoPacket})
    /\ events \in Nat

Working == cpu \in {"engine", "send"}

\* The inductive invariant of the exchange: without bus events one request is
\* open at most.  It is in one place, received, executed, answered or sent, and
\* g_out_packet holds it all that time.
ExchangeInv ==
    events = 0 =>
        /\ cache.request = cache.answers
        /\ \/ /\ (armed <=> attached) /\ ~pending /\ ~Working /\ ~sending
              /\ accepted = answered
           \/ /\ attached /\ ~armed
              /\ accepted = Append(answered, out)
              /\ \/ pending /\ ~Working /\ ~sending
                 \/ ~pending /\ cpu = "engine" /\ taken = out /\ ~sending
                 \/ ~pending /\ cpu = "send" /\ in = out /\ ~sending
                 \/ ~pending /\ ~Working /\ in = out /\ sending

UsbInv == TypeOK /\ ExchangeInv

\* recovery_usb.c of the deferred request: "leave this endpoint unarmed until
\* its response has completed".
UnarmedUntilAnswered ==
    armed => ~pending /\ cpu \notin {"engine", "send"} /\ ~sending

\* As long as the host leaves bus and configuration alone, the retry cache never
\* answers a request with the response to another one, although the engine
\* copies the request only after it has executed it.
CacheAnswersItsRequest == events = 0 => cache.request = cache.answers

\* As long as the host leaves bus and configuration alone, every request is
\* answered once and in order, however the interrupt interleaves with the loop.
AnsweredInOrder ==
    events = 0 => \E open \in {0, 1} :
        /\ Len(accepted) = Len(answered) + open
        /\ answered = SubSeq(accepted, 1, Len(answered))

\* A received request is executed unless the bus goes away first: an interrupt
\* between the service call and wfi is not lost, because SysTick ends the wfi.
RequestIsServed == pending ~> (~pending \/ ~attached)

\* The endpoint never stays deaf: whatever the bus did, the host can send
\* again in the end.
EndpointComesBack == []<>(armed \/ Len(accepted) = MaxSends)
=============================================================================
