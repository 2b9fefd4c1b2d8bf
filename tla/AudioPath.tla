------------------------------ MODULE AudioPath ------------------------------
(***************************************************************************)
(* audio_passthrough.c under the control loop of Stompbox: two receive and *)
(* two transmit halves that the eDMA visits in turn, and the interrupt     *)
(* that processes a received half into the transmit half of the same       *)
(* number.  The interrupt may be entered at any time after its cause, and  *)
(* be overtaken by the channels at any of its own steps.                   *)
(*                                                                         *)
(* A half is two minor loops (NCR2_AUDIO_MAJOR_ITERATIONS).  Each moves    *)
(* half a FIFO, and the transmit FIFO is full before the first word is     *)
(* received: the transmit channel is two minor loops ahead, and fetches    *)
(* the first words of a half when half a block is received after it.       *)
(***************************************************************************)
EXTENDS Stompbox

Halves == {0, 1}
Minors == 0 .. 3                      \* the minor loops of the two halves

VARIABLES rx, tx,   \* the minor loop that each channel does next
          raised,   \* the channels whose bit in DMA0->INT is set
          handler,  \* where the interrupt handler is
          taken,    \* the half it processes
          made,     \* the minor loops whose words the handler has made of the
                    \* newest whole block of their half (history)
          served,   \* the interrupt of the newest block has returned (history)
          prompt,   \* it had when the last first words were fetched (history)
          sent      \* what was fetched since was made from that block (history)

dmaVars == <<rx, tx, raised, handler, taken, made, served, prompt, sent>>
pathVars == <<vars, dmaVars>>

Other(h) == 1 - h
Half(m) == IF m < 2 THEN 0 ELSE 1
EndsHalf(m) == m \in {1, 3}
Following(m) == IF m = 3 THEN 0 ELSE m + 1

\* The transmit channel has filled the FIFO from the half 0.
PathInit ==
    /\ Init
    /\ rx = 0 /\ tx = 2
    /\ raised = {} /\ handler = "idle" /\ taken = 0
    /\ made = {} /\ served = FALSE /\ prompt = FALSE /\ sent = FALSE

-----------------------------------------------------------------------------
(* The two channels.  One clock fills the receive FIFO to its watermark    *)
(* and empties the transmit FIFO to its own: both are due together, either *)
(* may be first, and neither is due again before the other.                *)

Fetch ==
    /\ pc # "reset"
    /\ Following(tx) # rx
    /\ tx' = Following(tx)
    /\ raised' = IF EndsHalf(tx) THEN raised \cup {"tx"} ELSE raised
    /\ prompt' = IF EndsHalf(tx) THEN prompt ELSE served
    /\ sent' = (tx \in made /\ (EndsHalf(tx) => sent))
    /\ UNCHANGED <<vars, rx, handler, taken, made, served>>

\* The first words of a half; the block that was there is still the newest
\* whole one.
Store ==
    /\ pc # "reset"
    /\ Following(rx) # tx
    /\ ~EndsHalf(rx)
    /\ rx' = Following(rx)
    /\ UNCHANGED <<vars, tx, raised, handler, taken, made, served, prompt, sent>>

\* The last words: the major loop ends, the next descriptor is loaded, and the
\* block interrupt is raised.
MajorLoop ==
    /\ BlockElapses
    /\ Following(rx) # tx
    /\ EndsHalf(rx)
    /\ rx' = Following(rx)
    /\ raised' = raised \cup {"rx"}
    /\ made' = {m \in made : Half(m) # Half(rx)}
    /\ served' = FALSE
    /\ UNCHANGED <<tx, handler, taken, prompt, sent>>

-----------------------------------------------------------------------------
(* DMA0_DMA16_IRQHandler.                                                  *)

\* The transmit bit alone is counted and left; the receive bit is cleared
\* before the descriptor is read.
EnterHandler ==
    /\ pc # "reset"
    /\ handler = "idle" /\ raised # {}
    /\ handler' = IF "rx" \in raised THEN "entered" ELSE "idle"
    /\ raised' = {}
    /\ UNCHANGED <<vars, rx, tx, taken, made, served, prompt, sent>>

\* Faulty variant: the handler keeps the turn of the halves itself.
CompletedByTurn == Other(taken)

\* The descriptor in use links to the half that was completed.
Completed == Other(Half(rx))

TakeBlock ==
    /\ pc # "reset"
    /\ handler = "entered"
    /\ handler' = "first"
    /\ taken' = Completed
    /\ UNCHANGED <<vars, rx, tx, raised, made, served, prompt, sent>>

\* The receive channel has not stored over the newest whole block here.
Intact(m) == Half(m) = Half(rx) => m >= rx

Makes(m) == made' = IF Intact(m) THEN made \cup {m} ELSE made \ {m}

\* ncr2_factory_audio_process_block: the first four frames, and the others
\* with the return.
ProcessFirst ==
    /\ handler = "first"
    /\ Makes(2 * taken)
    /\ handler' = "rest"
    /\ UNCHANGED <<vars, rx, tx, raised, taken, served, prompt, sent>>

ProcessBlock ==
    /\ handler = "rest"
    /\ AudioBlock
    /\ Makes(2 * taken + 1)
    /\ served' = ("rx" \notin raised)
    /\ handler' = "idle"
    /\ UNCHANGED <<rx, tx, raised, taken, prompt, sent>>

-----------------------------------------------------------------------------
\* The loop goes on whenever the interrupt has returned.
LoopStep ==
    /\ handler = "idle"
    /\ (\E pressed \in BOOLEAN : Poll(pressed)) \/ Engage \/ Disable \/ Select \/ Knobs
    /\ UNCHANGED dmaVars

PathNext ==
    \/ Fetch \/ Store \/ MajorLoop
    \/ EnterHandler \/ TakeBlock \/ ProcessFirst \/ ProcessBlock
    \/ LoopStep

PathSpec == PathInit /\ [][PathNext]_pathVars

-----------------------------------------------------------------------------
\* However many interrupts came late before: of a block whose interrupt has
\* returned when the transmit channel fetches the first words of the half,
\* half a block after it was complete, every word is sent.  A late interrupt
\* costs the blocks that it delays, and never turns the halves.
InTimeIsFresh == prompt => sent

-----------------------------------------------------------------------------
(* The inductive invariant behind InTimeIsFresh.                           *)

PathTypes ==
    /\ rx \in Minors /\ tx \in Minors /\ taken \in Halves
    /\ {served, prompt, sent} \subseteq BOOLEAN

\* A block that was served is in its half.  A handler that no block has
\* overtaken works on the half that was completed last.
PathInv ==
    /\ PathTypes
    /\ rx # tx
    /\ served => \A m \in Minors : Half(m) # Half(rx) => m \in made
    /\ handler # "idle" \/ "rx" \in raised => ~served
    /\ handler \in {"first", "rest"} /\ "rx" \notin raised => taken = Other(Half(rx))
    /\ handler = "rest" /\ "rx" \notin raised => 2 * taken \in made
    /\ EndsHalf(tx) /\ prompt => tx \in made
    /\ InTimeIsFresh
=============================================================================
