-------------------------------- MODULE Emmc --------------------------------
(***************************************************************************)
(* The driver of the eMMC: a read or a write of blocks of one of its       *)
(* hardware partitions (platform/mt6763/mmc_common_inter.c, mmc_core.c),   *)
(* cut into transfers by DMA (msdc_dma.c) whose end an interrupt tells     *)
(* (msdc_irq.c), with the handling of errors: stop the card, tune the      *)
(* sampling, halve the clock, try again (msdc.c, msdc_tune_async.c).       *)
(*                                                                         *)
(* Commands of which nothing else can be seen are one step with their      *)
(* outcomes; the thread, the interrupt and the transfer are interleaved.   *)
(* Requests lie inside the device, no block is write protected, and at     *)
(* most MaxFaults things go wrong in a behaviour.                          *)
(***************************************************************************)
EXTENDS Naturals

CONSTANTS
    MmcRequests,    \* what is called for: op, part, first, count
    MaxPhysSegs,    \* max_phys_segs: the most blocks of a transfer
    MaxTunes,       \* bound: the settings a tuning tries
    MaxHalvings,    \* bound: how often the clock may be halved
    MaxFaults       \* bound: what goes wrong

\* A request is for blocks that lie inside the device, and for one at least.
ASSUME EmmcAssumption ==
    /\ MaxPhysSegs \in Nat \ {0}
    /\ \A r \in MmcRequests : r.first \in Nat /\ r.count \in Nat \ {0}

VARIABLES
    mmcAt,          \* where the caller's thread is
    request,        \* what it was called for
    blknr, blkcnt,  \* the first block of the next transfer, and how many are left
    bufAt,         \* where in the buffer they are
    attempt, retry, tunes,    \* of mmc_dev_bread and mmc_dev_bwrite
    err,            \* what the last call returned
    cfg,            \* the partition raw_ext_csd names
    irq,            \* msdc_int_event, g_int_status, MSDC_INTEN and MSDC_INT
    dma,            \* the transfer is "off", "on" or "hung"
    halvings,       \* how often the clock was halved
    card,           \* the partition the card is switched to, and its state
    moved,          \* <<place in the buffer, partition, block>>: moved intact
    faults,         \* how much went wrong
    astray, late    \* a switch of partitions failed; an interrupt came after the time-out

mmcVars == <<mmcAt, request, blknr, blkcnt, bufAt, attempt, retry, tunes, err, cfg, irq, dma,
             halvings, card, moved, faults, astray, late>>

requestVars == <<request, blknr, blkcnt, bufAt>>
tryVars == <<attempt, retry, tunes, halvings>>

\* MSDC_INT_XFER_COMPL, MSDC_INT_DATTMO and MSDC_INT_DATCRCERR
DataInterrupts == {"compl", "dattmo", "datcrc"}

MmcInit ==
    /\ mmcAt = "idle"
    /\ request \in MmcRequests /\ blknr = 0 /\ blkcnt = 0 /\ bufAt = 0
    /\ attempt = "plain" /\ retry = 0 /\ tunes = 0
    /\ err = "none"
    /\ cfg = "user"
    /\ irq = [up |-> FALSE, status |-> {}, enabled |-> {}, raised |-> {}]
    /\ dma = "off" /\ halvings = 0
    /\ card = [part |-> "user", state |-> "tran"]
    /\ moved = {} /\ faults = 0
    /\ astray = FALSE /\ late = FALSE

\* One more thing goes wrong.
Fault == faults < MaxFaults /\ faults' = faults + 1

\* Nothing does, or something.
Wrong(wrong) == IF wrong THEN Fault ELSE UNCHANGED faults

TransferBlocks == IF blkcnt > MaxPhysSegs THEN MaxPhysSegs ELSE blkcnt

\* The card sends or takes the blocks of a command of several until it is told to stop.
Busy == IF request.op = "read" THEN "data" ELSE "rcv"

---------------------------------------------------------------------------
(* mmc_wrap_bread, mmc_wrap_bwrite, mmc_block_read and mmc_block_write *)

MmcCall(r) ==
    /\ mmcAt = "idle"
    /\ request' = r /\ blknr' = r.first /\ blkcnt' = r.count /\ bufAt' = 0
    /\ moved' = {}
    /\ mmcAt' = "switch"
    /\ UNCHANGED <<tryVars, err, cfg, irq, dma, card, faults, astray, late>>

\* mmc_switch_part, with mmc_switch and mmc_read_ext_csd: the configuration is read back, and
\* kept as it was if that fails.  The callers do not look at the result.
SwitchPart ==
    /\ mmcAt = "switch"
    /\ IF cfg = request.part
       THEN UNCHANGED <<card, cfg, faults, astray>>
       ELSE \E switched, reread \in BOOLEAN :
              /\ switched => card.state = "tran"
              /\ card' = [card EXCEPT !.part = IF switched THEN request.part ELSE @]
              /\ cfg' = IF reread THEN card'.part ELSE cfg
              /\ Wrong(card.state = "tran" /\ ~(switched /\ reread))
              /\ astray' = (astray \/ ~(switched /\ reread))
    /\ mmcAt' = "block"
    /\ UNCHANGED <<requestVars, tryVars, err, irq, dma, moved, late>>

\* The next transfer of the loop, or its end.
NextTransfer ==
    /\ mmcAt = "block"
    /\ IF blkcnt = 0
       THEN /\ mmcAt' = "end" /\ err' = "none"
            /\ UNCHANGED tryVars
       ELSE /\ mmcAt' = "send" /\ attempt' = "plain" /\ retry' = 1 /\ tunes' = 0
            /\ UNCHANGED <<halvings, err>>
    /\ UNCHANGED <<requestVars, cfg, irq, dma, card, moved, faults, astray, late>>

\* mmc_dev_bwrite asks for the status until the card has programmed the blocks; if that
\* fails it gives up.
Sent ==
    /\ mmcAt = "sent"
    /\ \/ /\ mmcAt' = "block"
          /\ blknr' = blknr + TransferBlocks /\ blkcnt' = blkcnt - TransferBlocks /\ bufAt' = bufAt + MaxPhysSegs
          /\ UNCHANGED <<request, err, faults>>
       \/ /\ request.op = "write" /\ Fault
          /\ err' = "timeout" /\ mmcAt' = "end"
          /\ UNCHANGED requestVars
    /\ UNCHANGED <<tryVars, cfg, irq, dma, card, moved, astray, late>>

MmcReturn ==
    /\ mmcAt = "end"
    /\ mmcAt' = "idle"
    /\ UNCHANGED <<requestVars, tryVars, err, cfg, irq, dma, card, moved, faults, astray, late>>

---------------------------------------------------------------------------
(* msdc_dma_transfer *)

\* The command is sent.  A response with a wrong CRC stops the card and tunes the sampling of
\* responses, which sends the command again and again: it ends with the card at work, or gives
\* up.  Without a response the controller is reset, but the card, which may have taken the
\* command, is not stopped; a card that is not in its transfer state gives none.
Command ==
    /\ mmcAt = "send"
    /\ \/ /\ card.state = "tran"
          /\ \E wrong \in BOOLEAN : Wrong(wrong)
          /\ card' = [card EXCEPT !.state = Busy]
          /\ mmcAt' = "start"
          /\ UNCHANGED <<err, irq>>
       \/ /\ Wrong(card.state = "tran")
          /\ \E state \in {card.state, IF TransferBlocks = 1 /\ request.op = "read" THEN "tran" ELSE Busy} :
               card' = [card EXCEPT !.state = IF card.state = "tran" THEN state ELSE @]
          /\ err' \in {"timeout", "cmdtunefail"}
          /\ err' = "cmdtunefail" => card.state = "tran"
          /\ irq' = [irq EXCEPT !.raised = {}]
          /\ mmcAt' = "failed"
    /\ UNCHANGED <<requestVars, tryVars, cfg, dma, moved, astray, late>>

\* msdc_dma_start
DmaStart ==
    /\ mmcAt = "start"
    /\ irq' = [irq EXCEPT !.enabled = DataInterrupts]
    /\ dma' = "on"
    /\ mmcAt' = "wait"
    /\ UNCHANGED <<requestVars, tryVars, err, cfg, card, moved, faults, astray, late>>

\* The controller has moved the blocks, or found an error: then none of them counts.
DmaEnds ==
    /\ dma \in {"on", "hung"}
    /\ \E interrupt \in DataInterrupts :
         /\ Wrong(interrupt # "compl")
         /\ irq' = [irq EXCEPT !.raised = @ \cup {interrupt}]
         /\ moved' = {m \in moved : m[1] < bufAt}
                     \cup {<<bufAt + i, card.part, blknr + i>> :
                             i \in IF interrupt = "compl" THEN 0 .. TransferBlocks - 1 ELSE {}}
    /\ dma' = "off"
    /\ card' = [card EXCEPT !.state = IF TransferBlocks = 1 THEN "tran" ELSE @]
    /\ UNCHANGED <<mmcAt, requestVars, tryVars, err, cfg, astray, late>>

\* The controller hangs.
DmaHangs ==
    /\ dma = "on" /\ Fault
    /\ dma' = "hung"
    /\ UNCHANGED <<mmcAt, requestVars, tryVars, err, cfg, irq, card, moved, astray, late>>

\* lk_msdc_irq_handler masks what it was called for, and signals.
Interrupt ==
    /\ irq.raised \cap irq.enabled # {}
    /\ irq' = [up |-> TRUE, status |-> irq.raised, enabled |-> {}, raised |-> {}]
    /\ late' = (late \/ mmcAt # "wait")
    /\ UNCHANGED <<mmcAt, requestVars, tryVars, err, cfg, dma, card, moved, faults, astray>>

\* msdc_lk_intr_wait: the event unsignals itself.
Woken ==
    /\ mmcAt = "wait" /\ irq.up
    /\ irq' = [irq EXCEPT !.up = FALSE]
    /\ mmcAt' = "judge"
    /\ UNCHANGED <<requestVars, tryVars, err, cfg, dma, card, moved, faults, astray, late>>

\* Mutant: the wait has no time-out.
TimedOutNever ==
    /\ mmcAt = "wait" /\ irq.up /\ dma = "hung"
    /\ UNCHANGED mmcVars

\* 65 seconds: long after the controller would have told of a time-out of its own.
TimedOut ==
    /\ mmcAt = "wait" /\ ~irq.up /\ dma = "hung"
    /\ mmcAt' = "judge"
    /\ UNCHANGED <<requestVars, tryVars, err, cfg, irq, dma, card, moved, faults, astray, late>>

\* msdc_dma_wait_done: with the blocks complete it waits for the controller to be idle.
Judge ==
    /\ mmcAt = "judge"
    /\ err' = CASE irq.status = {} \/ "dattmo" \in irq.status -> "timeout"
                [] irq.status \cap {"dattmo", "datcrc"} = {"datcrc"} -> "badcrc"
                [] irq.status = {"compl"} -> "none"
    /\ err' = "none" => dma = "off"
    /\ irq' = [irq EXCEPT !.status = {}]
    /\ mmcAt' = "stop"
    /\ UNCHANGED <<requestVars, tryVars, cfg, dma, card, moved, faults, astray, late>>

\* msdc_dma_stop; after an error msdc_abort and msdc_abort_handler, which stops the card unless
\* the card does not answer.
DmaStop ==
    /\ mmcAt = "stop"
    /\ dma' = "off"
    /\ IF err = "none"
       THEN /\ irq' = [irq EXCEPT !.enabled = {}]
            /\ mmcAt' = "finish"
            /\ UNCHANGED <<card, faults>>
       ELSE /\ irq' = [irq EXCEPT !.enabled = {}, !.raised = {}]
            /\ mmcAt' = "failed"
            /\ \/ card' = [card EXCEPT !.state = "tran"] /\ UNCHANGED faults
               \/ Fault /\ UNCHANGED card
    /\ UNCHANGED <<requestVars, tryVars, err, cfg, moved, astray, late>>

\* Mutant: the result of the stop command is not looked at.
FinishUnchecked ==
    /\ mmcAt = "finish"
    /\ \E stopped, answered \in BOOLEAN :
         /\ Wrong(~stopped \/ ~answered)
         /\ card' = [card EXCEPT !.state = IF stopped THEN "tran" ELSE @]
         /\ err' = IF answered THEN "none" ELSE "timeout"
         /\ mmcAt' = IF answered THEN "sent" ELSE "failed"
    /\ UNCHANGED <<requestVars, tryVars, cfg, irq, dma, moved, astray, late>>

\* msdc_cmd_stop after several blocks, whose response may be lost although the card has
\* stopped (and if its CRC is wrong, counts as good); msdc_get_err_from_card_status.
Finish ==
    /\ mmcAt = "finish"
    /\ \E told, stopped, answered \in BOOLEAN :
         /\ told => stopped
         /\ card.state = "tran" => told
         /\ Wrong(~told \/ ~answered)
         /\ card' = [card EXCEPT !.state = IF stopped THEN "tran" ELSE @]
         /\ err' = CASE ~answered -> "timeout"
                     [] answered /\ ~told -> "failed"
                     [] answered /\ told -> "none"
         /\ mmcAt' = IF answered /\ told THEN "sent" ELSE "failed"
    /\ UNCHANGED <<requestVars, tryVars, cfg, irq, dma, moved, astray, late>>

---------------------------------------------------------------------------
(* mmc_dev_bread and mmc_dev_bwrite after an error *)

Again(p, left, n, h) ==
    /\ mmcAt' = "send"
    /\ attempt' = p /\ retry' = left /\ tunes' = n /\ halvings' = h
    /\ UNCHANGED err

StopTrying == mmcAt' = "end" /\ UNCHANGED <<tryVars, err>>

Untunable == request.op = "read" /\ err = "cmdtunefail"

\* After the first error a tuning, or for an error tuning does not help a second attempt.
AfterPlain ==
    /\ attempt = "plain"
    /\ IF Untunable \/ retry = 0
       THEN StopTrying
       ELSE Again(IF err \in {"badcrc", "timeout"} THEN "tuning" ELSE "plain", retry - 1, 0, halvings)

\* msdc_tune_rw_hs400, msdc_async_tune_bread and msdc_async_tune_bwrite: every setting until
\* one works; then once more with half the clock, as long as it may be halved.
AfterTuning ==
    /\ attempt = "tuning"
    /\ IF err # "cmdtunefail" /\ tunes < MaxTunes
       THEN Again("tuning", retry, tunes + 1, halvings)
       ELSE IF halvings < MaxHalvings
            THEN Again("halved", retry, tunes, halvings + 1)
            ELSE StopTrying

AfterHalving == attempt = "halved" /\ StopTrying

Retry ==
    /\ mmcAt = "failed"
    /\ AfterPlain \/ AfterTuning \/ AfterHalving
    /\ UNCHANGED <<requestVars, cfg, irq, dma, card, moved, faults, astray, late>>

---------------------------------------------------------------------------

MmcStep ==
    \/ SwitchPart \/ NextTransfer \/ Command \/ DmaStart \/ Woken \/ TimedOut \/ Judge
    \/ DmaStop \/ Finish \/ Retry \/ Sent \/ MmcReturn

MmcNext ==
    \/ \E r \in MmcRequests : MmcCall(r)
    \/ MmcStep \/ DmaEnds \/ DmaHangs \/ Interrupt

\* The thread runs, transfers end unless they hang, and interrupts are taken.
MmcSpec ==
    /\ MmcInit /\ [][MmcNext]_mmcVars
    /\ WF_mmcVars(MmcStep)
    /\ WF_mmcVars(dma = "on" /\ DmaEnds)
    /\ WF_mmcVars(Interrupt)

---------------------------------------------------------------------------
(* Properties *)

\* Whatever errors, retries and tunings a request went through, when success is reported every
\* block has moved intact between its place in the buffer and its place in the partition asked
\* for, and the card is ready for the next command.  Two things the driver does not see are
\* excepted: a failed switch of partitions (mmc_common_inter.c:356, 378), and an interrupt
\* after the time-out of the wait (msdc_irq.c:254), whose event the next wait takes for its own.
SuccessIsMoved ==
    (mmcAt = "end" /\ err = "none" /\ ~astray /\ ~late) =>
        /\ moved = {<<i, request.part, request.first + i>> : i \in 0 .. request.count - 1}
        /\ card.state = "tran"

\* Every request ends, though the controller hangs and the card does not answer.
RequestsEnd == mmcAt # "idle" ~> mmcAt = "idle" \/ late
=============================================================================
