--------------------------- MODULE StorageProofs ---------------------------
(***************************************************************************)
(* What the flash memory holds.  The A/B metadata and every program that   *)
(* counts in them.  The eMMC driver: a request that reports success has    *)
(* moved its blocks, for every set of requests, every size of a transfer   *)
(* and any number of faults, tunings and halvings of the clock.  The block *)
(* device adapter above it: every byte is the one that was last written    *)
(* there, for every size of a block, every device and any requests of any  *)
(* callers, but for the part of a block behind a rest, which the adapter   *)
(* gets wrong.  The environment: a variable is what it was set to last, in *)
(* memory and on its partition, for all names, values and sizes.           *)
(***************************************************************************)
EXTENDS AbSlots, Emmc, BlockDev, Env, SequenceTheorems, FiniteSetTheorems,
        FunctionTheorems, WellFoundedInduction, TLAPS

---------------------------------------------------------------------------
(* The eMMC driver *)

\* The hardware partitions a request can name.
Partitions == {"user"} \cup {r.part : r \in MmcRequests}

\* The steps at which data can be on the bus.
Transferring == {"wait", "judge", "stop"}
Active == Transferring \cup {"send", "start", "finish", "sent", "failed"}

\* What the variables of the driver hold.
MmcTypes ==
    /\ request \in MmcRequests
    /\ blknr \in Nat /\ blkcnt \in Nat /\ bufAt \in Nat
    /\ card \in [part : Partitions, state : {"tran", "data", "rcv"}]
    /\ cfg \in Partitions
    /\ irq \in [up : BOOLEAN, status : SUBSET DataInterrupts,
                enabled : SUBSET DataInterrupts, raised : SUBSET DataInterrupts]
    /\ dma \in {"off", "on", "hung"}
    /\ astray \in BOOLEAN /\ late \in BOOLEAN

\* The first n blocks of the request, in their places.
Blocks(r, n) == {<<i, r.part, r.first + i>> : i \in 0 .. n - 1}

\* Without a failed switch the driver knows the partition of the card, and once it has
\* switched, that is the one asked for.
RightPartition ==
    ~astray =>
        /\ cfg = card.part
        /\ mmcAt \notin {"idle", "switch"} => cfg = request.part

\* How far the request has come.  After the last transfer bufAt is not looked at again.
MmcPosition ==
    /\ mmcAt = "switch" => blkcnt = request.count
    /\ mmcAt \in Active => blkcnt > 0
    /\ mmcAt \in Active \cup {"switch", "block"} =>
         /\ blkcnt <= request.count
         /\ blkcnt > 0 => bufAt = request.count - blkcnt /\ blknr = request.first + bufAt

\* There is a transfer only while the thread waits for one, or clears up after it.
InTransfer == dma # "off" => mmcAt \in Transferring

\* What a new transfer does not undo.
MmcKept == (mmcAt \in Active /\ ~astray /\ ~late) => {m \in moved : m[1] < bufAt} = Blocks(request, bufAt)

\* The blocks of this transfer and of those before it have moved, and no others.
Whole == moved = Blocks(request, bufAt + TransferBlocks)

\* Between two transfers the blocks of those done have moved, each to its place.
Between == (mmcAt \in {"switch", "block"} /\ ~astray /\ ~late) =>
    moved = Blocks(request, request.count - blkcnt)

\* Outside a transfer nothing is left of an interrupt; inside one exactly one tells of its end.
Interrupts ==
    ~late =>
        /\ mmcAt \notin Transferring =>
             irq = [up |-> FALSE, status |-> {}, enabled |-> {}, raised |-> {}]
        /\ dma # "off" => ~irq.up /\ irq.status = {} /\ irq.raised = {}
        /\ mmcAt = "wait" /\ dma = "off" => \E x \in DataInterrupts :
             IF irq.up THEN irq.status = {x} /\ irq.raised = {} ELSE irq.status = {} /\ irq.raised = {x}
        /\ mmcAt \in {"judge", "stop"} => ~irq.up
        /\ mmcAt = "judge" => irq.status = {} \/ irq.raised = {}
        /\ mmcAt = "judge" => \A x, y \in irq.status : x = y
        /\ mmcAt = "stop" => irq.status = {}
        /\ mmcAt = "stop" /\ err = "none" => dma = "off" /\ irq.raised = {}

\* That a transfer is complete is only believed of one that is.
Evidence ==
    (~late /\ ~astray) =>
        /\ mmcAt \in {"wait", "judge"} /\ "compl" \in irq.raised \cup irq.status => Whole
        /\ mmcAt = "stop" /\ err = "none" => Whole
        /\ mmcAt \in {"finish", "sent"} => Whole

\* After a command that went well the card is at rest, and after one that did not, err says so.
AtRest ==
    /\ mmcAt = "sent" => card.state = "tran"
    /\ mmcAt = "block" /\ blkcnt = 0 => card.state = "tran"
    /\ mmcAt = "failed" => err # "none"

\* What the thread, the interrupt and the transfer are to each other.
MmcShape == MmcTypes /\ RightPartition /\ MmcPosition /\ InTransfer /\ Interrupts /\ AtRest

\* What has moved so far.
MmcContents == MmcKept /\ Between /\ Evidence /\ SuccessIsMoved

\* The inductive invariant of the driver.
MmcIInv == MmcShape /\ MmcContents

---------------------------------------------------------------------------
(* Blocks of a request *)

\* Nothing moved is no blocks.
LEMMA NoBlocks == ASSUME NEW r PROVE Blocks(r, 0) = {}
  BY DEF Blocks

\* The blocks below the n-th of a longer beginning are the shorter one.
LEMMA BlocksBelow ==
  ASSUME NEW r, r.first \in Nat, NEW n \in Nat, NEW k \in Nat
  PROVE  {m \in Blocks(r, n + k) : m[1] < n} = Blocks(r, n)
  BY DEF Blocks

\* A transfer appends its blocks.
LEMMA BlocksAppended ==
  ASSUME NEW r, r.first \in Nat, NEW n \in Nat, NEW k \in Nat
  PROVE  Blocks(r, n) \cup {<<n + i, r.part, (r.first + n) + i>> : i \in 0 .. k - 1} = Blocks(r, n + k)
<1> DEFINE New == {<<n + i, r.part, (r.first + n) + i>> : i \in 0 .. k - 1}
<1>1. ASSUME NEW m \in Blocks(r, n) \cup New PROVE m \in Blocks(r, n + k)
  <2>1. CASE m \in Blocks(r, n)
    BY <2>1 DEF Blocks
  <2>2. CASE m \in New
    <3>1. PICK i \in 0 .. k - 1 : m = <<n + i, r.part, (r.first + n) + i>>
      BY <2>2
    <3>2. n + i \in 0 .. (n + k) - 1 /\ (r.first + n) + i = r.first + (n + i)
      OBVIOUS
    <3> QED
      BY <3>1, <3>2 DEF Blocks
  <2> QED
    BY <1>1, <2>1, <2>2
<1>2. ASSUME NEW m \in Blocks(r, n + k) PROVE m \in Blocks(r, n) \cup New
  <2>1. PICK j \in 0 .. (n + k) - 1 : m = <<j, r.part, r.first + j>>
    BY <1>2 DEF Blocks
  <2>2. CASE j < n
    BY <2>1, <2>2 DEF Blocks
  <2>3. CASE j >= n
    <3>1. j - n \in 0 .. k - 1 /\ n + (j - n) = j /\ (r.first + n) + (j - n) = r.first + j
      BY <2>3
    <3>2. m = <<n + (j - n), r.part, (r.first + n) + (j - n)>>
      BY <2>1, <3>1
    <3> QED
      BY <3>1, <3>2
  <2> QED
    BY <2>2, <2>3
<1> QED
  BY <1>1, <1>2

---------------------------------------------------------------------------
(* The invariant *)

\* A request that has not begun, and the card at rest.
LEMMA InitHolds == MmcInit => MmcIInv
<1> SUFFICES ASSUME MmcInit PROVE MmcIInv
  OBVIOUS
<1> USE DEF MmcInit, Active, Transferring
<1>1. MmcTypes
  BY DEF MmcTypes, Partitions
<1>2. RightPartition /\ MmcPosition /\ InTransfer /\ Interrupts /\ AtRest
  BY DEF RightPartition, MmcPosition, InTransfer, Interrupts, AtRest
<1>3. MmcContents
  BY DEF MmcContents, MmcKept, Between, Evidence, SuccessIsMoved
<1> QED
  BY <1>1, <1>2, <1>3 DEF MmcIInv, MmcShape

\* A transfer moves some of the blocks that are left.
LEMMA TransferFits == MmcTypes /\ blkcnt > 0 => TransferBlocks \in 1 .. blkcnt
  BY EmmcAssumption DEF MmcTypes, TransferBlocks

\* Each step keeps the shape.
LEMMA ShapeKept == MmcShape /\ MmcNext => MmcShape'
<1> SUFFICES ASSUME MmcShape, MmcNext PROVE MmcShape'
  OBVIOUS
<1> USE EmmcAssumption
    DEF MmcShape, MmcTypes, RightPartition, MmcPosition, InTransfer, Interrupts, AtRest, Active, Transferring,
        requestVars, tryVars
<1>1. ASSUME NEW r \in MmcRequests, MmcCall(r) PROVE MmcShape'
  BY <1>1 DEF MmcCall
<1>2. CASE SwitchPart
  <2>1. request.part \in Partitions
    BY DEF Partitions
  <2>2. card' \in [part : Partitions, state : {"tran", "data", "rcv"}] /\ cfg' \in Partitions
    BY <1>2, <2>1 DEF SwitchPart
  <2>3. astray' \in BOOLEAN /\ (~astray' => ~astray /\ cfg' = card'.part /\ cfg' = request.part)
    <3>1. CASE cfg = request.part
      BY <1>2, <3>1 DEF SwitchPart
    <3>2. CASE cfg # request.part
      <4>1. PICK switched \in BOOLEAN, reread \in BOOLEAN :
                   /\ card' = [card EXCEPT !.part = IF switched THEN request.part ELSE card.part]
                   /\ cfg' = IF reread THEN card'.part ELSE cfg
                   /\ astray' = (astray \/ ~(switched /\ reread))
        BY <1>2, <3>2 DEF SwitchPart
      <4>2. astray' \in BOOLEAN
        BY <4>1
      <4>3. ASSUME ~astray' PROVE ~astray /\ cfg' = card'.part /\ cfg' = request.part
        <5>1. ~astray /\ switched /\ reread
          BY <4>1, <4>3
        <5>2. card'.part = request.part
          BY <4>1, <5>1
        <5>3. QED BY <4>1, <5>1, <5>2
      <4>4. QED BY <4>2, <4>3
    <3>3. QED BY <3>1, <3>2
  <2>4. mmcAt = "switch" /\ mmcAt' = "block" /\ UNCHANGED <<request, blknr, blkcnt, bufAt, err, irq, dma, late>>
    BY <1>2 DEF SwitchPart
  <2> QED
    BY <2>2, <2>3, <2>4
<1>3. CASE NextTransfer
  BY <1>3 DEF NextTransfer
<1>4. CASE Command
  BY <1>4 DEF Command, Busy
<1>5. CASE DmaStart
  BY <1>5 DEF DmaStart
<1>6. CASE Woken
  BY <1>6 DEF Woken
<1>7. CASE TimedOut
  BY <1>7 DEF TimedOut
<1>8. CASE Judge
  BY <1>8 DEF Judge
<1>9. CASE DmaStop
  <2>1. /\ mmcAt = "stop" /\ dma' = "off" /\ mmcAt' = (IF err = "none" THEN "finish" ELSE "failed")
        /\ UNCHANGED <<request, blknr, blkcnt, bufAt, err, cfg, astray, late>>
    BY <1>9 DEF DmaStop
  <2>2. card' \in [part : Partitions, state : {"tran", "data", "rcv"}] /\ card'.part = card.part
    BY <1>9 DEF DmaStop
  <2>3. irq' = IF err = "none" THEN [irq EXCEPT !.enabled = {}] ELSE [irq EXCEPT !.enabled = {}, !.raised = {}]
    BY <1>9 DEF DmaStop
  <2>4. ~late => irq' = [up |-> FALSE, status |-> {}, enabled |-> {}, raised |-> {}]
    BY <2>1, <2>3
  <2>5. irq' \in [up : BOOLEAN, status : SUBSET DataInterrupts, enabled : SUBSET DataInterrupts,
                  raised : SUBSET DataInterrupts]
    BY <2>3
  <2> QED
    BY <2>1, <2>2, <2>4, <2>5
<1>10. CASE Finish
  BY <1>10 DEF Finish
<1>11. CASE Retry
  BY <1>11 DEF Retry, AfterPlain, AfterTuning, AfterHalving, Again, StopTrying
<1>12. CASE Sent
  <2>1. /\ mmcAt = "sent" /\ mmcAt' \in {"block", "end"}
        /\ UNCHANGED <<request, cfg, irq, dma, card, astray, late>>
    BY <1>12 DEF Sent
  <2>2. TransferBlocks \in 1 .. blkcnt /\ MaxPhysSegs \in Nat
    BY <2>1, TransferFits
  <2>3. CASE mmcAt' = "end"
    BY <1>12, <2>1, <2>3 DEF Sent
  <2>4. CASE mmcAt' = "block"
    <3>1. /\ blknr' = blknr + TransferBlocks /\ blkcnt' = blkcnt - TransferBlocks
          /\ bufAt' = bufAt + MaxPhysSegs
      BY <1>12, <2>4 DEF Sent
    <3>2. blkcnt' > 0 => TransferBlocks = MaxPhysSegs
      BY <3>1 DEF TransferBlocks
    <3>3. blknr' \in Nat /\ blkcnt' \in Nat /\ bufAt' \in Nat /\ MmcPosition'
      BY <2>1, <2>2, <2>4, <3>1, <3>2
    <3> QED
      BY <2>1, <2>4, <3>3
  <2> QED
    BY <2>1, <2>3, <2>4
<1>13. CASE MmcReturn
  BY <1>13 DEF MmcReturn
<1>14. CASE DmaEnds
  BY <1>14 DEF DmaEnds
<1>15. CASE DmaHangs
  BY <1>15 DEF DmaHangs
<1>16. CASE Interrupt
  BY <1>16 DEF Interrupt
<1> QED
  BY <1>1, <1>2, <1>3, <1>4, <1>5, <1>6, <1>7, <1>8, <1>9, <1>10, <1>11, <1>12, <1>13, <1>14,
     <1>15, <1>16 DEF MmcNext, MmcStep

\* What does not touch a block leaves the contents as they were, if it does not enter a place
\* that promises more.
LEMMA MmcUntouched ==
  ASSUME UNCHANGED <<request, blknr, blkcnt, bufAt, moved>>
  PROVE  /\ {m \in moved : m[1] < bufAt}' = {m \in moved : m[1] < bufAt}
         /\ TransferBlocks' = TransferBlocks
         /\ Whole' <=> Whole
  BY DEF TransferBlocks, Whole

\* Each step keeps what has moved.
LEMMA ContentsKept == MmcIInv /\ MmcNext => MmcContents'
<1> SUFFICES ASSUME MmcIInv, MmcNext PROVE MmcContents'
  OBVIOUS
<1>0. MmcShape /\ MmcShape' /\ MmcContents
  BY ShapeKept DEF MmcIInv
<1> USE DEF MmcContents, MmcKept, Between, Evidence, Active, Transferring, requestVars, tryVars
<1>1. ASSUME NEW r \in MmcRequests, MmcCall(r) PROVE MmcContents'
  BY <1>1, NoBlocks, EmmcAssumption DEF MmcCall, SuccessIsMoved
<1>2. CASE SwitchPart
  BY <1>2, <1>0 DEF SwitchPart, SuccessIsMoved
<1>3. CASE NextTransfer
  <2>1. mmcAt = "block" /\ mmcAt' \in {"send", "end"} /\ UNCHANGED <<request, blknr, blkcnt, bufAt, moved, card, astray, late>>
    BY <1>3 DEF NextTransfer
  <2>2. CASE mmcAt' = "send"
    <3>1. blkcnt > 0 /\ bufAt = request.count - blkcnt /\ bufAt \in Nat /\ request.first \in Nat
      BY <1>3, <1>0, <2>2, EmmcAssumption DEF NextTransfer, MmcShape, MmcTypes, MmcPosition
    <3>2. (~astray /\ ~late) => moved = Blocks(request, bufAt)
      BY <1>0, <2>1, <3>1
    <3>3. {m \in Blocks(request, bufAt) : m[1] < bufAt} = Blocks(request, bufAt)
      BY <3>1, BlocksBelow, bufAt + 0 = bufAt
    <3>4. MmcKept'
      BY <2>1, <3>2, <3>3
    <3> QED
      BY <2>1, <2>2, <3>4 DEF SuccessIsMoved
  <2>3. CASE mmcAt' = "end"
    <3>1. blkcnt = 0 /\ request.count \in Nat
      BY <1>3, <1>0, <2>3, EmmcAssumption DEF NextTransfer, MmcShape, MmcTypes
    <3>2. (~astray /\ ~late) => moved = Blocks(request, request.count) /\ card.state = "tran"
      BY <1>0, <2>1, <3>1 DEF MmcShape, AtRest
    <3> QED
      BY <2>1, <2>3, <3>2 DEF SuccessIsMoved, Blocks
  <2> QED
    BY <2>1, <2>2, <2>3
\* Steps between the sending of a command and the end of the transfer.
<1>4. ASSUME Command \/ DmaStart \/ Woken \/ TimedOut \/ DmaHangs \/ Interrupt PROVE MmcContents'
  <2>1. UNCHANGED <<request, blknr, blkcnt, bufAt, moved, astray>>
    BY <1>4 DEF Command, DmaStart, Woken, TimedOut, DmaHangs, Interrupt
  <2>2. {m \in moved : m[1] < bufAt}' = {m \in moved : m[1] < bufAt} /\ (Whole' <=> Whole)
    BY <2>1, MmcUntouched
  <2>3. ~late' => ~late
    BY <1>4, <1>0 DEF Command, DmaStart, Woken, TimedOut, DmaHangs, Interrupt, MmcShape, MmcTypes
  <2>4. CASE Command
    BY <1>0, <2>1, <2>2, <2>4 DEF Command, SuccessIsMoved
  <2>5. CASE DmaStart
    BY <1>0, <2>1, <2>2, <2>5 DEF DmaStart, SuccessIsMoved, MmcShape, MmcTypes, Interrupts
  <2>6. CASE Woken
    BY <1>0, <2>1, <2>2, <2>6 DEF Woken, SuccessIsMoved, MmcShape, MmcTypes
  <2>7. CASE TimedOut
    BY <1>0, <2>1, <2>2, <2>7 DEF TimedOut, SuccessIsMoved
  <2>8. CASE DmaHangs
    BY <1>0, <2>1, <2>2, <2>8 DEF DmaHangs, SuccessIsMoved
  <2>9. CASE Interrupt
    BY <1>0, <2>1, <2>2, <2>3, <2>9 DEF Interrupt, SuccessIsMoved, MmcShape, MmcTypes
  <2> QED
    BY <1>4, <2>4, <2>5, <2>6, <2>7, <2>8, <2>9
\* Steps that judge it.
<1>5. ASSUME Judge \/ DmaStop \/ Finish \/ Retry \/ MmcReturn PROVE MmcContents'
  <2>1. UNCHANGED <<request, blknr, blkcnt, bufAt, moved, astray, late>>
    BY <1>5 DEF Judge, DmaStop, Finish, Retry, MmcReturn
  <2>2. {m \in moved : m[1] < bufAt}' = {m \in moved : m[1] < bufAt} /\ (Whole' <=> Whole)
    BY <2>1, MmcUntouched
  <2>3. CASE Judge
    <3>1. irq.status \in SUBSET DataInterrupts
      BY <1>0 DEF MmcShape, MmcTypes
    <3>2. mmcAt = "judge" /\ mmcAt' = "stop"
      BY <2>3 DEF Judge
    <3>3. irq.status = {} \/ irq.status = {"compl"} \/ irq.status \cap {"dattmo", "datcrc"} # {}
      BY <3>1 DEF DataInterrupts
    <3>4. "datcrc" \in irq.status /\ "dattmo" \notin irq.status
            => irq.status \cap {"dattmo", "datcrc"} = {"datcrc"}
      OBVIOUS
    <3>5. irq.status = {"compl"} => irq.status \cap {"dattmo", "datcrc"} = {}
      OBVIOUS
    <3>6. err' = "none" => "compl" \in irq.status
      BY <2>3, <3>3, <3>4, <3>5 DEF Judge
    <3> QED
      BY <1>0, <2>1, <2>2, <3>2, <3>6 DEF SuccessIsMoved
  <2>4. CASE DmaStop
    BY <1>0, <2>1, <2>2, <2>4 DEF DmaStop, SuccessIsMoved
  <2>5. CASE Finish
    BY <1>0, <2>1, <2>2, <2>5 DEF Finish, SuccessIsMoved
  <2>6. CASE Retry
    <3>1. mmcAt = "failed" /\ mmcAt' \in {"send", "end"} /\ (mmcAt' = "end" => err' # "none")
      BY <1>0, <2>6 DEF Retry, AfterPlain, AfterTuning, AfterHalving, Again, StopTrying, MmcShape, AtRest
    <3> QED
      BY <1>0, <2>1, <2>2, <3>1 DEF SuccessIsMoved
  <2>7. CASE MmcReturn
    BY <2>7 DEF MmcReturn, SuccessIsMoved
  <2> QED
    BY <1>5, <2>3, <2>4, <2>5, <2>6, <2>7
<1>6. CASE Sent
  <2>1. /\ mmcAt = "sent" /\ mmcAt' \in {"block", "end"} /\ (mmcAt' = "end" => err' = "timeout")
        /\ UNCHANGED <<request, moved, astray, late>>
    BY <1>6 DEF Sent
  <2>2. ASSUME mmcAt' = "block", ~astray, ~late PROVE moved = Blocks(request, request.count - blkcnt')
    <3>1. blkcnt' = blkcnt - TransferBlocks
      BY <1>6, <2>2 DEF Sent
    <3>2. /\ bufAt = request.count - blkcnt /\ request.count \in Nat /\ blkcnt \in Nat
          /\ TransferBlocks \in Nat
      BY <1>0, <2>1, TransferFits, EmmcAssumption DEF MmcShape, MmcTypes, MmcPosition
    <3>3. request.count - blkcnt' = bufAt + TransferBlocks
      BY <3>1, <3>2
    <3> QED
      BY <1>0, <2>1, <2>2, <3>3 DEF Whole
  <2> QED
    BY <2>1, <2>2 DEF SuccessIsMoved
<1>7. CASE DmaEnds
  <2>1. mmcAt \in Transferring /\ UNCHANGED <<mmcAt, request, blknr, blkcnt, bufAt, err, astray, late>>
    BY <1>7, <1>0 DEF DmaEnds, MmcShape, MmcTypes, InTransfer
  <2>2. PICK interrupt \in DataInterrupts :
          /\ irq' = [irq EXCEPT !.raised = @ \cup {interrupt}]
          /\ moved' = {m \in moved : m[1] < bufAt}
                      \cup {<<bufAt + i, card.part, blknr + i>> :
                              i \in IF interrupt = "compl" THEN 0 .. TransferBlocks - 1 ELSE {}}
    BY <1>7 DEF DmaEnds
  <2>3. /\ bufAt \in Nat /\ request.first \in Nat /\ TransferBlocks \in Nat
        /\ blknr = request.first + bufAt
    BY <1>0, <2>1, TransferFits, EmmcAssumption DEF MmcShape, MmcTypes, MmcPosition
  <2>4. TransferBlocks' = TransferBlocks
    BY <2>1 DEF TransferBlocks
  <2>5. ASSUME ~astray, ~late
        PROVE  {m \in moved' : m[1] < bufAt} = Blocks(request, bufAt) /\ (interrupt = "compl" => Whole')
    <3>1. {m \in moved : m[1] < bufAt} = Blocks(request, bufAt)
      BY <1>0, <2>1, <2>5
    <3>2. card.part = request.part
      BY <1>0, <2>1, <2>5 DEF MmcShape, RightPartition
    <3>3. CASE interrupt = "compl"
      <4>1. moved' = Blocks(request, bufAt + TransferBlocks)
        BY <2>2, <2>3, <3>1, <3>2, <3>3, BlocksAppended
      <4>2. Whole'
        BY <2>1, <2>4, <4>1 DEF Whole
      <4> QED
        BY <2>3, <4>1, <4>2, BlocksBelow
    <3>4. CASE interrupt # "compl"
      <4>1. moved' = Blocks(request, bufAt)
        BY <2>2, <3>1, <3>4
      <4> QED
        BY <3>1, <3>4, <4>1
    <3> QED
      BY <3>3, <3>4
  <2>6. ASSUME ~late, interrupt # "compl" PROVE "compl" \notin irq'.raised \cup irq'.status
    BY <1>0, <1>7, <2>2, <2>6 DEF DmaEnds, MmcShape, MmcTypes, Interrupts
  <2>7. ~late => ~(mmcAt = "stop" /\ err = "none")
    BY <1>0, <1>7 DEF DmaEnds, MmcShape, Interrupts
  <2> QED
    BY <2>1, <2>5, <2>6, <2>7 DEF SuccessIsMoved
<1> QED
  BY <1>1, <1>2, <1>3, <1>4, <1>5, <1>6, <1>7 DEF MmcNext, MmcStep

---------------------------------------------------------------------------
(* The theorems *)

\* The invariant holds in every state, whatever faults.
THEOREM Invariance == MmcSpec => []MmcIInv
<1>1. MmcIInv /\ [MmcNext]_mmcVars => MmcIInv'
  <2> SUFFICES ASSUME MmcIInv, [MmcNext]_mmcVars PROVE MmcIInv'
    OBVIOUS
  <2>1. CASE MmcNext
    BY <2>1, ShapeKept, ContentsKept DEF MmcIInv
  <2>2. CASE UNCHANGED mmcVars
    BY <2>2 DEF mmcVars, MmcIInv, MmcShape, MmcTypes, RightPartition, MmcPosition, InTransfer, Interrupts, AtRest,
                MmcContents, MmcKept, Between, Evidence, Whole, TransferBlocks, SuccessIsMoved
  <2> QED
    BY <2>1, <2>2
<1> QED
  BY InitHolds, <1>1, PTL DEF MmcSpec

\* When a read or a write reports success, every block of it has moved between its place in
\* the buffer and its place in the partition, through any number of errors, tunings and
\* retries (SuccessIsMoved; mmc_dev_bread, mmc_dev_bwrite, msdc_dma_transfer).
THEOREM SuccessMeansMoved == MmcSpec => []SuccessIsMoved
<1>1. MmcIInv => SuccessIsMoved
  BY DEF MmcIInv, MmcContents
<1> QED
  BY Invariance, <1>1, PTL

---------------------------------------------------------------------------
(* The block device adapter *)

---------------------------------------------------------------------------
(* Blocks *)

\* A number is its quotient times the divisor and its remainder, in one way only.
LEMMA DivisionFacts ==
    ASSUME NEW n \in Nat \ {0}, NEW a \in Nat
    PROVE  /\ a \div n \in Nat
           /\ a % n \in 0 .. n - 1
           /\ a = n * (a \div n) + (a % n)
OBVIOUS

\* Quotient and remainder are unique.
LEMMA DivisionUnique ==
    ASSUME NEW n \in Nat \ {0}, NEW q \in Int, NEW r \in 0 .. n - 1, NEW s \in Int, NEW t \in 0 .. n - 1,
           n * q + r = n * s + t
    PROVE  q = s /\ r = t
<1>1. ~ (q > s)
  <2> SUFFICES ASSUME q >= s + 1 PROVE FALSE
    OBVIOUS
  <2>1. n * q >= n * (s + 1)
    OBVIOUS
  <2>2. QED BY <2>1
<1>2. ~ (s > q)
  <2> SUFFICES ASSUME s >= q + 1 PROVE FALSE
    OBVIOUS
  <2>1. n * s >= n * (q + 1)
    OBVIOUS
  <2>2. QED BY <2>1
<1>3. QED BY <1>1, <1>2

\* Where a block begins.
LEMMA AlignedFacts ==
    ASSUME NEW a \in Nat
    PROVE  /\ Aligned(a) \in Nat
           /\ Aligned(a) <= a
           /\ a < Aligned(a) + BlockSize
           /\ a % BlockSize = a - Aligned(a)
           /\ Aligned(a) = BlockSize * (a \div BlockSize)
           /\ a \div BlockSize \in Nat
<1>1. BlockSize \in Nat \ {0}
  BY BlockDevAssumption
<1>2. a \div BlockSize \in Nat /\ a % BlockSize \in 0 .. BlockSize - 1 /\ a = BlockSize * (a \div BlockSize) + (a % BlockSize)
  BY <1>1, DivisionFacts
<1>3. BlockSize * (a \div BlockSize) \in Nat
  BY <1>1, <1>2
<1>4. QED
  BY <1>1, <1>2, <1>3 DEF Aligned

\* A block is the addresses from its beginning on.
LEMMA SameBlock ==
    ASSUME NEW a \in Nat, NEW q \in Nat
    PROVE  Aligned(a) = BlockSize * q <=> a \in BlockSize * q .. BlockSize * q + BlockSize - 1
<1>1. BlockSize \in Nat \ {0}
  BY BlockDevAssumption
<1>2. BlockSize * q \in Nat
  BY <1>1
<1>3. ASSUME a \in BlockSize * q .. BlockSize * q + BlockSize - 1 PROVE Aligned(a) = BlockSize * q
  <2>1. a - BlockSize * q \in 0 .. BlockSize - 1 /\ a = BlockSize * q + (a - BlockSize * q)
    BY <1>1, <1>2, <1>3
  <2>2. a % BlockSize \in 0 .. BlockSize - 1 /\ a = BlockSize * (a \div BlockSize) + (a % BlockSize) /\ a \div BlockSize \in Nat
    BY <1>1, DivisionFacts
  <2>3. a \div BlockSize = q
    BY <1>1, <2>1, <2>2, DivisionUnique
  <2>4. QED BY <2>3, AlignedFacts
<1>4. ASSUME Aligned(a) = BlockSize * q PROVE a \in BlockSize * q .. BlockSize * q + BlockSize - 1
  <2>1. Aligned(a) \in Nat /\ Aligned(a) <= a /\ a < Aligned(a) + BlockSize
    BY AlignedFacts
  <2>2. a \in Aligned(a) .. Aligned(a) + BlockSize - 1
    BY <1>1, <2>1
  <2>3. QED BY <1>4, <2>2
<1>5. QED
  BY <1>3, <1>4

\* Blocks are in the order of their addresses, and do not overlap.
LEMMA BlocksApart ==
    ASSUME NEW a \in Nat, NEW b \in Nat, a <= b
    PROVE  /\ Aligned(a) <= Aligned(b)
           /\ Aligned(a) # Aligned(b) => Aligned(a) + BlockSize <= Aligned(b)
           /\ (Aligned(b) - Aligned(a)) \div BlockSize \in Nat
           /\ BlockSize * ((Aligned(b) - Aligned(a)) \div BlockSize) = Aligned(b) - Aligned(a)
<1> DEFINE q == a \div BlockSize
           s == b \div BlockSize
<1>1. BlockSize \in Nat \ {0}
  BY BlockDevAssumption
<1>2. /\ q \in Nat /\ s \in Nat /\ Aligned(a) = BlockSize * q /\ Aligned(b) = BlockSize * s
      /\ Aligned(a) \in Nat /\ Aligned(b) \in Nat
      /\ a < Aligned(a) + BlockSize /\ b < Aligned(b) + BlockSize /\ Aligned(a) <= a /\ Aligned(b) <= b
  BY AlignedFacts
<1> HIDE DEF q, s
<1>3. q <= s
  <2> SUFFICES ASSUME q >= s + 1 PROVE FALSE
    BY <1>2
  <2>1. BlockSize * q >= BlockSize * (s + 1)
    BY <1>1, <1>2
  <2>2. BlockSize * (s + 1) = BlockSize * s + BlockSize
    BY <1>1, <1>2
  <2>3. QED BY <1>1, <1>2, <2>1, <2>2
<1>4. BlockSize * (s - q) = BlockSize * s - BlockSize * q /\ BlockSize * (s - q) \in Nat /\ s - q \in Nat
  BY <1>1, <1>2, <1>3
<1>5. (BlockSize * (s - q)) \div BlockSize = s - q
  <2> DEFINE d == BlockSize * (s - q)
  <2>1. d \in Nat /\ d = BlockSize * (s - q) + 0 /\ 0 \in 0 .. BlockSize - 1
    BY <1>1, <1>4
  <2>2. d \div BlockSize \in Nat /\ d % BlockSize \in 0 .. BlockSize - 1 /\ d = BlockSize * (d \div BlockSize) + (d % BlockSize)
    BY <1>1, <2>1, DivisionFacts
  <2> HIDE DEF d
  <2>3. d \div BlockSize = s - q
    BY <1>1, <1>4, <2>1, <2>2, DivisionUnique
  <2>4. QED BY <2>3 DEF d
<1>6. q # s => BlockSize * (s - q) >= BlockSize
  <2>1. ASSUME q # s PROVE s - q >= 1
    BY <1>2, <1>3, <2>1
  <2>2. s - q >= 1 => BlockSize * (s - q) >= BlockSize * 1
    BY <1>1, <1>4
  <2>3. QED BY <1>1, <2>1, <2>2
<1>7. QED
  BY <1>1, <1>2, <1>3, <1>4, <1>5, <1>6
---------------------------------------------------------------------------
(* The invariant *)

\* The steps at which a caller has the lock.
Holding == {"head", "headDone", "middle", "pieces", "tail", "tailDone", "release"}

\* What a caller's request can have come to.
Jobs == [request : Requests, step : Holding \cup {"start", "done", "failed"},
         pos : Nat, left : Nat, piece : Nat, rest : BOOLEAN]

\* Who is at work has the lock.
BlockTypes ==
    /\ device = [a \in Addresses |-> device[a]]
    /\ partBuf = [k \in 0 .. BlockSize - 1 |-> partBuf[k]]
    /\ got = [c \in Callers |-> got[c]]
    /\ job \in [Callers -> Jobs]
    /\ partBufFreed \in BOOLEAN
    /\ partLock \in Callers \cup {Nobody}
    /\ \A c \in Callers : partLock = c <=> job[c].step \in Holding
    /\ partBufFreed => partLock # Nobody
    /\ \A c \in Callers : job[c].step = "start" => job[c].pos = 0 /\ ~job[c].rest

\* src or dst has come to the end of the whole blocks; after a rest it has stayed before it.
AtLastBlock(c) ==
    IF job[c].rest THEN Position(c) < Aligned(RangeEnd(c)) ELSE Position(c) = Aligned(RangeEnd(c))

\* How far the request is at each step.
Progress(c) ==
    LET step == job[c].step
    IN  /\ step \in {"head", "headDone", "middle"} => ~job[c].rest
        /\ step \in {"head", "headDone"} => At(c) % BlockSize # 0 /\ job[c].pos = 0
        /\ step = "middle" => job[c].pos = IF At(c) % BlockSize = 0 THEN 0 ELSE HeadLength(c)
        /\ step = "pieces" =>
             /\ job[c].piece > 0
             /\ Aligned(Position(c)) = Position(c)
             /\ job[c].left > 0 => ~job[c].rest /\ Position(c) + BlockSize * job[c].left = Aligned(RangeEnd(c))
             /\ job[c].left = 0 => AtLastBlock(c)
        /\ step \in {"tail", "tailDone"} => RangeEnd(c) % BlockSize # 0 /\ AtLastBlock(c)
        /\ step = "headDone" => \A k \in 0 .. BlockSize - 1 : partBuf[k] = device[Aligned(At(c)) + k]
        /\ step = "tailDone" => \A k \in 0 .. BlockSize - 1 : partBuf[k] = device[Aligned(RangeEnd(c)) + k]

\* How many bytes from the first on are where they belong.
Moved(c) ==
    IF job[c].step = "release" THEN Sure(c)
    ELSE IF job[c].rest THEN Aligned(RangeEnd(c)) - At(c)
    ELSE job[c].pos

\* What the requests that are done mean stands everywhere on the device.
Kept == \A a \in Addresses : meant[a] \in {Anything, device[a]}

\* While c works it stands outside c's range, and c's bytes have come as far as Moved says.
Contents(c) ==
    IF Writes(c)
    THEN \A a \in Addresses :
            /\ a \in At(c) .. At(c) + Moved(c) - 1 => device[a] = <<c, a - At(c)>>
            /\ a \notin At(c) .. RangeEnd(c) - 1 => meant[a] \in {Anything, device[a]}
    ELSE Kept /\ \A k \in 0 .. Moved(c) - 1 : k \in DOMAIN got[c] /\ got[c][k] = device[At(c) + k]

\* The inductive invariant of the adapter: it says nothing while the device is locked for
\* good, after mt_part_buf was freed with the lock held.
BlockInv ==
    /\ BlockTypes
    /\ partLock = Nobody => Kept
    /\ \A c \in Callers : partLock = c /\ ~partBufFreed => Progress(c) /\ Contents(c)

\* A request and its range.
LEMMA Requested ==
    ASSUME BlockTypes, NEW c \in Callers
    PROVE  /\ At(c) \in Nat /\ Size(c) \in Nat \ {0} /\ RangeEnd(c) \in Nat
           /\ RangeEnd(c) = At(c) + Size(c) /\ RangeEnd(c) <= DeviceSize
           /\ Position(c) \in Nat /\ job[c].pos \in Nat /\ job[c].left \in Nat /\ job[c].piece \in Nat
           /\ Position(c) = At(c) + job[c].pos
           /\ job[c].rest \in BOOLEAN
           /\ Writes(c) \in BOOLEAN
           /\ DeviceSize \in Nat /\ BlockSize \in Nat \ {0}
<1>1. job[c] \in Jobs
  BY DEF BlockTypes
<1>2. /\ job[c].request \in Requests /\ job[c].rest \in BOOLEAN
      /\ job[c].pos \in Nat /\ job[c].left \in Nat /\ job[c].piece \in Nat
  BY <1>1 DEF Jobs
<1>3. PICK r \in Requests : r = job[c].request
  BY <1>2
<1>4. /\ At(c) \in Nat /\ Size(c) \in Nat \ {0} /\ At(c) + Size(c) <= DeviceSize
      /\ Writes(c) \in BOOLEAN /\ DeviceSize \in Nat /\ BlockSize \in Nat \ {0}
  BY <1>3, BlockDevAssumption DEF At, Size, Writes
<1>5. RangeEnd(c) = At(c) + Size(c) /\ Position(c) = At(c) + job[c].pos
  BY DEF RangeEnd, Position
<1>6. QED
  BY <1>2, <1>4, <1>5

\* The part of the first block.
LEMMA FirstPart ==
    ASSUME BlockTypes, NEW c \in Callers
    PROVE  /\ HeadLength(c) \in 1 .. Size(c)
           /\ (At(c) % BlockSize) + HeadLength(c) <= BlockSize
           /\ HeadLength(c) # Size(c) => At(c) + HeadLength(c) = Aligned(At(c)) + BlockSize
<1>1. /\ Aligned(At(c)) \in Nat /\ Aligned(At(c)) <= At(c) /\ At(c) < Aligned(At(c)) + BlockSize
      /\ At(c) % BlockSize = At(c) - Aligned(At(c))
  BY Requested, AlignedFacts
<1>2. QED
  BY <1>1, Requested DEF HeadLength, Shorter

---------------------------------------------------------------------------
(* The steps *)

\* A step of the holder, which leaves the others' jobs and its own request alone.
LEMMA HolderMoves ==
    ASSUME BlockTypes, NEW c \in Callers, job[c].step \in Holding,
           NEW j \in Jobs, j.request = job[c].request, job' = [job EXCEPT ![c] = j],
           partLock' = IF j.step \in Holding THEN c ELSE Nobody,
           j.step \in Holding \cup {"done", "failed"},
           device' = [a \in Addresses |-> device'[a]],
           partBuf' = [k \in 0 .. BlockSize - 1 |-> partBuf'[k]],
           got' = [d \in Callers |-> got'[d]],
           partBufFreed' = FALSE
    PROVE  /\ BlockTypes'
           /\ job'[c] = j
           /\ At(c)' = At(c) /\ Size(c)' = Size(c) /\ RangeEnd(c)' = RangeEnd(c)
           /\ HeadLength(c)' = HeadLength(c) /\ Position(c)' = At(c) + j.pos /\ (Writes(c)' <=> Writes(c))
<1>1. job' \in [Callers -> Jobs] /\ job'[c] = j /\ \A d \in Callers \ {c} : job'[d] = job[d]
  BY DEF BlockTypes
<1>2. \A d \in Callers \ {c} : job[d].step \notin Holding
  BY DEF BlockTypes
<1>3. \A d \in Callers : partLock' = d <=> job'[d].step \in Holding
  BY <1>1, <1>2, BlockDevAssumption
<1>4. BlockTypes'
  BY <1>1, <1>3 DEF BlockTypes, Addresses, Holding
<1>5. QED
  BY <1>1, <1>4 DEF At, Size, RangeEnd, HeadLength, Position, Writes

\* The holder's own part of the invariant is all there is while the lock is held.
LEMMA HolderAlone ==
    ASSUME NEW c \in Callers, BlockTypes', partLock' = c, Progress(c)', Contents(c)'
    PROVE  BlockInv'
BY BlockDevAssumption DEF BlockInv

\* A caller takes the lock, with nothing moved yet.
LEMMA AcquireKeeps ==
    ASSUME BlockInv, NEW c \in Callers, Acquire(c)
    PROVE  BlockInv'
<1> DEFINE j == [job[c] EXCEPT !.step = IF At(c) % BlockSize # 0 THEN "head" ELSE "middle"]
<1>1. /\ job[c].step = "start" /\ partLock = Nobody /\ ~partBufFreed /\ partLock' = c
      /\ UNCHANGED <<device, partBuf, partBufFreed, got, meant>>
      /\ job' = [job EXCEPT ![c] = j]
  BY DEF Acquire, GoTo, deviceVars
<1>2. /\ j \in Jobs /\ j.request = job[c].request /\ j.pos = 0 /\ ~j.rest
      /\ j.step = IF At(c) % BlockSize # 0 THEN "head" ELSE "middle"
      /\ job[c] \in Jobs
  <2>1. job[c] \in Jobs /\ job[c].pos = 0 /\ ~job[c].rest
    BY <1>1 DEF BlockInv, BlockTypes
  <2>2. (IF At(c) % BlockSize # 0 THEN "head" ELSE "middle") \in Holding
    BY DEF Holding
  <2>3. j \in Jobs /\ j.request = job[c].request /\ j.pos = job[c].pos /\ j.rest = job[c].rest
        /\ j.step = IF At(c) % BlockSize # 0 THEN "head" ELSE "middle"
    BY <2>1, <2>2 DEF Jobs
  <2>4. QED BY <2>1, <2>3
<1> HIDE DEF j
<1>3. job' \in [Callers -> Jobs] /\ job'[c] = j /\ \A d \in Callers \ {c} : job'[d] = job[d]
  BY <1>1, <1>2 DEF BlockInv, BlockTypes
<1>4. BlockTypes'
  BY <1>1, <1>2, <1>3, BlockDevAssumption DEF BlockInv, BlockTypes, Addresses, Holding
<1>5. At(c)' = At(c) /\ (Writes(c)' <=> Writes(c)) /\ RangeEnd(c)' = RangeEnd(c)
  BY <1>2, <1>3 DEF At, Writes, RangeEnd, Size
<1>6. Progress(c)'
  BY <1>2, <1>3, <1>5 DEF Progress
<1>7. Moved(c)' = 0
  BY <1>2, <1>3 DEF Moved
<1>8. Kept'
  BY <1>1 DEF BlockInv, Kept
<1>9. At(c) \in Nat
  BY Requested DEF BlockInv
<1>10. Contents(c)'
  BY <1>5, <1>7, <1>8, <1>9 DEF Contents, Kept
<1>11. QED BY <1>1, <1>4, <1>6, <1>10, HolderAlone

\* A step of the holder that changes neither the device nor how far the request has come.
LEMMA NothingMoved ==
    ASSUME BlockInv, NEW c \in Callers, partLock = c, ~partBufFreed, UNCHANGED <<device, got, meant>>,
           At(c)' = At(c), RangeEnd(c)' = RangeEnd(c), Writes(c)' <=> Writes(c), Moved(c)' = Moved(c)
    PROVE  Contents(c)'
BY DEF BlockInv, Contents, Kept

\* The first or the last block is read into mt_part_buf, and stays the same there and on
\* the device while the lock is held.
LEMMA ReadBlockKeeps ==
    ASSUME BlockInv, NEW c \in Callers,
           ReadBlock(c, "head", "headDone") \/ ReadBlock(c, "tail", "tailDone")
    PROVE  BlockInv'
<1> DEFINE j == [job[c] EXCEPT !.step = IF job[c].step = "head" THEN "headDone" ELSE "tailDone"]
           from == Aligned(IF job[c].step = "head" THEN At(c) ELSE RangeEnd(c))
<1>1. /\ partLock = c /\ job[c].step \in {"head", "tail"} /\ ~partBufFreed
      /\ partBuf' = [k \in DOMAIN partBuf |-> device[from + k]]
      /\ UNCHANGED <<device, partBufFreed, partLock, got, meant>>
      /\ job' = [job EXCEPT ![c] = j]
  BY DEF ReadBlock, Step, GoTo
<1>2. /\ j \in Jobs /\ j.request = job[c].request /\ j.pos = job[c].pos /\ j.rest = job[c].rest
      /\ j.step = IF job[c].step = "head" THEN "headDone" ELSE "tailDone"
  BY <1>1 DEF BlockInv, BlockTypes, Jobs, Holding
<1> HIDE DEF j
<1>3. partBuf' = [k \in 0 .. BlockSize - 1 |-> device[from + k]]
  BY <1>1 DEF BlockInv, BlockTypes
<1>4. device' = [a \in Addresses |-> device'[a]] /\ got' = [d \in Callers |-> got'[d]]
  BY <1>1 DEF BlockInv, BlockTypes
<1>5. /\ BlockTypes' /\ job'[c] = j
      /\ At(c)' = At(c) /\ RangeEnd(c)' = RangeEnd(c) /\ Position(c)' = At(c) + j.pos /\ (Writes(c)' <=> Writes(c))
      /\ Size(c)' = Size(c)
  <2>1. BlockTypes /\ job[c].step \in Holding /\ j.step \in Holding
    BY <1>1, <1>2 DEF BlockInv, Holding
  <2>2. partLock' = c /\ partBufFreed' = FALSE /\ partBuf' = [k \in 0 .. BlockSize - 1 |-> partBuf'[k]]
    BY <1>1, <1>3 DEF BlockInv, BlockTypes
  <2>3. QED BY <1>1, <1>2, <1>4, <2>1, <2>2, HolderMoves
<1>6. Position(c)' = Position(c) /\ (AtLastBlock(c)' <=> AtLastBlock(c))
  BY <1>2, <1>5 DEF AtLastBlock, Position, Aligned
<1>7. Progress(c)
  BY <1>1 DEF BlockInv
<1>8. Progress(c)'
  BY <1>1, <1>2, <1>3, <1>5, <1>6, <1>7 DEF Progress, Aligned
<1>9. Moved(c)' = Moved(c)
  BY <1>1, <1>2, <1>5 DEF Moved, Aligned
<1>10. Contents(c)'
  BY <1>1, <1>5, <1>9, NothingMoved
<1>11. QED BY <1>1, <1>5, <1>8, <1>10, HolderAlone

\* The whole blocks are through: how far the request has come is what Sure will say, if
\* there is no last block to go through mt_part_buf.
LEMMA MiddleEnds ==
    ASSUME BlockInv, NEW c \in Callers, partLock = c, ~partBufFreed,
           AtLastBlock(c) \/ (~job[c].rest /\ Position(c) = RangeEnd(c)),
           job[c].step \in {"middle", "pieces"}, GoTo(c, AfterMiddle(c)),
           UNCHANGED <<deviceVars, partLock, got, meant>>
    PROVE  BlockInv'
<1> DEFINE j == [job[c] EXCEPT !.step = AfterMiddle(c)]
<1>1. job' = [job EXCEPT ![c] = j] /\ UNCHANGED <<device, partBuf, partBufFreed, partLock, got, meant>>
  BY DEF GoTo, deviceVars
<1>2. /\ j \in Jobs /\ j.request = job[c].request /\ j.pos = job[c].pos /\ j.rest = job[c].rest
      /\ j.step = AfterMiddle(c) /\ j.step \in {"tail", "release"}
  BY DEF BlockInv, BlockTypes, Jobs, Holding, AfterMiddle
<1> HIDE DEF j
<1>3. /\ BlockTypes' /\ job'[c] = j
      /\ At(c)' = At(c) /\ RangeEnd(c)' = RangeEnd(c) /\ Position(c)' = At(c) + j.pos /\ (Writes(c)' <=> Writes(c))
      /\ Size(c)' = Size(c)
  <2>1. BlockTypes /\ job[c].step \in Holding /\ j.step \in Holding
    BY <1>2 DEF BlockInv, Holding
  <2>2. /\ partLock' = c /\ partBufFreed' = FALSE /\ partBuf' = [k \in 0 .. BlockSize - 1 |-> partBuf'[k]]
        /\ device' = [a \in Addresses |-> device'[a]] /\ got' = [d \in Callers |-> got'[d]]
    BY <1>1 DEF BlockInv, BlockTypes
  <2>3. QED BY <1>1, <1>2, <2>1, <2>2, HolderMoves
<1>4. Position(c)' = Position(c) /\ (AtLastBlock(c)' <=> AtLastBlock(c))
  BY <1>2, <1>3 DEF AtLastBlock, Position, Aligned
<1>5. /\ At(c) \in Nat /\ Size(c) \in Nat \ {0} /\ RangeEnd(c) = At(c) + Size(c) /\ Position(c) = At(c) + job[c].pos
      /\ job[c].pos \in Nat /\ job[c].rest \in BOOLEAN
  BY Requested DEF BlockInv
<1>6. /\ Aligned(RangeEnd(c)) \in Nat /\ Aligned(RangeEnd(c)) <= RangeEnd(c)
      /\ RangeEnd(c) % BlockSize = RangeEnd(c) - Aligned(RangeEnd(c))
  BY <1>5, AlignedFacts
<1>7. CASE TailWanted(c)
  <2>1. j.step = "tail" /\ RangeEnd(c) % BlockSize # 0 /\ AtLastBlock(c)
    BY <1>2, <1>5, <1>7 DEF AfterMiddle, TailWanted
  <2>2. Progress(c)'
    BY <1>3, <1>4, <2>1 DEF Progress
  <2>3. Moved(c)' = Moved(c)
    BY <1>2, <1>3, <2>1 DEF Moved, Aligned
  <2>4. QED BY <1>1, <1>3, <2>2, <2>3, NothingMoved, HolderAlone
<1>8. CASE ~ TailWanted(c)
  <2>1. j.step = "release"
    BY <1>2, <1>8 DEF AfterMiddle
  <2>2. job[c].rest => Position(c) < RangeEnd(c) /\ RangeEnd(c) % BlockSize = 0
    BY <1>5, <1>6, <1>8 DEF TailWanted, AtLastBlock
  <2>3. Moved(c) = Size(c)
    <3>1. CASE job[c].rest
      <4>1. Moved(c) = Aligned(RangeEnd(c)) - At(c)
        BY <3>1 DEF Moved
      <4>2. Aligned(RangeEnd(c)) = RangeEnd(c)
        BY <1>5, <1>6, <2>2, <3>1
      <4>3. QED BY <1>5, <4>1, <4>2
    <3>2. CASE ~job[c].rest
      <4>1. Position(c) = RangeEnd(c)
        BY <1>5, <1>6, <1>8, <3>2 DEF TailWanted, AtLastBlock
      <4>2. QED BY <1>5, <3>2, <4>1 DEF Moved
    <3>3. QED BY <3>1, <3>2
  <2>4. Moved(c)' = Size(c)
    BY <1>2, <1>3, <2>1, <2>2 DEF Moved, Sure
  <2>5. Progress(c)'
    BY <1>3, <2>1 DEF Progress
  <2>6. QED BY <1>1, <1>3, <2>3, <2>4, <2>5, NothingMoved, HolderAlone
<1>9. QED BY <1>7, <1>8
\* Where the whole blocks begin: at a block, or behind the range when it is all in the first.
LEMMA MiddleBegins ==
    ASSUME BlockInv, NEW c \in Callers, partLock = c, ~partBufFreed, job[c].step = "middle"
    PROVE  /\ ~job[c].rest
           /\ Position(c) = RangeEnd(c) \/ Aligned(Position(c)) = Position(c)
           /\ Position(c) <= RangeEnd(c)
<1>1. /\ At(c) \in Nat /\ Size(c) \in Nat \ {0} /\ RangeEnd(c) = At(c) + Size(c) /\ Position(c) = At(c) + job[c].pos
      /\ BlockSize \in Nat \ {0}
  BY Requested DEF BlockInv
<1>2. /\ ~job[c].rest
      /\ job[c].pos = IF At(c) % BlockSize = 0 THEN 0 ELSE HeadLength(c)
  BY DEF BlockInv, Progress
<1>3. /\ Aligned(At(c)) \in Nat /\ At(c) % BlockSize = At(c) - Aligned(At(c))
      /\ Aligned(At(c)) = BlockSize * (At(c) \div BlockSize) /\ At(c) \div BlockSize \in Nat
  BY <1>1, AlignedFacts
<1>4. /\ HeadLength(c) \in 1 .. Size(c)
      /\ HeadLength(c) # Size(c) => At(c) + HeadLength(c) = Aligned(At(c)) + BlockSize
  BY FirstPart DEF BlockInv
<1>5. CASE At(c) % BlockSize = 0
  <2>1. job[c].pos = 0
    BY <1>2, <1>5
  <2>2. Position(c) = At(c)
    BY <1>1, <2>1
  <2>3. At(c) - Aligned(At(c)) = 0
    BY <1>3, <1>5
  <2>4. Aligned(At(c)) = At(c)
    BY <1>1, <1>3, <2>3
  <2>5. Aligned(Position(c)) = Position(c)
    BY <2>2, <2>4, Zenon
  <2>6. QED BY <1>1, <1>2, <2>2, <2>5
<1>6. CASE At(c) % BlockSize # 0 /\ HeadLength(c) = Size(c)
  BY <1>1, <1>2, <1>6
<1>7. CASE At(c) % BlockSize # 0 /\ HeadLength(c) # Size(c)
  <2> DEFINE q == At(c) \div BlockSize
  <2>1. Position(c) = BlockSize * q + BlockSize /\ q \in Nat
    BY <1>1, <1>2, <1>3, <1>4, <1>7
  <2> HIDE DEF q
  <2>2. q + 1 \in Nat /\ BlockSize * (q + 1) = BlockSize * q + BlockSize /\ BlockSize * (q + 1) \in Nat
    BY <1>1, <2>1
  <2>3. Position(c) \in BlockSize * (q + 1) .. BlockSize * (q + 1) + BlockSize - 1
    BY <1>1, <2>1, <2>2
  <2>4. Aligned(Position(c)) = BlockSize * (q + 1)
    BY <2>1, <2>2, <2>3, SameBlock
  <2>5. QED BY <1>1, <1>2, <1>4, <1>7, <2>1, <2>2, <2>4
<1>8. QED BY <1>5, <1>6, <1>7

\* The whole blocks: none, or they go piece by piece.
LEMMA MiddleKeeps ==
    ASSUME BlockInv, NEW c \in Callers, Middle(c)
    PROVE  BlockInv'
<1>1. /\ partLock = c /\ job[c].step = "middle" /\ ~partBufFreed
      /\ UNCHANGED <<deviceVars, partLock, got, meant>>
  BY DEF Middle, Step
<1>2. /\ ~job[c].rest
      /\ Position(c) = RangeEnd(c) \/ Aligned(Position(c)) = Position(c)
      /\ Position(c) <= RangeEnd(c)
  BY <1>1, MiddleBegins
<1>3. Position(c) \in Nat /\ RangeEnd(c) \in Nat /\ BlockSize \in Nat \ {0} /\ job[c].pos \in Nat
  BY Requested DEF BlockInv
<1>4. /\ WholeBlocks(c) \in Nat
      /\ BlockSize * WholeBlocks(c) = Aligned(RangeEnd(c)) - Aligned(Position(c))
      /\ Aligned(RangeEnd(c)) \in Nat /\ Aligned(Position(c)) \in Nat
  BY <1>2, <1>3, BlocksApart, AlignedFacts DEF WholeBlocks
<1>5. CASE WholeBlocks(c) = 0
  <2>1. GoTo(c, AfterMiddle(c))
    BY <1>5 DEF Middle
  <2>2. Aligned(RangeEnd(c)) = Aligned(Position(c))
    <3>1. BlockSize * WholeBlocks(c) = 0
      BY <1>3, <1>5
    <3>2. QED BY <1>4, <3>1
  <2>3. AtLastBlock(c) \/ (~job[c].rest /\ Position(c) = RangeEnd(c))
    BY <1>2, <2>2 DEF AtLastBlock
  <2>4. QED BY <1>1, <2>1, <2>3, MiddleEnds
<1>6. CASE WholeBlocks(c) # 0
  <2>1. PICK piece \in 1 .. WholeBlocks(c) :
          job' = [job EXCEPT ![c].left = WholeBlocks(c), ![c].piece = piece, ![c].step = "pieces"]
    <3>1. \E piece \in IF job[c].request.aligned THEN {WholeBlocks(c)} ELSE Halvings(WholeBlocks(c)) :
            job' = [job EXCEPT ![c].left = WholeBlocks(c), ![c].piece = piece, ![c].step = "pieces"]
      BY <1>6 DEF Middle
    <3>2. WholeBlocks(c) \in 1 .. WholeBlocks(c) /\ Halvings(WholeBlocks(c)) \subseteq 1 .. WholeBlocks(c)
      BY <1>4, <1>6 DEF Halvings
    <3>3. QED BY <3>1, <3>2
  <2> DEFINE j == [job[c] EXCEPT !.left = WholeBlocks(c), !.piece = piece, !.step = "pieces"]
  <2>2. job' = [job EXCEPT ![c] = j]
    BY <2>1
  <2>3. /\ j \in Jobs /\ j.request = job[c].request /\ j.pos = job[c].pos /\ j.rest = job[c].rest
        /\ j.step = "pieces" /\ j.left = WholeBlocks(c) /\ j.piece > 0
    <3>1. job[c] \in Jobs
      BY DEF BlockInv, BlockTypes
    <3>2. piece \in Nat /\ piece > 0 /\ WholeBlocks(c) \in Nat
      BY <1>4
    <3>3. QED BY <3>1, <3>2 DEF Jobs, Holding
  <2> HIDE DEF j
  <2>4. /\ BlockTypes' /\ job'[c] = j
        /\ At(c)' = At(c) /\ RangeEnd(c)' = RangeEnd(c) /\ Position(c)' = At(c) + j.pos /\ (Writes(c)' <=> Writes(c))
    <3>1. BlockTypes /\ job[c].step \in Holding /\ j.step \in Holding
      BY <1>1, <2>3 DEF BlockInv, Holding
    <3>2. /\ partLock' = c /\ partBufFreed' = FALSE /\ partBuf' = [k \in 0 .. BlockSize - 1 |-> partBuf'[k]]
          /\ device' = [a \in Addresses |-> device'[a]] /\ got' = [d \in Callers |-> got'[d]]
      BY <1>1 DEF BlockInv, BlockTypes, deviceVars
    <3>3. QED BY <2>2, <2>3, <3>1, <3>2, HolderMoves
  <2>5. Position(c)' = Position(c)
    BY <2>3, <2>4 DEF Position
  <2>6. Position(c) # RangeEnd(c)
    <3>1. ASSUME Position(c) = RangeEnd(c) PROVE FALSE
      <4>1. BlockSize * WholeBlocks(c) = 0
        BY <1>4, <3>1
      <4>2. BlockSize * WholeBlocks(c) > 0
        BY <1>3, <1>4, <1>6
      <4>3. QED BY <4>1, <4>2
    <3>2. QED BY <3>1
  <2>7. Aligned(Position(c)) = Position(c) /\ Position(c) + BlockSize * WholeBlocks(c) = Aligned(RangeEnd(c))
    BY <1>2, <1>3, <1>4, <2>6
  <2>8. Progress(c)'
    BY <1>2, <1>4, <1>6, <2>3, <2>4, <2>5, <2>7 DEF Progress, Aligned
  <2>9. Moved(c)' = Moved(c)
    BY <1>1, <2>3, <2>4 DEF Moved, Aligned
  <2>10. UNCHANGED <<device, got, meant>> /\ partLock' = c
    BY <1>1 DEF deviceVars
  <2>11. Contents(c)'
    BY <1>1, <2>4, <2>9, <2>10, NothingMoved
  <2>12. QED BY <2>4, <2>8, <2>10, <2>11, HolderAlone
<1>7. QED BY <1>5, <1>6

\* The bounce buffer could not be had and mt_part_buf was freed with the lock held: the
\* holder is stuck, and nobody else gets in.
LEMMA MiddleFreesKeeps ==
    ASSUME BlockInv, NEW c \in Callers, MiddleFrees(c)
    PROVE  BlockInv'
<1>1. partLock = c /\ partBufFreed' = TRUE /\ UNCHANGED <<device, partBuf, partLock, job, got, meant>>
  BY DEF MiddleFrees, Step
<1>2. BlockTypes'
  BY <1>1, BlockDevAssumption DEF BlockInv, BlockTypes, Addresses
<1>3. QED BY <1>1, <1>2, BlockDevAssumption DEF BlockInv

\* All pieces are through.
LEMMA PiecesDoneKeeps ==
    ASSUME BlockInv, NEW c \in Callers, PiecesDone(c)
    PROVE  BlockInv'
<1>1. /\ partLock = c /\ job[c].step = "pieces" /\ ~partBufFreed /\ job[c].left = 0
      /\ GoTo(c, AfterMiddle(c)) /\ UNCHANGED <<deviceVars, partLock, got, meant>>
  BY DEF PiecesDone, Step
<1>2. AtLastBlock(c)
  BY <1>1 DEF BlockInv, Progress
<1>3. QED BY <1>1, <1>2, MiddleEnds

\* n bytes are stored behind those that have come, or fetched behind them.
LEMMA MovesOn ==
    ASSUME BlockInv, NEW c \in Callers, partLock = c, ~partBufFreed, UNCHANGED meant,
           At(c)' = At(c), RangeEnd(c)' = RangeEnd(c), Writes(c)' <=> Writes(c),
           NEW n \in Nat, Moved(c) \in Nat, Moved(c) + n <= Size(c), Moved(c)' = Moved(c) + n,
           ~Writes(c) => UNCHANGED device,
           Writes(c) => \A a \in Addresses : device'[a] =
                           IF a \in At(c) + Moved(c) .. At(c) + Moved(c) + n - 1
                           THEN <<c, a - At(c)>> ELSE device[a],
           ~Writes(c) => /\ DOMAIN got[c] \subseteq DOMAIN got'[c]
                         /\ \A k \in Moved(c) .. Moved(c) + n - 1 : k \in DOMAIN got'[c] /\ got'[c][k] = device[At(c) + k]
                         /\ \A k \in 0 .. Moved(c) - 1 : k \in DOMAIN got[c] => got'[c][k] = got[c][k]
    PROVE  Contents(c)'
<1>1. /\ At(c) \in Nat /\ Size(c) \in Nat \ {0} /\ RangeEnd(c) = At(c) + Size(c) /\ Writes(c) \in BOOLEAN
      /\ Addresses \subseteq Nat
  BY Requested DEF BlockInv, Addresses
<1>2. Contents(c)
  BY DEF BlockInv
<1>3. CASE Writes(c)
  <2> SUFFICES ASSUME NEW a \in Addresses
               PROVE  /\ a \in At(c) .. At(c) + Moved(c) + n - 1 => device'[a] = <<c, a - At(c)>>
                      /\ a \notin At(c) .. RangeEnd(c) - 1 => meant[a] \in {Anything, device'[a]}
    BY <1>1, <1>3 DEF Contents
  <2>1. /\ a \in At(c) .. At(c) + Moved(c) - 1 => device[a] = <<c, a - At(c)>>
        /\ a \notin At(c) .. RangeEnd(c) - 1 => meant[a] \in {Anything, device[a]}
    BY <1>2, <1>3 DEF Contents
  <2>2. CASE a \in At(c) + Moved(c) .. At(c) + Moved(c) + n - 1
    <3>1. device'[a] = <<c, a - At(c)>>
      BY <1>3, <2>2
    <3>2. a \in At(c) .. RangeEnd(c) - 1
      BY <1>1, <2>2
    <3>3. QED BY <3>1, <3>2
  <2>3. CASE a \notin At(c) + Moved(c) .. At(c) + Moved(c) + n - 1
    <3>1. device'[a] = device[a]
      BY <1>3, <2>3
    <3>2. a \in At(c) .. At(c) + Moved(c) + n - 1 => a \in At(c) .. At(c) + Moved(c) - 1
      BY <1>1, <2>3
    <3>3. QED BY <2>1, <3>1, <3>2
  <2>4. QED BY <2>2, <2>3
<1>4. CASE ~Writes(c)
  <2>1. Kept /\ \A k \in 0 .. Moved(c) - 1 : k \in DOMAIN got[c] /\ got[c][k] = device[At(c) + k]
    BY <1>2, <1>4 DEF Contents
  <2>2. Kept'
    BY <1>4, <2>1 DEF Kept
  <2>3. \A k \in 0 .. Moved(c) + n - 1 : k \in DOMAIN got'[c] /\ got'[c][k] = device'[At(c) + k]
    <3> TAKE k \in 0 .. Moved(c) + n - 1
    <3>1. CASE k < Moved(c)
      BY <1>4, <2>1, <3>1
    <3>2. CASE k >= Moved(c)
      BY <1>4, <3>2
    <3>3. QED BY <3>1, <3>2
  <2>4. QED BY <1>4, <2>2, <2>3 DEF Contents
<1>5. QED BY <1>3, <1>4
\* What WriteBack is called with: the block in mt_part_buf, the place and the number of the
\* caller's bytes in it, and the index of the first one.
BufferBlock(c) == Aligned(IF job[c].step = "headDone" THEN At(c) ELSE RangeEnd(c))
\* Where in the block the bytes of the request begin.
PlaceInBlock(c) == IF job[c].step = "headDone" THEN At(c) % BlockSize ELSE 0
\* How many bytes of the block are the request's.
BytesInBlock(c) == IF job[c].step = "headDone" THEN HeadLength(c) ELSE RangeEnd(c) % BlockSize
\* The index in the request of the first of them.
IndexInBlock(c) == IF job[c].step = "headDone" THEN 0 ELSE job[c].pos

\* The bytes of mt_part_buf that a write replaces, and the block they belong to.
LEMMA BufferFacts ==
    ASSUME BlockInv, NEW c \in Callers, partLock = c, ~partBufFreed, job[c].step \in {"headDone", "tailDone"}
    PROVE  /\ BufferBlock(c) \in Nat /\ PlaceInBlock(c) \in Nat /\ BytesInBlock(c) \in Nat /\ IndexInBlock(c) \in Nat
           /\ PlaceInBlock(c) + BytesInBlock(c) <= BlockSize
           /\ \A j \in 0 .. BlockSize - 1 : partBuf[j] = device[BufferBlock(c) + j]
           /\ \A a \in Nat : Aligned(a) = BufferBlock(c) <=> a - BufferBlock(c) \in 0 .. BlockSize - 1
           /\ BlockSize \in Nat \ {0}
<1>1. /\ At(c) \in Nat /\ Size(c) \in Nat \ {0} /\ RangeEnd(c) \in Nat /\ job[c].pos \in Nat
      /\ BlockSize \in Nat \ {0}
  BY Requested DEF BlockInv
<1>2. /\ At(c) % BlockSize \in Nat
      /\ HeadLength(c) \in 1 .. Size(c)
      /\ (At(c) % BlockSize) + HeadLength(c) <= BlockSize
      /\ RangeEnd(c) % BlockSize \in 0 .. BlockSize - 1
  <2>1. \A a \in Nat : a % BlockSize \in 0 .. BlockSize - 1
    BY <1>1, DivisionFacts
  <2>2. At(c) % BlockSize \in Nat /\ RangeEnd(c) % BlockSize \in 0 .. BlockSize - 1
    BY <1>1, <2>1
  <2>3. QED BY <2>2, FirstPart DEF BlockInv
<1>3. PICK x \in Nat : x = IF job[c].step = "headDone" THEN At(c) ELSE RangeEnd(c)
  BY <1>1
<1>4. /\ Aligned(x) \in Nat
      /\ Aligned(x) = BlockSize * (x \div BlockSize) /\ x \div BlockSize \in Nat
  BY AlignedFacts
<1>5. BufferBlock(c) = Aligned(x) /\ BufferBlock(c) \in Nat
  BY <1>3, <1>4 DEF BufferBlock
<1>6. \A j \in 0 .. BlockSize - 1 : partBuf[j] = device[BufferBlock(c) + j]
  BY DEF BlockInv, Progress, BufferBlock
<1>7. ASSUME NEW a \in Nat PROVE Aligned(a) = BufferBlock(c) <=> a - BufferBlock(c) \in 0 .. BlockSize - 1
  <2>1. Aligned(a) = Aligned(x) <=> a \in Aligned(x) .. Aligned(x) + BlockSize - 1
    BY <1>4, SameBlock
  <2>2. QED BY <1>1, <1>5, <2>1
<1>8. /\ PlaceInBlock(c) \in Nat /\ BytesInBlock(c) \in Nat /\ IndexInBlock(c) \in Nat
      /\ PlaceInBlock(c) + BytesInBlock(c) <= BlockSize
  <2>1. CASE job[c].step = "headDone"
    BY <1>1, <1>2, <2>1 DEF PlaceInBlock, BytesInBlock, IndexInBlock
  <2>2. CASE job[c].step # "headDone"
    BY <1>1, <1>2, <2>2 DEF PlaceInBlock, BytesInBlock, IndexInBlock
  <2>3. QED BY <2>1, <2>2
<1>9. QED BY <1>1, <1>5, <1>6, <1>7, <1>8

\* mt_part_buf goes back to the block it came from: nothing else of the block changes.
LEMMA BlockWritten ==
    ASSUME BlockInv, NEW c \in Callers, partLock = c, ~partBufFreed, job[c].step \in {"headDone", "tailDone"},
           NEW reaches \in BOOLEAN,
           WriteBack(c, BufferBlock(c), PlaceInBlock(c), IndexInBlock(c), BytesInBlock(c), reaches)
    PROVE  LET from == BufferBlock(c) + PlaceInBlock(c)
           IN  /\ device' = [a \in Addresses |-> device'[a]]
               /\ partBuf' = [j \in 0 .. BlockSize - 1 |-> partBuf'[j]]
               /\ \A a \in Addresses : device'[a] =
                    IF reaches /\ a \in from .. from + BytesInBlock(c) - 1
                    THEN <<c, IndexInBlock(c) + a - from>> ELSE device[a]
<1> DEFINE block == BufferBlock(c)
           p == PlaceInBlock(c)
           n == BytesInBlock(c)
           k == IndexInBlock(c)
           merged == [j \in DOMAIN partBuf |-> IF j \in p .. p + n - 1 THEN <<c, k + j - p>> ELSE partBuf[j]]
<1>1. /\ partBuf' = merged
      /\ device' = [a \in Addresses |-> IF reaches /\ Aligned(a) = block THEN merged[a - block] ELSE device[a]]
  BY DEF WriteBack
<1>2. /\ BlockSize \in Nat \ {0} /\ block \in Nat /\ Addresses \subseteq Nat
      /\ p \in Nat /\ n \in Nat /\ k \in Nat /\ p + n <= BlockSize
      /\ \A a \in Addresses : Aligned(a) = block <=> a - block \in 0 .. BlockSize - 1
  BY BufferFacts DEF Addresses
<1>3. DOMAIN partBuf = 0 .. BlockSize - 1
  BY DEF BlockInv, BlockTypes
<1>4. \A j \in 0 .. BlockSize - 1 :
         merged[j] = IF j \in p .. p + n - 1 THEN <<c, k + j - p>> ELSE device[block + j]
  BY <1>3, BufferFacts
<1>5. partBuf' = [j \in 0 .. BlockSize - 1 |-> partBuf'[j]] /\ device' = [a \in Addresses |-> device'[a]]
  BY <1>1, <1>3
<1> HIDE DEF merged, block, p, n, k
<1>6. ASSUME NEW a \in Addresses, reaches, a - block \in 0 .. BlockSize - 1
      PROVE  device'[a] = IF a \in block + p .. block + p + n - 1 THEN <<c, k + a - (block + p)>> ELSE device[a]
  <2>1. device'[a] = merged[a - block]
    BY <1>1, <1>2, <1>6
  <2>2. a - block \in p .. p + n - 1 <=> a \in block + p .. block + p + n - 1
    BY <1>2, <1>6
  <2>3. block + (a - block) = a /\ k + (a - block) - p = k + a - (block + p)
    BY <1>2, <1>6
  <2>4. QED BY <1>4, <1>6, <2>1, <2>2, <2>3
<1>7. ASSUME NEW a \in Addresses, ~ (reaches /\ a - block \in 0 .. BlockSize - 1)
      PROVE  device'[a] = device[a] /\ ~ (reaches /\ a \in block + p .. block + p + n - 1)
  BY <1>1, <1>2, <1>7
<1>8. \A a \in Addresses : device'[a] =
         IF reaches /\ a \in block + p .. block + p + n - 1 THEN <<c, k + a - (block + p)>> ELSE device[a]
  BY <1>6, <1>7
<1>9. QED
  BY <1>5, <1>8 DEF block, p, n, k

\* The first block is written back.
LEMMA HeadWritten ==
    ASSUME BlockInv, NEW c \in Callers, partLock = c, ~partBufFreed, job[c].step = "headDone",
           NEW reaches \in BOOLEAN, WriteHead(c, reaches)
    PROVE  /\ device' = [a \in Addresses |-> device'[a]]
           /\ partBuf' = [k \in 0 .. BlockSize - 1 |-> partBuf'[k]]
           /\ \A a \in Addresses : device'[a] =
                IF reaches /\ a \in At(c) .. At(c) + HeadLength(c) - 1 THEN <<c, a - At(c)>> ELSE device[a]
<1>1. /\ BufferBlock(c) = Aligned(At(c)) /\ PlaceInBlock(c) = At(c) % BlockSize
      /\ BytesInBlock(c) = HeadLength(c) /\ IndexInBlock(c) = 0
  BY DEF BufferBlock, PlaceInBlock, BytesInBlock, IndexInBlock
<1>2. At(c) \in Nat /\ Aligned(At(c)) \in Nat /\ At(c) % BlockSize = At(c) - Aligned(At(c))
  BY Requested, AlignedFacts DEF BlockInv
<1>3. BufferBlock(c) + PlaceInBlock(c) = At(c)
  BY <1>1, <1>2
<1>4. WriteBack(c, BufferBlock(c), PlaceInBlock(c), IndexInBlock(c), BytesInBlock(c), reaches)
  BY <1>1 DEF WriteHead, WriteBack
<1>5. \A a \in Addresses : 0 + a - At(c) = a - At(c)
  BY <1>2 DEF Addresses
<1>6. /\ device' = [a \in Addresses |-> device'[a]]
      /\ partBuf' = [j \in 0 .. BlockSize - 1 |-> partBuf'[j]]
      /\ \A a \in Addresses : device'[a] =
           IF reaches /\ a \in BufferBlock(c) + PlaceInBlock(c) .. BufferBlock(c) + PlaceInBlock(c) + BytesInBlock(c) - 1
           THEN <<c, IndexInBlock(c) + a - (BufferBlock(c) + PlaceInBlock(c))>> ELSE device[a]
  BY <1>4, BlockWritten
<1>7. QED
  BY <1>1, <1>3, <1>5, <1>6

\* The last block is written back, with the bytes the buffer has at `pos`.
LEMMA TailWritten ==
    ASSUME BlockInv, NEW c \in Callers, partLock = c, ~partBufFreed, job[c].step = "tailDone",
           NEW reaches \in BOOLEAN, WriteTail(c, reaches)
    PROVE  /\ device' = [a \in Addresses |-> device'[a]]
           /\ partBuf' = [k \in 0 .. BlockSize - 1 |-> partBuf'[k]]
           /\ \A a \in Addresses : device'[a] =
                IF reaches /\ a \in Aligned(RangeEnd(c)) .. RangeEnd(c) - 1
                THEN <<c, job[c].pos + a - Aligned(RangeEnd(c))>> ELSE device[a]
<1>1. /\ BufferBlock(c) = Aligned(RangeEnd(c)) /\ PlaceInBlock(c) = 0
      /\ BytesInBlock(c) = RangeEnd(c) % BlockSize /\ IndexInBlock(c) = job[c].pos
  BY DEF BufferBlock, PlaceInBlock, BytesInBlock, IndexInBlock
<1>2. /\ RangeEnd(c) \in Nat /\ Aligned(RangeEnd(c)) \in Nat
      /\ RangeEnd(c) % BlockSize = RangeEnd(c) - Aligned(RangeEnd(c))
  BY Requested, AlignedFacts DEF BlockInv
<1>3. BufferBlock(c) + PlaceInBlock(c) = Aligned(RangeEnd(c))
  BY <1>1, <1>2
<1>4. Aligned(RangeEnd(c)) + BytesInBlock(c) - 1 = RangeEnd(c) - 1
  BY <1>1, <1>2
<1>5. WriteBack(c, BufferBlock(c), PlaceInBlock(c), IndexInBlock(c), BytesInBlock(c), reaches)
  BY <1>1 DEF WriteTail, WriteBack
<1>6. /\ device' = [a \in Addresses |-> device'[a]]
      /\ partBuf' = [j \in 0 .. BlockSize - 1 |-> partBuf'[j]]
      /\ \A a \in Addresses : device'[a] =
           IF reaches /\ a \in BufferBlock(c) + PlaceInBlock(c) .. BufferBlock(c) + PlaceInBlock(c) + BytesInBlock(c) - 1
           THEN <<c, IndexInBlock(c) + a - (BufferBlock(c) + PlaceInBlock(c))>> ELSE device[a]
  <2>1. job[c].step \in {"headDone", "tailDone"}
    OBVIOUS
  <2>2. QED BY <1>5, <2>1, BlockWritten
<1>7. \A a \in Addresses : device'[a] =
         IF reaches /\ a \in Aligned(RangeEnd(c)) .. Aligned(RangeEnd(c)) + BytesInBlock(c) - 1
         THEN <<c, job[c].pos + a - Aligned(RangeEnd(c))>> ELSE device[a]
  BY <1>1, <1>3, <1>6
<1>8. QED
  <2>1. \A a \in Addresses : device'[a] =
           IF reaches /\ a \in Aligned(RangeEnd(c)) .. RangeEnd(c) - 1
           THEN <<c, job[c].pos + a - Aligned(RangeEnd(c))>> ELSE device[a]
    BY <1>4, <1>7, Zenon
  <2>2. QED BY <1>6, <2>1

\* The part of the first block is moved.
LEMMA HeadDoneKeeps ==
    ASSUME BlockInv, NEW c \in Callers, HeadDone(c)
    PROVE  BlockInv'
<1> DEFINE j == [job[c] EXCEPT !.pos = HeadLength(c), !.step = "middle"]
           n == HeadLength(c)
           p == At(c) % BlockSize
<1>1. /\ partLock = c /\ job[c].step = "headDone" /\ ~partBufFreed
      /\ UNCHANGED <<partBufFreed, partLock, meant>>
      /\ job' = [job EXCEPT ![c] = j]
      /\ Writes(c) => WriteHead(c, TRUE) /\ UNCHANGED got
      /\ ~Writes(c) => /\ got' = [got EXCEPT ![c] = Fetched(c, partBuf, p, 0, n)]
                       /\ UNCHANGED <<device, partBuf>>
  BY DEF HeadDone, Step
<1>2. /\ ~job[c].rest /\ job[c].pos = 0 /\ p # 0
      /\ \A k \in 0 .. BlockSize - 1 : partBuf[k] = device[Aligned(At(c)) + k]
  BY <1>1 DEF BlockInv, Progress
<1>3. /\ At(c) \in Nat /\ Size(c) \in Nat \ {0} /\ RangeEnd(c) = At(c) + Size(c) /\ BlockSize \in Nat \ {0}
      /\ Writes(c) \in BOOLEAN
  BY Requested DEF BlockInv
<1>4. Aligned(At(c)) \in Nat /\ p = At(c) - Aligned(At(c)) /\ p \in Nat
  <2>1. Aligned(At(c)) \in Nat /\ Aligned(At(c)) <= At(c) /\ p = At(c) - Aligned(At(c))
    BY <1>3, AlignedFacts
  <2> HIDE DEF p
  <2>2. QED BY <1>3, <2>1
<1>5. n \in 1 .. Size(c) /\ p + n <= BlockSize
  BY FirstPart DEF BlockInv
<1>6. /\ j \in Jobs /\ j.request = job[c].request /\ j.pos = n /\ j.rest = job[c].rest /\ j.step = "middle"
  <2>1. job[c] \in Jobs /\ n \in Nat
    BY <1>5 DEF BlockInv, BlockTypes
  <2>2. QED BY <2>1 DEF Jobs, Holding
<1> HIDE DEF j
<1>7. /\ device' = [a \in Addresses |-> device'[a]] /\ partBuf' = [k \in 0 .. BlockSize - 1 |-> partBuf'[k]]
      /\ Writes(c) => \A a \in Addresses : device'[a] =
                         IF a \in At(c) .. At(c) + n - 1 THEN <<c, a - At(c)>> ELSE device[a]
  <2>1. CASE Writes(c)
    BY <1>1, <2>1, HeadWritten
  <2>2. CASE ~Writes(c)
    BY <1>1, <2>2 DEF BlockInv, BlockTypes
  <2>3. QED BY <1>3, <2>1, <2>2
<1>8. got' = [d \in Callers |-> got'[d]]
  BY <1>1, <1>3 DEF BlockInv, BlockTypes
<1>9. /\ BlockTypes' /\ job'[c] = j
      /\ At(c)' = At(c) /\ RangeEnd(c)' = RangeEnd(c) /\ HeadLength(c)' = HeadLength(c) /\ (Writes(c)' <=> Writes(c))
  <2>1. BlockTypes /\ job[c].step \in Holding /\ j.step \in Holding /\ partLock' = c /\ partBufFreed' = FALSE
    BY <1>1, <1>6 DEF BlockInv, BlockTypes, Holding
  <2>2. QED BY <1>1, <1>6, <1>7, <1>8, <2>1, HolderMoves
<1>10. Progress(c)'
  BY <1>2, <1>6, <1>9 DEF Progress
<1>11. Moved(c) = 0 /\ Moved(c)' = 0 + n
  BY <1>1, <1>2, <1>5, <1>6, <1>9 DEF Moved
<1>12. ~Writes(c) => /\ DOMAIN got[c] \subseteq DOMAIN got'[c]
                     /\ \A k \in 0 .. n - 1 : k \in DOMAIN got'[c] /\ got'[c][k] = device[At(c) + k]
  <2> SUFFICES ASSUME ~Writes(c) PROVE /\ DOMAIN got[c] \subseteq DOMAIN got'[c]
                     /\ \A k \in 0 .. n - 1 : k \in DOMAIN got'[c] /\ got'[c][k] = device[At(c) + k]
    OBVIOUS
  <2>1. got'[c] = [i \in (DOMAIN got[c]) \cup (0 .. 0 + n - 1) |->
                     IF i \in 0 .. 0 + n - 1 THEN partBuf[p + i - 0] ELSE got[c][i]]
    BY <1>1 DEF BlockInv, BlockTypes, Fetched
  <2>2. ASSUME NEW k \in 0 .. n - 1 PROVE partBuf[p + k - 0] = device[At(c) + k]
    <3>1. p + k - 0 \in 0 .. BlockSize - 1 /\ Aligned(At(c)) + (p + k - 0) = At(c) + k
      BY <1>3, <1>4, <1>5
    <3>2. QED BY <1>2, <3>1
  <2> HIDE DEF n, p
  <2>3. 0 + n - 1 = n - 1
    BY <1>5
  <2>4. QED BY <2>1, <2>2, <2>3
<1>13. Contents(c)'
  <2>1. 0 + n <= Size(c) /\ n \in Nat /\ 0 \in Nat /\ At(c) + 0 = At(c)
    BY <1>3, <1>5
  <2> HIDE DEF n, p
  <2>2. /\ At(c) + 0 + n - 1 = At(c) + n - 1 /\ 0 + n - 1 = n - 1 /\ 0 .. 0 - 1 = {}
    BY <1>3, <2>1
  <2>3. /\ Writes(c) => \A a \in Addresses : device'[a] =
                           IF a \in At(c) + Moved(c) .. At(c) + Moved(c) + n - 1
                           THEN <<c, a - At(c)>> ELSE device[a]
        /\ ~Writes(c) => UNCHANGED device
        /\ ~Writes(c) => /\ DOMAIN got[c] \subseteq DOMAIN got'[c]
                         /\ \A k \in Moved(c) .. Moved(c) + n - 1 : k \in DOMAIN got'[c] /\ got'[c][k] = device[At(c) + k]
                         /\ \A k \in 0 .. Moved(c) - 1 : k \in DOMAIN got[c] => got'[c][k] = got[c][k]
    BY <1>1, <1>7, <1>11, <1>12, <2>1, <2>2
  <2>4. Moved(c) \in Nat /\ Moved(c) + n <= Size(c) /\ Moved(c)' = Moved(c) + n
    BY <1>11, <2>1
  <2>5. QED BY <1>1, <1>9, <2>1, <2>3, <2>4, MovesOn
<1>14. QED BY <1>1, <1>9, <1>10, <1>13, HolderAlone
\* The part of the last block is moved.
LEMMA TailDoneKeeps ==
    ASSUME BlockInv, NEW c \in Callers, TailDone(c)
    PROVE  BlockInv'
<1> DEFINE j == [job[c] EXCEPT !.step = "release"]
           n == RangeEnd(c) % BlockSize
<1>1. /\ partLock = c /\ job[c].step = "tailDone" /\ ~partBufFreed
      /\ UNCHANGED <<partBufFreed, partLock, meant>>
      /\ job' = [job EXCEPT ![c] = j]
      /\ Writes(c) => WriteTail(c, TRUE) /\ UNCHANGED got
      /\ ~Writes(c) => /\ got' = [got EXCEPT ![c] = Fetched(c, partBuf, 0, job[c].pos, n)]
                       /\ UNCHANGED <<device, partBuf>>
  BY DEF TailDone, Step, GoTo
<1>2. /\ AtLastBlock(c) /\ n # 0
      /\ \A k \in 0 .. BlockSize - 1 : partBuf[k] = device[Aligned(RangeEnd(c)) + k]
  BY <1>1 DEF BlockInv, Progress
<1>3. /\ At(c) \in Nat /\ Size(c) \in Nat \ {0} /\ RangeEnd(c) \in Nat /\ RangeEnd(c) = At(c) + Size(c) /\ BlockSize \in Nat \ {0}
      /\ Writes(c) \in BOOLEAN /\ job[c].pos \in Nat /\ Position(c) = At(c) + job[c].pos /\ job[c].rest \in BOOLEAN
  BY Requested DEF BlockInv
<1>4. /\ Aligned(RangeEnd(c)) \in Nat /\ Aligned(RangeEnd(c)) <= RangeEnd(c)
      /\ RangeEnd(c) < Aligned(RangeEnd(c)) + BlockSize
      /\ n = RangeEnd(c) - Aligned(RangeEnd(c))
  BY <1>3, AlignedFacts
<1>5. /\ j \in Jobs /\ j.request = job[c].request /\ j.pos = job[c].pos /\ j.rest = job[c].rest /\ j.step = "release"
  <2>1. job[c] \in Jobs
    BY DEF BlockInv, BlockTypes
  <2>2. QED BY <2>1 DEF Jobs, Holding
<1> HIDE DEF j
<1>6. n \in Nat /\ Position(c) <= Aligned(RangeEnd(c)) /\ (~job[c].rest => Position(c) = Aligned(RangeEnd(c)))
  <2> HIDE DEF n
  <2>1. QED BY <1>2, <1>3, <1>4 DEF AtLastBlock
<1>7. /\ device' = [a \in Addresses |-> device'[a]] /\ partBuf' = [k \in 0 .. BlockSize - 1 |-> partBuf'[k]]
      /\ Writes(c) => \A a \in Addresses : device'[a] =
                         IF a \in Aligned(RangeEnd(c)) .. RangeEnd(c) - 1
                         THEN <<c, job[c].pos + a - Aligned(RangeEnd(c))>> ELSE device[a]
  <2>1. CASE Writes(c)
    BY <1>1, <2>1, TailWritten
  <2>2. CASE ~Writes(c)
    BY <1>1, <2>2 DEF BlockInv, BlockTypes
  <2>3. QED BY <1>3, <2>1, <2>2
<1>8. got' = [d \in Callers |-> got'[d]]
  BY <1>1, <1>3 DEF BlockInv, BlockTypes
<1>9. /\ BlockTypes' /\ job'[c] = j
      /\ At(c)' = At(c) /\ Size(c)' = Size(c) /\ RangeEnd(c)' = RangeEnd(c) /\ (Writes(c)' <=> Writes(c))
  <2>1. BlockTypes /\ job[c].step \in Holding /\ j.step \in Holding /\ partLock' = c /\ partBufFreed' = FALSE
    BY <1>1, <1>5 DEF BlockInv, BlockTypes, Holding
  <2>2. QED BY <1>1, <1>5, <1>7, <1>8, <2>1, HolderMoves
<1>10. Progress(c)'
  BY <1>5, <1>9 DEF Progress
<1>11. ~Writes(c) => /\ DOMAIN got[c] \subseteq DOMAIN got'[c]
                     /\ \A k \in job[c].pos .. job[c].pos + n - 1 :
                           k \in DOMAIN got'[c] /\ got'[c][k] = device[Aligned(RangeEnd(c)) + (k - job[c].pos)]
                     /\ \A k \in DOMAIN got[c] : k \notin job[c].pos .. job[c].pos + n - 1 => got'[c][k] = got[c][k]
  <2> SUFFICES ASSUME ~Writes(c)
               PROVE  /\ DOMAIN got[c] \subseteq DOMAIN got'[c]
                      /\ \A k \in job[c].pos .. job[c].pos + n - 1 :
                            k \in DOMAIN got'[c] /\ got'[c][k] = device[Aligned(RangeEnd(c)) + (k - job[c].pos)]
                      /\ \A k \in DOMAIN got[c] : k \notin job[c].pos .. job[c].pos + n - 1 => got'[c][k] = got[c][k]
    OBVIOUS
  <2>1. got'[c] = [i \in (DOMAIN got[c]) \cup (job[c].pos .. job[c].pos + n - 1) |->
                     IF i \in job[c].pos .. job[c].pos + n - 1 THEN partBuf[0 + i - job[c].pos] ELSE got[c][i]]
    BY <1>1 DEF BlockInv, BlockTypes, Fetched
  <2> HIDE DEF n
  <2>2. ASSUME NEW k \in job[c].pos .. job[c].pos + n - 1
        PROVE  partBuf[0 + k - job[c].pos] = device[Aligned(RangeEnd(c)) + (k - job[c].pos)]
    <3>1. 0 + k - job[c].pos = k - job[c].pos /\ k - job[c].pos \in 0 .. BlockSize - 1
      BY <1>3, <1>4, <1>6
    <3>2. QED BY <1>2, <3>1
  <2>3. QED BY <2>1, <2>2
<1>12. CASE ~job[c].rest
  <2>1. Moved(c) = job[c].pos /\ Moved(c)' = Size(c) /\ job[c].pos + n = Size(c)
    BY <1>1, <1>3, <1>4, <1>5, <1>6, <1>9, <1>12 DEF Moved, Sure
  <2> HIDE DEF n
  <2>2. /\ Moved(c) \in Nat /\ Moved(c) + n <= Size(c) /\ Moved(c)' = Moved(c) + n
        /\ At(c) + Moved(c) = Aligned(RangeEnd(c)) /\ At(c) + Moved(c) + n - 1 = RangeEnd(c) - 1
    BY <1>3, <1>4, <1>6, <1>12, <2>1
  <2>3. Writes(c) => \A a \in Addresses : device'[a] =
                        IF a \in At(c) + Moved(c) .. At(c) + Moved(c) + n - 1 THEN <<c, a - At(c)>> ELSE device[a]
    <3>1. \A a \in Addresses : job[c].pos + a - Aligned(RangeEnd(c)) = a - At(c)
      BY <1>3, <1>4, <2>1, <2>2 DEF Addresses
    <3>2. QED BY <1>7, <2>2, <3>1
  <2>4. ~Writes(c) => /\ DOMAIN got[c] \subseteq DOMAIN got'[c]
                      /\ \A k \in Moved(c) .. Moved(c) + n - 1 : k \in DOMAIN got'[c] /\ got'[c][k] = device[At(c) + k]
                      /\ \A k \in 0 .. Moved(c) - 1 : k \in DOMAIN got[c] => got'[c][k] = got[c][k]
    <3>1. \A k \in Moved(c) .. Moved(c) + n - 1 : Aligned(RangeEnd(c)) + (k - job[c].pos) = At(c) + k
      BY <1>3, <1>4, <1>6, <2>1, <2>2
    <3>2. \A k \in 0 .. Moved(c) - 1 : k \notin job[c].pos .. job[c].pos + n - 1
      BY <1>3, <2>1
    <3>3. QED BY <1>11, <2>1, <3>1, <3>2
  <2>5. Contents(c)'
    BY <1>1, <1>6, <1>9, <2>2, <2>3, <2>4, MovesOn
  <2>6. QED BY <1>1, <1>9, <1>10, <2>5, HolderAlone
<1>13. CASE job[c].rest
  <2>1. /\ Moved(c) = Aligned(RangeEnd(c)) - At(c) /\ job[c].pos < Moved(c) /\ Moved(c) \in Nat
        /\ At(c) + Moved(c) = Aligned(RangeEnd(c))
    BY <1>1, <1>2, <1>3, <1>4, <1>13 DEF Moved, AtLastBlock
  <2>2. Moved(c)' = IF Writes(c) THEN Moved(c) ELSE job[c].pos
    BY <1>1, <1>2, <1>3, <1>5, <1>9, <1>13, <2>1 DEF Moved, Sure, Aligned
  <2>3. Contents(c)
    BY <1>1 DEF BlockInv
  <2>4. ASSUME Writes(c) PROVE Contents(c)'
    <3>0. /\ Moved(c)' = Moved(c) /\ At(c)' = At(c) /\ RangeEnd(c)' = RangeEnd(c) /\ Writes(c)'
          /\ UNCHANGED meant /\ Addresses' = Addresses
      BY <1>1, <1>9, <2>2, <2>4 DEF Addresses
    <3> SUFFICES ASSUME NEW a \in Addresses
                 PROVE  /\ a \in At(c) .. At(c) + Moved(c) - 1 => device'[a] = <<c, a - At(c)>>
                        /\ a \notin At(c) .. RangeEnd(c) - 1 => meant[a] \in {Anything, device'[a]}
      BY <3>0, Zenon DEF Contents
    <3>1. /\ a \in At(c) .. At(c) + Moved(c) - 1 => device[a] = <<c, a - At(c)>>
          /\ a \notin At(c) .. RangeEnd(c) - 1 => meant[a] \in {Anything, device[a]}
      BY <2>3, <2>4 DEF Contents
    <3>2. CASE a \in Aligned(RangeEnd(c)) .. RangeEnd(c) - 1
      BY <1>3, <1>4, <2>1, <3>2 DEF Addresses
    <3>3. CASE a \notin Aligned(RangeEnd(c)) .. RangeEnd(c) - 1
      BY <1>7, <2>4, <3>1, <3>3
    <3>4. QED BY <3>2, <3>3
  <2>5. ASSUME ~Writes(c) PROVE Contents(c)'
    <3>1. Kept /\ \A k \in 0 .. Moved(c) - 1 : k \in DOMAIN got[c] /\ got[c][k] = device[At(c) + k]
      BY <2>3, <2>5 DEF Contents
    <3>2. Kept' /\ UNCHANGED device
      BY <1>1, <2>5, <3>1 DEF Kept
    <3>3. \A k \in 0 .. job[c].pos - 1 : k \in 0 .. Moved(c) - 1 /\ k \notin job[c].pos .. job[c].pos + n - 1
      <4> HIDE DEF n
      <4>1. QED BY <1>3, <2>1
    <3>4. \A k \in 0 .. job[c].pos - 1 : k \in DOMAIN got'[c] /\ got'[c][k] = device[At(c) + k]
      <4> TAKE k \in 0 .. job[c].pos - 1
      <4>1. k \in DOMAIN got[c] /\ got[c][k] = device[At(c) + k] /\ k \notin job[c].pos .. job[c].pos + n - 1
        BY <3>1, <3>3
      <4>2. DOMAIN got[c] \subseteq DOMAIN got'[c] /\ got'[c][k] = got[c][k]
        BY <1>11, <2>5, <4>1
      <4>3. QED BY <4>1, <4>2, Zenon
    <3>5. QED BY <1>9, <2>2, <2>5, <3>2, <3>4 DEF Contents
  <2>6. QED BY <1>1, <1>3, <1>9, <1>10, <2>4, <2>5, HolderAlone
<1>14. QED BY <1>3, <1>12, <1>13


\* What a piece is: it ends where the whole blocks end, at the latest.
LEMMA PieceFacts ==
    ASSUME BlockInv, NEW c \in Callers, Step(c, "pieces"), job[c].left > 0
    PROVE  /\ Aligned(Position(c)) = Position(c) /\ ~job[c].rest
           /\ Position(c) \in Nat /\ At(c) \in Nat /\ job[c].pos \in Nat /\ Position(c) = At(c) + job[c].pos
           /\ Aligned(RangeEnd(c)) \in Nat /\ Aligned(RangeEnd(c)) <= RangeEnd(c) /\ RangeEnd(c) = At(c) + Size(c)
           /\ BlockSize * job[c].left \in Nat /\ BlockSize * job[c].left > 0
           /\ Position(c) + BlockSize * job[c].left = Aligned(RangeEnd(c))
           /\ \A m \in 0 .. job[c].left : BlockSize * m \in Nat /\ BlockSize * m <= BlockSize * job[c].left
           /\ job[c].left \in Nat /\ job[c].piece \in Nat /\ job[c].piece > 0
<1>1. /\ Aligned(Position(c)) = Position(c) /\ ~job[c].rest /\ job[c].piece > 0
      /\ Position(c) + BlockSize * job[c].left = Aligned(RangeEnd(c))
  BY DEF Step, BlockInv, Progress
<1>2. /\ At(c) \in Nat /\ Size(c) \in Nat \ {0} /\ RangeEnd(c) \in Nat /\ RangeEnd(c) = At(c) + Size(c) /\ BlockSize \in Nat \ {0}
      /\ job[c].pos \in Nat /\ Position(c) = At(c) + job[c].pos /\ Position(c) \in Nat
      /\ job[c].left \in Nat /\ job[c].piece \in Nat
  BY Requested DEF BlockInv
<1>3. Aligned(RangeEnd(c)) \in Nat /\ Aligned(RangeEnd(c)) <= RangeEnd(c)
  BY <1>2, AlignedFacts
<1>4. ASSUME NEW m \in 0 .. job[c].left PROVE BlockSize * m \in Nat /\ BlockSize * m <= BlockSize * job[c].left
  BY <1>2
<1>5. BlockSize * job[c].left \in Nat /\ BlockSize * job[c].left > 0
  BY <1>2
<1>6. QED BY <1>1, <1>2, <1>3, <1>4, <1>5

\* A piece of whole blocks is moved, and the source or destination advances unless it was
\* the rest.
LEMMA PieceKeeps ==
    ASSUME BlockInv, NEW c \in Callers, Piece(c)
    PROVE  BlockInv'
<1> DEFINE whole == job[c].left >= job[c].piece
           m == Shorter(job[c].left, job[c].piece)
           n == BlockSize * m
           j == [job[c] EXCEPT !.left = IF whole THEN job[c].left - job[c].piece ELSE 0,
                               !.pos = IF whole THEN job[c].pos + n ELSE job[c].pos,
                               !.rest = ~whole]
<1>1. /\ Step(c, "pieces") /\ job[c].left > 0
      /\ partLock = c /\ job[c].step = "pieces" /\ ~partBufFreed
      /\ UNCHANGED <<partBuf, partBufFreed, partLock, meant>>
      /\ job' = [job EXCEPT ![c] = j]
      /\ Writes(c) => device' = Stored(c, Aligned(Position(c)), job[c].pos, n) /\ UNCHANGED got
      /\ ~Writes(c) => /\ got' = [got EXCEPT ![c] = Fetched(c, device, Aligned(Position(c)), job[c].pos, n)]
                       /\ UNCHANGED device
  BY DEF Piece, Step
<1>2. /\ Aligned(Position(c)) = Position(c) /\ ~job[c].rest
      /\ Position(c) \in Nat /\ At(c) \in Nat /\ job[c].pos \in Nat /\ Position(c) = At(c) + job[c].pos
      /\ Aligned(RangeEnd(c)) \in Nat /\ Aligned(RangeEnd(c)) <= RangeEnd(c) /\ RangeEnd(c) = At(c) + Size(c)
      /\ BlockSize * job[c].left \in Nat /\ BlockSize * job[c].left > 0
      /\ Position(c) + BlockSize * job[c].left = Aligned(RangeEnd(c))
      /\ \A i \in 0 .. job[c].left : BlockSize * i \in Nat /\ BlockSize * i <= BlockSize * job[c].left
      /\ job[c].left \in Nat /\ job[c].piece \in Nat /\ job[c].piece > 0
  BY <1>1, PieceFacts
<1>3. /\ Size(c) \in Nat \ {0} /\ BlockSize \in Nat \ {0} /\ Writes(c) \in BOOLEAN /\ RangeEnd(c) \in Nat
  BY Requested DEF BlockInv
<1>4. /\ m \in 0 .. job[c].left /\ m = IF whole THEN job[c].piece ELSE job[c].left
  BY <1>2 DEF Shorter
<1>5. n \in Nat /\ n <= BlockSize * job[c].left
  BY <1>2, <1>4
<1>6. /\ j \in Jobs /\ j.request = job[c].request /\ j.step = "pieces" /\ j.piece = job[c].piece
      /\ j.left = IF whole THEN job[c].left - job[c].piece ELSE 0
      /\ j.pos = IF whole THEN job[c].pos + n ELSE job[c].pos
      /\ j.rest = ~whole
  <2>1. job[c] \in Jobs
    BY DEF BlockInv, BlockTypes
  <2>2. /\ (IF whole THEN job[c].left - job[c].piece ELSE 0) \in Nat
        /\ (IF whole THEN job[c].pos + n ELSE job[c].pos) \in Nat
        /\ (~whole) \in BOOLEAN
    <3>1. job[c].pos + n \in Nat
      <4> HIDE DEF n
      <4>1. QED BY <1>2, <1>5
    <3>2. whole => job[c].left - job[c].piece \in Nat
      BY <1>2
    <3>3. whole \in BOOLEAN
      BY <1>2
    <3> HIDE DEF n, whole
    <3>4. QED BY <1>2, <3>1, <3>2, <3>3
  <2>3. job[c].step = "pieces"
    BY <1>1
  <2> HIDE DEF n, whole
  <2>4. QED BY <2>1, <2>2, <2>3 DEF Jobs, Holding
<1> HIDE DEF j
<1>7. /\ device' = [a \in Addresses |-> device'[a]] /\ partBuf' = [k \in 0 .. BlockSize - 1 |-> partBuf'[k]]
      /\ got' = [d \in Callers |-> got'[d]]
  BY <1>1, <1>3 DEF BlockInv, BlockTypes, Stored
<1>8. /\ BlockTypes' /\ job'[c] = j
      /\ At(c)' = At(c) /\ RangeEnd(c)' = RangeEnd(c) /\ Position(c)' = At(c) + j.pos /\ (Writes(c)' <=> Writes(c))
  <2>1. BlockTypes /\ job[c].step \in Holding /\ j.step \in Holding /\ partLock' = c /\ partBufFreed' = FALSE
    BY <1>1, <1>6 DEF BlockInv, BlockTypes, Holding
  <2>2. QED BY <1>1, <1>6, <1>7, <2>1, HolderMoves
<1>9. Aligned(RangeEnd(c))' = Aligned(RangeEnd(c))
  BY <1>8 DEF Aligned
<1>10. ASSUME whole PROVE Progress(c)' /\ Moved(c) = job[c].pos /\ Moved(c)' = job[c].pos + n
  <2>1. m = job[c].piece
    BY <1>4, <1>10
  <2>2. Position(c)' = Position(c) + n
    <3> HIDE DEF n
    <3>1. j.pos = job[c].pos + n
      BY <1>6, <1>10
    <3>2. QED BY <1>2, <1>5, <1>8, <3>1
  <2>3. Aligned(Position(c) + n) = Position(c) + n
    <3>1. PICK q \in Nat : Position(c) = BlockSize * q
      BY <1>2, AlignedFacts
    <3>2. q + m \in Nat /\ BlockSize * (q + m) = BlockSize * q + BlockSize * m /\ BlockSize * (q + m) \in Nat
      BY <1>2, <1>3, <2>1, <3>1
    <3>3. Position(c) + n = BlockSize * (q + m)
      BY <3>1, <3>2
    <3>4. BlockSize * (q + m) \in BlockSize * (q + m) .. BlockSize * (q + m) + BlockSize - 1
      BY <1>3, <3>2
    <3>5. Aligned(BlockSize * (q + m)) = BlockSize * (q + m)
      <4> HIDE DEF m
      <4>1. QED BY <3>2, <3>4, SameBlock
    <3>6. QED BY <3>3, <3>5, Zenon
  <2>4. BlockSize * j.left = BlockSize * job[c].left - n /\ j.left = job[c].left - job[c].piece
    BY <1>2, <1>3, <1>6, <1>10, <2>1
  <2>5. Position(c)' + BlockSize * j.left = Aligned(RangeEnd(c))
    <3> HIDE DEF n
    <3>1. QED BY <1>2, <1>5, <2>2, <2>4
  <2>6. j.left = 0 => Position(c)' = Aligned(RangeEnd(c))
    <3>1. j.left = 0 => BlockSize * j.left = 0
      BY <1>3
    <3>2. QED BY <1>2, <1>5, <2>2, <2>5, <3>1
  <2>7. ~j.rest
    BY <1>6, <1>10
  <2>8. Aligned(Position(c))' = Position(c)'
    BY <2>2, <2>3 DEF Aligned
  <2>9. Progress(c)'
    <3>1. AtLastBlock(c)' <=> Position(c)' = Aligned(RangeEnd(c))
      BY <1>8, <1>9, <2>7 DEF AtLastBlock
    <3>2. job'[c].step = "pieces" /\ job'[c].piece > 0 /\ ~job'[c].rest /\ job'[c].left = j.left
      BY <1>2, <1>6, <1>8, <2>7
    <3>3. BlockSize' = BlockSize
      OBVIOUS
    <3>4. QED BY <1>9, <2>5, <2>6, <2>8, <3>1, <3>2 DEF Progress
  <2>10. Moved(c) = job[c].pos /\ Moved(c)' = job[c].pos + n
    <3>1. Moved(c) = job[c].pos
      BY <1>1, <1>2 DEF Moved
    <3>2. job'[c].step = "pieces" /\ ~job'[c].rest /\ job'[c].pos = job[c].pos + n
      BY <1>6, <1>8, <1>10, <2>7
    <3>3. Moved(c)' = job[c].pos + n
      <4> HIDE DEF n
      <4>1. QED BY <3>2 DEF Moved
    <3>4. QED BY <3>1, <3>3
  <2>11. QED BY <2>9, <2>10
<1>11. ASSUME ~whole PROVE Progress(c)' /\ Moved(c) = job[c].pos /\ Moved(c)' = job[c].pos + n
  <2>1. /\ n = BlockSize * job[c].left /\ j.left = 0 /\ j.pos = job[c].pos /\ j.rest
    BY <1>4, <1>6, <1>11
  <2>2. Position(c)' = Position(c)
    BY <1>2, <1>8, <2>1
  <2>3. AtLastBlock(c)'
    BY <1>2, <1>8, <1>9, <2>1, <2>2 DEF AtLastBlock
  <2>4. Aligned(Position(c))' = Position(c)'
    BY <1>2, <2>2 DEF Aligned
  <2>5. Progress(c)'
    BY <1>2, <1>6, <1>8, <2>1, <2>3, <2>4 DEF Progress
  <2>6. Moved(c) = job[c].pos /\ Moved(c)' = Aligned(RangeEnd(c)) - At(c)
    BY <1>1, <1>2, <1>6, <1>8, <1>9, <2>1 DEF Moved
  <2>7. Aligned(RangeEnd(c)) - At(c) = job[c].pos + n
    BY <1>2, <2>1
  <2>8. QED BY <2>5, <2>6, <2>7
<1>12. /\ Progress(c)' /\ Moved(c) = job[c].pos /\ Moved(c)' = Moved(c) + n
  BY <1>10, <1>11
<1>13. /\ n \in Nat /\ Moved(c) \in Nat /\ Moved(c) + n <= Size(c) /\ At(c) + Moved(c) = Position(c)
  <2> HIDE DEF n
  <2>1. QED BY <1>2, <1>3, <1>5, <1>12
<1>14. Writes(c) => \A a \in Addresses : device'[a] =
                       IF a \in At(c) + Moved(c) .. At(c) + Moved(c) + n - 1 THEN <<c, a - At(c)>> ELSE device[a]
  <2> SUFFICES ASSUME Writes(c), NEW a \in Addresses
               PROVE  device'[a] = IF a \in Position(c) .. Position(c) + n - 1 THEN <<c, a - At(c)>> ELSE device[a]
    BY <1>13
  <2>1. device' = Stored(c, Position(c), job[c].pos, n)
    BY <1>1, <1>2
  <2>2. device'[a] = IF a \in Position(c) .. Position(c) + n - 1 THEN <<c, job[c].pos + a - Position(c)>> ELSE device[a]
    BY <2>1 DEF Stored
  <2>3. job[c].pos + a - Position(c) = a - At(c)
    BY <1>2, <1>3 DEF Addresses
  <2>4. QED BY <2>2, <2>3
<1>15. ~Writes(c) => /\ DOMAIN got[c] \subseteq DOMAIN got'[c]
                     /\ \A k \in Moved(c) .. Moved(c) + n - 1 : k \in DOMAIN got'[c] /\ got'[c][k] = device[At(c) + k]
                     /\ \A k \in 0 .. Moved(c) - 1 : k \in DOMAIN got[c] => got'[c][k] = got[c][k]
  <2> SUFFICES ASSUME ~Writes(c)
               PROVE  /\ DOMAIN got[c] \subseteq DOMAIN got'[c]
                      /\ \A k \in job[c].pos .. job[c].pos + n - 1 : k \in DOMAIN got'[c] /\ got'[c][k] = device[At(c) + k]
                      /\ \A k \in 0 .. job[c].pos - 1 : k \in DOMAIN got[c] => got'[c][k] = got[c][k]
    BY <1>12
  <2>1. got' = [got EXCEPT ![c] = Fetched(c, device, Position(c), job[c].pos, n)]
    BY <1>1, <1>2
  <2>2. got'[c] = [i \in (DOMAIN got[c]) \cup (job[c].pos .. job[c].pos + n - 1) |->
                     IF i \in job[c].pos .. job[c].pos + n - 1 THEN device[Position(c) + i - job[c].pos] ELSE got[c][i]]
    BY <2>1 DEF BlockInv, BlockTypes, Fetched
  <2> HIDE DEF n
  <2>3. \A k \in job[c].pos .. job[c].pos + n - 1 : Position(c) + k - job[c].pos = At(c) + k
    BY <1>2, <1>5
  <2>4. \A k \in 0 .. job[c].pos - 1 : k \notin job[c].pos .. job[c].pos + n - 1
    BY <1>2, <1>5
  <2>5. QED BY <2>2, <2>3, <2>4
<1>16. Contents(c)'
  <2> HIDE DEF n
  <2>1. QED BY <1>1, <1>8, <1>12, <1>13, <1>14, <1>15, MovesOn
<1>17. QED BY <1>1, <1>8, <1>12, <1>16, HolderAlone


\* The lock is given back, and the bytes of the request are what the device means.
LEMMA ReleaseKeeps ==
    ASSUME BlockInv, NEW c \in Callers, Release(c)
    PROVE  BlockInv'
<1> DEFINE j == [job[c] EXCEPT !.step = "done"]
<1>1. /\ partLock = c /\ job[c].step = "release" /\ ~partBufFreed
      /\ UNCHANGED <<device, partBuf, partBufFreed, got>>
      /\ partLock' = Nobody /\ job' = [job EXCEPT ![c] = j]
      /\ meant' = IF ~Writes(c) THEN meant
                  ELSE [a \in Addresses |->
                          IF a \in At(c) .. At(c) + Sure(c) - 1 THEN <<c, a - At(c)>>
                          ELSE IF a \in At(c) .. RangeEnd(c) - 1 THEN Anything
                          ELSE meant[a]]
  BY DEF Release, Step, GoTo, deviceVars
<1>2. j \in Jobs /\ j.request = job[c].request /\ j.step = "done"
  BY DEF BlockInv, BlockTypes, Jobs
<1> HIDE DEF j
<1>3. BlockTypes'
  <2>1. /\ device' = [a \in Addresses |-> device'[a]] /\ partBuf' = [k \in 0 .. BlockSize - 1 |-> partBuf'[k]]
        /\ got' = [d \in Callers |-> got'[d]]
    BY <1>1 DEF BlockInv, BlockTypes
  <2>2. /\ BlockTypes /\ job[c].step \in Holding /\ j.step \notin Holding /\ partBufFreed' = FALSE
        /\ j.step \in Holding \cup {"done", "failed"}
    BY <1>1, <1>2 DEF BlockInv, BlockTypes, Holding
  <2>3. partLock' = IF j.step \in Holding THEN c ELSE Nobody
    BY <1>1, <2>2
  <2>4. QED BY <1>1, <1>2, <2>1, <2>2, <2>3, HolderMoves
<1>4. Contents(c) /\ Moved(c) = Sure(c)
  BY <1>1 DEF BlockInv, Moved
<1>5. Kept'
  <2>1. CASE Writes(c)
    <3>1. \A a \in Addresses :
            /\ a \in At(c) .. At(c) + Sure(c) - 1 => device[a] = <<c, a - At(c)>>
            /\ a \notin At(c) .. RangeEnd(c) - 1 => meant[a] \in {Anything, device[a]}
      BY <1>4, <2>1 DEF Contents
    <3>2. \A a \in Addresses : meant'[a] = IF a \in At(c) .. At(c) + Sure(c) - 1 THEN <<c, a - At(c)>>
                          ELSE IF a \in At(c) .. RangeEnd(c) - 1 THEN Anything
                          ELSE meant[a]
      BY <1>1, <2>1
    <3>3. \A a \in Addresses : meant'[a] \in {Anything, device'[a]}
      BY <1>1, <3>1, <3>2
    <3>4. QED BY <3>3 DEF Kept, Addresses
  <2>2. CASE ~Writes(c)
    BY <1>1, <1>4, <2>2 DEF Contents, Kept
  <2>3. Writes(c) \in BOOLEAN
    BY Requested DEF BlockInv
  <2>4. QED BY <2>1, <2>2, <2>3
<1>6. QED BY <1>1, <1>3, <1>5, BlockDevAssumption DEF BlockInv

\* A request that fails has changed no byte outside its range.
LEMMA GivenUp ==
    ASSUME BlockInv, NEW c \in Callers, partLock = c, ~partBufFreed, GiveUp(c), job[c].step \in Holding,
           device' = [a \in Addresses |-> device'[a]],
           partBuf' = [k \in 0 .. BlockSize - 1 |-> partBuf'[k]],
           \A a \in Addresses : device'[a] # device[a] => Writes(c) /\ a \in At(c) .. RangeEnd(c) - 1
    PROVE  BlockInv'
<1> DEFINE j == [job[c] EXCEPT !.step = "failed"]
<1>1. /\ UNCHANGED <<partBufFreed, got>>
      /\ partLock' = Nobody /\ job' = [job EXCEPT ![c] = j]
      /\ meant' = IF ~Writes(c) THEN meant
                  ELSE [a \in Addresses |-> IF a \in At(c) .. RangeEnd(c) - 1 THEN Anything ELSE meant[a]]
  BY DEF GiveUp, GoTo
<1>2. j \in Jobs /\ j.request = job[c].request /\ j.step = "failed"
  BY DEF BlockInv, BlockTypes, Jobs
<1> HIDE DEF j
<1>3. BlockTypes'
  <2>1. got' = [d \in Callers |-> got'[d]]
    BY <1>1 DEF BlockInv, BlockTypes
  <2>2. /\ BlockTypes /\ j.step \notin Holding /\ partBufFreed' = FALSE
        /\ j.step \in Holding \cup {"done", "failed"}
    BY <1>1, <1>2 DEF BlockInv, BlockTypes, Holding
  <2>3. partLock' = IF j.step \in Holding THEN c ELSE Nobody
    BY <1>1, <2>2
  <2>4. QED BY <1>1, <1>2, <2>1, <2>2, <2>3, HolderMoves
<1>4. Contents(c)
  BY DEF BlockInv
<1>5. Kept'
  <2>1. CASE Writes(c)
    <3>1. \A a \in Addresses : a \notin At(c) .. RangeEnd(c) - 1 => meant[a] \in {Anything, device[a]}
      BY <1>4, <2>1 DEF Contents
    <3>2. \A a \in Addresses : meant'[a] = IF a \in At(c) .. RangeEnd(c) - 1 THEN Anything ELSE meant[a]
      BY <1>1, <2>1
    <3>3. \A a \in Addresses : meant'[a] \in {Anything, device'[a]}
      BY <3>1, <3>2
    <3>4. QED BY <3>3 DEF Kept, Addresses
  <2>2. CASE ~Writes(c)
    <3>1. Kept /\ meant' = meant /\ \A a \in Addresses : device'[a] = device[a]
      BY <1>1, <1>4, <2>2 DEF Contents
    <3>2. QED BY <3>1 DEF Kept, Addresses
  <2>3. Writes(c) \in BOOLEAN
    BY Requested DEF BlockInv
  <2>4. QED BY <2>1, <2>2, <2>3
<1>6. QED BY <1>1, <1>3, <1>5, BlockDevAssumption DEF BlockInv

\* A transfer of whole blocks fails, after any number of its blocks.
LEMMA FailsKeeps ==
    ASSUME BlockInv, NEW c \in Callers, NEW n \in Nat, Fails(c, n)
    PROVE  BlockInv'
<1>1. /\ partLock = c /\ ~partBufFreed /\ job[c].step \in Holding /\ GiveUp(c) /\ UNCHANGED partBuf
      /\ device' = IF n = 0 THEN device ELSE Stored(c, Aligned(Position(c)), job[c].pos, n * BlockSize)
  BY DEF Fails, Step, Holding
<1>2. partBuf' = [k \in 0 .. BlockSize - 1 |-> partBuf'[k]]
  BY <1>1 DEF BlockInv, BlockTypes
<1>3. CASE n = 0
  <2>1. device' = device /\ device' = [a \in Addresses |-> device'[a]]
    BY <1>1, <1>3 DEF BlockInv, BlockTypes
  <2>2. QED BY <1>1, <1>2, <2>1, GivenUp
<1>4. CASE n # 0
  <2>1. Step(c, "pieces") /\ n < Shorter(job[c].left, job[c].piece) /\ Writes(c)
    BY <1>4 DEF Fails
  <2>2. job[c].left \in Nat /\ job[c].piece \in Nat /\ BlockSize \in Nat \ {0}
    BY Requested DEF BlockInv
  <2>3. n < job[c].left
    BY <2>1, <2>2 DEF Shorter
  <2>4. /\ Aligned(Position(c)) = Position(c)
        /\ Position(c) \in Nat /\ At(c) \in Nat /\ job[c].pos \in Nat /\ Position(c) = At(c) + job[c].pos
        /\ Aligned(RangeEnd(c)) \in Nat /\ Aligned(RangeEnd(c)) <= RangeEnd(c)
        /\ BlockSize * job[c].left \in Nat
        /\ Position(c) + BlockSize * job[c].left = Aligned(RangeEnd(c))
        /\ BlockSize * n \in Nat /\ BlockSize * n <= BlockSize * job[c].left
    BY <2>1, <2>2, <2>3, PieceFacts
  <2>5. n * BlockSize = BlockSize * n
    BY <2>2
  <2>6. RangeEnd(c) \in Nat
    BY Requested DEF BlockInv
  <2>7. device' = Stored(c, Position(c), job[c].pos, BlockSize * n)
    BY <1>1, <1>4, <2>4, <2>5
  <2>8. device' = [a \in Addresses |-> device'[a]]
    BY <2>7 DEF Stored
  <2>9. \A a \in Addresses : device'[a] # device[a] => a \in Position(c) .. Position(c) + BlockSize * n - 1
    BY <2>7 DEF Stored
  <2>10. \A a \in Position(c) .. Position(c) + BlockSize * n - 1 : a \in At(c) .. RangeEnd(c) - 1
    <3> DEFINE x == BlockSize * n
               y == BlockSize * job[c].left
    <3>1. x \in Nat /\ y \in Nat /\ x <= y /\ Position(c) + y = Aligned(RangeEnd(c))
      BY <2>4
    <3> HIDE DEF x, y
    <3>2. \A a \in Position(c) .. Position(c) + x - 1 : a \in At(c) .. RangeEnd(c) - 1
      BY <2>4, <2>6, <3>1
    <3>3. QED BY <3>2 DEF x
  <2>11. QED BY <1>1, <1>2, <2>1, <2>8, <2>9, <2>10, GivenUp
<1>5. QED BY <1>3, <1>4

\* The write of the first or the last block fails, whether it reached the device or not.
LEMMA WriteBackFailsKeeps ==
    ASSUME BlockInv, NEW c \in Callers, NEW reaches \in BOOLEAN, WriteBackFails(c, reaches)
    PROVE  BlockInv'
<1>1. /\ Writes(c) /\ GiveUp(c) /\ partLock = c /\ ~partBufFreed /\ job[c].step \in {"headDone", "tailDone"}
      /\ job[c].step = "headDone" => WriteHead(c, reaches)
      /\ job[c].step = "tailDone" => WriteTail(c, reaches)
  BY DEF WriteBackFails, Step
<1>2. /\ At(c) \in Nat /\ Size(c) \in Nat \ {0} /\ RangeEnd(c) \in Nat /\ RangeEnd(c) = At(c) + Size(c)
      /\ job[c].pos \in Nat /\ Position(c) = At(c) + job[c].pos /\ job[c].rest \in BOOLEAN
  BY Requested DEF BlockInv
<1>3. job[c].step \in Holding
  BY <1>1 DEF Holding
<1>4. CASE job[c].step = "headDone"
  <2>1. /\ device' = [a \in Addresses |-> device'[a]] /\ partBuf' = [k \in 0 .. BlockSize - 1 |-> partBuf'[k]]
        /\ \A a \in Addresses : device'[a] =
             IF reaches /\ a \in At(c) .. At(c) + HeadLength(c) - 1 THEN <<c, a - At(c)>> ELSE device[a]
    BY <1>1, <1>4, HeadWritten
  <2>2. \A a \in At(c) .. At(c) + HeadLength(c) - 1 : a \in At(c) .. RangeEnd(c) - 1
    <3>1. HeadLength(c) \in 1 .. Size(c)
      BY FirstPart DEF BlockInv
    <3>2. QED BY <1>2, <3>1
  <2>3. \A a \in Addresses : device'[a] # device[a] => a \in At(c) .. RangeEnd(c) - 1
    BY <2>1, <2>2
  <2>4. QED BY <1>1, <1>3, <2>1, <2>3, GivenUp
<1>5. CASE job[c].step = "tailDone"
  <2>1. /\ device' = [a \in Addresses |-> device'[a]] /\ partBuf' = [k \in 0 .. BlockSize - 1 |-> partBuf'[k]]
        /\ \A a \in Addresses : device'[a] =
             IF reaches /\ a \in Aligned(RangeEnd(c)) .. RangeEnd(c) - 1
             THEN <<c, job[c].pos + a - Aligned(RangeEnd(c))>> ELSE device[a]
    BY <1>1, <1>5, TailWritten
  <2>2. \A a \in Aligned(RangeEnd(c)) .. RangeEnd(c) - 1 : a \in At(c) .. RangeEnd(c) - 1
    <3>1. AtLastBlock(c)
      BY <1>1, <1>5 DEF BlockInv, Progress
    <3>2. Aligned(RangeEnd(c)) \in Nat
      BY <1>2, AlignedFacts
    <3>3. Position(c) <= Aligned(RangeEnd(c))
      BY <1>2, <3>1, <3>2 DEF AtLastBlock
    <3>4. QED BY <1>2, <3>2, <3>3
  <2>3. \A a \in Addresses : device'[a] # device[a] => a \in At(c) .. RangeEnd(c) - 1
    BY <2>1, <2>2
  <2>4. QED BY <1>1, <1>3, <2>1, <2>3, GivenUp
<1>6. QED BY <1>1, <1>4, <1>5

---------------------------------------------------------------------------
(* The theorem *)

\* An erased device and callers that have not begun.
LEMMA BlockInitHolds ==
    ASSUME BlockDevInit
    PROVE  BlockInv
<1>1. PICK req \in [Callers -> Requests] : job = [c \in Callers |-> Job(req[c], "start")]
  BY DEF BlockDevInit
<1>2. /\ device = [a \in Addresses |-> Erased] /\ partBuf = [k \in 0 .. BlockSize - 1 |-> Erased]
      /\ partBufFreed = FALSE /\ partLock = Nobody /\ got = [c \in Callers |-> <<>>] /\ meant = device
  BY DEF BlockDevInit
<1>3. /\ job \in [Callers -> Jobs]
      /\ \A c \in Callers : job[c].step = "start" /\ job[c].pos = 0 /\ ~job[c].rest
  BY <1>1 DEF Job, Jobs
<1>4. BlockTypes
  BY <1>2, <1>3, BlockDevAssumption DEF BlockTypes, Holding
<1>5. Kept
  BY <1>2 DEF Kept
<1>6. QED BY <1>2, <1>4, <1>5, BlockDevAssumption DEF BlockInv

\* Each step, by its kind.
LEMMA BlockStepHolds ==
    ASSUME BlockInv, [BlockDevNext]_blockVars
    PROVE  BlockInv'
<1>1. CASE UNCHANGED blockVars
  <2>1. UNCHANGED <<device, partBuf, partBufFreed, partLock, job, got, meant>>
    BY <1>1 DEF blockVars, deviceVars
  <2>2. BlockTypes' <=> BlockTypes
    BY <2>1 DEF BlockTypes, Addresses
  <2>3. Kept' <=> Kept
    BY <2>1 DEF Kept, Addresses
  <2>4. ASSUME NEW c \in Callers, Progress(c), Contents(c) PROVE Progress(c)' /\ Contents(c)'
    <3>1. /\ At(c)' = At(c) /\ RangeEnd(c)' = RangeEnd(c) /\ Position(c)' = Position(c) /\ (Writes(c)' <=> Writes(c))
          /\ HeadLength(c)' = HeadLength(c) /\ Size(c)' = Size(c)
      BY <2>1 DEF At, RangeEnd, Position, Writes, HeadLength, Shorter, Size
    <3>2. AtLastBlock(c)' <=> AtLastBlock(c)
      BY <2>1, <3>1 DEF AtLastBlock, Aligned
    <3>3. Moved(c)' = Moved(c)
      BY <2>1, <3>1 DEF Moved, Sure, Aligned
    <3>4. Progress(c)'
      BY <2>1, <2>4, <3>1, <3>2 DEF Progress, Aligned
    <3>5. Contents(c)'
      BY <2>1, <2>3, <2>4, <3>1, <3>3 DEF Contents, Addresses
    <3>6. QED BY <3>4, <3>5
  <2>5. QED BY <2>1, <2>2, <2>3, <2>4 DEF BlockInv
<1>2. ASSUME NEW c \in Callers, Acquire(c) PROVE BlockInv'
  BY <1>2, AcquireKeeps
<1>3. ASSUME NEW c \in Callers, ReadBlock(c, "head", "headDone") \/ ReadBlock(c, "tail", "tailDone") PROVE BlockInv'
  BY <1>3, ReadBlockKeeps
<1>4. ASSUME NEW c \in Callers, HeadDone(c) PROVE BlockInv'
  BY <1>4, HeadDoneKeeps
<1>5. ASSUME NEW c \in Callers, Middle(c) PROVE BlockInv'
  BY <1>5, MiddleKeeps
<1>6. ASSUME NEW c \in Callers, MiddleFrees(c) PROVE BlockInv'
  BY <1>6, MiddleFreesKeeps
<1>7. ASSUME NEW c \in Callers, Piece(c) PROVE BlockInv'
  BY <1>7, PieceKeeps
<1>8. ASSUME NEW c \in Callers, PiecesDone(c) PROVE BlockInv'
  BY <1>8, PiecesDoneKeeps
<1>9. ASSUME NEW c \in Callers, TailDone(c) PROVE BlockInv'
  BY <1>9, TailDoneKeeps
<1>10. ASSUME NEW c \in Callers, Release(c) PROVE BlockInv'
  BY <1>10, ReleaseKeeps
<1>11. ASSUME NEW c \in Callers, NEW n \in 0 .. DeviceSize, Fails(c, n) PROVE BlockInv'
  <2>1. n \in Nat
    BY BlockDevAssumption
  <2>2. QED BY <1>11, <2>1, FailsKeeps
<1>12. ASSUME NEW c \in Callers, NEW reaches \in BOOLEAN, WriteBackFails(c, reaches) PROVE BlockInv'
  BY <1>12, WriteBackFailsKeeps
<1>13. QED
  BY <1>1, <1>2, <1>3, <1>4, <1>5, <1>6, <1>7, <1>8, <1>9, <1>10, <1>11, <1>12 DEF BlockDevNext

\* Every byte is the one the last successful write of its address meant, and a read returns
\* what was there, for every size of the blocks, every device and any requests of any callers, with
\* one exception: of the part of a block that follows a rest, the last whole blocks through the
\* allocated buffer, nothing is said, nor of what a read returns from the rest on.  The code takes
\* these bytes from, or puts them in, the wrong place, and reports success
\* (combo_emmc_ufs_generic_inter.c:153-155, 263-265).
THEOREM BytesAreExact == BlockDevSpec => []BytesExact
<1>1. BlockDevInit => BlockInv
  BY BlockInitHolds
<1>2. BlockInv /\ [BlockDevNext]_blockVars => BlockInv'
  BY BlockStepHolds
<1>3. BlockInv => BytesExact
  <2> SUFFICES ASSUME BlockInv PROVE BytesExact
    OBVIOUS
  <2>1. ASSUME NEW c \in Callers, Step(c, "release"), ~Writes(c), NEW k \in 0 .. Sure(c) - 1
        PROVE  k \in DOMAIN got[c] /\ got[c][k] = device[At(c) + k]
    BY <2>1 DEF BlockInv, Contents, Moved, Step
  <2>2. QED BY <2>1 DEF BlockInv, Kept, BytesExact
<1>4. QED BY <1>1, <1>2, <1>3, PTL DEF BlockDevSpec

---------------------------------------------------------------------------
(* The slots *)

\* What is left of a slot's tries and the n boots it has had of them do not add
\* up to more than it was given, and a slot that is successful has no tries.
Within(n, s) ==
    /\ n <= MaxTries
    /\ s.successful => s.tries = 0
    /\ ~s.successful => n + s.tries <= MaxTries

Counted == \A s \in Slots : Within(attempts[s], misc.slots[s])

\* In fastboot the copy in memory has the slots of misc; between the read and
\* the write of set_active the local copy has the new slots.
Activating ==
    pc \in {"fastboot", "restore", "region", "write"} =>
        /\ saved.format = "avb" => saved.slots = misc.slots
        /\ pc # "fastboot" =>
              /\ metadata.format = "avb"
              /\ metadata.slots[slot] = Fresh(MaxPriority)
              /\ metadata.slots[Other(slot)] = Demoted(misc.slots[Other(slot)])

\* The preloader has taken the try that increase_tries_remaining gives back.
GivenBack ==
    /\ pc \in {"off", "boot"} => saved = None
    /\ pc = "boot" =>
          LET top == misc.slots[Top(misc)]
          IN misc.format = "avb" /\ ~top.successful /\ top.tries > 0 =>
                 attempts[Top(misc)] + top.tries < MaxTries
    /\ pc = "increase" =>
          \A s \in Slots :
              /\ Within(attempts[s], metadata.slots[s])
              /\ Bootable(misc.slots[s]) => Bootable(metadata.slots[s])

\* The slot in avb_ab_flow's copy is the one of misc, or given up.
KeptOrGivenUp(s) ==
    \/ metadata.slots[s] = misc.slots[s]
    \/ metadata.slots[s] = Unbootable /\ (image[s] = "bad" \/ ~Bootable(misc.slots[s]))

\* A slot avb_ab_flow may still choose has passed its verification.
Passed(s) == Bootable(metadata.slots[s]) => s \in verified /\ image[s] = "good"

\* avb_ab_flow has read what is on misc and has changed nothing but that, and at
\* the end the tries of the slot it has chosen.
Flowing ==
    /\ pc \in {"verify0", "verify1", "select", "save"} => misc = orig
    /\ pc \in {"verify0", "verify1", "select"} => \A s \in Slots : KeptOrGivenUp(s)
    /\ pc \in {"verify1", "select"} => Passed(0)
    /\ pc = "select" => Passed(1)
    /\ pc = "save" =>
          \A s \in Slots :
              \/ ~(s = slot /\ verified # {}) /\ KeptOrGivenUp(s)
              \/ /\ s = slot /\ verified # {}
                 /\ Bootable(misc.slots[s])
                 /\ metadata.slots[s] = Tried(misc.slots[s])
    /\ pc = "post" /\ ~misc.slots[slot].successful =>
          attempts[slot] + misc.slots[slot].tries < MaxTries

\* The slot the flow is about is good and the best of m.
BestOf(m) ==
    /\ image[slot] = "good"
    /\ \A s \in Slots : Bootable(m.slots[s]) => m.slots[s].priority <= m.slots[slot].priority

Choosing ==
    /\ pc = "save" /\ verified # {} => BestOf(metadata)
    /\ pc \in {"post", "kernel"} => BestOf(misc)

\* fastboot's OKAY stands until its next command; whether the boot region follows it,
\* set_active_slot knows only of an error that is negative.
Answering ==
    /\ pc = "write" => region = slot \/ unseen
    /\ answer = "okay" => pc = "fastboot" /\ OkayMeansActive

\* Only the restore of version 1 metadata goes past the copy in memory.
Copying == CopyCurrent /\ (pc = "restore" => backup)

\* The inductive invariant.
SlotsInv ==
    /\ TypeOK /\ Counted
    /\ Activating /\ GivenBack /\ Flowing
    /\ Choosing /\ Answering /\ Copying

---------------------------------------------------------------------------
(* The operators of the model return what they should. *)

\* Whatever is done to a slot makes a slot.
LEMMA SlotTypes ==
    /\ Unbootable \in Slot
    /\ \A p \in 0 .. MaxPriority : Fresh(p) \in Slot
    /\ \A s \in Slot : /\ Normalized(s) \in Slot /\ Demoted(s) \in Slot
                       /\ Increased(s) \in Slot /\ Tried(s) \in Slot
<1> USE AbAssumption DEF Slot, Unbootable, Fresh
<1>1. Unbootable \in Slot
  OBVIOUS
<1>2. \A p \in 0 .. MaxPriority : Fresh(p) \in Slot
  OBVIOUS
<1>3. ASSUME NEW s \in Slot
      PROVE  /\ Normalized(s) \in Slot /\ Demoted(s) \in Slot
             /\ Increased(s) \in Slot /\ Tried(s) \in Slot
  <2>1. Normalized(s) \in Slot
    BY DEF Normalized
  <2>2. Demoted(s) \in Slot
    BY DEF Demoted
  <2>3. Increased(s) \in Slot
    BY DEF Increased
  <2>4. Tried(s) \in Slot
    BY DEF Tried
  <2> QED
    BY <2>1, <2>2, <2>3, <2>4
<1> QED
  BY <1>1, <1>2, <1>3

\* What is done to a slot keeps it within its bound, and keeps a bootable slot
\* bootable, except that Tried may take the last try.
LEMMA SlotFacts ==
    ASSUME NEW s \in Slot, NEW n \in Nat
    PROVE  /\ Within(n, s) => Within(n, Demoted(s)) /\ Within(n, Normalized(s)) /\ Within(n, Tried(s))
           /\ Bootable(s) => Bootable(Demoted(s))
           /\ Bootable(s) /\ Within(n, s) => Normalized(s) = s
           /\ Normalized(s) \in {s, Unbootable}
           /\ Bootable(s) => Bootable(Increased(s))
           /\ Within(n, s) /\ (~s.successful /\ s.tries > 0 => n + s.tries < MaxTries) =>
                Within(n, Increased(s))
           /\ Bootable(s) /\ (s.successful \/ s.tries # 1) => Bootable(Tried(s))
           /\ Within(n, s) /\ ~Tried(s).successful /\ (Tried(s).tries > 0 \/ Bootable(s)) =>
                n + Tried(s).tries < MaxTries
<1> USE AbAssumption DEF Slot, Within, Bootable
<1>1. Within(n, s) => Within(n, Demoted(s)) /\ Within(n, Normalized(s)) /\ Within(n, Tried(s))
  <2>1. Within(n, s) => Within(n, Demoted(s))
    BY DEF Demoted
  <2>2. Within(n, s) => Within(n, Normalized(s))
    BY DEF Normalized, Unbootable
  <2>3. Within(n, s) => Within(n, Tried(s))
    BY DEF Tried
  <2> QED
    BY <2>1, <2>2, <2>3
<1>2. Bootable(s) => Bootable(Demoted(s))
  BY DEF Demoted
<1>3. Bootable(s) /\ Within(n, s) => Normalized(s) = s
  BY DEF Normalized
<1>4. Normalized(s) \in {s, Unbootable}
  BY DEF Normalized
<1>5. Bootable(s) => Bootable(Increased(s))
  BY DEF Increased
<1>6. Within(n, s) /\ (~s.successful /\ s.tries > 0 => n + s.tries < MaxTries) =>
        Within(n, Increased(s))
  BY DEF Increased
<1>7. Bootable(s) /\ (s.successful \/ s.tries # 1) => Bootable(Tried(s))
  BY DEF Tried
<1>8. Within(n, s) /\ ~Tried(s).successful /\ (Tried(s).tries > 0 \/ Bootable(s)) =>
        n + Tried(s).tries < MaxTries
  BY DEF Tried
<1> QED
  BY <1>1, <1>2, <1>3, <1>4, <1>5, <1>6, <1>7, <1>8

\* A slot that gets its tries anew, or loses them, is within its bound.
LEMMA NewSlots ==
    /\ \A p \in 0 .. MaxPriority : Within(0, Fresh(p)) /\ Fresh(p).priority = p
                                  /\ (p > 0 => Bootable(Fresh(p)))
    /\ \A n \in Nat : n <= MaxTries => Within(n, Unbootable)
    /\ ~Bootable(Unbootable)
BY AbAssumption DEF Within, Fresh, Unbootable, Bootable

\* Whatever is done to the metadata makes metadata, and the empty copy is none.
LEMMA MetadataTypes ==
    /\ InitialData \in Metadata /\ InitialData.format = "avb"
    /\ None.format # "avb"
    /\ \A m \in Metadata :
          /\ Top(m) \in Slots
          /\ [m EXCEPT !.format = "avb"] \in Metadata
          /\ [m EXCEPT !.format = "v1"] \in Metadata
          /\ [m EXCEPT !.slots = [s \in Slots |-> Normalized(m.slots[s])]] \in Metadata
          /\ \A s \in Slots : /\ Activated(m, s) \in Metadata
                               /\ \A v \in Slot : [m EXCEPT !.slots[s] = v] \in Metadata
<1> USE AbAssumption DEF Metadata, Slots
<1>1. InitialData \in Metadata /\ InitialData.format = "avb"
  <2>1. \A s \in Slots : MaxPriority - s \in 0 .. MaxPriority
    OBVIOUS
  <2> QED
    BY <2>1, SlotTypes DEF InitialData
<1>2. None.format # "avb"
  BY DEF None
<1>3. ASSUME NEW m \in Metadata
      PROVE  /\ Top(m) \in Slots
             /\ [m EXCEPT !.format = "avb"] \in Metadata
             /\ [m EXCEPT !.format = "v1"] \in Metadata
             /\ [m EXCEPT !.slots = [s \in Slots |-> Normalized(m.slots[s])]] \in Metadata
             /\ \A s \in Slots : /\ Activated(m, s) \in Metadata
                                  /\ \A v \in Slot : [m EXCEPT !.slots[s] = v] \in Metadata
  <2>1. Top(m) \in Slots
    BY DEF Top
  <2>2. /\ [m EXCEPT !.format = "avb"] \in Metadata
        /\ [m EXCEPT !.format = "v1"] \in Metadata
    OBVIOUS
  <2>3. [m EXCEPT !.slots = [s \in Slots |-> Normalized(m.slots[s])]] \in Metadata
    BY SlotTypes
  <2>4. ASSUME NEW s \in Slots PROVE Activated(m, s) \in Metadata
    BY SlotTypes DEF Activated
  <2>5. ASSUME NEW s \in Slots, NEW v \in Slot PROVE [m EXCEPT !.slots[s] = v] \in Metadata
    OBVIOUS
  <2> QED
    BY <2>1, <2>2, <2>3, <2>4, <2>5
<1> QED
  BY <1>1, <1>2, <1>3

\* Every variable keeps its type.
LEMMA TypeStep == TypeOK /\ [Next]_vars => TypeOK'
<1> SUFFICES ASSUME TypeOK, [Next]_vars PROVE TypeOK'
  OBVIOUS
<1> USE DEF TypeOK, disk, flowVars
<1>1. CASE Preloader
  <2>1. misc' \in Metadata
    <3>1. CASE misc.format = "avb"
      <4>1. Top(misc) \in Slots
        BY MetadataTypes
      <4>2. Tried(misc.slots[Top(misc)]) \in Slot
        BY <4>1, SlotTypes DEF Metadata
      <4> QED
        BY <1>1, <3>1, <4>1, <4>2, MetadataTypes DEF Preloader
    <3> QED
      BY <1>1, <3>1 DEF Preloader
  <2> QED
    BY <1>1, <2>1 DEF Preloader
<1>2. ASSUME NEW s \in Slots, SetActiveSlot(s) PROVE TypeOK'
  <2>1. InfoRead \in Metadata
    BY MetadataTypes DEF InfoRead
  <2>2. Activated(InfoRead, s) \in Metadata
    BY <2>1, MetadataTypes
  <2> QED
    BY <1>2, <2>1, <2>2 DEF SetActiveSlot, ReadInfo
<1>3. ASSUME NEW s \in Slots, Flash(s) PROVE TypeOK'
  <2>1. InfoRead \in Metadata
    BY MetadataTypes DEF InfoRead
  <2> QED
    BY <1>3, <2>1 DEF Flash, ReadInfo
<1>4. CASE RestoreV1
  <2>1. misc' \in Metadata
    BY <1>4, MetadataTypes DEF RestoreV1
  <2> QED
    BY <1>4, <2>1 DEF RestoreV1
<1>5. CASE SetBootRegion
  BY <1>5 DEF SetBootRegion
<1>6. CASE SetActiveWrite
  <2>1. misc' \in Metadata /\ saved' \in Metadata \union {None}
    BY <1>6, MetadataTypes DEF SetActiveWrite, WriteInfo
  <2>2. attempts' \in [Slots -> 0 .. MaxTries + 1]
    BY <1>6, AbAssumption DEF SetActiveWrite
  <2> QED
    BY <1>6, <2>1, <2>2 DEF SetActiveWrite
<1>7. CASE IncreaseTries
  <2>1. InfoRead \in Metadata
    BY MetadataTypes DEF InfoRead
  <2>2. metadata' \in Metadata
    <3>1. CASE InfoRead.format = "avb"
      <4>1. Top(InfoRead) \in Slots
        BY <2>1, MetadataTypes
      <4>2. Increased(InfoRead.slots[Top(InfoRead)]) \in Slot
        BY <2>1, <4>1, SlotTypes DEF Metadata
      <4>3. metadata' = [InfoRead EXCEPT !.slots[Top(InfoRead)] =
                             Increased(InfoRead.slots[Top(InfoRead)])]
        BY <1>7, <3>1 DEF IncreaseTries
      <4> QED
        BY <2>1, <4>1, <4>2, <4>3, MetadataTypes
    <3> QED
      BY <1>7, <3>1 DEF IncreaseTries
  <2> QED
    BY <1>7, <2>1, <2>2 DEF IncreaseTries, ReadInfo
<1>8. CASE IncreaseWrite
  <2>1. misc' \in Metadata /\ saved' \in Metadata \union {None}
    BY <1>8, MetadataTypes DEF IncreaseWrite, WriteInfo
  <2> QED
    BY <1>8, <2>1 DEF IncreaseWrite
<1>9. CASE LoadMetadata
  <2>1. misc' \in Metadata /\ orig' \in Metadata
    BY <1>9, MetadataTypes DEF LoadMetadata
  <2>2. metadata' = [misc' EXCEPT !.slots = [s \in Slots |-> Normalized(misc'.slots[s])]]
    BY <1>9 DEF LoadMetadata
  <2>3. metadata' \in Metadata
    BY <2>1, <2>2, MetadataTypes
  <2>4. attempts' \in [Slots -> 0 .. MaxTries + 1]
    BY <1>9, AbAssumption DEF LoadMetadata
  <2> QED
    BY <1>9, <2>1, <2>3, <2>4 DEF LoadMetadata
<1>10. CASE LoadFails
  <2>1. misc' \in Metadata
    <3>1. Garbage \subseteq Slot
      BY SlotTypes, AbAssumption DEF Garbage
    <3>2. [format : {"junk"}, slots : [Slots -> Garbage]] \subseteq Metadata
      BY <3>1 DEF Metadata
    <3> QED
      BY <1>10, <3>2, MetadataTypes DEF LoadFails
  <2>2. attempts' \in [Slots -> 0 .. MaxTries + 1]
    BY <1>10, AbAssumption DEF LoadFails
  <2> QED
    BY <1>10, <2>1, <2>2 DEF LoadFails
<1>11. ASSUME NEW n \in Slots, VerifySlot(n) PROVE TypeOK'
  <2>1. InfoRead \in Metadata
    BY MetadataTypes DEF InfoRead
  <2>2. [metadata EXCEPT !.slots[n] = Unbootable] \in Metadata
    BY <1>11, SlotTypes, MetadataTypes
  <2>3. saved' \in Metadata \union {None} /\ metadata' \in Metadata /\ verified' \subseteq Slots
    BY <1>11, <2>1, <2>2 DEF VerifySlot, ReadInfo
  <2>4. pc' \in {"verify1", "select", "save"}
    BY <1>11 DEF VerifySlot
  <2> QED
    BY <1>11, <2>3, <2>4 DEF VerifySlot
<1>12. CASE SelectSlot
  <2>1. metadata' \in Metadata /\ slot' \in Slots
    <3>1. CASE \E s \in Slots : Bootable(metadata.slots[s])
      <4>1. Chosen \in Slots
        BY <3>1, MetadataTypes DEF Chosen
      <4>2. Tried(metadata.slots[Chosen]) \in Slot
        BY <4>1, SlotTypes DEF Metadata
      <4>3. metadata' = [metadata EXCEPT !.slots[Chosen] = Tried(metadata.slots[Chosen])]
            /\ slot' = Chosen
        BY <1>12, <3>1 DEF SelectSlot
      <4> QED
        BY <4>1, <4>2, <4>3, MetadataTypes
    <3> QED
      BY <1>12, <3>1 DEF SelectSlot
  <2> QED
    BY <1>12, <2>1 DEF SelectSlot
<1>13. CASE SaveMetadata
  <2>1. misc' \in Metadata
    BY <1>13 DEF SaveMetadata
  <2> QED
    BY <1>13, <2>1 DEF SaveMetadata
<1>14. CASE PostProcess
  <2>1. InfoRead \in Metadata /\ Top(InfoRead) \in Slots
    BY MetadataTypes DEF InfoRead
  <2>2. attempts' \in [Slots -> 0 .. MaxTries + 1]
    BY <1>14, AbAssumption DEF PostProcess
  <2> QED
    BY <1>14, <2>1, <2>2 DEF PostProcess, ReadInfo
<1>15. CASE MarkSuccessful
  <2>1. [misc.slots[slot] EXCEPT !.tries = 0, !.successful = TRUE] \in Slot
    <3>1. misc.slots[slot] \in Slot
      BY DEF Metadata
    <3>2. [misc.slots[slot] EXCEPT !.tries = 0] \in Slot
      BY <3>1, AbAssumption DEF Slot
    <3>3. [[misc.slots[slot] EXCEPT !.tries = 0] EXCEPT !.successful = TRUE] \in Slot
      BY <3>2 DEF Slot
    <3> QED
      BY <3>3
  <2>2. misc' = [misc EXCEPT !.slots[slot] =
                     [misc.slots[slot] EXCEPT !.tries = 0, !.successful = TRUE]]
    BY <1>15 DEF MarkSuccessful, Metadata, Slot
  <2>3. misc' \in Metadata
    BY <2>1, <2>2, MetadataTypes
  <2> QED
    BY <1>15, <2>3 DEF MarkSuccessful
<1>16. CASE Update
  <2>1. Other(slot) \in Slots
    BY DEF Other, Slots
  <2>2. misc' \in Metadata
    BY <1>16, <2>1, MetadataTypes DEF Update
  <2>3. attempts' \in [Slots -> 0 .. MaxTries + 1]
    BY <1>16, <2>1, AbAssumption, 0 \in 0 .. MaxTries + 1 DEF Update
  <2> QED
    BY <1>16, <2>1, <2>2, <2>3 DEF Update
<1>17. CASE PowerOff
  <2>1. InitialData \in Metadata /\ 0 \in Slots
    BY MetadataTypes DEF Slots
  <2> QED
    BY <1>17, <2>1 DEF PowerOff
<1>19. CASE PostFails
  <2>1. InfoRead \in Metadata
    BY MetadataTypes DEF InfoRead
  <2> QED
    BY <1>19, <2>1 DEF PostFails
<1>18. CASE UNCHANGED vars
  BY <1>18 DEF vars, disk, flowVars
<1> QED
  BY <1>1, <1>2, <1>3, <1>4, <1>5, <1>6, <1>7, <1>8, <1>9,
     <1>10, <1>11, <1>12, <1>13, <1>14, <1>15, <1>16, <1>17, <1>18, <1>19
  DEF Next, Fastboot, LoadVfyBoot

\* What SlotFacts says of the slots on misc, and of those avb_ab_data_init makes.
LEMMA MiscFacts ==
    ASSUME TypeOK, Counted, NEW s \in Slots
    PROVE  /\ misc.slots[s] \in Slot /\ attempts[s] \in Nat
           /\ Within(attempts[s], misc.slots[s])
           /\ Within(attempts[s], Demoted(misc.slots[s]))
           /\ Within(attempts[s], Normalized(misc.slots[s]))
           /\ Within(attempts[s], Tried(misc.slots[s]))
<1>1. misc.slots[s] \in Slot /\ attempts[s] \in Nat
  BY AbAssumption DEF TypeOK, Metadata
<1>2. Within(attempts[s], misc.slots[s])
  BY DEF Counted
<1> QED
  BY <1>1, <1>2, SlotFacts

LEMMA MadeFacts == \A s \in Slots : Within(0, InitialData.slots[s]) /\ Bootable(InitialData.slots[s])
<1>1. \A s \in Slots : MaxPriority - s \in 1 .. MaxPriority
  BY AbAssumption DEF Slots
<1> QED
  BY <1>1, NewSlots DEF InitialData

\* The tries stay within their bound.
LEMMA CountedStep == SlotsInv /\ [Next]_vars => Counted'
<1> SUFFICES ASSUME SlotsInv, [Next]_vars PROVE Counted'
  OBVIOUS
<1> USE DEF SlotsInv, TypeOK, Counted
<1>1. CASE Preloader
  <2>1. CASE misc.format = "avb"
    <3>1. Top(misc) \in Slots
      BY MetadataTypes
    <3>2. misc'.slots = [misc.slots EXCEPT ![Top(misc)] = Tried(misc.slots[Top(misc)])] /\ attempts' = attempts
      BY <1>1, <2>1 DEF Preloader, Metadata
    <3> QED
      BY <3>1, <3>2, MiscFacts DEF Metadata
  <2> QED
    BY <1>1, <2>1 DEF Preloader
<1>2. ASSUME NEW s \in Slots, SetActiveSlot(s) PROVE Counted'
  BY <1>2 DEF SetActiveSlot, disk
<1>3. ASSUME NEW s \in Slots, Flash(s) PROVE Counted'
  BY <1>3 DEF Flash, disk
<1>4. CASE RestoreV1
  <2>1. misc'.slots = misc.slots /\ attempts' = attempts
    BY <1>4 DEF RestoreV1, Metadata
  <2> QED
    BY <2>1
<1>5. CASE SetBootRegion
  BY <1>5 DEF SetBootRegion, disk
<1>6. CASE SetActiveWrite
  <2>1. CASE UNCHANGED <<misc, attempts>>
    BY <2>1
  <2>2. CASE ~UNCHANGED <<misc, attempts>>
    <3>1. misc'.slots = metadata.slots /\ attempts' = [attempts EXCEPT ![slot] = 0]
      BY <1>6, <2>2 DEF SetActiveWrite, WriteInfo, Metadata
    <3>2. /\ metadata.slots[slot] = Fresh(MaxPriority)
          /\ metadata.slots[Other(slot)] = Demoted(misc.slots[Other(slot)])
          /\ Other(slot) \in Slots
      BY <1>6 DEF SetActiveWrite, Activating, Slots, Other
    <3>3. Within(0, metadata.slots[slot])
      BY <3>2, NewSlots, AbAssumption
    <3>4. Within(attempts[Other(slot)], metadata.slots[Other(slot)])
      BY <3>2, MiscFacts
    <3>5. \A s \in Slots : s = slot \/ s = Other(slot)
      BY DEF Slots, Other
    <3> QED
      BY <3>1, <3>3, <3>4, <3>5
  <2> QED
    BY <2>1, <2>2
<1>7. CASE IncreaseTries
  BY <1>7 DEF IncreaseTries, disk
<1>8. CASE IncreaseWrite
  <2>1. attempts' = attempts /\ (misc'.slots = metadata.slots \/ misc' = misc)
    BY <1>8 DEF IncreaseWrite, WriteInfo, Metadata
  <2>2. \A s \in Slots : Within(attempts[s], metadata.slots[s])
    BY <1>8 DEF IncreaseWrite, GivenBack
  <2> QED
    BY <2>1, <2>2
<1>9. CASE LoadMetadata
  <2>1. \/ misc' = misc /\ attempts' = attempts
        \/ misc' = InitialData /\ attempts' = [s \in Slots |-> 0]
    BY <1>9 DEF LoadMetadata
  <2> QED
    BY <2>1, MadeFacts
<1>10. CASE LoadFails
  <2>1. CASE misc' = misc
    BY <1>10, <2>1 DEF LoadFails
  <2>2. CASE misc' # misc
    <3>1. attempts' = [s \in Slots |-> 0]
      BY <1>10, <2>2 DEF LoadFails
    <3>2. misc' = InitialData \/ \A s \in Slots : misc'.slots[s] \in Garbage
      BY <1>10, <2>2 DEF LoadFails
    <3>3. \A g \in Garbage : Within(0, g)
      BY NewSlots, AbAssumption DEF Garbage
    <3> QED
      BY <3>1, <3>2, <3>3, MadeFacts
  <2> QED
    BY <2>1, <2>2
<1>11. ASSUME NEW n \in Slots, VerifySlot(n) PROVE Counted'
  BY <1>11 DEF VerifySlot, disk
<1>12. CASE SelectSlot
  BY <1>12 DEF SelectSlot, disk
<1>13. CASE SaveMetadata
  <2>1. attempts' = attempts /\ (misc' = metadata \/ misc' = misc)
    BY <1>13 DEF SaveMetadata
  <2>2. ASSUME NEW s \in Slots PROVE Within(attempts[s], metadata.slots[s])
    <3>1. \/ metadata.slots[s] = misc.slots[s]
          \/ metadata.slots[s] = Unbootable
          \/ metadata.slots[s] = Tried(misc.slots[s])
      BY <1>13 DEF SaveMetadata, Flowing, KeptOrGivenUp
    <3> QED
      BY <3>1, MiscFacts, NewSlots DEF Within
  <2> QED
    BY <2>1, <2>2
<1>14. CASE PostProcess
  <2>1. misc' = misc /\ pc = "post"
    BY <1>14 DEF PostProcess, disk
  <2>2. CASE misc.slots[slot].successful \/ attempts' = attempts
    <3>1. attempts' = attempts
      BY <1>14, <2>2 DEF PostProcess
    <3> QED
      BY <2>1, <3>1
  <2>3. CASE ~misc.slots[slot].successful /\ attempts' # attempts
    <3>1. attempts' = [attempts EXCEPT ![slot] = attempts[slot] + 1]
      BY <1>14, <2>3 DEF PostProcess
    <3>2. attempts[slot] + misc.slots[slot].tries < MaxTries
      BY <2>1, <2>3 DEF Flowing
    <3>3. attempts[slot] \in Nat /\ misc.slots[slot].tries \in Nat
      BY DEF Metadata, Slot
    <3>4. Within(attempts[slot] + 1, misc.slots[slot])
      BY <2>3, <3>2, <3>3, AbAssumption DEF Within
    <3> QED
      BY <2>1, <3>1, <3>4
  <2> QED
    BY <2>2, <2>3
<1>15. CASE MarkSuccessful
  <2>1. misc'.slots = [misc.slots EXCEPT ![slot] =
                           [[misc.slots[slot] EXCEPT !.tries = 0] EXCEPT !.successful = TRUE]]
        /\ attempts' = attempts
    BY <1>15 DEF MarkSuccessful, Metadata
  <2>2. misc.slots[slot] \in Slot
    BY DEF Metadata
  <2>3. /\ [[misc.slots[slot] EXCEPT !.tries = 0] EXCEPT !.successful = TRUE].tries = 0
        /\ [[misc.slots[slot] EXCEPT !.tries = 0] EXCEPT !.successful = TRUE].successful
    BY <2>2 DEF Slot
  <2>4. Within(attempts[slot], [[misc.slots[slot] EXCEPT !.tries = 0] EXCEPT !.successful = TRUE])
    BY <2>3 DEF Within
  <2> QED
    BY <2>1, <2>4 DEF Metadata
<1>16. CASE Update
  <2>1. /\ misc'.slots[Other(slot)] = Fresh(MaxPriority)
        /\ misc'.slots[slot] = Demoted(Normalized(misc.slots[slot]))
        /\ attempts' = [attempts EXCEPT ![Other(slot)] = 0]
        /\ Other(slot) \in Slots /\ slot # Other(slot)
    BY <1>16 DEF Update, Activated, Metadata, Slots, Other
  <2>2. Within(attempts[slot], misc'.slots[slot])
    <3>1. Within(attempts[slot], Normalized(misc.slots[slot]))
      BY MiscFacts
    <3>2. Normalized(misc.slots[slot]) \in Slot /\ attempts[slot] \in Nat
      BY SlotTypes DEF Metadata
    <3> QED
      BY <2>1, <3>1, <3>2, SlotFacts
  <2>3. Within(0, misc'.slots[Other(slot)])
    BY <2>1, NewSlots, AbAssumption
  <2>4. \A s \in Slots : s = slot \/ s = Other(slot)
    BY DEF Slots, Other
  <2> QED
    BY <2>1, <2>2, <2>3, <2>4
<1>17. CASE PowerOff
  BY <1>17 DEF PowerOff, disk
<1>19. CASE PostFails
  BY <1>19 DEF PostFails, disk, flowVars
<1>18. CASE UNCHANGED vars
  BY <1>18 DEF vars, disk, flowVars
<1> QED
  BY <1>1, <1>2, <1>3, <1>4, <1>5, <1>6, <1>7, <1>8, <1>9,
     <1>10, <1>11, <1>12, <1>13, <1>14, <1>15, <1>16, <1>17, <1>18, <1>19
  DEF Next, Fastboot, LoadVfyBoot

\* The copies fastboot works on stay what they are.
LEMMA ActivatingStep == SlotsInv /\ [Next]_vars => Activating'
<1> SUFFICES ASSUME SlotsInv, [Next]_vars PROVE Activating'
  OBVIOUS
<1> USE DEF SlotsInv, TypeOK, Activating
<1>1. CASE Preloader
  <2>1. saved' = None /\ pc' \in {"fastboot", "boot"}
    BY <1>1 DEF Preloader, GivenBack
  <2> QED
    BY <2>1, MetadataTypes
<1>2. ASSUME NEW s \in Slots, SetActiveSlot(s) PROVE Activating'
  <2>1. InfoRead.slots = misc.slots /\ InfoRead \in Metadata
    BY <1>2, MetadataTypes DEF SetActiveSlot, InfoRead
  <2>2. saved' = InfoRead /\ misc' = misc /\ slot' = s /\ metadata' = Activated(InfoRead, s)
    BY <1>2 DEF SetActiveSlot, ReadInfo, disk
  <2>3. /\ Activated(InfoRead, s).format = "avb"
        /\ Activated(InfoRead, s).slots[s] = Fresh(MaxPriority)
        /\ Activated(InfoRead, s).slots[Other(s)] = Demoted(misc.slots[Other(s)])
    BY <2>1 DEF Activated, Slots, Other
  <2> QED
    BY <2>1, <2>2, <2>3
<1>3. ASSUME NEW s \in Slots, Flash(s) PROVE Activating'
  <2>1. InfoRead.slots = misc.slots
    BY <1>3, MetadataTypes DEF Flash, InfoRead
  <2> QED
    BY <1>3, <2>1 DEF Flash, ReadInfo
<1>4. CASE RestoreV1
  <2>1. misc'.slots = misc.slots
    BY <1>4 DEF RestoreV1, Metadata
  <2> QED
    BY <1>4, <2>1 DEF RestoreV1
<1>5. CASE SetBootRegion
  BY <1>5 DEF SetBootRegion, disk, flowVars
<1>6. CASE SetActiveWrite
  <2>1. pc' = "fastboot" /\ (saved' = None \/ UNCHANGED <<misc, saved>>)
    BY <1>6 DEF SetActiveWrite, WriteInfo
  <2> QED
    BY <1>6, <2>1, MetadataTypes DEF SetActiveWrite
<1>7. CASE IncreaseTries
  BY <1>7 DEF IncreaseTries
<1>8. CASE IncreaseWrite
  BY <1>8 DEF IncreaseWrite
<1>9. CASE LoadMetadata
  BY <1>9 DEF LoadMetadata
<1>10. CASE LoadFails
  BY <1>10 DEF LoadFails
<1>11. ASSUME NEW n \in Slots, VerifySlot(n) PROVE Activating'
  <2>1. pc' \in {"verify1", "select", "save"}
    BY <1>11 DEF VerifySlot
  <2> QED
    BY <2>1
<1>12. CASE SelectSlot
  BY <1>12 DEF SelectSlot
<1>13. CASE SaveMetadata
  BY <1>13 DEF SaveMetadata
<1>14. CASE PostProcess
  BY <1>14 DEF PostProcess
<1>15. CASE MarkSuccessful
  BY <1>15 DEF MarkSuccessful
<1>16. CASE Update
  BY <1>16 DEF Update
<1>17. CASE PowerOff
  BY <1>17 DEF PowerOff
<1>19. CASE PostFails
  BY <1>19 DEF PostFails, disk, flowVars
<1>18. CASE UNCHANGED vars
  BY <1>18 DEF vars, disk, flowVars
<1> QED
  BY <1>1, <1>2, <1>3, <1>4, <1>5, <1>6, <1>7, <1>8, <1>9,
     <1>10, <1>11, <1>12, <1>13, <1>14, <1>15, <1>16, <1>17, <1>18, <1>19
  DEF Next, Fastboot, LoadVfyBoot

\* What the preloader takes and increase_tries_remaining gives back stays in balance.
LEMMA GivenBackStep == SlotsInv /\ [Next]_vars => GivenBack'
<1> SUFFICES ASSUME SlotsInv, [Next]_vars PROVE GivenBack'
  OBVIOUS
<1> USE DEF SlotsInv, TypeOK, GivenBack
<1>1. CASE Preloader
  <2>1. saved' = saved /\ attempts' = attempts /\ pc = "off" /\ pc' # "increase" /\ pc' # "off"
    BY <1>1 DEF Preloader
  <2>2. CASE misc.format = "avb"
    <3> DEFINE top == Top(misc)
    <3>1. top \in Slots
      BY MetadataTypes
    <3>2. misc' = [misc EXCEPT !.slots[top] = Tried(misc.slots[top])]
      BY <1>1, <2>2 DEF Preloader
    <3>3. misc'.slots[top] = Tried(misc.slots[top]) /\ misc.slots[top] \in Slot
      BY <3>1, <3>2 DEF Metadata
    <3>4. \A s \in Slots : misc'.slots[s].priority = misc.slots[s].priority
      <4>1. Tried(misc.slots[top]).priority = misc.slots[top].priority
        BY <3>3 DEF Tried, Slot
      <4> QED
        BY <3>1, <3>2, <4>1 DEF Metadata
    <3>5. Top(misc') = top
      BY <3>4 DEF Top, Slots
    <3>6. attempts[top] \in Nat /\ Within(attempts[top], misc.slots[top])
      BY <3>1, MiscFacts
    <3>7. ~misc'.slots[top].successful /\ misc'.slots[top].tries > 0 =>
            attempts[top] + misc'.slots[top].tries < MaxTries
      BY <3>3, <3>6, SlotFacts
    <3> QED
      BY <2>1, <3>5, <3>7
  <2>3. CASE misc.format # "avb"
    BY <1>1, <2>1, <2>3 DEF Preloader
  <2> QED
    BY <2>2, <2>3
<1>2. ASSUME NEW s \in Slots, SetActiveSlot(s) PROVE GivenBack'
  <2>1. pc' \in {"restore", "region"}
    BY <1>2 DEF SetActiveSlot
  <2> QED
    BY <2>1
<1>3. ASSUME NEW s \in Slots, Flash(s) PROVE GivenBack'
  <2>1. pc' = "fastboot"
    BY <1>3 DEF Flash
  <2> QED
    BY <2>1
<1>4. CASE RestoreV1
  BY <1>4 DEF RestoreV1
<1>5. CASE SetBootRegion
  BY <1>5 DEF SetBootRegion
<1>6. CASE SetActiveWrite
  BY <1>6 DEF SetActiveWrite
<1>7. CASE IncreaseTries
  <2>1. InfoRead = misc
    BY <1>7, MetadataTypes DEF IncreaseTries, InfoRead
  <2>2. misc' = misc /\ attempts' = attempts /\ pc' \in {"increase", "load"} /\ pc = "boot"
    BY <1>7 DEF IncreaseTries, disk
  <2>3. ASSUME pc' = "increase", NEW s \in Slots
        PROVE  Within(attempts[s], metadata'.slots[s]) /\
               (Bootable(misc.slots[s]) => Bootable(metadata'.slots[s]))
    <3>1. misc.format = "avb" /\ Top(misc) \in Slots
      BY <1>7, <2>1, <2>3, MetadataTypes DEF IncreaseTries
    <3>2. metadata' = [misc EXCEPT !.slots[Top(misc)] = Increased(misc.slots[Top(misc)])]
      BY <1>7, <2>1, <3>1 DEF IncreaseTries
    <3>3. CASE s # Top(misc)
      BY <3>1, <3>2, <3>3, MiscFacts DEF Metadata
    <3>4. CASE s = Top(misc)
      <4>1. metadata'.slots[s] = Increased(misc.slots[s])
        BY <3>1, <3>2, <3>4 DEF Metadata
      <4>2. ~misc.slots[s].successful /\ misc.slots[s].tries > 0 =>
              attempts[s] + misc.slots[s].tries < MaxTries
        BY <2>2, <3>1, <3>4
      <4> QED
        BY <4>1, <4>2, MiscFacts, SlotFacts
    <3> QED
      BY <3>3, <3>4
  <2> QED
    BY <2>2, <2>3
<1>8. CASE IncreaseWrite
  BY <1>8 DEF IncreaseWrite
<1>9. CASE LoadMetadata
  BY <1>9 DEF LoadMetadata
<1>10. CASE LoadFails
  BY <1>10 DEF LoadFails
<1>11. ASSUME NEW n \in Slots, VerifySlot(n) PROVE GivenBack'
  <2>1. pc' \in {"verify1", "select", "save"}
    BY <1>11 DEF VerifySlot
  <2> QED
    BY <2>1
<1>12. CASE SelectSlot
  BY <1>12 DEF SelectSlot
<1>13. CASE SaveMetadata
  BY <1>13 DEF SaveMetadata
<1>14. CASE PostProcess
  BY <1>14 DEF PostProcess
<1>15. CASE MarkSuccessful
  BY <1>15 DEF MarkSuccessful
<1>16. CASE Update
  BY <1>16 DEF Update
<1>17. CASE PowerOff
  BY <1>17 DEF PowerOff
<1>19. CASE PostFails
  BY <1>19 DEF PostFails, disk, flowVars
<1>18. CASE UNCHANGED vars
  BY <1>18 DEF vars, disk, flowVars
<1> QED
  BY <1>1, <1>2, <1>3, <1>4, <1>5, <1>6, <1>7, <1>8, <1>9,
     <1>10, <1>11, <1>12, <1>13, <1>14, <1>15, <1>16, <1>17, <1>18, <1>19
  DEF Next, Fastboot, LoadVfyBoot

\* avb_ab_flow's copy stays what misc holds, but for what it has decided.
LEMMA FlowingStep == SlotsInv /\ [Next]_vars => Flowing'
<1> SUFFICES ASSUME SlotsInv, [Next]_vars PROVE Flowing'
  OBVIOUS
<1> USE DEF SlotsInv, TypeOK, Flowing
<1>1. CASE Preloader
  BY <1>1 DEF Preloader
<1>2. ASSUME NEW s \in Slots, SetActiveSlot(s) PROVE Flowing'
  <2>1. pc' \in {"restore", "region"}
    BY <1>2 DEF SetActiveSlot
  <2> QED
    BY <2>1
<1>3. ASSUME NEW s \in Slots, Flash(s) PROVE Flowing'
  <2>1. pc' = "fastboot"
    BY <1>3 DEF Flash
  <2> QED
    BY <2>1
<1>4. CASE RestoreV1
  BY <1>4 DEF RestoreV1
<1>5. CASE SetBootRegion
  BY <1>5 DEF SetBootRegion
<1>6. CASE SetActiveWrite
  BY <1>6 DEF SetActiveWrite
<1>7. CASE IncreaseTries
  BY <1>7 DEF IncreaseTries
<1>8. CASE IncreaseWrite
  BY <1>8 DEF IncreaseWrite
<1>9. CASE LoadMetadata
  <2>1. misc' = orig' /\ pc' = "verify0" /\ misc' \in Metadata
    BY <1>9, TypeStep DEF LoadMetadata
  <2>2. metadata' = [misc' EXCEPT !.slots = [t \in Slots |-> Normalized(misc'.slots[t])]]
    BY <1>9 DEF LoadMetadata
  <2>3. ASSUME NEW s \in Slots PROVE KeptOrGivenUp(s)'
    <3>1. /\ misc'.slots[s] \in Slot /\ attempts'[s] \in Nat
          /\ Within(attempts'[s], misc'.slots[s])
      BY <2>1, TypeStep, CountedStep, AbAssumption DEF Counted, Metadata, TypeOK
    <3>2. metadata'.slots[s] = Normalized(misc'.slots[s])
      BY <2>1, <2>2 DEF Metadata
    <3>3. Bootable(misc'.slots[s]) => Normalized(misc'.slots[s]) = misc'.slots[s]
      BY <3>1, SlotFacts
    <3>4. Normalized(misc'.slots[s]) \in {misc'.slots[s], Unbootable}
      BY <3>1, SlotFacts
    <3> QED
      BY <3>2, <3>3, <3>4 DEF KeptOrGivenUp
  <2> QED
    BY <2>1, <2>3
<1>10. CASE LoadFails
  BY <1>10 DEF LoadFails
<1>11. ASSUME NEW n \in Slots, VerifySlot(n) PROVE Flowing'
  <2>1. UNCHANGED <<misc, image, orig, slot, attempts>> /\ pc \in {"verify0", "verify1"}
        /\ pc = (IF n = 0 THEN "verify0" ELSE "verify1")
    BY <1>11 DEF VerifySlot, disk
  <2>2. CASE pc' = "save" /\ UNCHANGED metadata
    <3>1. verified' = {}
      BY <1>11, <2>2 DEF VerifySlot
    <3> QED
      BY <2>1, <2>2, <3>1 DEF KeptOrGivenUp
  <2>3. CASE ~(pc' = "save" /\ UNCHANGED metadata)
    <3>1. pc' = (IF n = 0 THEN "verify1" ELSE "select")
      BY <1>11, <2>3 DEF VerifySlot
    <3>2. \/ ~Bootable(metadata.slots[n]) /\ UNCHANGED <<metadata, verified>>
          \/ image[n] = "good" /\ UNCHANGED metadata /\ verified' = verified \union {n}
          \/ /\ image[n] # "good" /\ UNCHANGED verified
             /\ metadata' = [metadata EXCEPT !.slots[n] = Unbootable]
      BY <1>11, <2>3 DEF VerifySlot
    <3>3. \/ UNCHANGED metadata
          \/ /\ image[n] = "bad" /\ metadata'.slots[n] = Unbootable
             /\ \A s \in Slots \ {n} : metadata'.slots[s] = metadata.slots[s]
      BY <3>2 DEF Metadata
    <3>4. \A s \in Slots : KeptOrGivenUp(s)'
      BY <2>1, <3>3 DEF KeptOrGivenUp
    <3>5. Passed(n)'
      <4>1. metadata'.slots[n] = metadata.slots[n] \/ metadata'.slots[n] = Unbootable
        BY <3>3
      <4>2. CASE metadata'.slots[n] = Unbootable
        BY <4>2, NewSlots DEF Passed
      <4>3. CASE metadata'.slots[n] = metadata.slots[n] /\ metadata.slots[n] # Unbootable
        <5>1. \/ ~Bootable(metadata.slots[n])
              \/ n \in verified' /\ image[n] = "good"
          BY <3>2, <4>3 DEF Metadata
        <5> QED
          BY <2>1, <4>3, <5>1 DEF Passed
      <4> QED
        BY <4>1, <4>2, <4>3
    <3>6. n = 1 => Passed(0)'
      BY <2>1, <3>2, <3>3 DEF Passed, Slots
    <3> QED
      BY <2>1, <3>1, <3>4, <3>5, <3>6 DEF Slots
  <2> QED
    BY <2>2, <2>3
<1>12. CASE SelectSlot
  <2>1. UNCHANGED <<misc, image, orig, attempts>> /\ pc = "select" /\ pc' = "save"
    BY <1>12 DEF SelectSlot, disk
  <2>2. CASE \E s \in Slots : Bootable(metadata.slots[s])
    <3>1. /\ Chosen \in Slots /\ slot' = Chosen /\ UNCHANGED verified
          /\ Bootable(metadata.slots[Chosen])
      BY <1>12, <2>2, MetadataTypes DEF SelectSlot, Chosen
    <3>2. metadata' = [metadata EXCEPT !.slots[Chosen] = Tried(metadata.slots[Chosen])]
      BY <1>12, <2>2 DEF SelectSlot
    <3>3. Chosen \in verified
      BY <2>1, <3>1 DEF Passed, Slots
    <3>4. metadata.slots[Chosen] = misc.slots[Chosen]
      BY <2>1, <3>1, NewSlots DEF KeptOrGivenUp
    <3>5. metadata'.slots[Chosen] = Tried(misc.slots[Chosen])
      BY <3>1, <3>2, <3>4 DEF Metadata
    <3>6. ASSUME NEW s \in Slots, s # Chosen PROVE KeptOrGivenUp(s)'
      <4>1. metadata'.slots[s] = metadata.slots[s]
        BY <3>1, <3>2, <3>6 DEF Metadata
      <4> QED
        BY <2>1, <4>1 DEF KeptOrGivenUp
    <3> QED
      BY <2>1, <3>1, <3>3, <3>4, <3>5, <3>6
  <2>3. CASE ~\E s \in Slots : Bootable(metadata.slots[s])
    <3>1. verified' = {} /\ UNCHANGED <<slot, metadata>>
      BY <1>12, <2>3 DEF SelectSlot
    <3> QED
      BY <2>1, <3>1 DEF KeptOrGivenUp
  <2> QED
    BY <2>2, <2>3
<1>13. CASE SaveMetadata
  <2>1. UNCHANGED <<metadata, slot, attempts>> /\ pc = "save" /\ pc' \in {"post", "reset"}
    BY <1>13 DEF SaveMetadata, flowVars
  <2>2. ASSUME pc' = "post", ~misc'.slots[slot].successful
        PROVE  attempts[slot] + misc'.slots[slot].tries < MaxTries
    <3>1. verified # {} /\ misc' = metadata
      BY <1>13, <2>1, <2>2 DEF SaveMetadata
    <3>2. misc'.slots[slot] = Tried(misc.slots[slot]) /\ Bootable(misc.slots[slot])
      BY <2>1, <3>1
    <3> QED
      BY <2>2, <3>2, MiscFacts, SlotFacts
  <2> QED
    BY <2>1, <2>2
<1>14. CASE PostProcess
  BY <1>14 DEF PostProcess
<1>15. CASE MarkSuccessful
  BY <1>15 DEF MarkSuccessful
<1>16. CASE Update
  BY <1>16 DEF Update
<1>17. CASE PowerOff
  BY <1>17 DEF PowerOff
<1>19. CASE PostFails
  BY <1>19 DEF PostFails, disk, flowVars
<1>18. CASE UNCHANGED vars
  BY <1>18 DEF vars, disk, flowVars, KeptOrGivenUp, Passed
<1> QED
  BY <1>1, <1>2, <1>3, <1>4, <1>5, <1>6, <1>7, <1>8, <1>9,
     <1>10, <1>11, <1>12, <1>13, <1>14, <1>15, <1>16, <1>17, <1>18, <1>19
  DEF Next, Fastboot, LoadVfyBoot

\* The slot the flow has chosen is and stays the best.
LEMMA ChoosingStep == SlotsInv /\ [Next]_vars => Choosing'
<1> SUFFICES ASSUME SlotsInv, [Next]_vars PROVE Choosing'
  OBVIOUS
<1> USE DEF SlotsInv, TypeOK, Choosing
<1>1. CASE Preloader
  BY <1>1 DEF Preloader
<1>2. ASSUME NEW s \in Slots, SetActiveSlot(s) PROVE Choosing'
  <2>1. pc' \in {"restore", "region"}
    BY <1>2 DEF SetActiveSlot
  <2> QED
    BY <2>1
<1>3. ASSUME NEW s \in Slots, Flash(s) PROVE Choosing'
  <2>1. pc' = "fastboot"
    BY <1>3 DEF Flash
  <2> QED
    BY <2>1
<1>4. CASE RestoreV1
  BY <1>4 DEF RestoreV1
<1>5. CASE SetBootRegion
  BY <1>5 DEF SetBootRegion
<1>6. CASE SetActiveWrite
  BY <1>6 DEF SetActiveWrite
<1>7. CASE IncreaseTries
  BY <1>7 DEF IncreaseTries
<1>8. CASE IncreaseWrite
  BY <1>8 DEF IncreaseWrite
<1>9. CASE LoadMetadata
  BY <1>9 DEF LoadMetadata
<1>10. CASE LoadFails
  BY <1>10 DEF LoadFails
<1>11. ASSUME NEW n \in Slots, VerifySlot(n) PROVE Choosing'
  <2>1. pc' = "save" => verified' = {}
    BY <1>11 DEF VerifySlot
  <2>2. pc' \in {"verify1", "select", "save"}
    BY <1>11 DEF VerifySlot
  <2> QED
    BY <2>1, <2>2
<1>12. CASE SelectSlot
  <2>1. UNCHANGED image /\ pc = "select" /\ pc' = "save"
    BY <1>12 DEF SelectSlot, disk
  <2>2. CASE \E s \in Slots : Bootable(metadata.slots[s])
    <3>1. /\ Chosen \in Slots /\ slot' = Chosen
          /\ Bootable(metadata.slots[Chosen])
          /\ \A s \in Slots : Bootable(metadata.slots[s]) =>
                metadata.slots[s].priority <= metadata.slots[Chosen].priority
      <4>1. CASE \A s \in Slots : Bootable(metadata.slots[s])
        BY <1>12, <2>2, <4>1, MetadataTypes DEF SelectSlot, Chosen, Top, Slots, Metadata, Slot
      <4>2. CASE ~\A s \in Slots : Bootable(metadata.slots[s])
        <5>1. Chosen \in Slots /\ slot' = Chosen /\ Bootable(metadata.slots[Chosen])
          BY <1>12, <2>2, <4>2 DEF SelectSlot, Chosen
        <5>2. \A s \in Slots : Bootable(metadata.slots[s]) => s = Chosen
          BY <4>2, <5>1 DEF Slots
        <5> QED
          BY <5>1, <5>2 DEF Metadata, Slot
      <4> QED
        BY <4>1, <4>2
    <3>2. metadata' = [metadata EXCEPT !.slots[Chosen] = Tried(metadata.slots[Chosen])]
      BY <1>12, <2>2 DEF SelectSlot
    <3>3. metadata.slots[Chosen] \in Slot
      BY <3>1 DEF Metadata
    <3>4. Tried(metadata.slots[Chosen]).priority = metadata.slots[Chosen].priority
      BY <3>3 DEF Tried, Slot
    <3>5. Bootable(Tried(metadata.slots[Chosen])) => Bootable(metadata.slots[Chosen])
      BY <3>1
    <3>6. \A s \in Slots : /\ metadata'.slots[s].priority = metadata.slots[s].priority
                           /\ Bootable(metadata'.slots[s]) => Bootable(metadata.slots[s])
      BY <3>1, <3>2, <3>4, <3>5 DEF Metadata
    <3>7. image[Chosen] = "good"
      BY <2>1, <3>1 DEF Flowing, Passed, Slots
    <3> QED
      BY <2>1, <3>1, <3>6, <3>7 DEF BestOf
  <2>3. CASE ~\E s \in Slots : Bootable(metadata.slots[s])
    BY <1>12, <2>1, <2>3 DEF SelectSlot
  <2> QED
    BY <2>2, <2>3
<1>13. CASE SaveMetadata
  <2>1. UNCHANGED <<metadata, slot, image>> /\ pc = "save" /\ pc' \in {"post", "reset"}
    BY <1>13 DEF SaveMetadata, flowVars
  <2>2. pc' = "post" => verified # {} /\ misc' = metadata
    BY <1>13, <2>1 DEF SaveMetadata, Flowing
  <2> QED
    BY <2>1, <2>2 DEF BestOf
<1>14. CASE PostProcess
  <2>1. UNCHANGED <<misc, slot, image>> /\ pc = "post" /\ pc' = "kernel"
    BY <1>14 DEF PostProcess, disk
  <2> QED
    BY <2>1 DEF BestOf
<1>15. CASE MarkSuccessful
  BY <1>15 DEF MarkSuccessful
<1>16. CASE Update
  BY <1>16 DEF Update
<1>17. CASE PowerOff
  BY <1>17 DEF PowerOff
<1>19. CASE PostFails
  BY <1>19 DEF PostFails, disk, flowVars
<1>18. CASE UNCHANGED vars
  BY <1>18 DEF vars, disk, flowVars, BestOf
<1> QED
  BY <1>1, <1>2, <1>3, <1>4, <1>5, <1>6, <1>7, <1>8, <1>9,
     <1>10, <1>11, <1>12, <1>13, <1>14, <1>15, <1>16, <1>17, <1>18, <1>19
  DEF Next, Fastboot, LoadVfyBoot

\* fastboot's OKAY stays true.
LEMMA AnsweringStep == SlotsInv /\ [Next]_vars => Answering'
<1> SUFFICES ASSUME SlotsInv, [Next]_vars PROVE Answering'
  OBVIOUS
<1> USE DEF SlotsInv, TypeOK, Answering
<1>1. CASE Preloader
  BY <1>1 DEF Preloader
<1>2. ASSUME NEW s \in Slots, SetActiveSlot(s) PROVE Answering'
  BY <1>2 DEF SetActiveSlot
<1>3. ASSUME NEW s \in Slots, Flash(s) PROVE Answering'
  <2>1. UNCHANGED <<misc, region, slot, answer, unseen>> /\ pc = "fastboot" /\ pc' = pc
    BY <1>3 DEF Flash
  <2> QED
    BY <2>1 DEF OkayMeansActive
<1>4. CASE RestoreV1
  <2>1. answer' = answer /\ pc = "restore" /\ pc' = "region"
    BY <1>4 DEF RestoreV1
  <2> QED
    BY <2>1
<1>5. CASE SetBootRegion
  <2>1. /\ UNCHANGED slot /\ pc = "region"
        /\ \/ region' = slot /\ answer' = answer
           \/ unseen' /\ answer' = answer
           \/ pc' = "fastboot" /\ answer' = "fail"
    BY <1>5 DEF SetBootRegion
  <2> QED
    BY <2>1
<1>6. CASE SetActiveWrite
  <2>1. /\ UNCHANGED <<region, slot, metadata, unseen>> /\ pc' = "fastboot" /\ pc = "write"
        /\ region = slot \/ unseen
    BY <1>6 DEF SetActiveWrite
  <2>2. CASE answer' = "okay"
    <3>1. misc' = [metadata EXCEPT !.format = "avb"]
      BY <1>6, <2>2 DEF SetActiveWrite, WriteInfo
    <3>2. misc'.format = "avb" /\ misc'.slots = metadata.slots
      BY <3>1 DEF Metadata
    <3>3. /\ metadata.slots[slot] = Fresh(MaxPriority)
          /\ metadata.slots[Other(slot)] = Demoted(misc.slots[Other(slot)])
      BY <2>1 DEF Activating
    <3>4. metadata.slots[slot].priority = MaxPriority
      BY <3>3, NewSlots, AbAssumption
    <3>5. metadata.slots[Other(slot)].priority < MaxPriority
      <4>1. Other(slot) \in Slots
        BY DEF Slots, Other
      <4>2. misc.slots[Other(slot)] \in Slot
        BY <4>1, MiscFacts
      <4> QED
        BY <3>3, <4>2, AbAssumption DEF Demoted, Slot
    <3>6. Top(misc') = slot
      <4>1. misc'.slots[slot].priority = MaxPriority
        BY <3>2, <3>4
      <4>2. misc'.slots[Other(slot)].priority < MaxPriority
        BY <3>2, <3>5
      <4>3. misc'.slots[0].priority \in Nat /\ misc'.slots[1].priority \in Nat
        <5>1. metadata.slots[0] \in Slot /\ metadata.slots[1] \in Slot
          BY DEF Metadata, Slots
        <5> QED
          BY <5>1, <3>2, AbAssumption DEF Slot
      <4>4. CASE slot = 0
        BY <4>1, <4>2, <4>3, <4>4, AbAssumption DEF Top, Other
      <4>5. CASE slot = 1
        BY <4>1, <4>2, <4>3, <4>5, AbAssumption DEF Top, Other
      <4> QED
        BY <4>4, <4>5 DEF Slots
    <3> QED
      BY <2>1, <3>2, <3>6 DEF OkayMeansActive
  <2>3. CASE answer' # "okay"
    BY <2>1, <2>3
  <2> QED
    BY <2>2, <2>3
<1>7. CASE IncreaseTries
  BY <1>7 DEF IncreaseTries
<1>8. CASE IncreaseWrite
  BY <1>8 DEF IncreaseWrite
<1>9. CASE LoadMetadata
  BY <1>9 DEF LoadMetadata
<1>10. CASE LoadFails
  BY <1>10 DEF LoadFails
<1>11. ASSUME NEW n \in Slots, VerifySlot(n) PROVE Answering'
  <2>1. answer' = answer /\ pc # "fastboot" /\ pc' # "write"
    BY <1>11 DEF VerifySlot
  <2> QED
    BY <2>1
<1>12. CASE SelectSlot
  BY <1>12 DEF SelectSlot
<1>13. CASE SaveMetadata
  BY <1>13 DEF SaveMetadata
<1>14. CASE PostProcess
  BY <1>14 DEF PostProcess
<1>15. CASE MarkSuccessful
  BY <1>15 DEF MarkSuccessful
<1>16. CASE Update
  BY <1>16 DEF Update
<1>17. CASE PowerOff
  BY <1>17 DEF PowerOff
<1>19. CASE PostFails
  BY <1>19 DEF PostFails, disk, flowVars
<1>18. CASE UNCHANGED vars
  BY <1>18 DEF vars, disk, flowVars, OkayMeansActive
<1> QED
  BY <1>1, <1>2, <1>3, <1>4, <1>5, <1>6, <1>7, <1>8, <1>9,
     <1>10, <1>11, <1>12, <1>13, <1>14, <1>15, <1>16, <1>17, <1>18, <1>19
  DEF Next, Fastboot, LoadVfyBoot

\* The copy in memory stays the one of misc.
LEMMA CopyingStep == SlotsInv /\ [Next]_vars => Copying'
<1> SUFFICES ASSUME SlotsInv, [Next]_vars PROVE Copying'
  OBVIOUS
<1> USE DEF SlotsInv, TypeOK, Copying, CopyCurrent
<1>1. CASE Preloader
  <2>1. saved' = None /\ pc' # "restore"
    BY <1>1 DEF Preloader, GivenBack
  <2> QED
    BY <2>1
<1>2. ASSUME NEW s \in Slots, SetActiveSlot(s) PROVE Copying'
  <2>1. /\ UNCHANGED <<misc, backup>> /\ saved' = InfoRead /\ pc = "fastboot"
        /\ pc' = (IF s = 1 /\ backup THEN "restore" ELSE "region")
    BY <1>2 DEF SetActiveSlot, ReadInfo, disk
  <2>2. ~backup => InfoRead = misc
    BY <2>1, MetadataTypes DEF InfoRead
  <2> QED
    BY <2>1, <2>2
<1>3. ASSUME NEW s \in Slots, Flash(s) PROVE Copying'
  <2>1. UNCHANGED <<misc, backup, pc>> /\ saved' = InfoRead /\ pc = "fastboot"
    BY <1>3 DEF Flash, ReadInfo
  <2>2. ~backup => InfoRead = misc
    BY <2>1, MetadataTypes DEF InfoRead
  <2> QED
    BY <2>1, <2>2
<1>4. CASE RestoreV1
  <2>1. UNCHANGED backup /\ pc = "restore" /\ pc' = "region"
    BY <1>4 DEF RestoreV1
  <2> QED
    BY <2>1
<1>5. CASE SetBootRegion
  <2>1. UNCHANGED <<misc, backup, saved>> /\ pc = "region" /\ pc' \in {"write", "fastboot"}
    BY <1>5 DEF SetBootRegion
  <2> QED
    BY <2>1
<1>6. CASE SetActiveWrite
  <2>1. /\ UNCHANGED backup /\ pc = "write" /\ pc' = "fastboot"
        /\ saved' = None \/ UNCHANGED <<misc, saved>>
    BY <1>6 DEF SetActiveWrite, WriteInfo
  <2> QED
    BY <2>1
<1>7. CASE IncreaseTries
  <2>1. InfoRead = misc
    BY <1>7, MetadataTypes DEF IncreaseTries, InfoRead, GivenBack
  <2>2. misc' = misc /\ saved' = misc /\ pc' # "restore"
    BY <1>7, <2>1 DEF IncreaseTries, ReadInfo, disk
  <2> QED
    BY <2>2
<1>8. CASE IncreaseWrite
  BY <1>8 DEF IncreaseWrite
<1>9. CASE LoadMetadata
  BY <1>9 DEF LoadMetadata
<1>10. CASE LoadFails
  BY <1>10 DEF LoadFails
<1>11. ASSUME NEW n \in Slots, VerifySlot(n) PROVE Copying'
  <2>1. pc' \in {"verify1", "select", "save"}
    BY <1>11 DEF VerifySlot
  <2> QED
    BY <2>1
<1>12. CASE SelectSlot
  BY <1>12 DEF SelectSlot
<1>13. CASE SaveMetadata
  BY <1>13 DEF SaveMetadata
<1>14. CASE PostProcess
  BY <1>14 DEF PostProcess
<1>15. CASE MarkSuccessful
  BY <1>15 DEF MarkSuccessful
<1>16. CASE Update
  BY <1>16 DEF Update
<1>17. CASE PowerOff
  BY <1>17 DEF PowerOff
<1>19. CASE PostFails
  BY <1>19 DEF PostFails, disk, flowVars
<1>18. CASE UNCHANGED vars
  BY <1>18 DEF vars, disk, flowVars
<1> QED
  BY <1>1, <1>2, <1>3, <1>4, <1>5, <1>6, <1>7, <1>8, <1>9,
     <1>10, <1>11, <1>12, <1>13, <1>14, <1>15, <1>16, <1>17, <1>18, <1>19
  DEF Next, Fastboot, LoadVfyBoot

\* The invariant holds when the power is first switched on.
LEMMA InitSlotsInv == Init => SlotsInv
<1> SUFFICES ASSUME Init PROVE SlotsInv
  OBVIOUS
<1> USE AbAssumption DEF Init
<1>1. TypeOK
  <2>1. attempts \in [Slots -> 0 .. MaxTries + 1]
    OBVIOUS
  <2>2. backup \in BOOLEAN /\ 0 \in Slots
    BY DEF Slots
  <2> QED
    BY <2>1, <2>2, MetadataTypes DEF TypeOK
<1>2. Counted
  BY MadeFacts DEF Counted
<1>3. Activating /\ GivenBack /\ Flowing
  BY DEF Activating, GivenBack, Flowing
<1>4. Choosing /\ Answering /\ Copying
  BY DEF Choosing, Answering, Copying, CopyCurrent
<1> QED
  BY <1>1, <1>2, <1>3, <1>4 DEF SlotsInv

\* What every state has in common: the invariant the properties follow from.  Its clause on
\* the boot region leaves out the switch that failed with a positive error (Answering).
THEOREM SlotsInvariance == Spec => []SlotsInv
<1>1. SlotsInv /\ [Next]_vars => SlotsInv'
  <2> SUFFICES ASSUME SlotsInv, [Next]_vars PROVE SlotsInv'
    OBVIOUS
  <2>1. TypeOK' /\ Counted'
    BY TypeStep, CountedStep DEF SlotsInv
  <2>2. Activating' /\ GivenBack' /\ Flowing'
    BY ActivatingStep, GivenBackStep, FlowingStep
  <2>3. Choosing' /\ Answering' /\ Copying'
    BY ChoosingStep, AnsweringStep, CopyingStep
  <2> QED
    BY <2>1, <2>2, <2>3 DEF SlotsInv
<1> QED
  BY InitSlotsInv, <1>1, PTL DEF Spec

\* Every variable keeps its type: among others, neither a priority nor a count
\* of tries leaves the range of its field.
THEOREM TypeCorrect == Spec => []TypeOK
<1>1. SlotsInv => TypeOK
  BY DEF SlotsInv
<1> QED
  BY SlotsInvariance, <1>1, PTL

\* A slot that never reports success is booted at most MaxTries times, although
\* preloader, boot loader and flow all count and may be cut off in between.
THEOREM TriesBounded == Spec => []AttemptsBounded
<1>1. SlotsInv => AttemptsBounded
  BY DEF SlotsInv, Counted, Within, AttemptsBounded
<1> QED
  BY SlotsInvariance, <1>1, PTL

\* The kernel that starts comes from a verified slot of the highest priority.
THEOREM BestSlotBoots == Spec => []BootsHighest
<1>1. SlotsInv => BootsHighest
  BY DEF SlotsInv, Choosing, BestOf, BootsHighest
<1> QED
  BY SlotsInvariance, <1>1, PTL

\* After an OKAY to set_active the metadata name its slot, and so does the boot region,
\* unless the card failed to switch with a positive error, which set_active_slot does not
\* look for (bootctrl_api.c:298).
THEOREM OkayIsTrue == Spec => []OkayMeansActive
<1>1. SlotsInv => OkayMeansActive
  BY DEF SlotsInv, Answering, OkayMeansActive
<1> QED
  BY SlotsInvariance, <1>1, PTL

\* What fastboot and increase_tries_remaining work on is what misc holds.
THEOREM CopyIsCurrent == Spec => []CopyCurrent
<1>1. SlotsInv => CopyCurrent
  BY DEF SlotsInv, Copying
<1> QED
  BY SlotsInvariance, <1>1, PTL

\* No step gives a good slot up.
LEMMA GoodSlotsStep == SlotsInv /\ [Next]_vars => GoodSlotsKept
<1> SUFFICES ASSUME SlotsInv, [Next]_vars PROVE GoodSlotsKept
  OBVIOUS
<1> USE DEF SlotsInv, TypeOK, GoodSlotsKept
<1>1. CASE Preloader
  <2>1. CASE misc.format = "avb"
    <3>1. Top(misc) \in Slots
      BY MetadataTypes
    <3>2. misc'.slots = [misc.slots EXCEPT ![Top(misc)] = Tried(misc.slots[Top(misc)])]
      BY <1>1, <2>1 DEF Preloader, Metadata
    <3>3. \A s \in Slots : misc'.slots[s] = misc.slots[s] \/ misc'.slots[s] = Tried(misc.slots[s])
      BY <3>1, <3>2 DEF Metadata
    <3>4. ASSUME NEW s \in Slots, Bootable(misc.slots[s]), ~Bootable(Tried(misc.slots[s]))
          PROVE  misc.slots[s].tries = 1 /\ ~misc.slots[s].successful
      BY <3>4, MiscFacts, SlotFacts
    <3> QED
      BY <3>3, <3>4
  <2> QED
    BY <1>1, <2>1 DEF Preloader
<1>2. ASSUME NEW s \in Slots, SetActiveSlot(s) PROVE GoodSlotsKept
  BY <1>2 DEF SetActiveSlot, disk
<1>3. ASSUME NEW s \in Slots, Flash(s) PROVE GoodSlotsKept
  BY <1>3 DEF Flash, disk
<1>4. CASE RestoreV1
  <2>1. misc'.slots = misc.slots
    BY <1>4 DEF RestoreV1, Metadata
  <2> QED
    BY <2>1
<1>5. CASE SetBootRegion
  BY <1>5 DEF SetBootRegion, disk
<1>6. CASE SetActiveWrite
  <2>1. misc' = misc \/ misc'.slots = metadata.slots
    BY <1>6 DEF SetActiveWrite, WriteInfo, Metadata
  <2>2. /\ metadata.slots[slot] = Fresh(MaxPriority)
        /\ metadata.slots[Other(slot)] = Demoted(misc.slots[Other(slot)])
    BY <1>6 DEF SetActiveWrite, Activating
  <2>3. Bootable(metadata.slots[slot])
    BY <2>2, NewSlots, AbAssumption
  <2>4. Other(slot) \in Slots /\ \A s \in Slots : s = slot \/ s = Other(slot)
    BY DEF Slots, Other
  <2>5. Bootable(misc.slots[Other(slot)]) => Bootable(metadata.slots[Other(slot)])
    BY <2>2, <2>4, MiscFacts, SlotFacts
  <2> QED
    BY <2>1, <2>3, <2>4, <2>5
<1>7. CASE IncreaseTries
  BY <1>7 DEF IncreaseTries, disk
<1>8. CASE IncreaseWrite
  <2>1. misc' = misc \/ misc'.slots = metadata.slots
    BY <1>8 DEF IncreaseWrite, WriteInfo, Metadata
  <2>2. \A s \in Slots : Bootable(misc.slots[s]) => Bootable(metadata.slots[s])
    BY <1>8 DEF IncreaseWrite, GivenBack
  <2> QED
    BY <2>1, <2>2
<1>9. CASE LoadMetadata
  <2>1. misc' = misc \/ misc' = InitialData
    BY <1>9 DEF LoadMetadata
  <2> QED
    BY <2>1, MadeFacts
<1>10. CASE LoadFails
  <2>1. misc' = misc \/ misc' = InitialData \/ misc'.format = "junk"
    BY <1>10 DEF LoadFails
  <2> QED
    BY <2>1, MadeFacts
<1>11. ASSUME NEW n \in Slots, VerifySlot(n) PROVE GoodSlotsKept
  BY <1>11 DEF VerifySlot, disk
<1>12. CASE SelectSlot
  BY <1>12 DEF SelectSlot, disk
<1>13. CASE SaveMetadata
  <2>1. (misc' = metadata \/ misc' = misc) /\ pc = "save"
    BY <1>13 DEF SaveMetadata
  <2>2. ASSUME NEW s \in Slots, Bootable(misc.slots[s]), ~Bootable(metadata.slots[s])
        PROVE  image[s] = "bad" \/ (misc.slots[s].tries = 1 /\ ~misc.slots[s].successful)
    <3>1. KeptOrGivenUp(s) \/ metadata.slots[s] = Tried(misc.slots[s])
      BY <2>1 DEF Flowing
    <3>2. CASE KeptOrGivenUp(s)
      BY <2>2, <3>2 DEF KeptOrGivenUp
    <3>3. CASE metadata.slots[s] = Tried(misc.slots[s])
      BY <2>2, <3>3, MiscFacts, SlotFacts
    <3> QED
      BY <3>1, <3>2, <3>3
  <2> QED
    BY <2>1, <2>2
<1>14. CASE PostProcess
  BY <1>14 DEF PostProcess, disk
<1>15. CASE MarkSuccessful
  <2>1. misc'.slots = [misc.slots EXCEPT ![slot] =
                           [[misc.slots[slot] EXCEPT !.tries = 0] EXCEPT !.successful = TRUE]]
    BY <1>15 DEF MarkSuccessful, Metadata
  <2>2. misc.slots[slot] \in Slot
    BY DEF Metadata
  <2>3. Bootable([[misc.slots[slot] EXCEPT !.tries = 0] EXCEPT !.successful = TRUE])
    BY <1>15, <2>2 DEF MarkSuccessful, Bootable, Slot
  <2> QED
    BY <2>1, <2>3 DEF Metadata
<1>16. CASE Update
  <2>1. /\ misc'.slots[Other(slot)] = Fresh(MaxPriority)
        /\ misc'.slots[slot] = Demoted(Normalized(misc.slots[slot]))
        /\ slot # Other(slot)
    BY <1>16 DEF Update, Activated, Metadata, Slots, Other
  <2>2. Bootable(misc'.slots[Other(slot)])
    BY <2>1, NewSlots, AbAssumption
  <2>3. Bootable(misc.slots[slot]) => Bootable(misc'.slots[slot])
    BY <2>1, MiscFacts, SlotFacts
  <2>4. \A s \in Slots : s = slot \/ s = Other(slot)
    BY DEF Slots, Other
  <2> QED
    BY <2>2, <2>3, <2>4
<1>17. CASE PowerOff
  BY <1>17 DEF PowerOff, disk
<1>19. CASE PostFails
  BY <1>19 DEF PostFails, disk, flowVars
<1>18. CASE UNCHANGED vars
  BY <1>18 DEF vars, disk, flowVars
<1> QED
  BY <1>1, <1>2, <1>3, <1>4, <1>5, <1>6, <1>7, <1>8, <1>9,
     <1>10, <1>11, <1>12, <1>13, <1>14, <1>15, <1>16, <1>17, <1>18, <1>19
  DEF Next, Fastboot, LoadVfyBoot

\* A good slot is never given up while it has tries left or has booted before:
\* no failed write, no loss of power and no boot of the other slot does it.
THEOREM GoodSlotsAreKept == Spec => GoodSlotsStay
<1>1. SlotsInv /\ [Next]_vars => [GoodSlotsKept]_vars
  BY GoodSlotsStep
<1> QED
  BY SlotsInvariance, <1>1, PTL DEF Spec, GoodSlotsStay

---------------------------------------------------------------------------
(* The environment *)

\* Every set of naturals that is not empty has a least one.
LEMMA LeastOf ==
    ASSUME NEW S, S \subseteq Nat, S # {}
    PROVE  \E n \in S : \A k \in S : n <= k
<1> DEFINE R == {ss \in Nat \X Nat : ss[1] < ss[2]}
<1>1. IsWellFoundedOn(R, Nat)
  BY NatLessThanWellFounded DEF OpToRel
<1>2. \E n \in S : \A k \in S : ~ (<<k, n>> \in R)
  <2> HIDE DEF R
  <2> QED BY <1>1, WFMin
<1>3. PICK n \in S : \A k \in S : ~ (<<k, n>> \in R)
  BY <1>2
<1>4. \A k \in S : k < n => <<k, n>> \in R
  OBVIOUS
<1>5. \A k \in S : ~ (k < n)
  <2> HIDE DEF R
  <2> QED BY <1>3, <1>4
<1>6. QED
  BY <1>5

\* An entry of the environment.
EnvEntry == [name : Names, value : Values]

\* No name has two entries.
OncePerName(data) == \A i, j \in DOMAIN data : data[i].name = data[j].name => i = j

\* What memory, and an area that is not torn, hold.
AreaOk(data) == data \in Seq(EnvEntry) /\ OncePerName(data) /\ Taken(data) < DataSize

\* The entries say of each variable what was said of it last.
Tells(data) == \A n \in Names : meantEnv[n] \in {Unsure, Value(data, n)}

\* The invariant: memory and area are well formed, memory that is in doubt is empty, and what
\* is not in doubt says what was meant.
EnvInv ==
    /\ meantEnv \in [Names -> Int]
    /\ doubt \in BOOLEAN
    /\ AreaOk(envData)
    /\ area # Torn => AreaOk(area)
    /\ doubt => envData = <<>>
    /\ ~doubt => Tells(envData)
    /\ area # Torn => Tells(area)

\* The bytes of an entry, and of all of them.
BytesOf(data, i) == {i} \X (1 .. NameLength + data[i].value + 2)
EntryBytes(data) == UNION {BytesOf(data, i) : i \in DOMAIN data}

LEMMA EnvNumbers ==
    /\ NameLength \in Nat /\ NameLength > 0
    /\ DataSize \in Nat /\ DataSize > 0
    /\ Values \subseteq Nat
BY EnvAssumption

\* The fields of the entries.
LEMMA EntryFields ==
    ASSUME NEW data \in Seq(EnvEntry), NEW i \in DOMAIN data
    PROVE  data[i].name \in Names /\ data[i].value \in Values /\ data[i].value \in Nat
<1>1. i \in 1 .. Len(data)
  OBVIOUS
<1>2. data[i] \in EnvEntry
  BY <1>1, ElementOfSeq
<1>3. QED
  BY <1>2, EnvNumbers DEF EnvEntry

\* The bytes of one entry are as many as its length.
LEMMA BytesOfOne ==
    ASSUME NEW data \in Seq(EnvEntry), NEW i \in DOMAIN data
    PROVE  /\ IsFiniteSet(BytesOf(data, i))
           /\ Cardinality(BytesOf(data, i)) = NameLength + data[i].value + 2
<1>1. PICK k \in Nat : k = NameLength + data[i].value + 2 /\ k > 0
  BY EntryFields, EnvNumbers
<1>2. IsFiniteSet({i}) /\ Cardinality({i}) = 1
  BY FS_Singleton
<1>3. IsFiniteSet(1 .. k) /\ Cardinality(1 .. k) = k
  <2>1. 1 \in Int /\ k \in Int /\ ~(1 > k) /\ k - 1 + 1 = k
    BY <1>1
  <2>2. IsFiniteSet(1 .. k) /\ Cardinality(1 .. k) = IF 1 > k THEN 0 ELSE k - 1 + 1
    BY <2>1, FS_Interval
  <2>3. QED BY <2>1, <2>2
<1>4. IsFiniteSet({i} \X (1 .. k)) /\ Cardinality({i} \X (1 .. k)) = k
  <2>1. PICK s : s = {i}
    OBVIOUS
  <2>2. PICK t : t = 1 .. k
    OBVIOUS
  <2>3. IsFiniteSet(s) /\ IsFiniteSet(t) /\ Cardinality(s) = 1 /\ Cardinality(t) = k
    BY <1>2, <1>3, <2>1, <2>2
  <2>4. IsFiniteSet(s \X t) /\ Cardinality(s \X t) = Cardinality(s) * Cardinality(t)
    BY <2>3, FS_Product
  <2>5. QED BY <2>1, <2>2, <2>3, <2>4
<1>5. QED
  BY <1>1, <1>4 DEF BytesOf

\* The bytes of all are a finite set, and Taken counts them.
LEMMA BytesOfAll ==
    ASSUME NEW data \in Seq(EnvEntry)
    PROVE  /\ IsFiniteSet(EntryBytes(data))
           /\ Taken(data) = Cardinality(EntryBytes(data))
           /\ Taken(data) \in Nat
<1> DEFINE P == {BytesOf(data, i) : i \in DOMAIN data}
           f == [i \in DOMAIN data |-> BytesOf(data, i)]
<1>1. IsFiniteSet(DOMAIN data)
  <2>1. DOMAIN data = 1 .. Len(data) /\ Len(data) \in Int
    OBVIOUS
  <2>2. QED BY <2>1, FS_Interval
<1>2. f \in Surjection(DOMAIN data, P)
  BY DEF Surjection
<1>3. IsFiniteSet(P)
  BY <1>1, <1>2, FS_Surjection
<1>4. \A t \in P : IsFiniteSet(t)
  BY BytesOfOne
<1>5. IsFiniteSet(EntryBytes(data))
  BY <1>3, <1>4, FS_UNION DEF EntryBytes
<1>6. Taken(data) = Cardinality(EntryBytes(data))
  BY DEF Taken, EntryBytes, BytesOf
<1>7. QED
  BY <1>5, <1>6, FS_CardinalityType

LEMMA TakenOfNone == Taken(<<>>) = 0
<1>1. UNION {{i} \X (1 .. NameLength + (<<>>)[i].value + 2) : i \in DOMAIN <<>>} = {}
  OBVIOUS
<1>2. QED
  BY <1>1, FS_EmptySet DEF Taken

\* An entry behind the others takes its length.
LEMMA TakenWithOne ==
    ASSUME NEW data \in Seq(EnvEntry), NEW e \in EnvEntry
    PROVE  Taken(Append(data, e)) = Taken(data) + NameLength + e.value + 2
<1>1. PICK n \in Nat : n = Len(data)
  OBVIOUS
<1>2. PICK d : d = Append(data, e)
  OBVIOUS
<1>3. /\ d \in Seq(EnvEntry) /\ Len(d) = n + 1 /\ d[n + 1] = e
      /\ \A i \in 1 .. n : d[i] = data[i]
  BY <1>1, <1>2, AppendProperties
<1>4. DOMAIN data = 1 .. n /\ DOMAIN d = 1 .. n + 1
  BY <1>1, <1>3
<1>5. n + 1 \in DOMAIN d
  BY <1>4
<1>6. EntryBytes(d) = EntryBytes(data) \cup BytesOf(d, n + 1)
  <2>1. \A i \in 1 .. n : BytesOf(d, i) = BytesOf(data, i)
    BY <1>3 DEF BytesOf
  <2>2. 1 .. n + 1 = (1 .. n) \cup {n + 1}
    OBVIOUS
  <2>3. QED BY <1>4, <2>1, <2>2 DEF EntryBytes
<1>7. EntryBytes(data) \cap BytesOf(d, n + 1) = {}
  <2>1. \A i \in 1 .. n : BytesOf(data, i) \cap BytesOf(d, n + 1) = {}
    BY DEF BytesOf
  <2>2. QED BY <1>4, <2>1 DEF EntryBytes
<1>8. IsFiniteSet(EntryBytes(data)) /\ Cardinality(EntryBytes(data)) = Taken(data) /\ Taken(data) \in Nat
  BY BytesOfAll
<1>9. IsFiniteSet(BytesOf(d, n + 1)) /\ Cardinality(BytesOf(d, n + 1)) = NameLength + e.value + 2
  BY <1>3, <1>5, BytesOfOne
<1>10. Cardinality(EntryBytes(data) \cup BytesOf(d, n + 1)) =
          Cardinality(EntryBytes(data)) + Cardinality(BytesOf(d, n + 1)) - Cardinality({})
  BY <1>7, <1>8, <1>9, FS_Union
<1>11. Taken(d) = Cardinality(EntryBytes(d))
  BY <1>3, BytesOfAll
<1>12. Cardinality({}) = 0
  BY FS_EmptySet
<1>13. e.value \in Nat
  BY EnvNumbers DEF EnvEntry
<1>14. QED
  BY <1>2, <1>6, <1>8, <1>9, <1>10, <1>11, <1>12, <1>13, EnvNumbers

---------------------------------------------------------------------------
(* Deleting the old value *)

\* Where the k-th entry that is left was.
Before(i, k) == IF k < i THEN k ELSE k + 1

\* What is left of a list without its i-th entry.
LEMMA RemovedFacts ==
    ASSUME NEW S, NEW q \in Seq(S), NEW i \in 1 .. Len(q)
    PROVE  /\ RemoveAt(q, i) \in Seq(S)
           /\ Len(RemoveAt(q, i)) = Len(q) - 1
           /\ \A k \in 1 .. Len(q) - 1 : RemoveAt(q, i)[k] = q[Before(i, k)]
<1> DEFINE s == SubSeq(q, 1, i - 1)
           r == SubSeq(q, i + 1, Len(q))
           c == RemoveAt(q, i)
<1>1. PICK n \in Nat : n = Len(q)
  OBVIOUS
<1>2. i \in Nat /\ 1 <= i /\ i <= n
  BY <1>1
<1>3. s \in Seq(S) /\ Len(s) = i - 1 /\ \A k \in 1 .. i - 1 : s[k] = q[k]
  BY <1>1, <1>2
<1>4. r \in Seq(S) /\ Len(r) = n - i /\ \A k \in 1 .. n - i : r[k] = q[i + k]
  BY <1>1, <1>2
<1>5. c = s \o r
  BY DEF RemoveAt
<1> HIDE DEF s, r, c
<1>6. /\ c \in Seq(S) /\ Len(c) = Len(s) + Len(r)
      /\ \A k \in 1 .. Len(s) + Len(r) : c[k] = IF k <= Len(s) THEN s[k] ELSE r[k - Len(s)]
  BY <1>3, <1>4, <1>5, ConcatProperties
<1>7. ASSUME NEW k \in 1 .. n - 1 PROVE c[k] = q[Before(i, k)]
  <2>1. k \in 1 .. Len(s) + Len(r)
    BY <1>2, <1>3, <1>4
  <2>2. CASE k < i
    <3>1. k <= Len(s) /\ k \in 1 .. i - 1
      BY <1>2, <1>3, <2>2
    <3>2. QED BY <1>3, <1>6, <2>1, <2>2, <3>1 DEF Before
  <2>3. CASE ~(k < i)
    <3>1. ~(k <= Len(s)) /\ k - Len(s) \in 1 .. n - i /\ i + (k - Len(s)) = k + 1
      BY <1>2, <1>3, <2>3
    <3>2. c[k] = r[k - Len(s)]
      BY <1>6, <2>1, <3>1
    <3>3. r[k - Len(s)] = q[i + (k - Len(s))]
      BY <1>4, <3>1
    <3>4. QED BY <2>3, <3>1, <3>2, <3>3 DEF Before
  <2>4. QED BY <2>2, <2>3
<1>8. QED
  BY <1>1, <1>2, <1>3, <1>4, <1>6, <1>7 DEF c

LEMMA BeforeFacts ==
    ASSUME NEW n \in Nat, NEW i \in 1 .. n, NEW k \in 1 .. n - 1
    PROVE  /\ Before(i, k) \in 1 .. n
           /\ Before(i, k) # i
           /\ \A m \in 1 .. n - 1 : Before(i, k) = Before(i, m) => k = m
BY DEF Before

\* Every other entry is left.
LEMMA LeftFacts ==
    ASSUME NEW n \in Nat, NEW i \in 1 .. n, NEW j \in 1 .. n, j # i
    PROVE  \E k \in 1 .. n - 1 : j = Before(i, k)
<1>1. CASE j < i
  <2>1. j \in 1 .. n - 1 /\ j = Before(i, j)
    BY <1>1 DEF Before
  <2>2. QED BY <2>1
<1>2. CASE ~(j < i)
  <2>1. j - 1 \in 1 .. n - 1 /\ j = Before(i, j - 1)
    BY <1>2 DEF Before
  <2>2. QED BY <2>1
<1>3. QED
  BY <1>1, <1>2

\* Without one of them the entries take no more.
LEMMA TakenWithoutOne ==
    ASSUME NEW data \in Seq(EnvEntry), NEW i \in DOMAIN data
    PROVE  Taken(RemoveAt(data, i)) <= Taken(data)
<1>1. PICK n \in Nat : n = Len(data)
  OBVIOUS
<1>2. PICK d : d = RemoveAt(data, i)
  OBVIOUS
<1>3. i \in 1 .. n /\ DOMAIN data = 1 .. n
  BY <1>1
<1>4. d \in Seq(EnvEntry) /\ Len(d) = n - 1 /\ \A k \in 1 .. n - 1 : d[k] = data[Before(i, k)]
  BY <1>1, <1>2, <1>3, RemovedFacts
<1>5. DOMAIN d = 1 .. n - 1
  BY <1>3, <1>4
<1> DEFINE f == [p \in EntryBytes(d) |-> <<Before(i, p[1]), p[2]>>]
<1>6. ASSUME NEW p \in EntryBytes(d)
      PROVE  /\ p[1] \in 1 .. n - 1 /\ p = <<p[1], p[2]>>
             /\ <<Before(i, p[1]), p[2]>> \in EntryBytes(data)
  <2>1. PICK k \in 1 .. n - 1 : p \in BytesOf(d, k)
    BY <1>5 DEF EntryBytes
  <2>2. p[1] = k /\ p = <<p[1], p[2]>> /\ p[2] \in 1 .. NameLength + d[k].value + 2
    BY <2>1 DEF BytesOf
  <2>3. Before(i, k) \in 1 .. n
    BY <1>3, BeforeFacts
  <2>4. <<Before(i, k), p[2]>> \in BytesOf(data, Before(i, k))
    BY <1>4, <2>2 DEF BytesOf
  <2>5. QED BY <1>3, <2>2, <2>3, <2>4 DEF EntryBytes
<1>7. ASSUME NEW p \in EntryBytes(d), NEW r \in EntryBytes(d), f[p] = f[r] PROVE p = r
  <2>1. Before(i, p[1]) = Before(i, r[1]) /\ p[2] = r[2]
    BY <1>7
  <2>2. p[1] \in 1 .. n - 1 /\ r[1] \in 1 .. n - 1
    BY <1>6
  <2>3. p[1] = r[1]
    BY <1>3, <2>1, <2>2, BeforeFacts
  <2>4. QED BY <1>6, <2>1, <2>3
<1>8. f \in Injection(EntryBytes(d), EntryBytes(data))
  BY <1>6, <1>7 DEF Injection, IsInjective
<1>9. Cardinality(EntryBytes(d)) <= Cardinality(EntryBytes(data))
  <2> HIDE DEF f
  <2> QED BY <1>8, BytesOfAll, FS_Injection
<1>10. QED
  BY <1>2, <1>4, <1>9, BytesOfAll

\* The entry that is found.
LEMMA EntryFacts ==
    ASSUME NEW data \in Seq(EnvEntry), NEW name, Named(data, name) # {}
    PROVE  /\ EntryOf(data, name) \in DOMAIN data
           /\ data[EntryOf(data, name)].name = name
<1>1. Named(data, name) \subseteq Nat
  BY DEF Named
<1>2. \E i \in Named(data, name) : \A j \in Named(data, name) : i <= j
  BY <1>1, LeastOf
<1>3. EntryOf(data, name) \in Named(data, name)
  BY <1>2 DEF EntryOf
<1>4. QED
  BY <1>3 DEF Named

\* The value of a name with one entry.
LEMMA ValueFacts ==
    ASSUME NEW data \in Seq(EnvEntry), OncePerName(data), NEW i \in DOMAIN data
    PROVE  Value(data, data[i].name) = data[i].value
<1>1. PICK name : name = data[i].name
  OBVIOUS
<1>2. Named(data, name) # {}
  BY <1>1 DEF Named
<1>3. EntryOf(data, name) = i
  BY <1>1, <1>2, EntryFacts DEF OncePerName
<1>4. QED
  BY <1>1, <1>2, <1>3 DEF Value

\* A name without an entry.
LEMMA NoValue ==
    ASSUME NEW data, NEW name, \A i \in DOMAIN data : data[i].name # name
    PROVE  Value(data, name) = Absent
BY DEF Value, Named

LEMMA ValueOrNone ==
    ASSUME NEW data \in Seq(EnvEntry), NEW name
    PROVE  /\ Value(data, name) \in Values \cup {Absent}
           /\ Value(data, name) = Absent <=> Named(data, name) = {}
<1>1. CASE Named(data, name) = {}
  BY <1>1 DEF Value
<1>2. CASE Named(data, name) # {}
  <2>1. EntryOf(data, name) \in DOMAIN data
    BY <1>2, EntryFacts
  <2>2. PICK i \in DOMAIN data : i = EntryOf(data, name)
    BY <2>1
  <2>3. data[i].value \in Values /\ data[i].value \in Nat
    BY EntryFields
  <2>4. QED BY <1>2, <2>2, <2>3 DEF Value, Absent
<1>3. QED
  BY <1>1, <1>2

\* What memory holds once a name's old value is deleted.
LEMMA OthersFacts ==
    ASSUME NEW name, envData \in Seq(EnvEntry), OncePerName(envData)
    PROVE  /\ Others(name) \in Seq(EnvEntry) /\ OncePerName(Others(name))
           /\ Taken(Others(name)) \in Nat /\ Taken(Others(name)) <= Taken(envData)
           /\ \A i \in DOMAIN Others(name) : Others(name)[i].name # name
           /\ \A m : m # name => Value(Others(name), m) = Value(envData, m)
           /\ Named(envData, name) = {} => Others(name) = envData
<1>1. CASE Named(envData, name) = {}
  <2>1. Others(name) = envData
    BY <1>1 DEF Others
  <2>2. \A i \in DOMAIN envData : envData[i].name # name
    BY <1>1 DEF Named
  <2>3. Taken(envData) \in Nat
    BY BytesOfAll
  <2>4. QED BY <2>1, <2>2, <2>3
<1>2. CASE Named(envData, name) # {}
  <2>1. PICK i : i = EntryOf(envData, name)
    OBVIOUS
  <2>2. PICK d : d = RemoveAt(envData, i)
    OBVIOUS
  <2>3. PICK n \in Nat : n = Len(envData)
    OBVIOUS
  <2>4. i \in DOMAIN envData /\ envData[i].name = name /\ DOMAIN envData = 1 .. n /\ i \in 1 .. n
    BY <1>2, <2>1, <2>3, EntryFacts
  <2>5. d \in Seq(EnvEntry) /\ Len(d) = n - 1 /\ \A k \in 1 .. n - 1 : d[k] = envData[Before(i, k)]
    BY <2>2, <2>3, <2>4, RemovedFacts
  <2>6. DOMAIN d = 1 .. n - 1
    BY <2>4, <2>5
  <2>7. OncePerName(d)
    <3> SUFFICES ASSUME NEW k \in 1 .. n - 1, NEW m \in 1 .. n - 1, d[k].name = d[m].name PROVE k = m
      BY <2>6 DEF OncePerName
    <3>1. Before(i, k) \in DOMAIN envData /\ Before(i, m) \in DOMAIN envData
      BY <2>4, BeforeFacts
    <3>2. Before(i, k) = Before(i, m)
      BY <2>5, <3>1 DEF OncePerName
    <3>3. QED BY <2>4, <3>2, BeforeFacts
  <2>8. ASSUME NEW k \in DOMAIN d PROVE d[k].name # name
    <3>1. Before(i, k) \in DOMAIN envData /\ Before(i, k) # i
      BY <2>4, <2>6, BeforeFacts
    <3>2. QED BY <2>4, <2>5, <2>6, <3>1 DEF OncePerName
  <2>9. ASSUME NEW m, m # name PROVE Value(d, m) = Value(envData, m)
    <3>1. CASE Named(envData, m) = {}
      <4>1. ASSUME NEW k \in DOMAIN d PROVE d[k].name # m
        <5>1. Before(i, k) \in DOMAIN envData
          BY <2>4, <2>6, BeforeFacts
        <5>2. QED BY <2>5, <2>6, <3>1, <5>1 DEF Named
      <4>2. QED BY <3>1, <4>1, NoValue DEF Value
    <3>2. CASE Named(envData, m) # {}
      <4>1. PICK j \in DOMAIN envData : envData[j].name = m
        BY <3>2 DEF Named
      <4>2. PICK k \in 1 .. n - 1 : j = Before(i, k)
        BY <2>4, <2>9, <4>1, LeftFacts
      <4>3. d[k] = envData[j] /\ k \in DOMAIN d
        BY <2>5, <2>6, <4>2
      <4>4. Value(d, d[k].name) = d[k].value
        BY <2>5, <2>7, <4>3, ValueFacts
      <4>5. Value(envData, envData[j].name) = envData[j].value
        BY <4>1, ValueFacts
      <4>6. QED BY <4>1, <4>3, <4>4, <4>5
    <3>3. QED BY <3>1, <3>2
  <2>10. Taken(d) <= Taken(envData)
    BY <2>2, <2>4, TakenWithoutOne
  <2>11. Taken(d) \in Nat
    BY <2>5, BytesOfAll
  <2>12. Others(name) = d
    BY <1>2, <2>1, <2>2 DEF Others
  <2>13. QED BY <1>2, <2>5, <2>7, <2>8, <2>9, <2>10, <2>11, <2>12
<1>3. QED
  BY <1>1, <1>2

\* What set_env leaves in memory if there is room.
LEMMA NewDataFacts ==
    ASSUME NEW name \in Names, NEW value \in Values, AreaOk(envData), Fits(name, value)
    PROVE  /\ AreaOk(NewData(name, value))
           /\ Value(NewData(name, value), name) = value
           /\ \A m : m # name => Value(NewData(name, value), m) = Value(envData, m)
<1>1. PICK o : o = Others(name)
  OBVIOUS
<1>2. PICK e \in EnvEntry : e = [name |-> name, value |-> value]
  BY DEF EnvEntry
<1>3. PICK d : d = Append(o, e)
  OBVIOUS
<1>4. e.name = name /\ e.value = value /\ value \in Nat
  BY <1>2, EnvNumbers
<1>5. envData \in Seq(EnvEntry) /\ OncePerName(envData)
  BY DEF AreaOk
<1>6. o \in Seq(EnvEntry) /\ OncePerName(o) /\ Taken(o) \in Nat
  BY <1>1, <1>5, OthersFacts
<1>7. \A i \in DOMAIN o : o[i].name # name
  BY <1>1, <1>5, OthersFacts
<1>8. \A m : m # name => Value(o, m) = Value(envData, m)
  BY <1>1, <1>5, OthersFacts
<1>9. PICK n \in Nat : n = Len(o)
  BY <1>6
<1>10. /\ d \in Seq(EnvEntry) /\ Len(d) = n + 1 /\ d[n + 1] = e
       /\ \A i \in 1 .. n : d[i] = o[i]
  BY <1>3, <1>6, <1>9, AppendProperties
<1>11. DOMAIN o = 1 .. n /\ DOMAIN d = 1 .. n + 1
  BY <1>6, <1>9, <1>10
<1>12. Taken(d) < DataSize
  <2>1. Taken(d) = Taken(o) + NameLength + e.value + 2
    BY <1>3, <1>6, TakenWithOne
  <2>2. NameLength + 2 + value + 1 <= DataSize - Taken(o)
    BY <1>1 DEF Fits
  <2>3. QED BY <1>4, <1>6, <2>1, <2>2, EnvNumbers
<1>13. OncePerName(d)
  <2> SUFFICES ASSUME NEW i \in 1 .. n + 1, NEW j \in 1 .. n + 1, d[i].name = d[j].name PROVE i = j
    BY <1>11 DEF OncePerName
  <2>1. CASE i = n + 1 /\ j # n + 1
    <3>1. j \in 1 .. n
      BY <2>1
    <3>2. QED BY <1>4, <1>7, <1>10, <1>11, <2>1, <3>1
  <2>2. CASE i # n + 1 /\ j = n + 1
    <3>1. i \in 1 .. n
      BY <2>2
    <3>2. QED BY <1>4, <1>7, <1>10, <1>11, <2>2, <3>1
  <2>3. CASE i # n + 1 /\ j # n + 1
    <3>1. i \in 1 .. n /\ j \in 1 .. n
      BY <2>3
    <3>2. QED BY <1>6, <1>10, <1>11, <3>1 DEF OncePerName
  <2>4. QED BY <2>1, <2>2, <2>3
<1>14. Value(d, name) = value
  <2>1. n + 1 \in DOMAIN d
    BY <1>11
  <2>2. Value(d, d[n + 1].name) = d[n + 1].value
    BY <1>10, <1>13, <2>1, ValueFacts
  <2>3. QED BY <1>4, <1>10, <2>2
<1>15. ASSUME NEW m, m # name PROVE Value(d, m) = Value(o, m)
  <2>1. CASE Named(o, m) = {}
    <3>1. ASSUME NEW k \in DOMAIN d PROVE d[k].name # m
      <4>1. CASE k = n + 1
        BY <1>4, <1>10, <1>15, <4>1
      <4>2. CASE k # n + 1
        <5>1. k \in 1 .. n
          BY <1>11, <4>2
        <5>2. QED BY <1>10, <1>11, <2>1, <5>1 DEF Named
      <4>3. QED BY <4>1, <4>2
    <3>2. QED BY <2>1, <3>1, NoValue DEF Value
  <2>2. CASE Named(o, m) # {}
    <3>1. PICK j \in DOMAIN o : o[j].name = m
      BY <2>2 DEF Named
    <3>2. d[j] = o[j] /\ j \in DOMAIN d
      BY <1>10, <1>11
    <3>3. Value(d, d[j].name) = d[j].value
      BY <1>10, <1>13, <3>2, ValueFacts
    <3>4. Value(o, o[j].name) = o[j].value
      BY <1>6, ValueFacts
    <3>5. QED BY <3>1, <3>2, <3>3, <3>4
  <2>3. QED BY <2>1, <2>2
<1>16. d = NewData(name, value)
  BY <1>1, <1>2, <1>3 DEF NewData
<1>17. QED
  BY <1>8, <1>10, <1>12, <1>13, <1>14, <1>15, <1>16 DEF AreaOk

---------------------------------------------------------------------------
(* The steps *)

\* An empty memory.
LEMMA NothingFacts ==
    /\ AreaOk(<<>>)
    /\ \A n : Value(<<>>, n) = Absent
    /\ \A n : Named(<<>>, n) = {}
<1>1. <<>> \in Seq(EnvEntry) /\ DOMAIN <<>> = {}
  OBVIOUS
<1>2. OncePerName(<<>>)
  BY <1>1 DEF OncePerName
<1>3. AreaOk(<<>>)
  BY <1>1, <1>2, TakenOfNone, EnvNumbers DEF AreaOk
<1>4. QED
  BY <1>1, <1>3 DEF Value, Named

LEMMA EnvInitHolds == EnvInit => EnvInv
<1> SUFFICES ASSUME EnvInit PROVE EnvInv
  OBVIOUS
<1>1. meantEnv \in [Names -> Int] /\ \A n \in Names : meantEnv[n] = Absent
  BY DEF EnvInit, Absent
<1>2. Tells(envData)
  BY <1>1, NothingFacts DEF Tells, EnvInit
<1>3. QED
  BY <1>1, <1>2, NothingFacts DEF EnvInv, EnvInit

LEMMA StartKeeps ==
    ASSUME EnvInv, NEW readable \in BOOLEAN, EnvStart(readable)
    PROVE  EnvInv'
<1>1. CASE area = Torn
  <2>1. meantEnv' = [n \in Names |-> Absent] /\ envData' = <<>> /\ area' = Torn /\ doubt' = FALSE
    BY <1>1 DEF EnvStart
  <2>2. meantEnv' \in [Names -> Int] /\ \A n \in Names : meantEnv'[n] = Absent
    BY <2>1 DEF Absent
  <2>3. Tells(envData)'
    BY <2>1, <2>2, NothingFacts DEF Tells
  <2>4. QED BY <2>1, <2>2, <2>3, NothingFacts DEF EnvInv
<1>2. CASE area # Torn /\ readable
  <2>1. meantEnv' = meantEnv /\ envData' = area /\ area' = area /\ doubt' = FALSE
    BY <1>2 DEF EnvStart
  <2>2. Tells(area)' /\ Tells(envData)'
    BY <1>2, <2>1 DEF Tells, EnvInv
  <2>3. QED BY <1>2, <2>1, <2>2 DEF EnvInv
<1>3. CASE area # Torn /\ ~readable
  <2>1. meantEnv' = meantEnv /\ envData' = <<>> /\ area' = area /\ doubt' = TRUE
    BY <1>3 DEF EnvStart
  <2>2. Tells(area)'
    BY <1>3, <2>1 DEF Tells, EnvInv
  <2>3. QED BY <1>3, <2>1, <2>2, NothingFacts DEF EnvInv
<1>4. QED
  BY <1>1, <1>2, <1>3

LEMMA OverflowKeeps ==
    ASSUME EnvInv, NEW name \in Names, NEW value \in Values, SetOverflows(name, value)
    PROVE  EnvInv'
<1>1. /\ envData' = Others(name) /\ area' = area /\ doubt' = doubt
      /\ meantEnv' = [meantEnv EXCEPT ![name] = IF Value(envData, name) = Absent THEN meantEnv[name] ELSE Unsure]
  BY DEF SetOverflows
<1>2. meantEnv \in [Names -> Int] /\ envData \in Seq(EnvEntry) /\ OncePerName(envData) /\ Taken(envData) < DataSize
  BY DEF EnvInv, AreaOk
<1>3. meantEnv' \in [Names -> Int]
  BY <1>1, <1>2 DEF Unsure
<1>4. \A n \in Names : n # name => meantEnv'[n] = meantEnv[n]
  BY <1>1, <1>2
<1>5. meantEnv'[name] = IF Value(envData, name) = Absent THEN meantEnv[name] ELSE Unsure
  BY <1>1, <1>2
<1>6. Taken(envData) \in Nat /\ Taken(Others(name)) \in Nat /\ Taken(Others(name)) <= Taken(envData)
  BY <1>2, OthersFacts, BytesOfAll
<1>7. AreaOk(envData)'
  <2>1. AreaOk(Others(name))
    BY <1>2, <1>6, OthersFacts, EnvNumbers DEF AreaOk
  <2>2. QED BY <1>1, <2>1 DEF AreaOk, OncePerName
<1>8. Named(envData, name) = {} => Others(name) = envData
  BY <1>2, OthersFacts
<1>9. Value(envData, name) = Absent <=> Named(envData, name) = {}
  BY <1>2, ValueOrNone
<1>10. doubt' => envData' = <<>>
  BY <1>1, <1>8, NothingFacts DEF EnvInv
<1>11. ~doubt' => Tells(envData)'
  <2> SUFFICES ASSUME ~doubt', NEW n \in Names PROVE meantEnv'[n] \in {Unsure, Value(Others(name), n)}
    BY <1>1 DEF Tells
  <2>1. meantEnv[n] \in {Unsure, Value(envData, n)}
    BY <1>1 DEF EnvInv, Tells
  <2>2. CASE n # name
    <3>1. Value(Others(name), n) = Value(envData, n)
      BY <1>2, <2>2, OthersFacts
    <3>2. QED BY <1>4, <2>1, <2>2, <3>1
  <2>3. CASE n = name
    BY <1>5, <1>8, <1>9, <2>1, <2>3
  <2>4. QED BY <2>2, <2>3
<1>12. area' # Torn => Tells(area)'
  <2> SUFFICES ASSUME area # Torn, NEW n \in Names PROVE meantEnv'[n] \in {Unsure, Value(area, n)}
    BY <1>1 DEF Tells
  <2>1. meantEnv[n] \in {Unsure, Value(area, n)}
    BY DEF EnvInv, Tells
  <2>2. QED BY <1>4, <1>5, <2>1
<1>13. QED
  BY <1>1, <1>3, <1>7, <1>10, <1>11, <1>12 DEF EnvInv

LEMMA SetKeeps ==
    ASSUME EnvInv, NEW name \in Names, NEW value \in Values, SetEnv(name, value)
    PROVE  EnvInv'
<1>1. PICK d : d = NewData(name, value)
  OBVIOUS
<1>2. /\ envData' = d /\ area' = d /\ doubt' = FALSE
      /\ meantEnv' = [n \in Names |-> IF n = name THEN value
                                      ELSE IF doubt THEN Absent ELSE meantEnv[n]]
  BY <1>1 DEF SetEnv
<1>3. AreaOk(d) /\ Value(d, name) = value /\ \A m : m # name => Value(d, m) = Value(envData, m)
  BY <1>1, NewDataFacts DEF SetEnv, EnvInv
<1>4. meantEnv' \in [Names -> Int]
  BY <1>2, EnvNumbers DEF EnvInv, Absent
<1>5. ASSUME NEW n \in Names PROVE meantEnv'[n] \in {Unsure, Value(d, n)}
  <2>1. CASE n = name
    BY <1>2, <1>3, <2>1
  <2>2. CASE n # name /\ doubt
    <3>1. Value(envData, n) = Absent
      BY <2>2, NothingFacts DEF EnvInv
    <3>2. QED BY <1>2, <1>3, <2>2, <3>1
  <2>3. CASE n # name /\ ~doubt
    <3>1. meantEnv[n] \in {Unsure, Value(envData, n)}
      BY <2>3 DEF EnvInv, Tells
    <3>2. QED BY <1>2, <1>3, <2>3, <3>1
  <2>4. QED BY <2>1, <2>2, <2>3
<1>6. Tells(envData)' /\ Tells(area)'
  BY <1>2, <1>5 DEF Tells
<1>7. QED
  BY <1>2, <1>3, <1>4, <1>6 DEF EnvInv

\* What is on the partition when the write of an area fails or is interrupted: well formed, and
\* right about every variable but the one that was being set, unless torn or in doubt.
LEMMA LeftIsRight ==
    ASSUME EnvInv, NEW name \in Names, NEW value \in Values, Fits(name, value),
           NEW left \in {area, NewData(name, value), Torn}, left # Torn
    PROVE  /\ AreaOk(left)
           /\ ~doubt => \A n \in Names : n # name => meantEnv[n] \in {Unsure, Value(left, n)}
<1>1. CASE left = area
  BY <1>1 DEF EnvInv, Tells
<1>2. CASE left = NewData(name, value)
  <2>1. AreaOk(left) /\ \A m : m # name => Value(left, m) = Value(envData, m)
    BY <1>2, NewDataFacts DEF EnvInv
  <2>2. QED BY <2>1 DEF EnvInv, Tells
<1>3. QED
  BY <1>1, <1>2

LEMMA FailKeeps ==
    ASSUME EnvInv, NEW name \in Names, NEW value \in Values,
           NEW left \in {area, NewData(name, value), Torn}, SetFails(name, value, left)
    PROVE  EnvInv'
<1>1. /\ envData' = <<>> /\ area' = left /\ doubt' = TRUE /\ Fits(name, value)
      /\ meantEnv' = IF left = Torn \/ doubt THEN [n \in Names |-> Unsure] ELSE [meantEnv EXCEPT ![name] = Unsure]
  BY DEF SetFails
<1>2. meantEnv \in [Names -> Int]
  BY DEF EnvInv
<1>3. meantEnv' \in [Names -> Int]
  BY <1>1, <1>2 DEF Unsure
<1>4. ASSUME left # Torn, NEW n \in Names PROVE meantEnv'[n] \in {Unsure, Value(left, n)}
  <2>1. CASE doubt \/ n = name
    BY <1>1, <1>2, <2>1
  <2>2. CASE ~doubt /\ n # name
    <3>1. meantEnv[n] \in {Unsure, Value(left, n)}
      BY <1>1, <1>4, <2>2, LeftIsRight
    <3>2. meantEnv'[n] = meantEnv[n]
      BY <1>1, <1>2, <1>4, <2>2
    <3>3. QED BY <3>1, <3>2
  <2>3. QED BY <2>1, <2>2
<1>5. left # Torn => AreaOk(left)
  BY <1>1, LeftIsRight
<1>6. area' # Torn => Tells(area)'
  BY <1>1, <1>4 DEF Tells
<1>7. QED
  BY <1>1, <1>3, <1>5, <1>6, NothingFacts DEF EnvInv

LEMMA InterruptKeeps ==
    ASSUME EnvInv, NEW name \in Names, NEW value \in Values, NEW readable \in BOOLEAN,
           NEW left \in {area, NewData(name, value), Torn}, SetInterrupted(name, value, left, readable)
    PROVE  EnvInv'
<1>1. /\ envData' = (IF readable /\ left # Torn THEN left ELSE <<>>)
      /\ area' = left /\ doubt' = (~readable /\ left # Torn) /\ Fits(name, value)
      /\ meantEnv' = IF left = Torn THEN [n \in Names |-> Absent]
                     ELSE IF doubt THEN [n \in Names |-> Unsure]
                     ELSE [meantEnv EXCEPT ![name] = Unsure]
  BY DEF SetInterrupted
<1>2. meantEnv \in [Names -> Int]
  BY DEF EnvInv
<1>3. meantEnv' \in [Names -> Int]
  BY <1>1, <1>2 DEF Unsure, Absent
<1>4. CASE left = Torn
  <2>1. \A n \in Names : meantEnv'[n] = Absent
    BY <1>1, <1>4
  <2>2. envData' = <<>> /\ ~doubt' /\ area' = Torn
    BY <1>1, <1>4
  <2>3. Tells(envData)'
    BY <2>1, <2>2, NothingFacts DEF Tells
  <2>4. QED BY <1>1, <1>3, <2>2, <2>3, NothingFacts DEF EnvInv
<1>5. CASE left # Torn
  <2>1. ASSUME NEW n \in Names PROVE meantEnv'[n] \in {Unsure, Value(left, n)}
    <3>1. CASE doubt \/ n = name
      BY <1>1, <1>2, <1>5, <3>1
    <3>2. CASE ~doubt /\ n # name
      <4>1. meantEnv[n] \in {Unsure, Value(left, n)}
        BY <1>1, <1>5, <3>2, LeftIsRight
      <4>2. meantEnv'[n] = meantEnv[n]
        BY <1>1, <1>2, <1>5, <3>2
      <4>3. QED BY <4>1, <4>2
    <3>3. QED BY <3>1, <3>2
  <2>2. AreaOk(left)
    BY <1>1, <1>5, LeftIsRight
  <2>3. Tells(area)'
    BY <1>1, <2>1 DEF Tells
  <2>4. CASE readable
    <3>1. envData' = left /\ doubt' = FALSE
      BY <1>1, <1>5, <2>4
    <3>2. Tells(envData)'
      BY <2>1, <3>1 DEF Tells
    <3>3. QED BY <1>1, <1>3, <2>2, <2>3, <3>1, <3>2 DEF EnvInv
  <2>5. CASE ~readable
    <3>1. envData' = <<>> /\ doubt' = TRUE
      BY <1>1, <1>5, <2>5
    <3>2. QED BY <1>1, <1>3, <2>2, <2>3, <3>1, NothingFacts DEF EnvInv
  <2>6. QED BY <2>4, <2>5
<1>6. QED
  BY <1>4, <1>5

LEMMA EnvStep == EnvInv /\ [EnvNext]_envVars => EnvInv'
<1> SUFFICES ASSUME EnvInv, [EnvNext]_envVars PROVE EnvInv'
  OBVIOUS
<1>1. CASE \E readable \in BOOLEAN : EnvStart(readable)
  BY <1>1, StartKeeps
<1>2. ASSUME NEW name \in Names, NEW value \in Values,
             \/ SetOverflows(name, value)
             \/ SetEnv(name, value)
             \/ \E left \in {area, NewData(name, value), Torn} :
                 \/ SetFails(name, value, left)
                 \/ \E readable \in BOOLEAN : SetInterrupted(name, value, left, readable)
      PROVE  EnvInv'
  BY <1>2, OverflowKeeps, SetKeeps, FailKeeps, InterruptKeeps
<1>3. CASE UNCHANGED envVars
  BY <1>3 DEF envVars, EnvInv, AreaOk, OncePerName, Tells
<1>4. QED
  BY <1>1, <1>2, <1>3 DEF EnvNext

\* The names of entries with a name each are as many as the entries.
LEMMA NamesCounted ==
    ASSUME NEW data \in Seq(EnvEntry), OncePerName(data)
    PROVE  Cardinality({data[i].name : i \in DOMAIN data}) = Len(data)
<1> DEFINE T == {data[i].name : i \in DOMAIN data}
           f == [i \in 1 .. Len(data) |-> data[i].name]
<1>1. PICK n \in Nat : n = Len(data) /\ DOMAIN data = 1 .. n
  OBVIOUS
<1>2. IsFiniteSet(1 .. n) /\ Cardinality(1 .. n) = n
  BY FS_Interval
<1>3. f \in Bijection(1 .. n, T)
  BY <1>1 DEF Bijection, Injection, IsInjective, Surjection, OncePerName
<1>4. ExistsBijection(1 .. n, T)
  BY <1>3 DEF ExistsBijection
<1>5. Cardinality(T) = Cardinality(1 .. n)
  <2> HIDE DEF T
  <2> QED BY <1>2, <1>4, FS_Bijection
<1>6. QED
  BY <1>1, <1>2, <1>5

\* What set_env said is set is what get_env finds and what the next start reads, no other
\* variable is lost or comes back, no name has two entries and they leave room for the zero
\* that ends them: for every set of names and values and every size of the area.
THEOREM EnvIsKept == EnvSpec => []EnvKept
<1>1. EnvInv => EnvKept
  <2> SUFFICES ASSUME EnvInv PROVE EnvKept
    OBVIOUS
  <2>1. Cardinality({envData[i].name : i \in DOMAIN envData}) = Len(envData)
    BY NamesCounted DEF EnvInv, AreaOk
  <2>2. QED BY <2>1 DEF EnvKept, EnvInv, AreaOk, Tells
<1>2. QED
  BY <1>1, EnvInitHolds, EnvStep, PTL DEF EnvSpec
=============================================================================
