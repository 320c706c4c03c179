----------------------------- MODULE FastbootUsb -----------------------------
(***************************************************************************)
(* The command loop of fastboot.c and the transport it stands on.  One     *)
(* thread reads commands, runs their handlers and answers; every transfer  *)
(* uses the one request req, the one event txn_done and the one txn_status.*)
(* The USB controller's driver (mt_musb.c, the QMU build of both           *)
(* platforms) works in interrupts: it completes requests, errs them out    *)
(* when the bus is suspended, and signals and clears usb_online.           *)
(*                                                                         *)
(* A transfer is named by what it is for: "command" and "data" come in,    *)
(* "DATA", "info" and "answer" (OKAY or FAIL) go out.  The host is         *)
(* external: it sends a command, reads responses up to the answer, and     *)
(* sends data after a DATA; it starts anew when the bus is reset.          *)
(***************************************************************************)
EXTENDS Naturals

CONSTANTS
    MaxInfos        \* bound: INFO lines of a command

ASSUME FastbootAssumption == MaxInfos \in Nat

VARIABLES
    pc,             \* where the fastboot thread is
    fastbootState,  \* fastboot_state
    transfer,       \* what the last transfer is for
    infos,          \* the INFO lines the handler has sent
    dataSent,       \* the handler has sent DATA
    usbOnline,      \* the event usb_online
    txnDone,        \* the event txn_done
    txnStatus,      \* txn_status is not negative
    queued,         \* endpoint -> its req is not NULL
    configured,     \* usb_online of the driver: the host has set the configuration
    host,           \* what the host does: nothing, waits for the answer, sends data
    upset           \* history: since the session began one of these happened, which put the
                    \* two ends out of step: a transfer timed out and stayed queued; a
                    \* download was refused after its DATA; the bus was suspended, reset or
                    \* configured while the thread was not waiting, or after a completion
                    \* it had not yet seen; it was reset or configured under a transfer
                    \* other than the read of a command

usbVars == <<usbOnline, txnDone, txnStatus, queued, configured>>
loopVars == <<fastbootState, transfer, infos, dataSent>>
fastbootVars == <<pc, loopVars, usbVars, host, upset>>

Endpoint(t) == IF t \in {"command", "data"} THEN "out" ELSE "in"

\* usb_write_with_timeout is what fastboot_ack and fastboot_info use.
Timed == {"info", "answer"}

FastbootInit ==
    /\ pc = "offline"
    /\ fastbootState = "OFFLINE"
    /\ transfer = "none"
    /\ infos = 0 /\ dataSent = FALSE
    /\ usbOnline = FALSE /\ txnDone = FALSE /\ txnStatus = TRUE
    /\ queued = [e \in {"in", "out"} |-> FALSE]
    /\ configured = FALSE
    /\ host = "idle"
    /\ upset = FALSE

---------------------------------------------------------------------------
(* The fastboot thread *)

\* event_wait(&usb_online).  If nothing is left of an earlier session the ends are in step.
Online ==
    /\ pc = "offline" /\ usbOnline
    /\ usbOnline' = FALSE
    /\ pc' = "loop"
    /\ upset' = (upset /\ (txnDone \/ queued["in"] \/ queued["out"]))
    /\ UNCHANGED <<loopVars, txnDone, txnStatus, queued, configured, host>>

\* usb_read, usb_write: fill in the request for transfer t.
Submit(t) ==
    /\ transfer' = t
    /\ pc' = "submit"

\* The loop reads the next command.
ReadCommand ==
    /\ pc = "loop" /\ fastbootState # "ERROR"
    /\ Submit("command")
    /\ UNCHANGED <<fastbootState, infos, dataSent, usbVars, host, upset>>

LeaveLoop ==
    /\ pc = "loop" /\ fastbootState = "ERROR"
    /\ fastbootState' = "OFFLINE"
    /\ pc' = "offline"
    /\ UNCHANGED <<transfer, infos, dataSent, usbVars, host, upset>>

\* udc_request_queue: of an unconfigured bus the request is dropped, and 0 returned.
CheckOnline ==
    /\ pc = "submit"
    /\ pc' = IF configured THEN "queue" ELSE "wait"
    /\ UNCHANGED <<loopVars, usbVars, host, upset>>

\* Its critical section: an interrupt may come between the check and this.
QueueRequest ==
    /\ pc = "queue"
    /\ queued' = [queued EXCEPT ![Endpoint(transfer)] = TRUE]
    /\ pc' = "wait"
    /\ UNCHANGED <<loopVars, usbOnline, txnDone, txnStatus, configured, host, upset>>

\* What follows a transfer that went well: a command is looked up in cmdlist, whose every
\* entry sets STATE_COMMAND, and a DATA is followed by the data.
Continue ==
    /\ CASE transfer = "command" -> /\ fastbootState' = "COMMAND"
                                    /\ infos' = 0 /\ dataSent' = FALSE
                                    /\ pc' = "handler"
                                    /\ UNCHANGED transfer
         [] transfer = "DATA" -> Submit("data") /\ UNCHANGED <<fastbootState, infos, dataSent>>
         [] OTHER -> pc' = "handler" /\ UNCHANGED loopVars

\* The oops of the four functions; a command that was not read ends the loop.
Oops ==
    /\ fastbootState' = "ERROR"
    /\ pc' = IF transfer = "command" THEN "loop" ELSE "handler"
    /\ UNCHANGED <<transfer, infos, dataSent>>

\* event_wait(&txn_done) and what follows it.
TransferDone ==
    /\ pc = "wait" /\ txnDone
    /\ txnDone' = FALSE
    /\ IF txnStatus THEN Continue ELSE Oops
    /\ UNCHANGED <<usbOnline, txnStatus, queued, configured, host, upset>>

\* Mutant: fastboot_ack uses usb_write.
TransferTimesOutInfoOnly ==
    /\ pc = "wait" /\ ~txnDone /\ transfer = "info"
    /\ Oops
    /\ upset' = (upset \/ queued[Endpoint(transfer)])
    /\ UNCHANGED <<usbVars, host>>

\* event_wait_timeout returns an error; a request that is queued stays queued.
TransferTimesOut ==
    /\ pc = "wait" /\ ~txnDone /\ transfer \in Timed
    /\ Oops
    /\ upset' = (upset \/ queued[Endpoint(transfer)])
    /\ UNCHANGED <<usbVars, host>>

\* fastboot_info
Info ==
    /\ pc = "handler" /\ fastbootState = "COMMAND" /\ infos < MaxInfos
    /\ infos' = infos + 1
    /\ Submit("info")
    /\ UNCHANGED <<fastbootState, dataSent, usbVars, host, upset>>

\* The download commands announce the data with usb_write.
Download ==
    /\ pc = "handler" /\ fastbootState = "COMMAND" /\ ~dataSent
    /\ dataSent' = TRUE
    /\ Submit("DATA")
    /\ UNCHANGED <<fastbootState, infos, usbVars, host, upset>>

\* cmd_download_ultra looks the partition up after its DATA, and may fail there.
DownloadRefused ==
    /\ pc = "submit" /\ transfer = "data"
    /\ pc' = "handler"
    /\ upset' = TRUE
    /\ UNCHANGED <<loopVars, usbVars, host>>

\* Mutant: fastboot_ack does not look at the state.
AnswerAlways ==
    /\ pc = "handler" /\ fastbootState # "ERROR"
    /\ fastbootState' = "COMPLETE"
    /\ Submit("answer")
    /\ UNCHANGED <<infos, dataSent, usbVars, host, upset>>

\* fastboot_ack by the handler, or by the loop when the handler has not answered or the
\* command is unknown.
Answer ==
    /\ pc = "handler" /\ fastbootState = "COMMAND"
    /\ fastbootState' = "COMPLETE"
    /\ Submit("answer")
    /\ UNCHANGED <<infos, dataSent, usbVars, host, upset>>

\* The handler returns to the loop; a failed download ends the loop.
HandlerReturns ==
    /\ pc = "handler" /\ fastbootState # "COMMAND"
    /\ pc' = "loop"
    /\ \/ UNCHANGED fastbootState
       \/ dataSent /\ fastbootState' = "ERROR"
    /\ UNCHANGED <<transfer, infos, dataSent, usbVars, host, upset>>

ThreadNext ==
    \/ Online
    \/ ReadCommand
    \/ LeaveLoop
    \/ CheckOnline
    \/ QueueRequest
    \/ TransferDone
    \/ TransferTimesOut
    \/ Info
    \/ Download
    \/ DownloadRefused
    \/ Answer
    \/ HandlerReturns

---------------------------------------------------------------------------
(* The driver's interrupts *)

\* handle_ept_complete for the endpoints in done: release the request, call req_complete.
CompleteRequests(done, ok) ==
    /\ queued' = [e \in DOMAIN queued |-> queued[e] /\ e \notin done]
    /\ txnStatus' = ok
    /\ txnDone' = (txnDone \/ done # {})

\* The host takes part in the transfer of endpoint e.
HostAt(e) == CASE e = "in" -> host = "answer"
               [] e = "out" -> host \in {"idle", "data"}

\* mt_udc_epx_handler: the transfer of endpoint e is over.  Of a command the host then
\* waits for the answer, of an answer for nothing more.
TransferInterrupt(e) ==
    /\ configured /\ queued[e] /\ HostAt(e)
    /\ CompleteRequests({e}, TRUE)
    /\ host' = CASE transfer = "answer" -> "idle"
                 [] transfer = "DATA" -> "data"
                 [] OTHER -> "answer"
    /\ UNCHANGED <<pc, loopVars, usbOnline, configured, upset>>

\* Mutant: the request of an endpoint stays after its completion.
SuspendKeepsRequests ==
    /\ configured' = FALSE
    /\ usbOnline' = FALSE
    /\ txnDone' = (txnDone \/ queued["in"] \/ queued["out"])
    /\ txnStatus' = FALSE
    /\ host' = "idle"
    /\ upset' = (upset \/ pc # "wait" \/ txnDone)
    /\ UNCHANGED <<pc, loopVars, queued>>

\* mt_udc_suspend: OFFLINE is notified and all pending requests end in an error.
Suspend ==
    /\ configured' = FALSE
    /\ usbOnline' = FALSE
    /\ CompleteRequests({e \in DOMAIN queued : queued[e]}, FALSE)
    /\ host' = "idle"
    /\ upset' = (upset \/ pc # "wait" \/ txnDone)
    /\ UNCHANGED <<pc, loopVars>>

\* mt_udc_reset; an error not yet seen is wiped out.
Reset ==
    /\ txnStatus' = TRUE
    /\ host' = "idle"
    /\ upset' = (upset \/ pc # "wait" \/ txnDone \/ transfer # "command")
    /\ UNCHANGED <<pc, loopVars, usbOnline, txnDone, queued, configured>>

\* SET_CONFIGURATION
SetConfiguration(value) ==
    /\ usbOnline' = value
    /\ configured' = value
    /\ host' = "idle"
    /\ upset' = (upset \/ pc # "wait" \/ txnDone \/ transfer # "command")
    /\ UNCHANGED <<pc, loopVars, txnDone, txnStatus, queued>>

InterruptNext ==
    \/ \E e \in {"in", "out"} : TransferInterrupt(e)
    \/ Suspend
    \/ Reset
    \/ \E value \in BOOLEAN : SetConfiguration(value)

FastbootNext == ThreadNext \/ InterruptNext

\* The thread runs when it is ready.  Of the host nothing is expected.
FastbootSpec == FastbootInit /\ [][FastbootNext]_fastbootVars /\ WF_fastbootVars(ThreadNext)

---------------------------------------------------------------------------
(* Properties *)

\* Between two sessions that begin with nothing left over, a request or a completion
\* belongs to the transfer the thread waits for: the one req, txn_done and txn_status are
\* never used for two transfers at once, though interrupts complete requests and err them
\* out at any time (fastboot.c:84, mt_musb.c:500).
RequestOwned ==
    ~upset => /\ txnDone => pc = "wait"
              /\ \A e \in DOMAIN queued : queued[e] => pc = "wait" /\ e = Endpoint(transfer)

\* Then the two ends agree on what is transferred: the loop waits for a command when the
\* host may send one, sends a response when the host waits for one, at most one answer to
\* a command, and reads data when the host sends them (fastboot.c:351).
InStep ==
    ~upset /\ configured /\ pc = "wait" /\ queued[Endpoint(transfer)] =>
        host = CASE transfer = "command" -> "idle"
                 [] transfer = "data" -> "data"
                 [] OTHER -> "answer"

\* Whatever the host and the cable do, a command ends, and the loop goes on or offline,
\* unless it waits in one of the transfers that have no time-out (fastboot.c:226, 308).
CommandEnds ==
    pc = "handler" ~> \/ pc \in {"loop", "offline"}
                      \/ pc = "wait" /\ ~txnDone /\ transfer \in {"DATA", "data"}
=============================================================================
