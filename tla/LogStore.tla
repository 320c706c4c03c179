------------------------------ MODULE LogStore ------------------------------
(***************************************************************************)
(* The log in DRAM that outlives the boot loader, and the settings of the  *)
(* log in the last block of partition expdb                                *)
(* (platform/common/log_store/log_store_lk.c).  What is printed is put     *)
(* behind the preloader's log, and when there is no room left, around the  *)
(* boot loader's part of the buffer.  Nothing keeps two threads, or a      *)
(* thread and an interrupt, from printing at once, and what moves the      *)
(* settings switches the log off and on again under those who print.       *)
(***************************************************************************)
EXTENDS Integers, Sequences

CONSTANTS
    Writers,        \* threads and interrupt handlers that print
    LogStoreSize,   \* LOG_STORE_SIZE, bytes of the buffer
    OffPl,          \* off_pl, sizeof(struct pl_lk_log)
    PlSizes,        \* of the preloader's log
    MaxChars,       \* bound: characters printed
    MaxConfigs,     \* bound: operations on the settings
    LogSettings     \* uart_flag and the entry of the rate limit

ASSUME LogStoreAssumption ==
    LogStoreSize \in Nat /\ OffPl \in Nat /\ PlSizes \subseteq Nat /\ MaxChars \in Nat /\ MaxConfigs \in Nat

VARIABLES
    logStatus,      \* log_store_status
    logEnable,      \* log_store_enable
    szPl, szLk,     \* of struct pl_lk_log
    lkFull, lkRenew,
    pbuff,          \* whose byte each is: the n-th character, the preloader's, or neither's
    writer,         \* where each is in lk_log_store, its character and its register
    chars,          \* characters printed so far
    expdb,          \* the settings in the last block of expdb, if it is signed
    config,         \* the operation on the settings: its thread, step and header, and what it sets
    configs,        \* operations on the settings so far
    logKept,        \* history: the characters put in the buffer, in order
    mingled,        \* history: two put characters in the buffer at once
    meantSettings, unread   \* history: what was set, and that a read of the block failed

logVars == <<logStatus, logEnable, szPl, szLk, lkFull, lkRenew, pbuff, writer, chars,
             expdb, config, configs, logKept, mingled, meantSettings, unread>>
headerVars == <<logStatus, szPl, chars, mingled>>
bufferVars == <<headerVars, szLk, lkFull, lkRenew, pbuff, writer, logKept>>
settingVars == <<expdb, config, configs, meantSettings, unread>>

Pl == -1            \* a byte of the preloader
Other == 0          \* a byte of neither log
Past == 4           \* bytes behind the buffer that are looked at

NoSettings == [s \in LogSettings |-> "none"]
Unsigned == [s \in LogSettings |-> "unsigned"]

\* Of an operation that only reads.
Nothing == [setting |-> "nothing", value |-> "none"]
Changes == [setting : LogSettings, value : {"on", "off"}] \cup {Nothing}

\* No thread is in read_emmc_config or set_emmc_config.
NoConfig == [by |-> "nobody", at |-> "none", busy |-> FALSE, header |-> NoSettings, sets |-> Nothing]

\* The preloader has left its log and a header with off_pl set.
LogInit ==
    /\ logStatus = "not_ready" /\ logEnable = TRUE
    /\ szPl \in PlSizes /\ szLk = 0
    /\ lkFull = FALSE /\ lkRenew = 0
    /\ pbuff = [i \in 0 .. LogStoreSize + Past |->
                  IF i \in OffPl .. OffPl + szPl - 1 /\ i < LogStoreSize THEN Pl ELSE Other]
    /\ writer = [w \in Writers |-> [at |-> "idle", c |-> 0, reg |-> 0]]
    /\ chars = 0
    /\ expdb = Unsigned
    /\ config = NoConfig /\ configs = 0
    /\ logKept = <<>> /\ mingled = FALSE
    /\ meantSettings = NoSettings /\ unread = FALSE

\* off_lk
OffLk == OffPl + szPl

\* The writer goes on at p.
GoesOn(w, p) == writer' = [writer EXCEPT ![w].at = p]

---------------------------------------------------------------------------
(* The log in DRAM *)

\* log_store_init, in the first character, which is printed before there are threads: the
\* headers in SRAM are good, or nothing is kept.
LogStoreInit(good) ==
    /\ logStatus = "not_ready" /\ logEnable
    /\ logStatus' = IF ~good THEN "error" ELSE IF OffLk >= LogStoreSize THEN "full" ELSE "ready"
    /\ szLk' = 0
    /\ UNCHANGED <<logEnable, szPl, lkFull, lkRenew, pbuff, writer, chars, logKept, mingled, settingVars>>

\* lk_log_store up to the choice of its branch, with nobody else in it or with any number of
\* others.  Once two have met, whose character a byte is is not told apart.
LogBegins(w) ==
    /\ writer[w].at = "idle" /\ logStatus = "ready" /\ logEnable
    /\ chars < MaxChars
    /\ chars' = chars + 1
    /\ mingled' = (mingled \/ \E v \in Writers \ {w} : writer[v].at # "idle")
    /\ writer' = [writer EXCEPT ![w] = [at |-> IF lkFull THEN "renew" ELSE "append",
                                       c |-> IF mingled' THEN Other ELSE chars + 1, reg |-> 0]]
    /\ lkRenew' = IF lkFull /\ lkRenew >= szLk THEN 0 ELSE lkRenew
    /\ UNCHANGED <<logStatus, logEnable, szPl, szLk, lkFull, pbuff, logKept, settingVars>>

\* Of the byte at sz_lk, and then of sz_lk++ its load.
AppendChar(w) ==
    /\ writer[w].at = "append"
    /\ pbuff' = [pbuff EXCEPT ![OffLk + szLk] = writer[w].c]
    /\ GoesOn(w, "load")
    /\ UNCHANGED <<headerVars, logEnable, szLk, lkFull, lkRenew, logKept, settingVars>>

LoadSize(w) ==
    /\ writer[w].at = "load"
    /\ writer' = [writer EXCEPT ![w] = [at |-> "count", c |-> @.c, reg |-> szLk]]
    /\ UNCHANGED <<headerVars, logEnable, szLk, lkFull, lkRenew, pbuff, logKept, settingVars>>

CountChar(w) ==
    /\ writer[w].at = "count"
    /\ szLk' = writer[w].reg + 1
    /\ GoesOn(w, "limit")
    /\ UNCHANGED <<headerVars, logEnable, lkFull, lkRenew, pbuff, logKept, settingVars>>

\* Mutant: one character too late.
CheckLimitLate(w) ==
    /\ writer[w].at = "limit"
    /\ IF OffLk + szLk > LogStoreSize
       THEN lkFull' = TRUE /\ lkRenew' = 0 /\ logEnable' = FALSE /\ GoesOn(w, "debug")
       ELSE UNCHANGED <<lkFull, lkRenew, logEnable>> /\ GoesOn(w, "point")
    /\ UNCHANGED <<headerVars, szLk, pbuff, logKept, settingVars>>

\* The buffer is full: LOG_DEBUG says so, and while it prints nothing is kept.
CheckLimit(w) ==
    /\ writer[w].at = "limit"
    /\ IF OffLk + szLk >= LogStoreSize
       THEN lkFull' = TRUE /\ lkRenew' = 0 /\ logEnable' = FALSE /\ GoesOn(w, "debug")
       ELSE UNCHANGED <<lkFull, lkRenew, logEnable>> /\ GoesOn(w, "point")
    /\ UNCHANGED <<headerVars, szLk, pbuff, logKept, settingVars>>

LogDebugEnds(w) ==
    /\ writer[w].at = "debug"
    /\ logEnable' = TRUE
    /\ GoesOn(w, "point")
    /\ UNCHANGED <<headerVars, szLk, lkFull, lkRenew, pbuff, logKept, settingVars>>

\* The byte at lk_renew, and lk_renew++.
RenewChar(w) ==
    /\ writer[w].at = "renew"
    /\ pbuff' = [pbuff EXCEPT ![OffLk + lkRenew] = writer[w].c]
    /\ GoesOn(w, "loadRenew")
    /\ UNCHANGED <<headerVars, logEnable, szLk, lkFull, lkRenew, logKept, settingVars>>

LoadRenew(w) ==
    /\ writer[w].at = "loadRenew"
    /\ writer' = [writer EXCEPT ![w] = [at |-> "countRenew", c |-> @.c, reg |-> lkRenew]]
    /\ UNCHANGED <<headerVars, logEnable, szLk, lkFull, lkRenew, pbuff, logKept, settingVars>>

CountRenew(w) ==
    /\ writer[w].at = "countRenew"
    /\ lkRenew' = writer[w].reg + 1
    /\ GoesOn(w, "point")
    /\ UNCHANGED <<headerVars, logEnable, szLk, lkFull, pbuff, logKept, settingVars>>

\* lk_log_store returns; buf_point is the sum of the two sizes.
LogEnds(w) ==
    /\ writer[w].at = "point"
    /\ GoesOn(w, "idle")
    /\ logKept' = IF mingled THEN <<>> ELSE Append(logKept, writer[w].c)
    /\ UNCHANGED <<headerVars, logEnable, szLk, lkFull, lkRenew, pbuff, settingVars>>

LogStep(w) ==
    \/ AppendChar(w) \/ LoadSize(w) \/ CountChar(w) \/ CheckLimit(w) \/ LogDebugEnds(w)
    \/ RenewChar(w) \/ LoadRenew(w) \/ CountRenew(w) \/ LogEnds(w)

---------------------------------------------------------------------------
(* The settings *)

\* The thread of the operation goes on, if it is not printing.
ConfigIs(at, busy) ==
    /\ config.at = at /\ config.busy = busy
    /\ writer[config.by].at = "idle"

ConfigGoes(at, header) ==
    config' = IF at = "none" THEN NoConfig
              ELSE [by |-> config.by, at |-> at, busy |-> FALSE, header |-> header, sets |-> config.sets]

\* set_emmc_config, for oem p2u and oem printk-ratelimit, or read_ratelimit_config or
\* read_kedump_config, which only read: the log is off while the partition is looked up.  One
\* thread at a time does any of it.
ConfigBegins(w, sets) ==
    /\ logStatus # "not_ready" /\ config.at = "none" /\ writer[w].at = "idle"
    /\ configs < MaxConfigs
    /\ configs' = configs + 1
    /\ config' = [by |-> w, at |-> "find", busy |-> TRUE, header |-> NoSettings, sets |-> sets]
    /\ logEnable' = FALSE
    /\ UNCHANGED <<bufferVars, expdb, meantSettings, unread>>

\* There is no expdb, or no device: LOG_DEBUG says so, and switches the log on again.
ConfigFound(there) ==
    /\ ConfigIs("find", TRUE)
    /\ ConfigGoes(IF there THEN "read" ELSE "none", NoSettings)
    /\ logEnable' = TRUE
    /\ UNCHANGED <<bufferVars, configs, expdb, meantSettings, unread>>

\* expdb_read or expdb_write begins, and switches the log off.
TransferBegins ==
    /\ \E at \in {"read", "sign", "write"} : ConfigIs(at, FALSE)
    /\ config' = [config EXCEPT !.busy = TRUE]
    /\ logEnable' = FALSE
    /\ UNCHANGED <<bufferVars, configs, expdb, meantSettings, unread>>

\* What is next when the header has been read and, where it had to be, written back.
AfterSign == IF config.sets = Nothing THEN "none" ELSE "write"

\* Nothing looks at the result of the read, so a block that could not be read is taken for an
\* unsigned one, and that for an empty one: it is written back, as one is whose offset of the
\* log is too large.
ReadEnds(readable, inRange) ==
    /\ ConfigIs("read", TRUE)
    /\ LET signed == readable /\ expdb # Unsigned
       IN  ConfigGoes(IF signed /\ inRange THEN AfterSign ELSE "sign", IF signed THEN expdb ELSE NoSettings)
    /\ logEnable' = TRUE
    /\ unread' = (unread \/ ~readable)
    /\ UNCHANGED <<bufferVars, configs, expdb, meantSettings>>

SignEnds(written) ==
    /\ ConfigIs("sign", TRUE)
    /\ expdb' = IF written THEN config.header ELSE expdb
    /\ ConfigGoes(AfterSign, config.header)
    /\ logEnable' = TRUE
    /\ UNCHANGED <<bufferVars, configs, meantSettings, unread>>

\* set_emmc_config has put the setting into the header that was read, and written it.
WriteEnds(written) ==
    /\ ConfigIs("write", TRUE)
    /\ LET Set(settings) == [settings EXCEPT ![config.sets.setting] = config.sets.value]
       IN  /\ expdb' = IF written THEN Set(config.header) ELSE expdb
           /\ meantSettings' = IF written THEN Set(meantSettings) ELSE meantSettings
    /\ ConfigGoes("none", NoSettings)
    /\ logEnable' = TRUE
    /\ UNCHANGED <<bufferVars, configs, unread>>

ConfigStep ==
    \/ \E there \in BOOLEAN : ConfigFound(there)
    \/ TransferBegins
    \/ \E readable, inRange \in BOOLEAN : ReadEnds(readable, inRange)
    \/ \E written \in BOOLEAN : SignEnds(written) \/ WriteEnds(written)

---------------------------------------------------------------------------

LogNext ==
    \/ \E good \in BOOLEAN : LogStoreInit(good)
    \/ \E w \in Writers : LogBegins(w) \/ LogStep(w)
    \/ \E w \in Writers, sets \in Changes : ConfigBegins(w, sets)
    \/ ConfigStep

LogSpec == LogInit /\ [][LogNext]_logVars

---------------------------------------------------------------------------
(* Properties *)

\* The k-th byte of the log, from the oldest.
LogByte(k) == pbuff[OffLk + IF lkFull THEN (lkRenew + k - 1) % szLk ELSE k - 1]

\* As long as no two print at once, the buffer holds the last characters, in order, of what
\* was printed, and nothing behind it is written.
InOrderLog ==
    (~mingled /\ logStatus = "ready") =>
        /\ \A i \in LogStoreSize .. LogStoreSize + Past : pbuff[i] = Other
        /\ (\A w \in Writers : writer[w].at = "idle") =>
             /\ lkFull <=> OffLk + szLk = LogStoreSize
             /\ szLk = IF lkFull THEN LogStoreSize - OffLk ELSE Len(logKept)
             /\ \A k \in 1 .. szLk : LogByte(k) = logKept[Len(logKept) - szLk + k]

\* The preloader's log stays, whoever prints at once.  Behind the buffer nothing is promised
\* then: who finds room may write when others have used it up, and a counter that is written
\* back late lets the next go further.
LogContained == \A i \in OffPl .. OffLk - 1 : i < LogStoreSize => pbuff[i] = Pl

\* Those who switch the log off under each other leave it on.  It may be on while one of them
\* still wants it off.
LogResumes == (~config.busy /\ \A w \in Writers : writer[w].at # "debug") => logEnable

\* A setting is kept until it is set again, as long as the block can be read.
SettingsLast == unread \/ meantSettings = IF expdb = Unsigned THEN NoSettings ELSE expdb

\* The log and its settings survive what the boot loader does with them: the order of the
\* characters the wrap, as long as no two print at once, the preloader's log any prints that
\* overtake each other (log_store_lk.c:172), the log the operations that switch it off while
\* others print (log_store_lk.c:205), and a setting the change of another and the reads that
\* write (log_store_lk.c:276).
LogSound == InOrderLog /\ LogContained /\ LogResumes /\ SettingsLast
=============================================================================
