------------------------------ MODULE EventLog ------------------------------
(***************************************************************************)
(* The attestation agent's event log (AAEL) and the runtime measurement    *)
(* registers it is replayed against.                                       *)
(*                                                                         *)
(* The log is a file in /run that outlives the agent process; a register   *)
(* (RTMR) lives in the TEE and outlives it too.  The agent first appends a *)
(* line to the file and then extends a register with the line's digest; a  *)
(* crash, or a failing extend, between the two leaves the register behind. *)
(* EventLog::new tries to repair that when the agent starts again.         *)
(*                                                                         *)
(* A hash is modelled as collision free: a register is the sequence of the *)
(* digests it was extended with since boot.                                *)
(***************************************************************************)
EXTENDS Integers, Sequences, FiniteSets

CONSTANTS
    Callers,      \* concurrent ExtendRuntimeMeasurement requests
    Lines,        \* event lines "domain operation content"
    Padded,       \* the lines that end in white space (an empty content does)
    Multiline,    \* the lines whose content holds a newline
    Pieces,       \* the lines whose domain or operation holds newlines, as a
                  \* function to what they are, split at those
    InitLine,     \* the line "INIT <alg>/<register value>"
    NoLine,       \* a caller without a request
    NoCaller,     \* the lock is free
    Registers,    \* the measurement registers
    InitPcr,      \* eventlog_config.init_pcr
    MaxLog,       \* bound: no request is made once the lines of the log and the
                  \* requests under way are as many
    MaxCrashes,   \* bound on crashes of the agent
    MaxFails      \* bound on failing register accesses

ASSUME ConstantsAssumption ==
    /\ Padded \subseteq Lines
    /\ Multiline \subseteq Lines
    /\ DOMAIN Pieces \subseteq Lines
    /\ \A line \in DOMAIN Pieces : Pieces[line] \in Seq(Lines) /\ Len(Pieces[line]) > 1
    /\ InitLine \notin Lines
    /\ NoLine \notin Lines
    /\ NoCaller \notin Callers
    /\ InitPcr \in Registers
    /\ MaxLog \in Nat /\ MaxCrashes \in Nat /\ MaxFails \in Nat

VARIABLES
    aa,           \* where the agent is in EventLog::new, or "up", or "down"
    file,         \* the AAEL file exists
    writable,     \* the agent's handle on it was opened for writing
    log,          \* the lines of the file
    initState,    \* the register value the INIT line records
    rtmr,         \* the registers
    call,         \* the request of each caller
    holder,       \* who holds the mutex around the EventLog
    acked,        \* (history) the requests that were answered with Ok
    disturbed,    \* (history) see NoteAppend, NoteAbandoned
    crashes,      \* crashes so far
    fails         \* failed register accesses so far

vars == <<aa, file, writable, log, initState, rtmr, call, holder, acked,
          disturbed, crashes, fails>>

-----------------------------------------------------------------------------
(* Digests.                                                                 *)

AllLines == Lines \cup {InitLine}

\* The digest of a line as the agent logs it, and as it is read back: the
\* parser trims the end of an event line.
Digest(line) == <<"whole", line>>
ParsedDigest(line) == IF line \in Padded THEN <<"trimmed", line>> ELSE <<"whole", line>>

Digests == {"whole", "trimmed"} \X AllLines

\* What appending a line leaves in the file: writeln! does not look for
\* newlines, so that a reader of the file sees several lines, none of which
\* has the digest of the whole.
FileLines(line) == IF line \in DOMAIN Pieces THEN Pieces[line] ELSE <<line>>

\* A line stands in a file at place k, in one piece or in several.
StandsAt(line, lines, k) ==
    /\ k + Len(FileLines(line)) <= Len(lines) + 1
    /\ \A i \in 1..Len(FileLines(line)) : lines[k + i - 1] = FileLines(line)[i]

\* AAEventlog::accumulate_hash: the register a log is consistent with.
AccumulateHash(init, lines) ==
    init \o [i \in 1..Len(lines) |-> ParsedDigest(lines[i])]

IntegrityCheck(value) == value = AccumulateHash(initState, log)

\* The digest EventLog::new extends when the integrity check fails: the INIT
\* line if the log has no event, else that of aael.events[0].
RecoveryDigestAlwaysInit == ParsedDigest(log[1])
RecoveryDigest ==
    IF Len(log) = 1 THEN ParsedDigest(log[1]) ELSE ParsedDigest(log[2])

-----------------------------------------------------------------------------
NoCall == [pc |-> "idle", line |-> NoLine, reg |-> InitPcr]

Init ==
    /\ aa = "down"
    /\ file = FALSE
    /\ writable = FALSE
    /\ log = <<>>
    /\ initState = <<>>
    /\ rtmr = [r \in Registers |-> <<>>]
    /\ call = [c \in Callers |-> NoCall]
    /\ holder = NoCaller
    /\ acked = <<>>
    /\ disturbed = FALSE
    /\ crashes = 0
    /\ fails = 0

(***************************************************************************)
(* EventLog::new, run by AttestationAgent::init.  An error ends the agent, *)
(* which its supervisor may start again.                                   *)
(***************************************************************************)

\* No file: File::create.
CreateLog ==
    /\ aa = "down" /\ ~file
    /\ file' = TRUE
    /\ writable' = TRUE
    /\ aa' = "init"
    /\ UNCHANGED <<log, initState, rtmr, call, holder, acked, disturbed,
                   crashes, fails>>

\* An empty file: File::open, which opens for reading only.
OpenEmptyLog ==
    /\ aa = "down" /\ file /\ log = <<>>
    /\ writable' = FALSE
    /\ aa' = "init"
    /\ UNCHANGED <<file, log, initState, rtmr, call, holder, acked,
                   disturbed, crashes, fails>>

\* A log with lines: read the register and compare.
CheckLog ==
    /\ aa = "down" /\ file /\ log # <<>>
    /\ writable' = TRUE
    /\ aa' = IF IntegrityCheck(rtmr[InitPcr]) THEN "up" ELSE "recover"
    /\ UNCHANGED <<file, log, initState, rtmr, call, holder, acked,
                   disturbed, crashes, fails>>

\* The unfinished extend.
RecoverExtend ==
    /\ aa = "recover"
    /\ rtmr' = [rtmr EXCEPT ![InitPcr] = Append(@, RecoveryDigest)]
    /\ aa' = "up"
    /\ UNCHANGED <<file, writable, log, initState, call, holder, acked,
                   disturbed, crashes, fails>>

\* extend_init_entry up to the append.
AppendInit ==
    /\ aa = "init" /\ writable
    /\ initState' = rtmr[InitPcr]
    /\ log' = Append(log, InitLine)
    /\ aa' = "init_extend"
    /\ UNCHANGED <<file, writable, rtmr, call, holder, acked, disturbed,
                   crashes, fails>>

\* The append through a read-only handle fails: "write INIT log entry".
AppendInitRefused ==
    /\ aa = "init" /\ ~writable
    /\ aa' = "down"
    /\ UNCHANGED <<file, writable, log, initState, rtmr, call, holder, acked,
                   disturbed, crashes, fails>>

\* extend_init_entry after the append.
ExtendInit ==
    /\ aa = "init_extend"
    /\ rtmr' = [rtmr EXCEPT ![InitPcr] = Append(@, Digest(InitLine))]
    /\ aa' = "up"
    /\ UNCHANGED <<file, writable, log, initState, call, holder, acked,
                   disturbed, crashes, fails>>

\* Reading or extending the register fails while the agent starts.
StartFails ==
    /\ aa \in {"init", "init_extend", "recover"}
    /\ fails < MaxFails
    /\ fails' = fails + 1
    /\ aa' = "down"
    /\ UNCHANGED <<file, writable, log, initState, rtmr, call, holder, acked,
                   disturbed, crashes>>

(***************************************************************************)
(* extend_runtime_measurement.                                             *)
(***************************************************************************)

\* The history variable disturbed is set by what the start-up check cannot
\* undo: a line that the check reads differently, in several pieces or looks
\* for in another register, a line appended over an unextended one, ...
NoteAppend(line, reg) ==
    disturbed' = (\/ disturbed
                  \/ line \in Padded \cup DOMAIN Pieces
                  \/ reg # InitPcr
                  \/ rtmr[InitPcr] # AccumulateHash(initState, log))
\* ... or a line left unextended that is neither INIT nor the first event.
NoteAbandoned(stillHeld) == disturbed' = (disturbed \/ (stillHeld /\ Len(log) > 2))

\* A request arrives; a content with a newline is refused (Content::try_from),
\* a domain or an operation with one is not.
Call(c, line, reg) ==
    /\ aa = "up"
    /\ call[c].pc = "idle"
    /\ Len(log) + Cardinality({d \in Callers : call[d].pc = "lock"}) < MaxLog
    /\ line \notin Multiline
    /\ call' = [call EXCEPT ![c] = [pc |-> "lock", line |-> line, reg |-> reg]]
    /\ UNCHANGED <<aa, file, writable, log, initState, rtmr, holder, acked,
                   disturbed, crashes, fails>>

\* The caller gets the mutex and extend_entry appends the line ...
AppendEntryNoLock(c) ==
    /\ call[c].pc = "lock"
    /\ holder' = c
    /\ log' = log \o FileLines(call[c].line)
    /\ call' = [call EXCEPT ![c].pc = "extend"]
    /\ NoteAppend(call[c].line, call[c].reg)
    /\ UNCHANGED <<aa, file, writable, initState, rtmr, acked, crashes, fails>>
AppendEntryExtendsFirst(c) ==
    /\ call[c].pc = "lock" /\ holder = NoCaller
    /\ holder' = c
    /\ call' = [call EXCEPT ![c].pc = "extend"]
    /\ rtmr' = [rtmr EXCEPT ![call[c].reg] = Append(@, Digest(call[c].line))]
    /\ NoteAppend(call[c].line, call[c].reg)
    /\ UNCHANGED <<aa, file, writable, initState, log, acked, crashes, fails>>
AppendEntry(c) ==
    /\ call[c].pc = "lock" /\ holder = NoCaller
    /\ holder' = c
    /\ log' = log \o FileLines(call[c].line)
    /\ call' = [call EXCEPT ![c].pc = "extend"]
    /\ NoteAppend(call[c].line, call[c].reg)
    /\ UNCHANGED <<aa, file, writable, initState, rtmr, acked, crashes, fails>>

\* The write fails; the mutex is released with the error.
AppendEntryFails(c) ==
    /\ call[c].pc = "lock" /\ holder = NoCaller
    /\ fails < MaxFails
    /\ fails' = fails + 1
    /\ call' = [call EXCEPT ![c] = NoCall]
    /\ UNCHANGED <<aa, file, writable, log, initState, rtmr, holder, acked,
                   disturbed, crashes>>

\* ... and then extends the register; the request is answered with Ok.
ExtendEntry(c) ==
    /\ call[c].pc = "extend"
    /\ rtmr' = [rtmr EXCEPT ![call[c].reg] = Append(@, Digest(call[c].line))]
    /\ acked' = Append(acked, call[c])
    /\ call' = [call EXCEPT ![c] = NoCall]
    /\ holder' = NoCaller
    /\ UNCHANGED <<aa, file, writable, log, initState, disturbed, crashes, fails>>

\* The extend fails: the caller gets the error, the line stays in the log.
ExtendEntryFails(c) ==
    /\ call[c].pc = "extend"
    /\ fails < MaxFails
    /\ fails' = fails + 1
    /\ call' = [call EXCEPT ![c] = NoCall]
    /\ holder' = NoCaller
    /\ NoteAbandoned(TRUE)
    /\ UNCHANGED <<aa, file, writable, log, initState, rtmr, acked, crashes>>

\* The agent process dies at any point; file and registers stay.
Crash ==
    /\ aa # "down"
    /\ crashes < MaxCrashes
    /\ crashes' = crashes + 1
    /\ aa' = "down"
    /\ call' = [c \in Callers |-> NoCall]
    /\ holder' = NoCaller
    /\ NoteAbandoned(holder # NoCaller)
    /\ UNCHANGED <<file, writable, log, initState, rtmr, acked, fails>>

Start == CreateLog \/ OpenEmptyLog \/ CheckLog \/ RecoverExtend
            \/ AppendInit \/ AppendInitRefused \/ ExtendInit

Serve(c) == AppendEntry(c) \/ ExtendEntry(c)

Next ==
    \/ Start \/ StartFails \/ Crash
    \/ \E c \in Callers :
          \/ \E line \in Lines, reg \in Registers : Call(c, line, reg)
          \/ Serve(c) \/ AppendEntryFails(c) \/ ExtendEntryFails(c)

\* The supervisor restarts the agent, the agent's start-up runs on, and the
\* executor polls a request that can proceed.  Tokio's mutex is fair (FIFO),
\* so that a caller that waits for it gets it in the end: strong fairness.
Fairness == WF_vars(Start) /\ \A c \in Callers : SF_vars(Serve(c))

Spec == Init /\ [][Next]_vars /\ Fairness

-----------------------------------------------------------------------------
(* Properties.                                                              *)

CallType == [pc : {"idle", "lock", "extend"}, line : Lines \cup {NoLine},
             reg : Registers]
AckedType == [pc : {"extend"}, line : Lines \ Multiline, reg : Registers]

\* The shape of the state; a request that waits or holds the mutex has passed
\* the check of its content.
TypeOK ==
    /\ aa \in {"down", "init", "init_extend", "recover", "up"}
    /\ file \in BOOLEAN /\ writable \in BOOLEAN /\ disturbed \in BOOLEAN
    /\ log \in Seq(AllLines)
    /\ initState \in Seq(Digests)
    /\ rtmr \in [Registers -> Seq(Digests)]
    /\ call \in [Callers -> CallType]
    /\ \A c \in Callers : call[c].pc # "idle" => call[c].line \in Lines \ Multiline
    /\ holder \in Callers \cup {NoCaller}
    /\ acked \in Seq(AckedType)
    /\ crashes \in Nat /\ fails \in Nat

\* The values of s, a function on indices, are in t in the order of their
\* indices, each at a place of its own.
Embeds(s, t) ==
    \E f \in [DOMAIN s -> 1..Len(t)] :
        /\ \A i \in DOMAIN s : s[i] = t[f[i]]
        /\ \A i, j \in DOMAIN s : i < j => f[i] < f[j]

\* The same of lines in a file, where one may stand in several pieces: each
\* begins after the last piece of the one before.
EmbedsLines(s, lines) ==
    \E f \in [DOMAIN s -> 1..Len(lines)] :
        /\ \A i \in DOMAIN s : StandsAt(s[i], lines, f[i])
        /\ \A i, j \in DOMAIN s : i < j => f[i] + Len(FileLines(s[i])) <= f[j]

\* The lines of the requests that were answered with Ok, and the digests of
\* those that asked for register r.
AckedLines == [i \in 1..Len(acked) |-> acked[i].line]
AckedDigests(r) ==
    [i \in {k \in 1..Len(acked) : acked[k].reg = r} |-> Digest(acked[i].line)]

\* The requests answered with Ok are in the log in the order of the answers,
\* and each one in the register it asked for: extend_entry reports success
\* only after both writes, and the mutex makes the two orders agree.
AckedRequestsMeasured ==
    /\ EmbedsLines(AckedLines, log)
    /\ \A r \in Registers : Embeds(AckedDigests(r), rtmr[r])

\* A log accounts for a digest: it is that of what stands in the log, or of one
\* of its lines as the parser reads it.
Accounts(lines, digest) ==
    \E k \in 1..Len(lines) :
        \/ digest = ParsedDigest(lines[k])
        \/ \E line \in AllLines : StandsAt(line, lines, k) /\ digest = Digest(line)

\* No register holds a digest the log does not account for: the order "first
\* write AAEL and then extend RTMR", whatever crashes or fails.  What a request
\* with a newline in its domain or operation extends is the digest of several
\* lines of the log together and of none of them alone; every other digest is
\* that of one line.
MeasuredLinesLogged ==
    \A r \in Registers : \A i \in 1..Len(rtmr[r]) : Accounts(log, rtmr[r][i])

\* The log's own promise: as long as nothing has disturbed it (no line in
\* several pieces, with white space at its end or for another register, and
\* none that was left unextended under a later one), an agent that
\* is up and idle leaves a log whose replay gives the register it started
\* from, or the last line is unextended after a failed extend and the
\* start-up check can still repair it.
LogReplaysToRegister ==
    (~disturbed /\ aa = "up" /\ holder = NoCaller) =>
        \/ rtmr[InitPcr] = AccumulateHash(initState, log)
        \/ /\ fails > 0 /\ Len(log) = 2
           /\ rtmr[InitPcr] = AccumulateHash(initState, <<log[1]>>)

\* The log is append-only: no step rewrites or drops a line.
LogAppendOnly ==
    [][Len(log') >= Len(log) /\ SubSeq(log', 1, Len(log)) = log]_<<log>>

\* Every request is answered, by Ok, an error or the end of the agent: neither
\* a failing extend nor another caller keeps the mutex.
CallsReturn == \A c \in Callers : (call[c].pc # "idle") ~> (call[c].pc = "idle")

\* What the comment in EventLog::new says of the start-up check: it catches
\* the entry that was recorded but not extended and finishes the extending.
RecoveryFinishesExtend ==
    (aa = "up" /\ holder = NoCaller) =>
        rtmr[InitPcr] = AccumulateHash(initState, log)
=============================================================================
