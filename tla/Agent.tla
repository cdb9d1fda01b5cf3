------------------------------- MODULE Agent --------------------------------
(***************************************************************************)
(* The attestation agent: its start on a platform, the evidence and token  *)
(* services, and the event log (EventLog) they run beside.                 *)
(*                                                                         *)
(* The agent detects its TEE, binds the initdata it was given, replays or  *)
(* starts the event log and then serves.  A request for evidence takes no  *)
(* lock: requests share the platform's devices with each other, with the   *)
(* callers that extend the log, and, for a TSM report in configfs, with    *)
(* other processes of the guest.  Evidence of TDX carries a quote of the   *)
(* registers and a copy of the log that a verifier replays.                *)
(*                                                                         *)
(* Every step is a step of EventLog or leaves its variables unchanged.     *)
(***************************************************************************)
EXTENDS EventLog

CONSTANTS
    Requests,     \* GetEvidence and GetToken requests
    Envs,         \* the platforms and configurations the agent is run with
    MaxStops      \* bound on the ends of an agent that keeps no log, and on
                  \* what gRPC requests extend PCR 8 to

(***************************************************************************)
(* A platform: the devices that are present, the provider of its TSM       *)
(* reports ("none" without configfs), whether the event log is enabled and *)
(* which server runs (gRPC's has a request to bind initdata, ttrpc's not), *)
(* the initdata given on the command line against what the platform was    *)
(* launched with, and what the requests made of it ask for (a bound): the  *)
(* kind, and the length of the runtime data in bytes.                      *)
(***************************************************************************)
Tees == {"tdx", "sgx-occlum", "sgx-gramine", "aztdxvtpm", "azsnpvtpm", "snp", "csv",
         "cca", "se", "sample"}

ASSUME AgentAssumption ==
    /\ \A e \in Envs :
          /\ e.present \subseteq Tees \ {"cca", "sample"} /\ e.tsm \in {"none", "tdx", "cca", "sev"}
          /\ e.log \in BOOLEAN /\ e.grpc \in BOOLEAN
          /\ e.initdata \in {"none", "match", "longer", "other"}
          /\ DOMAIN e.asks \subseteq Requests
          /\ \A r \in DOMAIN e.asks :
                e.asks[r].kind \in {"evidence", "token"} /\ e.asks[r].len \in Nat
    /\ MaxStops \in Nat

VARIABLES
    env,        \* the platform
    boot,       \* where main is: "stopped", "bind", "init" or "serving"
    tee,        \* what detect_tee_type found
    req,        \* the requests for evidence
    entry,      \* the TSM report directory each request has made
    leaked,     \* TSM report directories that have lost their owner
    userData,   \* Gramine's /dev/attestation/user_report_data
    pcr8,       \* the initdata the vTPM's PCR 8 was extended with
    stops       \* ends of an agent without a log so far

agentVars == <<env, boot, tee, req, entry, leaked, userData, pcr8, stops>>
allVars == <<vars, agentVars>>

None == "none"
NoEntry == [gen |-> 0, inblob |-> None, made |-> FALSE]
NoData == [of |-> None, len |-> 0]
NoRequest == [pc |-> "idle", kind |-> None, data |-> NoData, quote |-> None,
              aael |-> <<>>, out |-> None]

AgentInit ==
    /\ Init
    /\ env \in Envs
    /\ boot = "stopped"
    /\ tee = None
    /\ req = [r \in Requests |-> NoRequest]
    /\ entry = [r \in Requests |-> NoEntry]
    /\ leaked = 0
    /\ userData = NoData
    /\ pcr8 = <<>>
    /\ stops = 0

-----------------------------------------------------------------------------
(* Starting.                                                                *)

TsmProvider(t) == IF t = "tdx" THEN "tdx" ELSE "cca"

\* detect_platform of TDX and CCA ask for a TSM report of their provider; TDX
\* and the others look for their device.
Detected(t) ==
    \/ t \in env.present
    \/ t \in {"tdx", "cca"} /\ env.tsm = TsmProvider(t)

\* detect_tee_type: the first platform of a fixed order.
DetectTeeType ==
    LET order == <<"tdx", "sgx-occlum", "sgx-gramine", "aztdxvtpm", "azsnpvtpm", "snp",
                   "csv", "cca", "se">>
        found == {i \in 1..Len(order) : Detected(order[i])}
    IN IF found = {} THEN "sample"
       ELSE order[CHOOSE i \in found : \A j \in found : i <= j]

\* AttestationAgent::new.  TsmReportPath::new removes the directory it has
\* made when the provider is another one.
NewKeepsDirectory ==
    /\ boot = "stopped"
    /\ tee' = DetectTeeType
    /\ boot' = "bind"
    /\ leaked' = IF env.tsm \notin {"none", "tdx"} THEN leaked + 1 ELSE leaked
    /\ UNCHANGED <<vars, env, req, entry, userData, pcr8, stops>>
New ==
    /\ boot = "stopped"
    /\ tee' = DetectTeeType
    /\ boot' = "bind"
    /\ UNCHANGED <<vars, env, req, entry, leaked, userData, pcr8, stops>>

\* Attester::bind_init_data.  TDX and SNP compare what the platform was
\* launched with, over the width of its register: pad cuts a longer value.
\* A vTPM is extended instead, with a digest of its own length only.
Measures == {"aztdxvtpm", "azsnpvtpm"}
Compares == {"tdx", "snp"}
InitDataAccepted ==
    \/ tee \in Compares /\ env.initdata \in {"match", "longer"}
    \/ tee \in Measures /\ env.initdata # "longer"
    \/ tee \notin Compares \cup Measures

\* main: the agent ends when the initdata is refused.
BindInitDataWarns ==
    /\ boot = "bind"
    /\ boot' = "init"
    /\ pcr8' = IF tee \in Measures /\ env.initdata # "none"
                  THEN Append(pcr8, env.initdata) ELSE pcr8
    /\ UNCHANGED <<vars, env, tee, req, entry, leaked, userData, stops>>
BindInitData ==
    /\ boot = "bind"
    /\ env.initdata = "none" \/ InitDataAccepted
    /\ boot' = "init"
    /\ pcr8' = IF tee \in Measures /\ env.initdata # "none"
                  THEN Append(pcr8, env.initdata) ELSE pcr8
    /\ UNCHANGED <<vars, env, tee, req, entry, leaked, userData, stops>>
InitDataRefused ==
    /\ boot = "bind"
    /\ env.initdata # "none" /\ ~InitDataAccepted
    /\ stops < MaxStops
    /\ stops' = stops + 1
    /\ boot' = "stopped"
    /\ UNCHANGED <<vars, env, tee, req, entry, leaked, userData, pcr8>>

\* BindInitData of the gRPC server: it does not compare with what main bound.
BindInitDataRequest ==
    /\ boot = "serving" /\ env.grpc /\ tee \in Measures
    /\ Len(pcr8) <= MaxStops
    /\ pcr8' = Append(pcr8, "requested")
    /\ UNCHANGED <<vars, env, boot, tee, req, entry, leaked, userData, stops>>

\* AttestationAgent::init without an event log.
ServeWithoutLog ==
    /\ boot = "init" /\ ~env.log
    /\ boot' = "serving"
    /\ UNCHANGED <<vars, env, tee, req, entry, leaked, userData, pcr8, stops>>

\* With one, EventLog::new runs before the socket is bound.  Only TDX reads a
\* register, and extends one only where the kernel offers no TSM reports.
RegistersUsable ==
    /\ aa = "init" => tee = "tdx"
    /\ aa \in {"init_extend", "recover"} => env.tsm = "none"
AfterLogStep ==
    boot' = IF aa' = "up" THEN "serving" ELSE IF aa' = "down" THEN "stopped" ELSE "init"

StartLog ==
    /\ boot = "init" /\ env.log
    /\ RegistersUsable /\ Start
    /\ AfterLogStep
    /\ UNCHANGED <<env, tee, req, entry, leaked, userData, pcr8, stops>>
StartLogFails ==
    /\ boot = "init" /\ env.log
    /\ StartFails
    /\ AfterLogStep
    /\ UNCHANGED <<env, tee, req, entry, leaked, userData, pcr8, stops>>

\* Requests to extend the log.
LogRequest ==
    /\ boot = "serving"
    /\ \E c \in Callers :
          \/ \E line \in Lines, reg \in Registers : Call(c, line, reg)
          \/ Serve(c) \/ AppendEntryFails(c) \/ ExtendEntryFails(c)
    /\ UNCHANGED agentVars

-----------------------------------------------------------------------------
(* Attester::get_evidence.                                                  *)

ReportDataSize == 64
Resized(d) == [d EXCEPT !.len = ReportDataSize]

\* Attesters with a report data field of 64 bytes; the others pass the data on.
SizedTees == {"tdx", "sgx-occlum", "sgx-gramine", "cca", "snp", "csv"}
Bound(d) == IF tee \in SizedTees THEN Resized(d) ELSE d
Refused(d) == \/ tee \in SizedTees /\ d.len > ReportDataSize
              \/ tee = "se" /\ d.len = 0

At(r, pc) == boot = "serving" /\ req[r].pc = pc
Goto(r, pc) == req' = [req EXCEPT ![r].pc = pc]
QuoteOf(d) == [data |-> d, regs |-> rtmr]
GotQuote(r, d, pc) == req' = [req EXCEPT ![r].pc = pc, ![r].quote = QuoteOf(d)]
Answer(r, out) == req' = [req EXCEPT ![r].pc = "idle", ![r].out = out]
Drop(r) == entry' = [entry EXCEPT ![r] = NoEntry]

UnchangedButReq == UNCHANGED <<vars, env, boot, tee, leaked, userData, pcr8, stops>>

\* The handlers of GetEvidence and, for the "coco_as" type, of GetToken, whose
\* evidence is over no data.
GetEvidence(r) ==
    /\ boot = "serving"
    /\ r \in DOMAIN env.asks /\ req[r] = NoRequest
    /\ req' = [req EXCEPT ![r] =
          [NoRequest EXCEPT !.pc = "start", !.kind = env.asks[r].kind,
              !.data = [of |-> r,
                        len |-> IF env.asks[r].kind = "token" THEN 0 ELSE env.asks[r].len]]]
    /\ UNCHANGED entry /\ UnchangedButReq

RefuseData(r) ==
    /\ At(r, "start") /\ Refused(req[r].data)
    /\ Answer(r, "error")
    /\ UNCHANGED entry /\ UnchangedButReq

\* TsmReportPath::new: a directory of the request's own, if the provider is
\* the wanted one.  TDX falls back to the ioctl.
TsmReportPathNew(r) ==
    /\ At(r, "start") /\ tee \in {"tdx", "cca"} /\ ~Refused(req[r].data)
    /\ \/ /\ env.tsm = TsmProvider(tee)
          /\ entry' = [entry EXCEPT ![r] = [NoEntry EXCEPT !.made = TRUE]]
          /\ Goto(r, "inblob")
       \/ /\ env.tsm # TsmProvider(tee)
          /\ Goto(r, "ioctl")
          /\ UNCHANGED entry
    /\ UnchangedButReq

\* attestation_report: write inblob, ...
WriteInblob(r) ==
    /\ At(r, "inblob")
    /\ entry' = [entry EXCEPT ![r].gen = @ + 1, ![r].inblob = Resized(req[r].data)]
    /\ Goto(r, "outblob")
    /\ UnchangedButReq

\* ... read outblob, ...
ReadOutblob(r) ==
    /\ At(r, "outblob")
    /\ GotQuote(r, entry[r].inblob, "generation")
    /\ UNCHANGED entry /\ UnchangedButReq

\* ... and check_inblob_write_race; the directory goes with the path.
CheckInblobLateByOne(r) ==
    /\ At(r, "generation")
    /\ IF entry[r].gen > 2 THEN Answer(r, "error") ELSE Goto(r, "collect")
    /\ Drop(r) /\ UnchangedButReq
CheckInblobWriteRaceRetries(r) ==
    /\ At(r, "generation")
    /\ \/ entry[r].gen > 1 /\ Goto(r, "outblob") /\ UNCHANGED entry
       \/ entry[r].gen <= 1 /\ Goto(r, "collect") /\ Drop(r)
    /\ UnchangedButReq
CheckInblobWriteRace(r) ==
    /\ At(r, "generation")
    /\ IF entry[r].gen > 1 THEN Answer(r, "error") ELSE Goto(r, "collect")
    /\ Drop(r) /\ UnchangedButReq

\* Another process of the guest writes to the directory.
OtherWrites(r) ==
    /\ entry[r].made /\ entry[r].gen < 2
    /\ entry' = [entry EXCEPT ![r].gen = @ + 1,
                              ![r].inblob = [of |-> "other", len |-> ReportDataSize]]
    /\ UNCHANGED req /\ UnchangedButReq

\* The other attesters make the quote in one call.
QuoteAtOnce(r, pc, t) ==
    /\ At(r, pc) /\ tee = t /\ ~Refused(req[r].data)
    /\ GotQuote(r, Bound(req[r].data), "collect")
    /\ UNCHANGED entry /\ UnchangedButReq
GetQuoteIoctl(r) == QuoteAtOnce(r, "ioctl", "tdx")
OcclumQuote(r) == QuoteAtOnce(r, "start", "sgx-occlum")
SnpReport(r) == QuoteAtOnce(r, "start", "snp")
CsvReport(r) == QuoteAtOnce(r, "start", "csv")
SeAttestation(r) == QuoteAtOnce(r, "start", "se")
AzSnpQuote(r) == QuoteAtOnce(r, "start", "azsnpvtpm")
AzTdxQuote(r) == QuoteAtOnce(r, "start", "aztdxvtpm")
SampleQuote(r) == QuoteAtOnce(r, "start", "sample")

\* Gramine: one pseudo file takes the report data, another gives the quote.
WriteUserReportData(r) ==
    /\ At(r, "start") /\ tee = "sgx-gramine" /\ ~Refused(req[r].data)
    /\ userData' = Resized(req[r].data)
    /\ Goto(r, "quote")
    /\ UNCHANGED <<vars, env, boot, tee, entry, leaked, pcr8, stops>>
ReadQuote(r) ==
    /\ At(r, "quote")
    /\ GotQuote(r, userData, "collect")
    /\ UNCHANGED entry /\ UnchangedButReq

\* The rest of the evidence: TDX reads the AAEL file, which may be missing;
\* the others add certificates and reports.  A token goes on to the service.
CollectCachedLog(r) ==
    /\ At(r, "collect")
    /\ req' = [req EXCEPT ![r].pc = IF req[r].kind = "token" THEN "post" ELSE "idle",
                          ![r].aael = IF tee = "tdx" /\ file THEN SubSeq(log, 1, 1) ELSE <<>>,
                          ![r].out = IF req[r].kind = "token" THEN None ELSE "ok"]
    /\ UNCHANGED entry /\ UnchangedButReq
Collect(r) ==
    /\ At(r, "collect")
    /\ req' = [req EXCEPT ![r].pc = IF req[r].kind = "token" THEN "post" ELSE "idle",
                          ![r].aael = IF tee = "tdx" /\ file THEN log ELSE <<>>,
                          ![r].out = IF req[r].kind = "token" THEN None ELSE "ok"]
    /\ UNCHANGED entry /\ UnchangedButReq

\* CoCoASTokenGetter: the attestation service's verdict.
Post(r) ==
    /\ At(r, "post")
    /\ Answer(r, "ok") \/ Answer(r, "error")
    /\ UNCHANGED entry /\ UnchangedButReq

\* A device, a file or a service the evidence needs fails; the TSM path is
\* dropped on the way out.
EvidenceFails(r) ==
    /\ boot = "serving"
    /\ req[r].pc \in {"start", "inblob", "outblob", "generation", "ioctl", "quote", "collect"}
    /\ Answer(r, "error")
    /\ Drop(r) /\ UnchangedButReq

-----------------------------------------------------------------------------
\* The process ends: requests in flight are lost, their directories stay.
EndOfProcess ==
    /\ boot' = "stopped"
    /\ leaked' = leaked + Cardinality({r \in Requests : entry[r].made})
    /\ entry' = [r \in Requests |-> NoEntry]
    /\ req' = [r \in Requests |-> IF req[r].pc = "idle" THEN req[r] ELSE NoRequest]
    /\ UNCHANGED <<env, tee, userData, pcr8>>
AgentCrash == Crash /\ EndOfProcess /\ UNCHANGED stops
StopWithoutLog ==
    /\ boot = "serving" /\ ~env.log
    /\ stops < MaxStops
    /\ stops' = stops + 1
    /\ EndOfProcess /\ UNCHANGED vars

Starting == New \/ BindInitData \/ ServeWithoutLog \/ StartLog

Evidence(r) ==
    \/ RefuseData(r) \/ TsmReportPathNew(r) \/ WriteInblob(r) \/ ReadOutblob(r)
    \/ CheckInblobWriteRace(r) \/ WriteUserReportData(r) \/ ReadQuote(r)
    \/ GetQuoteIoctl(r) \/ OcclumQuote(r) \/ SnpReport(r) \/ CsvReport(r)
    \/ SeAttestation(r) \/ AzSnpQuote(r) \/ AzTdxQuote(r) \/ SampleQuote(r)
    \/ Collect(r) \/ Post(r)

AgentNext ==
    \/ Starting \/ InitDataRefused \/ StartLogFails \/ AgentCrash \/ StopWithoutLog
    \/ LogRequest \/ BindInitDataRequest
    \/ \E r \in Requests :
          GetEvidence(r) \/ Evidence(r) \/ OtherWrites(r) \/ EvidenceFails(r)

\* A supervisor starts the agent again, main runs on, a handler is polled and
\* its calls of devices and services return; the mutex of the log is fair.
LogServe(c) == boot = "serving" /\ Serve(c) /\ UNCHANGED agentVars
AgentFairness ==
    /\ WF_allVars(Starting)
    /\ \A c \in Callers : SF_allVars(LogServe(c))
    /\ \A r \in Requests : WF_allVars(Evidence(r))

AgentSpec == AgentInit /\ [][AgentNext]_allVars /\ AgentFairness

-----------------------------------------------------------------------------
(* Properties.                                                              *)

Evidenced(r) == req[r].pc = "idle" /\ req[r].out = "ok"

\* A verifier can replay TDX evidence: the log it carries accounts for every
\* digest in a register of the quote, and of an undisturbed log the register is
\* the replay of a prefix.  Requests extend the log while the evidence is made:
\* what makes this true is that a line is written before it is extended, and
\* the quote taken before the log is read.  A log with a line that stands in
\* several pieces does not replay (it counts as disturbed): a verifier finds
\* the digest only if he hashes the pieces together.
EvidenceLogCoversQuote ==
    \A r \in Requests :
        (Evidenced(r) /\ tee = "tdx") =>
            LET lines == req[r].aael
                regs == req[r].quote.regs
            IN /\ \A g \in Registers : \A i \in 1..Len(regs[g]) : Accounts(lines, regs[g][i])
               /\ ~disturbed => \E k \in 0..Len(lines) :
                     regs[InitPcr] = AccumulateHash(initState, SubSeq(lines, 1, k))

\* Evidence binds the runtime data of the request it answers, whatever other
\* requests and other processes do with the platform's devices meanwhile.
\* Gramine's pseudo files are the exception (EvidenceAnswersItsRequest).
QuoteAnswersRequest ==
    \A r \in Requests :
        (Evidenced(r) /\ tee # "sgx-gramine") => req[r].quote.data = Bound(req[r].data)

\* The documentation of Attester::get_evidence: report_data is the user input
\* of the evidence, on every platform.
EvidenceAnswersItsRequest ==
    \A r \in Requests : Evidenced(r) => req[r].quote.data = Bound(req[r].data)

\* Every TSM report directory belongs to a request that is using it, except
\* those of requests that the end of the process cut short: neither a refused
\* provider nor a failing report leaves one behind.
TsmEntriesRemoved ==
    /\ \A r \in Requests :
          entry[r].made => req[r].pc \in {"inblob", "outblob", "generation"}
    /\ leaked > 0 => crashes + stops > 0

\* An agent that serves has bound its initdata, each time it was started: TDX
\* and SNP were launched with it, and the vTPM was extended with it by this
\* start and by each earlier one that came as far; only requests of the gRPC
\* server extend PCR 8 with anything else.
InitDataBound ==
    (boot = "serving" /\ env.initdata # "none") =>
        /\ tee \in Compares => env.initdata # "other"
        /\ tee \in Measures => \E i \in 1..Len(pcr8) : pcr8[i] = env.initdata
        /\ ~env.grpc => \A i \in 1..Len(pcr8) : pcr8[i] = env.initdata

\* Every request to extend the log, for evidence or for a token ends: no lock,
\* and no race on a report, keeps it for ever.
AgentRequestsEnd ==
    /\ CallsReturn
    /\ \A r \in Requests : (req[r].pc # "idle") ~> (req[r].pc = "idle")
=============================================================================
