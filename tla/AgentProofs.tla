----------------------------- MODULE AgentProofs ----------------------------
(***************************************************************************)
(* First EventLog by itself: the type invariant, that the log is append-   *)
(* only, and that an undisturbed log replays to its register, for any      *)
(* number of callers, lines and registers and any bounds.                  *)
(*                                                                         *)
(* Then the agent around it: its start on any platform, the evidence       *)
(* requests that read the log, and the ends of the process leave the log   *)
(* and its registers to the steps of EventLog, so the same holds of it.    *)
(* Of the agent's own requests: the quote is over the data asked for, TSM  *)
(* directories are removed, and the initdata is bound before the first     *)
(* request is served.                                                      *)
(***************************************************************************)
EXTENDS Agent, SequenceTheorems, TLAPS

-----------------------------------------------------------------------------
(* Facts about sequences and digests.                                       *)

\* The lengths of the logs whose last line the start-up check can extend.
LEMMA OneOrTwo ==
    \A n \in Nat : /\ n # 0 /\ n <= 2 => n = 1 \/ n = 2
                   /\ n >= 2 /\ ~(n > 2) => n = 2
OBVIOUS

\* What a line leaves in the file are lines, at least one.
LEMMA FileLinesType ==
    ASSUME NEW line \in AllLines
    PROVE  FileLines(line) \in Seq(AllLines) /\ Len(FileLines(line)) >= 1
<1>1. CASE line \in DOMAIN Pieces
  <2>1. Pieces[line] \in Seq(Lines) /\ Len(Pieces[line]) > 1
    BY <1>1, ConstantsAssumption
  <2>2. PICK p : p = Pieces[line]
    OBVIOUS
  <2>3. p \in Seq(Lines) /\ Len(p) >= 1
    BY <2>1, <2>2
  <2>4. p \in Seq(AllLines)
    BY <2>3 DEF AllLines
  <2>. QED
    BY <1>1, <2>2, <2>3, <2>4 DEF FileLines
<1>2. CASE line \notin DOMAIN Pieces
  BY <1>2 DEF FileLines
<1>. QED
  BY <1>1, <1>2

\* One sequence continues another.
Continues(t, s) ==
    /\ Len(s) <= Len(t)
    /\ \A k \in 1..Len(s) : t[k] = s[k]

LEMMA ConcatContinues ==
    ASSUME NEW s \in Seq(AllLines), NEW u \in Seq(AllLines)
    PROVE  /\ s \o u \in Seq(AllLines) /\ Len(s \o u) = Len(s) + Len(u)
           /\ Continues(s \o u, s)
           /\ \A k \in 1..Len(u) : (s \o u)[Len(s) + k] = u[k]
<1>1. PICK t : t = s \o u
  OBVIOUS
<1>2. PICK m, n : m = Len(s) /\ n = Len(u)
  OBVIOUS
<1>3. /\ t \in Seq(AllLines) /\ Len(t) = m + n /\ m \in Nat /\ n \in Nat
      /\ \A i \in 1..(m + n) : t[i] = IF i <= m THEN s[i] ELSE u[i - m]
  BY <1>1, <1>2, ConcatProperties
<1>4. \A k \in 1..m : k \in 1..(m + n) /\ k <= m
  BY <1>3
<1>5. ASSUME NEW k \in 1..n PROVE t[m + k] = u[k]
  <2>1. m + k \in 1..(m + n) /\ ~(m + k <= m) /\ (m + k) - m = k
    BY <1>3
  <2>. QED
    BY <1>3, <2>1
<1>6. m <= Len(t) /\ \A k \in 1..m : t[k] = s[k]
  BY <1>3, <1>4
<1>. QED
  BY <1>1, <1>2, <1>3, <1>5, <1>6 DEF Continues

\* A line stands where it was appended, and stays there.
LEMMA StandsAppended ==
    ASSUME NEW s \in Seq(AllLines), NEW line \in AllLines
    PROVE  StandsAt(line, s \o FileLines(line), Len(s) + 1)
<1>1. PICK u, t, m, n : u = FileLines(line) /\ t = s \o u /\ m = Len(s) /\ n = Len(u)
  OBVIOUS
<1>2. u \in Seq(AllLines) /\ m \in Nat /\ n \in Nat
  BY <1>1, FileLinesType
<1>3. Len(t) = m + n /\ \A k \in 1..n : t[m + k] = u[k]
  BY <1>1, <1>2, ConcatContinues
<1>4. (m + 1) + n <= Len(t) + 1
  BY <1>2, <1>3
<1>5. ASSUME NEW k \in 1..n PROVE t[(m + 1) + k - 1] = u[k]
  <2>1. (m + 1) + k - 1 = m + k
    BY <1>2
  <2>. QED
    BY <1>3, <2>1
<1>. QED
  BY <1>1, <1>4, <1>5 DEF StandsAt

LEMMA StandsStays ==
    ASSUME NEW line \in AllLines, NEW s \in Seq(AllLines), NEW t \in Seq(AllLines),
           Continues(t, s), NEW k \in Nat \ {0}, StandsAt(line, s, k)
    PROVE  StandsAt(line, t, k)
<1>1. PICK u, m, n, l : u = FileLines(line) /\ m = Len(s) /\ n = Len(t) /\ l = Len(u)
  OBVIOUS
<1>2. u \in Seq(AllLines) /\ m \in Nat /\ n \in Nat /\ l \in Nat
  BY <1>1, FileLinesType
<1>3. /\ k + l <= m + 1 /\ \A i \in 1..l : s[k + i - 1] = u[i]
      /\ m <= n /\ \A i \in 1..m : t[i] = s[i]
  BY <1>1 DEF StandsAt, Continues
<1>4. k + l <= n + 1 /\ \A i \in 1..l : k + i - 1 \in 1..m
  BY <1>2, <1>3
<1>5. \A i \in 1..l : t[k + i - 1] = u[i]
  BY <1>3, <1>4
<1>. QED
  BY <1>1, <1>4, <1>5 DEF StandsAt

\* The digests of lines are digests.
LEMMA DigestType ==
    ASSUME NEW line \in AllLines
    PROVE  Digest(line) \in Digests /\ ParsedDigest(line) \in Digests
BY DEF Digest, ParsedDigest, Digests

\* A line that ends in no white space is read back with the digest it was
\* extended with; the INIT line is one of them.
LEMMA UnpaddedDigest ==
    ASSUME NEW line \in AllLines, line \notin Padded
    PROVE  ParsedDigest(line) = Digest(line)
BY DEF Digest, ParsedDigest

\* accumulate_hash folds the lines from the left: one line more is one
\* extend more.
LEMMA AccumulateAppend ==
    ASSUME NEW init \in Seq(Digests), NEW lines \in Seq(AllLines), NEW l \in AllLines
    PROVE  /\ AccumulateHash(init, lines) \in Seq(Digests)
           /\ AccumulateHash(init, Append(lines, l)) =
                Append(AccumulateHash(init, lines), ParsedDigest(l))
<1>. DEFINE D(s) == [i \in 1..Len(s) |-> ParsedDigest(s[i])]
<1>1. \A s \in Seq(AllLines) : D(s) \in Seq(Digests) /\ Len(D(s)) = Len(s)
  <2>. SUFFICES ASSUME NEW s \in Seq(AllLines)
                PROVE  D(s) \in Seq(Digests) /\ Len(D(s)) = Len(s)
    OBVIOUS
  <2>1. \A i \in 1..Len(s) : ParsedDigest(s[i]) \in Digests
    BY DigestType
  <2>. QED
    BY <2>1
<1>2. D(Append(lines, l)) = Append(D(lines), ParsedDigest(l))
  <2>. DEFINE a == D(Append(lines, l))
              b == Append(D(lines), ParsedDigest(l))
  <2>1. Append(lines, l) \in Seq(AllLines) /\ Len(Append(lines, l)) = Len(lines) + 1
    OBVIOUS
  <2>2. a \in Seq(Digests) /\ Len(a) = Len(lines) + 1
    BY <1>1, <2>1
  <2>3. ParsedDigest(l) \in Digests
    BY DigestType
  <2>4. b \in Seq(Digests) /\ Len(b) = Len(lines) + 1
    BY <1>1, <2>3
  <2>5. ASSUME NEW i \in 1..Len(a) PROVE a[i] = b[i]
    <3>1. CASE i = Len(lines) + 1
      BY <1>1, <2>1, <2>2, <3>1
    <3>2. CASE i \in 1..Len(lines)
      BY <1>1, <2>1, <2>2, <3>2
    <3>. QED
      BY <2>2, <3>1, <3>2
  <2>. HIDE DEF a, b
  <2>6. a = b
    BY <2>2, <2>4, <2>5, SeqEqual
  <2>. QED
    BY <2>6 DEF a, b
<1>3. ParsedDigest(l) \in Digests
  BY DigestType
<1>. HIDE DEF D
<1>4. D(lines) \in Seq(Digests) /\ D(Append(lines, l)) = Append(D(lines), ParsedDigest(l))
  BY <1>1, <1>2
<1>5. init \o Append(D(lines), ParsedDigest(l)) = Append(init \o D(lines), ParsedDigest(l))
  BY <1>3, <1>4
<1>. QED
  BY <1>4, <1>5 DEF AccumulateHash, D

-----------------------------------------------------------------------------
(* The inductive invariant.                                                 *)

\* The caller that has appended and not yet extended is the one that holds
\* the mutex; an agent that is not up serves nobody.
LockInv ==
    /\ \A c \in Callers : call[c].pc = "extend" <=> holder = c
    /\ aa # "up" => holder = NoCaller /\ \A c \in Callers : call[c].pc = "idle"

\* The file has lines from the INIT line on, and its first line is INIT.
FileInv ==
    /\ aa = "init" \/ ~file => log = <<>>
    /\ aa \in {"up", "recover", "init_extend"} => log # <<>>
    /\ aa # "down" => file
    /\ aa = "init_extend" => Len(log) = 1
    /\ log # <<>> => log[1] = InitLine
    /\ holder # NoCaller => Len(log) >= 2

\* The register agrees with the log, or lacks exactly its last line.
InSync == rtmr[InitPcr] = AccumulateHash(initState, log)
Behind ==
    Append(rtmr[InitPcr], ParsedDigest(log[Len(log)])) = AccumulateHash(initState, log)

\* While nothing is disturbed the register lags by at most the last line: by
\* the line of the caller that holds the mutex, by INIT while it is being
\* recorded, or by a line the start-up check extends.
ReplayInv ==
    ~disturbed /\ log # <<>> =>
        /\ InSync \/ Behind
        /\ holder # NoCaller =>
              /\ Behind
              /\ call[holder].reg = InitPcr
              /\ call[holder].line = log[Len(log)]
              /\ call[holder].line \notin Padded \cup DOMAIN Pieces
        /\ holder = NoCaller => InSync \/ Len(log) <= 2
        /\ aa = "init_extend" => Behind
        /\ aa = "recover" => ~InSync
        /\ aa = "up" /\ holder = NoCaller => InSync \/ (fails > 0 /\ Len(log) = 2)

IInv == TypeOK /\ LockInv /\ FileInv /\ ReplayInv

-----------------------------------------------------------------------------
\* The empty log replays to the register it started from.
LEMMA AccumulateEmpty ==
    ASSUME NEW init \in Seq(Digests)
    PROVE  AccumulateHash(init, <<>>) = init
BY DEF AccumulateHash

\* The agent before its first start, with whatever log and register an earlier
\* one left, satisfies the inductive invariant.
LEMMA InitEstablishes == Init => IInv
<1>. SUFFICES ASSUME Init PROVE IInv
  OBVIOUS
<1>. USE ConstantsAssumption DEF Init
<1>1. NoCall \in CallType /\ NoCall.pc = "idle"
  BY DEF NoCall, CallType
<1>2. TypeOK
  <2>1. <<>> \in Seq(AllLines) /\ <<>> \in Seq(Digests) /\ <<>> \in Seq(AckedType)
    OBVIOUS
  <2>2. rtmr \in [Registers -> Seq(Digests)]
    BY <2>1
  <2>3. call \in [Callers -> CallType] /\ \A c \in Callers : call[c].pc = "idle"
    BY <1>1
  <2>. QED
    BY <2>1, <2>2, <2>3 DEF TypeOK
<1>3. LockInv
  BY DEF LockInv, NoCall
<1>4. FileInv
  BY DEF FileInv
<1>5. ReplayInv
  BY DEF ReplayInv
<1>. QED
  BY <1>2, <1>3, <1>4, <1>5 DEF IInv

\* Every step keeps the types.
LEMMA TypeStep == IInv /\ [Next]_vars => TypeOK'
<1>. SUFFICES ASSUME IInv, [Next]_vars PROVE TypeOK'
  OBVIOUS
<1>. USE ConstantsAssumption DEF IInv
<1>0. NoCall \in CallType /\ NoCall.pc = "idle"
  BY DEF NoCall, CallType
<1>1. CASE Start
  <2>1. CASE CreateLog
    BY <2>1 DEF TypeOK, CreateLog
  <2>2. CASE OpenEmptyLog
    BY <2>2 DEF TypeOK, OpenEmptyLog
  <2>3. CASE CheckLog
    BY <2>3 DEF TypeOK, CheckLog
  <2>4. CASE RecoverExtend
    <3>1. Len(log) \in Nat /\ Len(log) # 0
      BY <2>4 DEF TypeOK, FileInv, RecoverExtend
    <3>2. log[1] \in AllLines /\ (Len(log) # 1 => log[2] \in AllLines)
      <4>1. \A i \in 1..Len(log) : log[i] \in AllLines
        BY ElementOfSeq DEF TypeOK
      <4>2. \A n \in Nat : n # 0 => 1 \in 1..n /\ (n # 1 => 2 \in 1..n)
        OBVIOUS
      <4>. QED
        BY <3>1, <4>1, <4>2
    <3>3. RecoveryDigest \in Digests
      BY <3>2, DigestType DEF RecoveryDigest
    <3>. QED
      BY <2>4, <3>3 DEF TypeOK, RecoverExtend
  <2>5. CASE AppendInit
    BY <2>5 DEF TypeOK, AppendInit, AllLines
  <2>6. CASE AppendInitRefused
    BY <2>6 DEF TypeOK, AppendInitRefused
  <2>7. CASE ExtendInit
    <3>1. Digest(InitLine) \in Digests
      BY DigestType DEF AllLines
    <3>. QED
      BY <2>7, <3>1 DEF TypeOK, ExtendInit
  <2>. QED
    BY <1>1, <2>1, <2>2, <2>3, <2>4, <2>5, <2>6, <2>7 DEF Start
<1>2. CASE StartFails
  BY <1>2 DEF TypeOK, StartFails
<1>3. CASE Crash
  BY <1>0, <1>3 DEF TypeOK, Crash, NoteAbandoned
<1>4. ASSUME NEW c \in Callers, NEW line \in Lines, NEW reg \in Registers,
             Call(c, line, reg)
      PROVE  TypeOK'
  <2>1. [pc |-> "lock", line |-> line, reg |-> reg] \in CallType
    BY DEF CallType
  <2>. QED
    BY <1>4, <2>1 DEF TypeOK, Call
<1>5. ASSUME NEW c \in Callers, AppendEntry(c) PROVE TypeOK'
  <2>1. call[c].line \in Lines \ Multiline /\ call[c].line \in AllLines
    BY <1>5 DEF TypeOK, AppendEntry, AllLines
  <2>2. log' \in Seq(AllLines)
    <3>1. log \in Seq(AllLines) /\ log' = log \o FileLines(call[c].line)
      BY <1>5 DEF TypeOK, AppendEntry
    <3>. QED
      BY <2>1, <3>1, FileLinesType, ConcatContinues
  <2>3. [call[c] EXCEPT !.pc = "extend"] \in CallType
    BY DEF TypeOK, CallType
  <2>4. call' \in [Callers -> CallType]
    BY <1>5, <2>3 DEF TypeOK, AppendEntry
  <2>5. \A d \in Callers : call'[d].pc # "idle" => call'[d].line \in Lines \ Multiline
    BY <1>5, <2>1 DEF TypeOK, AppendEntry, CallType
  <2>. QED
    BY <1>5, <2>2, <2>4, <2>5 DEF TypeOK, AppendEntry, NoteAppend
<1>6. ASSUME NEW c \in Callers, AppendEntryFails(c) PROVE TypeOK'
  BY <1>0, <1>6 DEF TypeOK, AppendEntryFails
<1>7. ASSUME NEW c \in Callers, ExtendEntry(c) PROVE TypeOK'
  <2>1. call[c].line \in AllLines /\ call[c].reg \in Registers /\ call[c] \in CallType
    BY <1>7 DEF TypeOK, ExtendEntry, AllLines, CallType
  <2>2. rtmr' \in [Registers -> Seq(Digests)]
    BY <1>7, <2>1, DigestType DEF TypeOK, ExtendEntry
  <2>3. acked' \in Seq(AckedType)
    <3>1. call[c] \in AckedType
      BY <1>7, <2>1 DEF TypeOK, ExtendEntry, CallType, AckedType
    <3>. QED
      BY <1>7, <3>1 DEF TypeOK, ExtendEntry
  <2>. QED
    BY <1>0, <1>7, <2>1, <2>2, <2>3 DEF TypeOK, ExtendEntry
<1>8. ASSUME NEW c \in Callers, ExtendEntryFails(c) PROVE TypeOK'
  BY <1>0, <1>8 DEF TypeOK, ExtendEntryFails, NoteAbandoned
<1>9. CASE UNCHANGED vars
  BY <1>9 DEF TypeOK, vars
<1>. QED
  BY <1>1, <1>2, <1>3, <1>4, <1>5, <1>6, <1>7, <1>8, <1>9 DEF Next, Serve

\* Every step keeps the mutex with the caller that is between its two writes.
LEMMA LockStep == IInv /\ [Next]_vars => LockInv'
<1>. SUFFICES ASSUME IInv, [Next]_vars PROVE LockInv'
  OBVIOUS
<1>. USE ConstantsAssumption DEF IInv, TypeOK, LockInv, NoCall
<1>1. CASE Start
  BY <1>1 DEF Start, CreateLog, OpenEmptyLog, CheckLog, RecoverExtend, AppendInit,
              AppendInitRefused, ExtendInit
<1>2. CASE StartFails
  BY <1>2 DEF StartFails
<1>3. CASE Crash
  BY <1>3 DEF Crash
<1>4. ASSUME NEW c \in Callers, NEW line \in Lines, NEW reg \in Registers,
             Call(c, line, reg)
      PROVE  LockInv'
  BY <1>4 DEF Call
<1>5. ASSUME NEW c \in Callers, AppendEntry(c) PROVE LockInv'
  BY <1>5 DEF AppendEntry, CallType
<1>6. ASSUME NEW c \in Callers, AppendEntryFails(c) PROVE LockInv'
  BY <1>6 DEF AppendEntryFails
<1>7. ASSUME NEW c \in Callers, ExtendEntry(c) PROVE LockInv'
  BY <1>7 DEF ExtendEntry
<1>8. ASSUME NEW c \in Callers, ExtendEntryFails(c) PROVE LockInv'
  BY <1>8 DEF ExtendEntryFails
<1>9. CASE UNCHANGED vars
  BY <1>9 DEF vars
<1>. QED
  BY <1>1, <1>2, <1>3, <1>4, <1>5, <1>6, <1>7, <1>8, <1>9 DEF Next, Serve

\* What appending a request's line does to the log.
LEMMA AppendEntryLog ==
    ASSUME IInv, NEW c \in Callers, AppendEntry(c)
    PROVE  /\ call[c].line \in AllLines
           /\ FileLines(call[c].line) \in Seq(AllLines) /\ Len(FileLines(call[c].line)) >= 1
           /\ log' = log \o FileLines(call[c].line)
           /\ Len(log') = Len(log) + Len(FileLines(call[c].line))
           /\ Continues(log', log) /\ StandsAt(call[c].line, log', Len(log) + 1)
           /\ log # <<>> /\ Len(log) >= 1 /\ log'[1] = log[1]
           /\ aa = "up" /\ aa' = "up"
<1>. USE ConstantsAssumption DEF IInv
<1>1. call[c].line \in Lines \ Multiline /\ call[c].line \in AllLines
  BY DEF TypeOK, AppendEntry, AllLines
<1>2. log \in Seq(AllLines) /\ log' = log \o FileLines(call[c].line)
  BY DEF TypeOK, AppendEntry
<1>3. FileLines(call[c].line) \in Seq(AllLines) /\ Len(FileLines(call[c].line)) >= 1
  BY <1>1, FileLinesType
<1>4. aa = "up" /\ aa' = "up" /\ log # <<>>
  BY DEF LockInv, FileInv, AppendEntry
<1>5. Len(log) >= 1
  BY <1>2, <1>4
<1>6. /\ Len(log') = Len(log) + Len(FileLines(call[c].line)) /\ Continues(log', log)
      /\ StandsAt(call[c].line, log', Len(log) + 1)
  BY <1>1, <1>2, <1>3, ConcatContinues, StandsAppended
<1>7. 1 \in 1..Len(log)
  BY <1>2, <1>5
<1>8. log'[1] = log[1]
  BY <1>6, <1>7 DEF Continues
<1>. QED
  BY <1>1, <1>2, <1>3, <1>4, <1>5, <1>6, <1>8

\* A line in one piece is one line of the file.
LEMMA AppendWholeLine ==
    ASSUME IInv, NEW c \in Callers, AppendEntry(c), call[c].line \notin DOMAIN Pieces
    PROVE  log' = Append(log, call[c].line) /\ log'[Len(log')] = call[c].line
<1>1. FileLines(call[c].line) = <<call[c].line>> /\ call[c].line \in AllLines
  BY AppendEntryLog DEF FileLines
<1>2. log \in Seq(AllLines) /\ log' = log \o <<call[c].line>>
  BY <1>1, AppendEntryLog DEF IInv, TypeOK
<1>3. log' = Append(log, call[c].line)
  BY <1>1, <1>2, AppendIsConcat
<1>. QED
  BY <1>1, <1>2, <1>3

\* Every step keeps the file's shape.
LEMMA FileStep == IInv /\ [Next]_vars => FileInv'
<1>. SUFFICES ASSUME IInv, [Next]_vars PROVE FileInv'
  OBVIOUS
<1>. USE ConstantsAssumption DEF IInv, TypeOK, LockInv, FileInv
<1>1. CASE Start
  <2>1. CASE AppendInit
    <3>1. log = <<>> /\ holder = NoCaller
      BY <2>1 DEF AppendInit
    <3>2. log' = <<InitLine>> /\ file' /\ holder' = NoCaller /\ aa' = "init_extend"
      BY <2>1, <3>1 DEF AppendInit
    <3>. QED
      BY <3>2
  <2>. QED
    BY <1>1, <2>1 DEF Start, CreateLog, OpenEmptyLog, CheckLog, RecoverExtend,
                      AppendInitRefused, ExtendInit
<1>2. CASE StartFails
  BY <1>2 DEF StartFails
<1>3. CASE Crash
  BY <1>3 DEF Crash
<1>4. ASSUME NEW c \in Callers, NEW line \in Lines, NEW reg \in Registers,
             Call(c, line, reg)
      PROVE  FileInv'
  BY <1>4 DEF Call
<1>5. ASSUME NEW c \in Callers, AppendEntry(c) PROVE FileInv'
  <2>1. /\ log \in Seq(AllLines) /\ log # <<>> /\ log'[1] = log[1]
        /\ aa' = "up" /\ aa = "up"
    BY <1>5, AppendEntryLog
  <2>2. Len(log) >= 1 /\ file' = file /\ holder' = c
    BY <1>5, AppendEntryLog DEF AppendEntry
  <2>3. Len(log') >= 2 /\ log' # <<>>
    <3>1. PICK n, l : n = Len(FileLines(call[c].line)) /\ l = Len(log)
      OBVIOUS
    <3>2. Len(log') = l + n /\ n >= 1 /\ l >= 1 /\ n \in Nat /\ l \in Nat
      <4>1. FileLines(call[c].line) \in Seq(AllLines)
        BY <1>5, AppendEntryLog
      <4>. QED
        BY <1>5, <2>1, <3>1, <4>1, AppendEntryLog
    <3>. QED
      BY <3>2
  <2>. QED
    BY <2>1, <2>2, <2>3
<1>6. ASSUME NEW c \in Callers, AppendEntryFails(c) PROVE FileInv'
  BY <1>6 DEF AppendEntryFails
<1>7. ASSUME NEW c \in Callers, ExtendEntry(c) PROVE FileInv'
  BY <1>7 DEF ExtendEntry
<1>8. ASSUME NEW c \in Callers, ExtendEntryFails(c) PROVE FileInv'
  BY <1>8 DEF ExtendEntryFails
<1>9. CASE UNCHANGED vars
  BY <1>9 DEF vars
<1>. QED
  BY <1>1, <1>2, <1>3, <1>4, <1>5, <1>6, <1>7, <1>8, <1>9 DEF Next, Serve

\* Every step keeps an undisturbed register at most one line behind the log.
LEMMA ReplayStep == IInv /\ [Next]_vars => ReplayInv'
<1>. SUFFICES ASSUME IInv, [Next]_vars, ~disturbed', log' # <<>> PROVE ReplayInv'
  BY DEF ReplayInv
<1>. USE ConstantsAssumption DEF IInv
<1>0. ASSUME UNCHANGED <<log, initState, rtmr>>
      PROVE  InSync' = InSync /\ Behind' = Behind
  BY <1>0 DEF InSync, Behind, AccumulateHash, ParsedDigest
<1>1. CASE CreateLog \/ OpenEmptyLog \/ CheckLog \/ AppendInitRefused
  BY <1>0, <1>1 DEF ReplayInv, LockInv, CreateLog, OpenEmptyLog, CheckLog,
                    AppendInitRefused, IntegrityCheck, InSync, FileInv
<1>2. CASE RecoverExtend
  <2>1. log # <<>> /\ ~disturbed /\ aa = "recover" /\ holder = NoCaller
    BY <1>2 DEF RecoverExtend, LockInv
  <2>2. Behind /\ Len(log) <= 2 /\ Len(log) \in Nat /\ Len(log) # 0
    BY <2>1 DEF ReplayInv, TypeOK
  <2>3. RecoveryDigest = ParsedDigest(log[Len(log)])
    <3>1. Len(log) = 1 \/ Len(log) = 2
      BY <2>2, OneOrTwo
    <3>. QED
      BY <3>1 DEF RecoveryDigest
  <2>4. rtmr'[InitPcr] = Append(rtmr[InitPcr], ParsedDigest(log[Len(log)]))
    BY <1>2, <2>3 DEF RecoverExtend, TypeOK
  <2>5. InSync'
    BY <1>2, <2>2, <2>4 DEF InSync, Behind, RecoverExtend, AccumulateHash, ParsedDigest
  <2>. QED
    BY <1>2, <2>1, <2>5 DEF ReplayInv, RecoverExtend
<1>3. CASE AppendInit
  <2>1. log = <<>> /\ rtmr[InitPcr] \in Seq(Digests) /\ InitLine \in AllLines
        /\ holder = NoCaller
    BY <1>3 DEF AppendInit, FileInv, LockInv, TypeOK, AllLines
  <2>2. log' = Append(<<>>, InitLine) /\ initState' = rtmr[InitPcr] /\ rtmr' = rtmr
    BY <1>3, <2>1 DEF AppendInit
  <2>3. Len(log') = 1 /\ log'[Len(log')] = InitLine
    BY <2>2
  <2>4. AccumulateHash(rtmr[InitPcr], Append(<<>>, InitLine)) =
          Append(AccumulateHash(rtmr[InitPcr], <<>>), ParsedDigest(InitLine))
    <3>1. <<>> \in Seq(AllLines)
      OBVIOUS
    <3>. QED
      BY <2>1, <3>1, AccumulateAppend
  <2>5. AccumulateHash(rtmr[InitPcr], <<>>) = rtmr[InitPcr]
    BY <2>1, AccumulateEmpty
  <2>6. Behind'
    BY <2>2, <2>3, <2>4, <2>5 DEF Behind, AccumulateHash, ParsedDigest
  <2>. QED
    BY <1>3, <2>1, <2>3, <2>6 DEF ReplayInv, AppendInit
<1>4. CASE ExtendInit
  <2>1. log # <<>> /\ ~disturbed /\ holder = NoCaller /\ Len(log) = 1 /\ log[1] = InitLine
    BY <1>4 DEF ExtendInit, LockInv, FileInv
  <2>2. Behind
    BY <1>4, <2>1 DEF ReplayInv, ExtendInit
  <2>3. Digest(InitLine) = ParsedDigest(log[Len(log)])
    BY <2>1, UnpaddedDigest DEF AllLines
  <2>4. rtmr'[InitPcr] = Append(rtmr[InitPcr], ParsedDigest(log[Len(log)]))
    BY <1>4, <2>3 DEF ExtendInit, TypeOK
  <2>5. InSync'
    BY <1>4, <2>2, <2>4 DEF InSync, Behind, ExtendInit, AccumulateHash, ParsedDigest
  <2>. QED
    BY <1>4, <2>1, <2>5 DEF ReplayInv, ExtendInit
<1>5. CASE StartFails
  BY <1>0, <1>5 DEF StartFails, ReplayInv, LockInv
<1>6. CASE Crash
  <2>1. UNCHANGED <<log, initState, rtmr>> /\ aa' = "down" /\ holder' = NoCaller
    BY <1>6 DEF Crash
  <2>2. ~disturbed /\ log # <<>> /\ (holder # NoCaller => ~(Len(log) > 2))
    BY <1>6, <2>1 DEF Crash, NoteAbandoned
  <2>3. InSync \/ Behind
    BY <2>2 DEF ReplayInv
  <2>4. Len(log) \in Nat
    BY DEF TypeOK
  <2>5. InSync \/ Len(log) <= 2
    <3>1. CASE holder = NoCaller
      BY <2>2, <3>1 DEF ReplayInv
    <3>2. CASE holder # NoCaller
      BY <2>2, <2>4, <3>2
    <3>. QED
      BY <3>1, <3>2
  <2>. QED
    BY <1>0, <2>1, <2>3, <2>5 DEF ReplayInv
<1>7. ASSUME NEW c \in Callers, NEW line \in Lines, NEW reg \in Registers,
             Call(c, line, reg)
      PROVE  ReplayInv'
  <2>1. holder # NoCaller => call'[holder] = call[holder]
    BY <1>7 DEF Call, LockInv, TypeOK
  <2>. QED
    BY <1>0, <1>7, <2>1 DEF Call, ReplayInv
<1>8. ASSUME NEW c \in Callers, AppendEntry(c) PROVE ReplayInv'
  <2>1. /\ InSync /\ ~disturbed /\ call[c].reg = InitPcr
        /\ call[c].line \notin Padded /\ call[c].line \notin DOMAIN Pieces
    BY <1>8 DEF AppendEntry, NoteAppend, InSync
  <2>2. /\ AccumulateHash(initState, Append(log, call[c].line)) =
             Append(AccumulateHash(initState, log), ParsedDigest(call[c].line))
        /\ log' = Append(log, call[c].line) /\ log'[Len(log')] = call[c].line
        /\ aa' = "up"
    BY <1>8, <2>1, AppendEntryLog, AppendWholeLine, AccumulateAppend DEF TypeOK
  <2>3. Behind'
    BY <1>8, <2>1, <2>2 DEF Behind, InSync, AppendEntry, AccumulateHash, ParsedDigest
  <2>4. holder' = c /\ call'[c].reg = InitPcr /\ call'[c].line = log'[Len(log')]
        /\ call'[c].line \notin Padded \cup DOMAIN Pieces
    BY <1>8, <2>1, <2>2 DEF AppendEntry, TypeOK, CallType
  <2>. QED
    BY <2>2, <2>3, <2>4 DEF ReplayInv
<1>9. ASSUME NEW c \in Callers, AppendEntryFails(c) PROVE ReplayInv'
  <2>1. holder = NoCaller /\ fails' >= fails
    BY <1>9 DEF AppendEntryFails, TypeOK
  <2>. QED
    BY <1>0, <1>9, <2>1 DEF AppendEntryFails, ReplayInv, TypeOK
<1>10. ASSUME NEW c \in Callers, ExtendEntry(c) PROVE ReplayInv'
  <2>1. holder = c /\ ~disturbed /\ log # <<>>
    BY <1>10 DEF ExtendEntry, LockInv
  <2>2. Behind /\ call[c].reg = InitPcr /\ call[c].line = log[Len(log)]
        /\ call[c].line \notin Padded
    BY <2>1 DEF ReplayInv
  <2>3. Digest(call[c].line) = ParsedDigest(log[Len(log)])
    <3>1. call[c].line \in AllLines
      BY <1>10 DEF ExtendEntry, TypeOK, AllLines
    <3>. QED
      BY <2>2, <3>1, UnpaddedDigest
  <2>4. rtmr'[InitPcr] = Append(rtmr[InitPcr], ParsedDigest(log[Len(log)]))
    BY <1>10, <2>2, <2>3 DEF ExtendEntry, TypeOK
  <2>5. InSync'
    BY <1>10, <2>2, <2>4 DEF InSync, Behind, ExtendEntry, AccumulateHash, ParsedDigest
  <2>6. holder' = NoCaller /\ aa' = "up"
    BY <1>10, <2>1 DEF ExtendEntry, LockInv
  <2>. QED
    BY <2>5, <2>6 DEF ReplayInv
<1>11. ASSUME NEW c \in Callers, ExtendEntryFails(c) PROVE ReplayInv'
  <2>1. holder = c /\ ~disturbed /\ log # <<>> /\ aa = "up" /\ Len(log) >= 2
    BY <1>11 DEF ExtendEntryFails, LockInv, FileInv, NoteAbandoned
  <2>2. Behind
    BY <2>1 DEF ReplayInv
  <2>3. Len(log) = 2
    <3>1. ~(Len(log) > 2)
      BY <1>11 DEF ExtendEntryFails, NoteAbandoned
    <3>2. Len(log) \in Nat
      BY DEF TypeOK
    <3>. QED
      BY <2>1, <3>1, <3>2, OneOrTwo
  <2>4. fails' > 0
    BY <1>11 DEF ExtendEntryFails, TypeOK
  <2>. QED
    BY <1>0, <1>11, <2>1, <2>2, <2>3, <2>4 DEF ReplayInv, ExtendEntryFails
<1>12. CASE UNCHANGED vars
  BY <1>0, <1>12 DEF ReplayInv, vars
<1>. QED
  BY <1>1, <1>2, <1>3, <1>4, <1>5, <1>6, <1>7, <1>8, <1>9, <1>10, <1>11, <1>12
     DEF Next, Start, Serve

-----------------------------------------------------------------------------
(* The theorems.                                                            *)

\* The inductive invariant holds throughout: every step of an agent keeps it.
LEMMA Invariance == Spec => []IInv
<1>1. IInv /\ [Next]_vars => IInv'
  BY TypeStep, LockStep, FileStep, ReplayStep DEF IInv
<1>. QED
  BY InitEstablishes, <1>1, PTL DEF Spec

\* The agent's state keeps its types, and a request that carries a newline
\* never gets past Content::try_from.
THEOREM TypeCorrect == Spec => []TypeOK
<1>1. IInv => TypeOK
  BY DEF IInv
<1>. QED
  BY Invariance, <1>1, PTL

\* An agent that is up and idle is never in the middle of an extend: the
\* invariant then says what the log's replay gives.
LEMMA ReplayFromInv == IInv => LogReplaysToRegister
<1>. SUFFICES ASSUME IInv, ~disturbed, aa = "up", holder = NoCaller, ~InSync
              PROVE  /\ fails > 0 /\ Len(log) = 2
                     /\ rtmr[InitPcr] = AccumulateHash(initState, <<log[1]>>)
  BY DEF LogReplaysToRegister, InSync
<1>1. log # <<>>
  BY DEF IInv, FileInv
<1>2. Behind /\ fails > 0 /\ Len(log) = 2
  BY <1>1 DEF IInv, ReplayInv
<1>3. /\ log \in Seq(AllLines) /\ initState \in Seq(Digests)
      /\ rtmr[InitPcr] \in Seq(Digests)
  BY ConstantsAssumption DEF IInv, TypeOK
<1>4. log[1] \in AllLines /\ log[2] \in AllLines
  <2>1. \A i \in 1..Len(log) : log[i] \in AllLines
    BY <1>3, ElementOfSeq
  <2>. QED
    BY <1>2, <2>1
<1>5. <<log[1]>> \in Seq(AllLines) /\ log = Append(<<log[1]>>, log[2])
  BY <1>2, <1>3, <1>4
<1>. DEFINE before == AccumulateHash(initState, <<log[1]>>)
            last == ParsedDigest(log[2])
<1>6. before \in Seq(Digests) /\ AccumulateHash(initState, log) = Append(before, last)
  <2>1. /\ AccumulateHash(initState, <<log[1]>>) \in Seq(Digests)
        /\ AccumulateHash(initState, Append(<<log[1]>>, log[2])) =
             Append(AccumulateHash(initState, <<log[1]>>), ParsedDigest(log[2]))
    BY <1>3, <1>4, <1>5, AccumulateAppend, Zenon
  <2>. QED
    BY <1>5, <2>1, Zenon
<1>7. Append(rtmr[InitPcr], last) = Append(before, last) /\ last \in Digests
  BY <1>2, <1>4, <1>6, DigestType DEF Behind
<1>. HIDE DEF before, last
<1>8. rtmr[InitPcr] = before
  BY <1>3, <1>6, <1>7, AppendInjective
<1>. QED
  BY <1>2, <1>8 DEF before

\* EventLog's write-then-extend order, its mutex and the start-up check of
\* EventLog::new together keep an undisturbed log replayable, for any number
\* of callers, crashes and failures.
THEOREM ReplayCorrect == Spec => []LogReplaysToRegister
  BY Invariance, ReplayFromInv, PTL

\* No step of the agent, its start-up and its crashes included, rewrites or
\* drops a line of the log.
THEOREM AppendOnly == Spec => LogAppendOnly
<1>. DEFINE Grows == Len(log') >= Len(log) /\ SubSeq(log', 1, Len(log)) = log
<1>1. ASSUME NEW s \in Seq(AllLines), NEW l \in AllLines
      PROVE  Len(Append(s, l)) >= Len(s) /\ SubSeq(Append(s, l), 1, Len(s)) = s
  OBVIOUS
<1>4. ASSUME NEW s \in Seq(AllLines), NEW t \in Seq(AllLines), Continues(t, s)
      PROVE  Len(t) >= Len(s) /\ SubSeq(t, 1, Len(s)) = s
  <2>1. PICK m : m = Len(s)
    OBVIOUS
  <2>2. m \in Nat /\ Len(t) \in Nat /\ m <= Len(t) /\ \A k \in 1..m : t[k] = s[k]
    BY <1>4, <2>1 DEF Continues
  <2>3. m \in 0..Len(t)
    BY <2>2
  <2>4. \A k \in 1..m : k \in 1..Len(t)
    BY <2>2
  <2>5. \A k \in 1..m : t[k] \in AllLines
    BY <2>4, ElementOfSeq
  <2>6. PICK u : u = SubSeq(t, 1, m)
    OBVIOUS
  <2>7. u \in Seq(AllLines) /\ Len(u) = m /\ \A k \in 1..m : u[k] = t[k]
    BY <2>2, <2>5, <2>6, SubSeqProperties
  <2>8. u = s
    BY <2>1, <2>2, <2>7, SeqEqual
  <2>. QED
    BY <2>1, <2>2, <2>6, <2>8
<1>2. IInv /\ [Next]_vars => [Grows]_<<log>>
  <2>. SUFFICES ASSUME IInv, [Next]_vars, log' # log PROVE Grows
    OBVIOUS
  <2>1. CASE AppendInit
    BY <1>1, <2>1 DEF AppendInit, AllLines, IInv, TypeOK
  <2>2. ASSUME NEW c \in Callers, AppendEntry(c) PROVE Grows
    <3>1. log \in Seq(AllLines) /\ log' \in Seq(AllLines) /\ Continues(log', log)
      BY <2>2, AppendEntryLog, ConcatContinues DEF IInv, TypeOK
    <3>. QED
      BY <1>4, <3>1
  <2>. QED
    BY <2>1, <2>2 DEF Next, Start, Serve, vars, CreateLog, OpenEmptyLog, CheckLog,
       RecoverExtend, AppendInitRefused, ExtendInit, StartFails, Crash, Call,
       AppendEntryFails, ExtendEntry, ExtendEntryFails
<1>. HIDE DEF Grows
<1>3. Spec => [][Grows]_<<log>>
  BY Invariance, <1>2, PTL DEF Spec
<1>. QED
  BY <1>3 DEF LogAppendOnly, Grows

-----------------------------------------------------------------------------
(* Nothing is measured that is not logged.                                  *)

\* The log accounts for d.
Logged(d, lines) == Accounts(lines, d)

\* A caller that is about to extend has its line in the log.
MeasuredInv ==
    /\ \A r \in Registers : \A i \in 1..Len(rtmr[r]) : Logged(rtmr[r][i], log)
    /\ \A c \in Callers : call[c].pc = "extend" => Logged(Digest(call[c].line), log)

\* A step that adds a digest of a logged line to one register.
LEMMA ExtendLogged ==
    ASSUME IInv, MeasuredInv, log' = log,
           NEW r0 \in Registers, NEW d \in Digests, Logged(d, log),
           rtmr' = [rtmr EXCEPT ![r0] = Append(@, d)]
    PROVE  \A r \in Registers : \A i \in 1..Len(rtmr'[r]) : Logged(rtmr'[r][i], log')
<1>. SUFFICES ASSUME NEW r \in Registers, NEW i \in 1..Len(rtmr'[r])
              PROVE  Logged(rtmr'[r][i], log)
  OBVIOUS
<1>1. rtmr \in [Registers -> Seq(Digests)]
  BY DEF IInv, TypeOK
<1>2. CASE r # r0
  BY <1>1, <1>2 DEF MeasuredInv
<1>3. CASE r = r0
  <2>1. rtmr'[r] = Append(rtmr[r], d) /\ rtmr[r] \in Seq(Digests)
    BY <1>1, <1>3
  <2>2. CASE i = Len(rtmr[r]) + 1
    BY <2>1, <2>2
  <2>3. CASE i \in 1..Len(rtmr[r])
    BY <2>1, <2>3 DEF MeasuredInv
  <2>. QED
    BY <2>1, <2>2, <2>3
<1>. QED
  BY <1>2, <1>3

\* What is logged stays logged when the log goes on.
LEMMA LoggedStays ==
    ASSUME NEW s \in Seq(AllLines), NEW t \in Seq(AllLines), Continues(t, s),
           NEW d, Logged(d, s)
    PROVE  Logged(d, t)
<1>1. PICK k \in 1..Len(s) :
          \/ d = ParsedDigest(s[k])
          \/ \E line \in AllLines : StandsAt(line, s, k) /\ d = Digest(line)
  BY DEF Logged, Accounts
<1>2. k \in 1..Len(t) /\ t[k] = s[k] /\ k \in Nat \ {0}
  BY DEF Continues
<1>3. \A line \in AllLines : StandsAt(line, s, k) => StandsAt(line, t, k)
  BY <1>2, StandsStays
<1>. QED
  BY <1>1, <1>2, <1>3 DEF Logged, Accounts

LEMMA AppendContinues ==
    ASSUME NEW s \in Seq(AllLines), NEW l \in AllLines
    PROVE  Append(s, l) \in Seq(AllLines) /\ Continues(Append(s, l), s)
BY DEF Continues

\* A line in one piece is logged where it is in the log.
LEMMA LineLogged ==
    ASSUME NEW line \in AllLines, line \notin DOMAIN Pieces, NEW s \in Seq(AllLines),
           NEW k \in 1..Len(s), s[k] = line
    PROVE  Logged(Digest(line), s)
<1>1. FileLines(line) = <<line>>
  BY DEF FileLines
<1>2. StandsAt(line, s, k)
  <2>1. PICK u : u = FileLines(line)
    OBVIOUS
  <2>2. Len(u) = 1 /\ u[1] = line
    BY <1>1, <2>1
  <2>3. k + Len(u) <= Len(s) + 1 /\ \A i \in 1..Len(u) : s[k + i - 1] = u[i]
    BY <2>2
  <2>. QED
    BY <2>1, <2>3 DEF StandsAt
<1>. QED
  BY <1>2 DEF Logged, Accounts

\* Every step keeps each measured digest, and each one a caller is about to
\* extend, among the lines of the log.
LEMMA MeasuredStep == IInv /\ MeasuredInv /\ [Next]_vars => MeasuredInv'
<1>. SUFFICES ASSUME IInv, MeasuredInv, [Next]_vars PROVE MeasuredInv'
  OBVIOUS
<1>. USE ConstantsAssumption
<1>2. log \in Seq(AllLines) /\ call \in [Callers -> CallType]
      /\ rtmr \in [Registers -> Seq(Digests)]
  BY DEF IInv, TypeOK
<1>3. CASE CreateLog \/ OpenEmptyLog \/ CheckLog \/ AppendInitRefused \/ StartFails
           \/ UNCHANGED vars
  BY <1>3 DEF MeasuredInv, CreateLog, OpenEmptyLog, CheckLog, AppendInitRefused,
                    StartFails, vars
<1>4. CASE RecoverExtend
  <2>1. PICK j \in 1..Len(log) : RecoveryDigest = ParsedDigest(log[j])
    <3>1. log # <<>>
      BY <1>4 DEF RecoverExtend, IInv, FileInv
    <3>2. Len(log) \in Nat /\ Len(log) # 0
      BY <1>2, <3>1
    <3>3. \A n \in Nat : n # 0 => 1 \in 1..n /\ (n # 1 => 2 \in 1..n)
      OBVIOUS
    <3>4. 1 \in 1..Len(log) /\ (Len(log) # 1 => 2 \in 1..Len(log))
      BY <3>2, <3>3
    <3>. QED
      BY <3>4 DEF RecoveryDigest
  <2>2. log[j] \in AllLines
    BY <1>2, ElementOfSeq
  <2>3. RecoveryDigest \in Digests /\ Logged(RecoveryDigest, log)
    BY <2>1, <2>2, DigestType DEF Logged, Accounts
  <2>4. \A r \in Registers : \A i \in 1..Len(rtmr'[r]) : Logged(rtmr'[r][i], log')
    BY <1>4, <2>3, ExtendLogged DEF RecoverExtend
  <2>. QED
    BY <1>4, <2>4 DEF MeasuredInv, RecoverExtend
<1>5. CASE AppendInit
  <2>1. InitLine \in AllLines /\ log' = Append(log, InitLine)
    BY <1>5 DEF AppendInit, AllLines
  <2>2. \A d : Logged(d, log) => Logged(d, log')
    BY <1>2, <2>1, LoggedStays, AppendContinues
  <2>. QED
    BY <1>5, <2>2 DEF MeasuredInv, AppendInit
<1>6. CASE ExtendInit
  <2>1. 1 \in 1..Len(log) /\ log[1] = InitLine /\ InitLine \in AllLines
    BY <1>2, <1>6 DEF ExtendInit, IInv, FileInv, AllLines
  <2>2. Digest(InitLine) \in Digests /\ Logged(Digest(InitLine), log)
    BY <1>2, <2>1, DigestType, LineLogged, ConstantsAssumption
  <2>3. \A r \in Registers : \A i \in 1..Len(rtmr'[r]) : Logged(rtmr'[r][i], log')
    BY <1>6, <2>2, ExtendLogged DEF ExtendInit
  <2>. QED
    BY <1>6, <2>3 DEF MeasuredInv, ExtendInit
<1>7. CASE Crash
  BY <1>7 DEF MeasuredInv, Crash, NoCall
<1>8. ASSUME NEW c \in Callers, NEW line \in Lines, NEW reg \in Registers,
             Call(c, line, reg)
      PROVE  MeasuredInv'
  BY <1>2, <1>8 DEF MeasuredInv, Call
<1>9. ASSUME NEW c \in Callers, AppendEntry(c) PROVE MeasuredInv'
  <2>1. /\ call[c].line \in AllLines /\ log' \in Seq(AllLines) /\ Continues(log', log)
        /\ StandsAt(call[c].line, log', Len(log) + 1)
        /\ Len(log') = Len(log) + Len(FileLines(call[c].line))
        /\ FileLines(call[c].line) \in Seq(AllLines) /\ Len(FileLines(call[c].line)) >= 1
    <3>1. call[c].line \in AllLines /\ FileLines(call[c].line) \in Seq(AllLines)
          /\ log' = log \o FileLines(call[c].line)
      BY <1>9, AppendEntryLog
    <3>2. log' \in Seq(AllLines)
      BY <1>2, <3>1, ConcatContinues
    <3>. QED
      BY <1>9, <3>2, AppendEntryLog
  <2>2. \A d : Logged(d, log) => Logged(d, log')
    BY <1>2, <2>1, LoggedStays
  <2>3. Logged(Digest(call[c].line), log')
    <3>1. PICK m, n : m = Len(log) /\ n = Len(FileLines(call[c].line))
      OBVIOUS
    <3>2. m \in Nat /\ n \in Nat /\ n >= 1 /\ Len(log') = m + n
      BY <1>2, <2>1, <3>1
    <3>3. m + 1 \in 1..Len(log')
      BY <3>2
    <3>. QED
      BY <2>1, <3>1, <3>3 DEF Logged, Accounts
  <2>4. call'[c].line = call[c].line
    BY <1>2, <1>9 DEF AppendEntry, CallType
  <2>5. \A e \in Callers : call'[e].pc = "extend" => Logged(Digest(call'[e].line), log')
    BY <1>2, <1>9, <2>2, <2>3, <2>4 DEF MeasuredInv, AppendEntry
  <2>. QED
    BY <1>9, <2>2, <2>5 DEF MeasuredInv, AppendEntry
<1>10. ASSUME NEW c \in Callers, AppendEntryFails(c) \/ ExtendEntryFails(c)
       PROVE  MeasuredInv'
  <2>1. log' = log /\ rtmr' = rtmr /\ call' = [call EXCEPT ![c] = NoCall]
    BY <1>10 DEF AppendEntryFails, ExtendEntryFails
  <2>2. NoCall.pc # "extend"
    BY DEF NoCall
  <2>. QED
    BY <1>2, <2>1, <2>2 DEF MeasuredInv
<1>11. ASSUME NEW c \in Callers, ExtendEntry(c) PROVE MeasuredInv'
  <2>1. call[c].line \in AllLines /\ call[c].reg \in Registers
    BY <1>11 DEF ExtendEntry, IInv, TypeOK, AllLines, CallType
  <2>2. Digest(call[c].line) \in Digests /\ Logged(Digest(call[c].line), log)
    BY <1>11, <2>1, DigestType DEF MeasuredInv, ExtendEntry
  <2>3. \A r \in Registers : \A i \in 1..Len(rtmr'[r]) : Logged(rtmr'[r][i], log')
    BY <1>11, <2>1, <2>2, ExtendLogged DEF ExtendEntry
  <2>. QED
    BY <1>2, <1>11, <2>3 DEF MeasuredInv, ExtendEntry, NoCall
<1>. QED
  BY <1>3, <1>4, <1>5, <1>6, <1>7, <1>8, <1>9, <1>10, <1>11 DEF Next, Start, Serve

\* "First write AAEL and then extend RTMR": whatever crashes or fails, no
\* register holds a digest that the log does not account for, by one line or,
\* for a request with newlines in its domain or operation, by several together.
THEOREM MeasuredOnlyLogged == Spec => []MeasuredLinesLogged
<1>1. Init => MeasuredInv
  BY DEF Init, MeasuredInv, NoCall
<1>2. MeasuredInv => MeasuredLinesLogged
  BY DEF MeasuredInv, MeasuredLinesLogged, Logged
<1>. QED
  BY Invariance, MeasuredStep, <1>1, <1>2, PTL DEF Spec

-----------------------------------------------------------------------------
(* What is answered with Ok is logged and measured, in the order of the      *)
(* answers.                                                                  *)

\* s is in the first n elements of t, in order.
EmbedsIn(s, t, n) ==
    \E f \in [DOMAIN s -> 1..n] :
        /\ \A i \in DOMAIN s : s[i] = t[f[i]]
        /\ \A i, j \in DOMAIN s : i < j => f[i] < f[j]

\* The same of lines that stand in the first n lines of a file.
EmbedsLinesIn(s, lines, n) ==
    \E f \in [DOMAIN s -> 1..n] :
        /\ \A i \in DOMAIN s :
              StandsAt(s[i], lines, f[i]) /\ f[i] + Len(FileLines(s[i])) <= n + 1
        /\ \A i, j \in DOMAIN s : i < j => f[i] + Len(FileLines(s[i])) <= f[j]

\* A line is the last one of a file, after n lines in which s is embedded.
StandsLast(line, s, lines) ==
    \E n \in Nat : /\ n + Len(FileLines(line)) = Len(lines)
                   /\ StandsAt(line, lines, n + 1)
                   /\ EmbedsLinesIn(s, lines, n)

\* The lines of the answered requests are in the log before the line of the
\* caller that holds the mutex, which is the last one.
AckedInv ==
    /\ holder = NoCaller => EmbedsLinesIn(AckedLines, log, Len(log))
    /\ holder # NoCaller => StandsLast(call[holder].line, AckedLines, log)
    /\ \A r \in Registers : EmbedsIn(AckedDigests(r), rtmr[r], Len(rtmr[r]))

\* What stands in the first lines stays so when others follow.
LEMMA LinesGrow ==
    ASSUME NEW D \in SUBSET Nat, NEW s, DOMAIN s = D, \A i \in D : s[i] \in AllLines,
           NEW t \in Seq(AllLines), NEW u \in Seq(AllLines), Continues(u, t),
           NEW m \in Nat, NEW n \in Nat, m <= n, EmbedsLinesIn(s, t, m)
    PROVE  EmbedsLinesIn(s, u, n)
<1>1. PICK f \in [D -> 1..m] :
          /\ \A i \in D : StandsAt(s[i], t, f[i]) /\ f[i] + Len(FileLines(s[i])) <= m + 1
          /\ \A i, j \in D : i < j => f[i] + Len(FileLines(s[i])) <= f[j]
  BY DEF EmbedsLinesIn
<1>2. f \in [D -> 1..n]
  OBVIOUS
<1>3. ASSUME NEW i \in D PROVE StandsAt(s[i], u, f[i]) /\ f[i] + Len(FileLines(s[i])) <= n + 1
  <2>1. f[i] \in Nat \ {0}
    OBVIOUS
  <2>2. StandsAt(s[i], u, f[i])
    BY <1>1, <2>1, StandsStays
  <2>3. PICK l : l = Len(FileLines(s[i]))
    OBVIOUS
  <2>4. l \in Nat /\ f[i] + l <= m + 1
    BY <1>1, <2>3, FileLinesType
  <2>5. f[i] + l <= n + 1
    BY <2>1, <2>4
  <2>. QED
    BY <2>2, <2>3, <2>5
<1>. QED
  BY <1>1, <1>2, <1>3 DEF EmbedsLinesIn

\* One line more, at a later index, that stands at the next place.
LEMMA LinesExtend ==
    ASSUME NEW D \in SUBSET Nat, NEW k \in Nat, \A i \in D : i < k,
           NEW s, DOMAIN s = D, \A i \in D : s[i] \in AllLines,
           NEW q, DOMAIN q = D \cup {k}, \A i \in D : q[i] = s[i], q[k] \in AllLines,
           NEW t, StandsLast(q[k], s, t), Len(t) \in Nat
    PROVE  EmbedsLinesIn(q, t, Len(t))
<1>1. PICK m, h : m = Len(t) /\ h = Len(FileLines(q[k]))
  OBVIOUS
<1>2. PICK n \in Nat : n + h = m /\ StandsAt(q[k], t, n + 1) /\ EmbedsLinesIn(s, t, n)
  BY <1>1 DEF StandsLast
<1>3. h \in Nat /\ h >= 1 /\ m \in Nat
  BY <1>1, FileLinesType
<1>4. PICK f \in [D -> 1..n] :
          /\ \A i \in D : StandsAt(s[i], t, f[i]) /\ f[i] + Len(FileLines(s[i])) <= n + 1
          /\ \A i, j \in D : i < j => f[i] + Len(FileLines(s[i])) <= f[j]
  BY <1>2 DEF EmbedsLinesIn
<1>. DEFINE g == [i \in D \cup {k} |-> IF i = k THEN n + 1 ELSE f[i]]
<1>5. \A i \in D : i # k /\ g[i] = f[i] /\ f[i] \in 1..n
  OBVIOUS
<1>6. g[k] = n + 1
  OBVIOUS
<1>7. g \in [D \cup {k} -> 1..m]
  <2>1. \A i \in D \cup {k} : g[i] \in 1..m
    BY <1>2, <1>3, <1>5, <1>6
  <2>. QED
    BY <2>1
<1>. HIDE DEF g
<1>8. ASSUME NEW i \in D \cup {k}
      PROVE  StandsAt(q[i], t, g[i]) /\ g[i] + Len(FileLines(q[i])) <= m + 1
  <2>1. CASE i = k
    <3>1. (n + 1) + h <= m + 1
      BY <1>2, <1>3
    <3>. QED
      BY <1>1, <1>2, <1>6, <2>1, <3>1
  <2>2. CASE i \in D
    <3>1. PICK l : l = Len(FileLines(s[i]))
      OBVIOUS
    <3>2. FileLines(s[i]) \in Seq(AllLines)
      BY <2>2, FileLinesType
    <3>4. l \in Nat /\ f[i] + l <= n + 1 /\ f[i] \in Nat
      BY <1>4, <2>2, <3>1, <3>2
    <3>3. f[i] + l <= m + 1
      BY <1>2, <1>3, <3>4
    <3>. QED
      BY <1>4, <1>5, <2>2, <3>1, <3>3
  <2>. QED
    BY <2>1, <2>2
<1>9. ASSUME NEW i \in D \cup {k}, NEW j \in D \cup {k}, i < j
      PROVE  g[i] + Len(FileLines(q[i])) <= g[j]
  <2>1. i \in D /\ q[i] = s[i]
    BY <1>9
  <2>2. CASE j = k
    BY <1>4, <1>5, <1>6, <2>1, <2>2
  <2>3. CASE j \in D
    BY <1>4, <1>5, <1>9, <2>1, <2>3
  <2>. QED
    BY <2>2, <2>3
<1>10. EmbedsLinesIn(q, t, m)
  BY <1>7, <1>8, <1>9 DEF EmbedsLinesIn
<1>. QED
  BY <1>1, <1>10

\* What is embedded in the first elements stays so when others follow.
LEMMA EmbedGrows ==
    ASSUME NEW D \in SUBSET Nat, NEW s, DOMAIN s = D, NEW t, NEW u, NEW m \in Nat, NEW n \in Nat,
           m <= n, \A k \in 1..m : u[k] = t[k], EmbedsIn(s, t, m)
    PROVE  EmbedsIn(s, u, n)
<1>1. PICK f \in [D -> 1..m] : /\ \A i \in D : s[i] = t[f[i]]
                               /\ \A i, j \in D : i < j => f[i] < f[j]
  BY DEF EmbedsIn
<1>2. f \in [D -> 1..n]
  OBVIOUS
<1>3. \A i \in D : s[i] = u[f[i]]
  BY <1>1
<1>. QED
  BY <1>1, <1>2, <1>3 DEF EmbedsIn

\* One value more, at a later index, is embedded at the next place.
LEMMA EmbedExtends ==
    ASSUME NEW D \in SUBSET Nat, NEW k \in Nat, \A i \in D : i < k,
           NEW s, DOMAIN s = D, NEW q, DOMAIN q = D \cup {k},
           \A i \in D : q[i] = s[i],
           NEW t, NEW n \in Nat, EmbedsIn(s, t, n), q[k] = t[n + 1]
    PROVE  EmbedsIn(q, t, n + 1)
<1>1. PICK f \in [D -> 1..n] : /\ \A i \in D : s[i] = t[f[i]]
                               /\ \A i, j \in D : i < j => f[i] < f[j]
  BY DEF EmbedsIn
<1>. DEFINE g == [i \in D \cup {k} |-> IF i = k THEN n + 1 ELSE f[i]]
<1>2. \A i \in D : i # k /\ g[i] = f[i] /\ f[i] \in 1..n
  OBVIOUS
<1>3. g[k] = n + 1
  OBVIOUS
<1>4. g \in [D \cup {k} -> 1..(n + 1)]
  <2>1. \A i \in D \cup {k} : g[i] \in 1..(n + 1)
    BY <1>2, <1>3
  <2>. QED
    BY <2>1
<1>. HIDE DEF g
<1>5. \A i \in D \cup {k} : q[i] = t[g[i]]
  BY <1>1, <1>2, <1>3
<1>6. ASSUME NEW i \in D \cup {k}, NEW j \in D \cup {k}, i < j PROVE g[i] < g[j]
  <2>1. i \in D
    BY <1>6
  <2>2. CASE j = k
    BY <1>2, <1>3, <2>1, <2>2
  <2>3. CASE j \in D
    BY <1>1, <1>2, <1>6, <2>1, <2>3
  <2>. QED
    BY <2>2, <2>3
<1>. QED
  BY <1>4, <1>5, <1>6 DEF EmbedsIn

\* A register that grows keeps what is embedded in it.
LEMMA RegistersGrow ==
    ASSUME IInv, AckedInv, acked' = acked, NEW r0 \in Registers, NEW d \in Digests,
           rtmr' = [rtmr EXCEPT ![r0] = Append(@, d)]
    PROVE  \A r \in Registers : EmbedsIn(AckedDigests(r)', rtmr'[r], Len(rtmr'[r]))
<1>. SUFFICES ASSUME NEW r \in Registers
              PROVE  EmbedsIn(AckedDigests(r)', rtmr'[r], Len(rtmr'[r]))
  OBVIOUS
<1>1. PICK s : s = AckedDigests(r)
  OBVIOUS
<1>2. AckedDigests(r)' = s /\ DOMAIN s \in SUBSET Nat /\ EmbedsIn(s, rtmr[r], Len(rtmr[r]))
  BY <1>1 DEF AckedDigests, AckedInv, Digest
<1>3. rtmr[r] \in Seq(Digests) /\ (rtmr'[r] = rtmr[r] \/ rtmr'[r] = Append(rtmr[r], d))
  BY DEF IInv, TypeOK
<1>4. /\ Len(rtmr[r]) \in Nat /\ Len(rtmr'[r]) \in Nat /\ Len(rtmr[r]) <= Len(rtmr'[r])
      /\ \A k \in 1..Len(rtmr[r]) : rtmr'[r][k] = rtmr[r][k]
  BY <1>3
<1>. QED
  BY <1>2, <1>4, EmbedGrows

\* The answered requests' lines and digests, when none is answered.
LEMMA AckedStays ==
    ASSUME acked' = acked
    PROVE  AckedLines' = AckedLines /\ \A r : AckedDigests(r)' = AckedDigests(r)
BY DEF AckedLines, AckedDigests, Digest

\* The answered requests' lines are lines.
LEMMA AckedLinesType ==
    ASSUME IInv
    PROVE  /\ DOMAIN AckedLines \in SUBSET Nat
           /\ \A i \in DOMAIN AckedLines : AckedLines[i] \in AllLines
<1>1. acked \in Seq(AckedType)
  BY DEF IInv, TypeOK
<1>2. \A i \in 1..Len(acked) : acked[i] \in AckedType
  BY <1>1, ElementOfSeq
<1>. QED
  BY <1>1, <1>2 DEF AckedLines, AckedType, AllLines

\* AckedInv after a step.
LEMMA AckedAfter ==
    ASSUME holder' = NoCaller => EmbedsLinesIn(AckedLines', log', Len(log')),
           holder' # NoCaller => StandsLast(call'[holder'].line, AckedLines', log'),
           \A r \in Registers : EmbedsIn(AckedDigests(r)', rtmr'[r], Len(rtmr'[r]))
    PROVE  AckedInv'
BY Zenon DEF AckedInv, EmbedsIn, EmbedsLinesIn, StandsLast, StandsAt, FileLines

LEMMA AckedStep == IInv /\ AckedInv /\ [Next]_vars => AckedInv'
<1>. SUFFICES ASSUME IInv, AckedInv, [Next]_vars PROVE AckedInv'
  OBVIOUS
<1>. USE ConstantsAssumption
<1>1. /\ log \in Seq(AllLines) /\ call \in [Callers -> CallType] /\ acked \in Seq(AckedType)
      /\ rtmr \in [Registers -> Seq(Digests)] /\ Len(log) \in Nat
  BY DEF IInv, TypeOK
<1>2. /\ DOMAIN AckedLines \in SUBSET Nat /\ \A i \in DOMAIN AckedLines : AckedLines[i] \in AllLines
      /\ \A r : DOMAIN AckedDigests(r) \in SUBSET Nat
  BY <1>1, AckedLinesType DEF AckedDigests
<1>3. ASSUME UNCHANGED <<log, rtmr, acked>>,
             \/ UNCHANGED holder /\ (holder # NoCaller => call'[holder] = call[holder])
             \/ holder' = NoCaller
      PROVE  AckedInv'
  <2>1. AckedLines' = AckedLines /\ \A r : AckedDigests(r)' = AckedDigests(r)
    BY <1>3, AckedStays
  <2>2. \A r \in Registers : EmbedsIn(AckedDigests(r), rtmr[r], Len(rtmr[r]))'
    BY <1>3, <2>1 DEF AckedInv, EmbedsIn
  <2>3. ASSUME holder' = NoCaller PROVE EmbedsLinesIn(AckedLines', log', Len(log'))
    <3>1. CASE holder = NoCaller
      BY <1>3, <2>1, <3>1 DEF AckedInv
    <3>2. CASE holder # NoCaller
      <4>1. PICK m : m = Len(log)
        OBVIOUS
      <4>2. PICK l : l = Len(FileLines(call[holder].line))
        OBVIOUS
      <4>3. PICK n \in Nat : n + l = m /\ EmbedsLinesIn(AckedLines, log, n)
        BY <3>2, <4>1, <4>2 DEF AckedInv, StandsLast
      <4>4. l \in Nat /\ m \in Nat
        <5>1. holder \in Callers /\ call[holder].line \in AllLines
          BY <3>2 DEF IInv, TypeOK, LockInv, AllLines
        <5>. QED
          BY <1>1, <4>1, <4>2, <5>1, FileLinesType
      <4>5. n <= m /\ Continues(log, log)
        BY <1>1, <4>3, <4>4 DEF Continues
      <4>6. EmbedsLinesIn(AckedLines, log, m)
        <5>1. PICK s : s = AckedLines
          OBVIOUS
        <5>2. /\ DOMAIN s \in SUBSET Nat /\ \A i \in DOMAIN s : s[i] \in AllLines
              /\ EmbedsLinesIn(s, log, n)
          BY <1>2, <4>3, <5>1
        <5>. QED
          BY <1>1, <4>4, <4>5, <5>1, <5>2, LinesGrow
      <4>. QED
        BY <1>3, <2>1, <4>1, <4>6
    <3>. QED
      BY <3>1, <3>2
  <2>4. holder' # NoCaller => StandsLast(call'[holder'].line, AckedLines', log')
    BY <1>3, <2>1 DEF AckedInv
  <2>5. \A r \in Registers : EmbedsIn(AckedDigests(r)', rtmr'[r], Len(rtmr'[r]))
    BY <1>3, <2>1 DEF AckedInv
  <2>. QED
    BY <2>3, <2>4, <2>5, AckedAfter
<1>4. CASE CreateLog \/ OpenEmptyLog \/ CheckLog \/ AppendInitRefused \/ StartFails
           \/ UNCHANGED vars
  BY <1>3, <1>4 DEF CreateLog, OpenEmptyLog, CheckLog, AppendInitRefused, StartFails, vars
<1>5. CASE Crash
  BY <1>3, <1>5 DEF Crash
<1>6. CASE RecoverExtend \/ ExtendInit
  <2>1. PICK d \in Digests : rtmr' = [rtmr EXCEPT ![InitPcr] = Append(@, d)]
    <3>1. CASE RecoverExtend
      <4>1. log # <<>>
        BY <3>1 DEF RecoverExtend, IInv, FileInv
      <4>2. Len(log) # 0
        BY <1>1, <4>1
      <4>3. \A n \in Nat : n # 0 => 1 \in 1..n /\ (n # 1 => 2 \in 1..n)
        OBVIOUS
      <4>4. log[1] \in AllLines /\ (Len(log) # 1 => log[2] \in AllLines)
        BY <1>1, <4>2, <4>3, ElementOfSeq
      <4>5. RecoveryDigest \in Digests
        BY <4>4, DigestType DEF RecoveryDigest
      <4>. QED
        BY <3>1, <4>5 DEF RecoverExtend
    <3>2. CASE ExtendInit
      BY <3>2, DigestType DEF ExtendInit, AllLines
    <3>. QED
      BY <1>6, <3>1, <3>2
  <2>2. /\ log' = log /\ acked' = acked /\ holder' = holder /\ call' = call
    BY <1>6 DEF RecoverExtend, ExtendInit
  <2>3. \A r \in Registers : EmbedsIn(AckedDigests(r)', rtmr'[r], Len(rtmr'[r]))
    BY <2>1, <2>2, RegistersGrow
  <2>4. AckedLines' = AckedLines
    BY <2>2, AckedStays
  <2>5. holder' = NoCaller => EmbedsLinesIn(AckedLines', log', Len(log'))
    BY <2>2, <2>4 DEF AckedInv
  <2>6. holder' # NoCaller => StandsLast(call'[holder'].line, AckedLines', log')
    BY <2>2, <2>4 DEF AckedInv
  <2>. QED
    BY <2>3, <2>5, <2>6, AckedAfter
<1>7. CASE AppendInit
  <2>1. /\ holder = NoCaller /\ holder' = NoCaller /\ log' = Append(log, InitLine)
        /\ rtmr' = rtmr /\ acked' = acked
    BY <1>7 DEF AppendInit, IInv, LockInv
  <2>2. AckedLines' = AckedLines /\ \A r : AckedDigests(r)' = AckedDigests(r)
    BY <2>1, AckedStays
  <2>3. /\ log' \in Seq(AllLines) /\ Continues(log', log)
        /\ Len(log') \in Nat /\ Len(log) <= Len(log')
    <3>1. InitLine \in AllLines
      BY DEF AllLines
    <3>2. log' \in Seq(AllLines) /\ Continues(log', log)
      BY <1>1, <2>1, <3>1, AppendContinues
    <3>3. Len(log') \in Nat
      BY <3>2
    <3>. QED
      BY <3>2, <3>3 DEF Continues
  <2>4. EmbedsLinesIn(AckedLines, log', Len(log'))
    <3>1. PICK s, m, n : s = AckedLines /\ m = Len(log) /\ n = Len(log')
      OBVIOUS
    <3>2. EmbedsLinesIn(s, log, m)
      BY <2>1, <3>1 DEF AckedInv
    <3>3. EmbedsLinesIn(s, log', n)
      BY <1>1, <1>2, <2>3, <3>1, <3>2, LinesGrow
    <3>. QED
      BY <3>1, <3>3
  <2>5. \A r \in Registers : EmbedsIn(AckedDigests(r)', rtmr'[r], Len(rtmr'[r]))
    BY <2>1, <2>2 DEF AckedInv
  <2>. QED
    BY <2>1, <2>2, <2>4, <2>5, AckedAfter
<1>8. ASSUME NEW c \in Callers, NEW line \in Lines, NEW reg \in Registers, Call(c, line, reg)
      PROVE  AckedInv'
  <2>1. holder # c
    BY <1>8 DEF Call, IInv, LockInv
  <2>2. holder # NoCaller => call'[holder] = call[holder]
    BY <1>8, <2>1 DEF Call, IInv, TypeOK
  <2>. QED
    BY <1>3, <1>8, <2>2 DEF Call
<1>9. ASSUME NEW c \in Callers, AppendEntryFails(c) \/ ExtendEntryFails(c) PROVE AckedInv'
  <2>1. CASE AppendEntryFails(c)
    BY <1>3, <2>1 DEF AppendEntryFails
  <2>2. CASE ExtendEntryFails(c)
    BY <1>3, <2>2 DEF ExtendEntryFails
  <2>. QED
    BY <1>9, <2>1, <2>2
<1>10. ASSUME NEW c \in Callers, AppendEntry(c) PROVE AckedInv'
  <2>1. /\ call[c].line \in AllLines /\ log' \in Seq(AllLines) /\ Continues(log', log)
        /\ StandsAt(call[c].line, log', Len(log) + 1)
        /\ Len(log') = Len(log) + Len(FileLines(call[c].line))
    <3>1. call[c].line \in AllLines /\ FileLines(call[c].line) \in Seq(AllLines)
          /\ log' = log \o FileLines(call[c].line)
      BY <1>10, AppendEntryLog
    <3>2. log' \in Seq(AllLines)
      BY <1>1, <3>1, ConcatContinues
    <3>. QED
      BY <1>10, <3>2, AppendEntryLog
  <2>2. /\ holder = NoCaller /\ holder' = c /\ acked' = acked /\ rtmr' = rtmr /\ c # NoCaller
        /\ call'[c].line = call[c].line
    BY <1>1, <1>10 DEF AppendEntry, CallType
  <2>3. AckedLines' = AckedLines /\ \A r : AckedDigests(r)' = AckedDigests(r)
    BY <2>2, AckedStays
  <2>5. EmbedsLinesIn(AckedLines, log', Len(log))
    <3>1. PICK s, n : s = AckedLines /\ n = Len(log)
      OBVIOUS
    <3>2. EmbedsLinesIn(s, log, n) /\ n \in Nat /\ n <= n
      BY <1>1, <2>2, <3>1 DEF AckedInv
    <3>3. EmbedsLinesIn(s, log', n)
      BY <1>1, <1>2, <2>1, <3>1, <3>2, LinesGrow
    <3>. QED
      BY <3>1, <3>3
  <2>6. StandsLast(call'[holder'].line, AckedLines', log')
    BY <1>1, <2>1, <2>2, <2>3, <2>5 DEF StandsLast
  <2>7. \A r \in Registers : EmbedsIn(AckedDigests(r)', rtmr'[r], Len(rtmr'[r]))
    BY <2>2, <2>3 DEF AckedInv
  <2>. QED
    BY <2>2, <2>6, <2>7, AckedAfter
<1>11. ASSUME NEW c \in Callers, ExtendEntry(c) PROVE AckedInv'
  <2>1. PICK a, n : a = call[c] /\ n = Len(acked)
    OBVIOUS
  <2>2. /\ a \in CallType /\ n \in Nat /\ acked' = Append(acked, a)
        /\ rtmr' = [rtmr EXCEPT ![a.reg] = Append(@, Digest(a.line))]
        /\ log' = log /\ holder' = NoCaller
    BY <1>1, <1>11, <2>1 DEF ExtendEntry
  <2>3. holder = c /\ c # NoCaller
    BY <1>11 DEF ExtendEntry, IInv, LockInv
  <2>4. /\ Len(acked') = n + 1 /\ acked'[n + 1] = a /\ \A i \in 1..n : acked'[i] = acked[i]
    BY <1>1, <2>1, <2>2
  <2>5. EmbedsLinesIn(AckedLines', log, Len(log))
    <3>1. /\ DOMAIN AckedLines = 1..n /\ DOMAIN AckedLines' = (1..n) \cup {n + 1}
          /\ \A i \in 1..n : AckedLines'[i] = AckedLines[i]
          /\ AckedLines'[n + 1] = a.line
      BY <2>1, <2>2, <2>4 DEF AckedLines
    <3>2. PICK s, q, k : s = AckedLines /\ q = AckedLines' /\ k = n + 1
      OBVIOUS
    <3>3. /\ DOMAIN s = 1..n /\ DOMAIN q = (1..n) \cup {k} /\ \A i \in 1..n : q[i] = s[i]
          /\ q[k] = a.line /\ 1..n \in SUBSET Nat /\ k \in Nat /\ \A i \in 1..n : i < k
      BY <2>2, <3>1, <3>2
    <3>4. StandsLast(q[k], s, log)
      BY <2>1, <2>3, <3>2, <3>3 DEF AckedInv
    <3>5. a.line \in AllLines /\ \A i \in 1..n : s[i] \in AllLines
      BY <1>2, <1>11, <2>1, <3>2, <3>3 DEF ExtendEntry, IInv, TypeOK, AllLines
    <3>6. EmbedsLinesIn(q, log, Len(log))
      BY <1>1, <3>3, <3>4, <3>5, LinesExtend
    <3>. QED
      BY <3>2, <3>6
  <2>6. ASSUME NEW r \in Registers PROVE EmbedsIn(AckedDigests(r)', rtmr'[r], Len(rtmr'[r]))
    <3>1. PICK s, q, D : s = AckedDigests(r) /\ q = AckedDigests(r)' /\ D = DOMAIN s
      OBVIOUS
    <3>2. D = {k \in 1..n : acked[k].reg = r} /\ DOMAIN q = {k \in 1..(n + 1) : acked'[k].reg = r}
      BY <2>1, <2>4, <3>1 DEF AckedDigests
    <3>3. EmbedsIn(s, rtmr[r], Len(rtmr[r])) /\ rtmr[r] \in Seq(Digests) /\ Len(rtmr[r]) \in Nat
      BY <1>1, <3>1 DEF AckedInv
    <3>4. D \in SUBSET Nat /\ n + 1 \in Nat /\ \A i \in D : i < n + 1
      BY <2>2, <3>2
    <3>5. CASE a.reg = r
      <4>1. DOMAIN q = D \cup {n + 1}
        BY <2>2, <2>4, <3>2, <3>5
      <4>2. /\ \A i \in D : q[i] = s[i]
            /\ q[n + 1] = Digest(a.line)
        <5>1. \A i \in DOMAIN q : q[i] = Digest(acked'[i].line)
          BY <3>1 DEF AckedDigests, Digest
        <5>2. \A i \in D : s[i] = Digest(acked[i].line)
          BY <3>1 DEF AckedDigests
        <5>3. \A i \in D : acked'[i] = acked[i]
          BY <2>4, <3>2
        <5>. QED
          BY <2>4, <4>1, <5>1, <5>2, <5>3
      <4>3. PICK d : d = Digest(a.line)
        OBVIOUS
      <4>4. d \in Digests
        <5>1. call[c].line \in AllLines
          BY <1>11 DEF ExtendEntry, IInv, TypeOK, AllLines
        <5>. QED
          BY <2>1, <4>3, <5>1, DigestType
      <4>5. rtmr'[r] = Append(rtmr[r], d)
        BY <1>1, <2>2, <3>5, <4>3
      <4>6. /\ Len(rtmr'[r]) = Len(rtmr[r]) + 1 /\ rtmr'[r][Len(rtmr[r]) + 1] = d
            /\ \A k \in 1..Len(rtmr[r]) : rtmr'[r][k] = rtmr[r][k]
        BY <3>3, <4>4, <4>5
      <4>7. EmbedsIn(s, rtmr'[r], Len(rtmr[r]))
        <5>1. PICK m, t, u : m = Len(rtmr[r]) /\ t = rtmr[r] /\ u = rtmr'[r]
          OBVIOUS
        <5>2. /\ m \in Nat /\ m <= m /\ EmbedsIn(s, t, m) /\ \A k \in 1..m : u[k] = t[k]
              /\ DOMAIN s \in SUBSET Nat
          BY <3>1, <3>3, <3>4, <4>6, <5>1
        <5>3. EmbedsIn(s, u, m)
          BY <5>2, EmbedGrows
        <5>. QED
          BY <5>1, <5>3
      <4>8. EmbedsIn(q, rtmr'[r], Len(rtmr[r]) + 1)
        <5>1. PICK m, k, u : m = Len(rtmr[r]) /\ k = n + 1 /\ u = rtmr'[r]
          OBVIOUS
        <5>2. /\ D \in SUBSET Nat /\ k \in Nat /\ \A i \in D : i < k
              /\ DOMAIN s = D /\ DOMAIN q = D \cup {k} /\ \A i \in D : q[i] = s[i]
          BY <3>1, <3>4, <4>1, <4>2, <5>1
        <5>3. m \in Nat /\ EmbedsIn(s, u, m) /\ q[k] = u[m + 1]
          BY <3>3, <4>2, <4>3, <4>6, <4>7, <5>1
        <5>4. EmbedsIn(q, u, m + 1)
          BY <5>2, <5>3, EmbedExtends
        <5>. QED
          BY <5>1, <5>4
      <4>. QED
        BY <3>1, <4>6, <4>8
    <3>6. CASE a.reg # r
      <4>1. rtmr'[r] = rtmr[r]
        BY <1>1, <2>2, <3>6
      <4>2. DOMAIN q = D
        BY <2>2, <2>4, <3>2, <3>6
      <4>3. \A i \in D : q[i] = s[i]
        <5>1. \A i \in D : q[i] = Digest(acked'[i].line)
          BY <3>1, <4>2 DEF AckedDigests, Digest
        <5>2. \A i \in D : s[i] = Digest(acked[i].line)
          BY <3>1 DEF AckedDigests
        <5>3. \A i \in D : acked'[i] = acked[i]
          BY <2>4, <3>2
        <5>. QED
          BY <5>1, <5>2, <5>3
      <4>4. EmbedsIn(q, rtmr[r], Len(rtmr[r]))
        BY <3>1, <3>3, <4>2, <4>3 DEF EmbedsIn
      <4>. QED
        BY <3>1, <4>1, <4>4
    <3>. QED
      BY <3>5, <3>6
  <2>. QED
    BY <2>2, <2>5, <2>6, AckedAfter
<1>. QED
  BY <1>4, <1>5, <1>6, <1>7, <1>8, <1>9, <1>10, <1>11 DEF Next, Start, Serve

LEMMA AckedInit == Init => AckedInv
<1>. SUFFICES ASSUME Init PROVE AckedInv
  OBVIOUS
<1>1. holder = NoCaller /\ acked = <<>> /\ log = <<>> /\ rtmr = [r \in Registers |-> <<>>]
  BY DEF Init
<1>2. DOMAIN AckedLines = {} /\ \A r : DOMAIN AckedDigests(r) = {}
  BY <1>1 DEF AckedLines, AckedDigests
<1>3. PICK none : none = [i \in {} |-> 0]
  OBVIOUS
<1>4. \A S : none \in [{} -> S]
  BY <1>3
<1>. QED
  BY <1>1, <1>2, <1>4 DEF AckedInv, EmbedsIn, EmbedsLinesIn

LEMMA AckedFromInv == IInv /\ AckedInv => AckedRequestsMeasured
<1>. SUFFICES ASSUME IInv, AckedInv PROVE AckedRequestsMeasured
  OBVIOUS
<1>1. log \in Seq(AllLines) /\ Len(log) \in Nat
  BY DEF IInv, TypeOK
<1>2. EmbedsLinesIn(AckedLines, log, Len(log))
  <2>1. CASE holder = NoCaller
    BY <2>1 DEF AckedInv
  <2>2. CASE holder # NoCaller
    <3>1. PICK m, l, s : m = Len(log) /\ l = Len(FileLines(call[holder].line)) /\ s = AckedLines
      OBVIOUS
    <3>2. PICK n \in Nat : n + l = m /\ EmbedsLinesIn(s, log, n)
      BY <2>2, <3>1 DEF AckedInv, StandsLast
    <3>3. l \in Nat /\ m \in Nat
      <4>1. call[holder].line \in AllLines
        BY <2>2 DEF IInv, TypeOK, LockInv, AllLines
      <4>. QED
        BY <1>1, <3>1, <4>1, FileLinesType
    <3>4. n <= m /\ Continues(log, log)
      BY <1>1, <3>2, <3>3 DEF Continues
    <3>5. DOMAIN s \in SUBSET Nat /\ \A i \in DOMAIN s : s[i] \in AllLines
      BY <3>1, AckedLinesType
    <3>. QED
      BY <1>1, <3>1, <3>2, <3>3, <3>4, <3>5, LinesGrow
  <2>. QED
    BY <2>1, <2>2
<1>3. EmbedsLines(AckedLines, log)
  BY <1>2 DEF EmbedsLinesIn, EmbedsLines
<1>. QED
  BY <1>3 DEF AckedInv, AckedRequestsMeasured, EmbedsIn, Embeds

\* A request that ExtendRuntimeMeasurement answers with Ok is in the log and in
\* the register it named, and the logs and registers hold such requests in the
\* order of the answers: the mutex around extend_entry makes them agree.
THEOREM AckedAreMeasured == Spec => []AckedRequestsMeasured
  BY Invariance, AckedInit, AckedStep, AckedFromInv, PTL DEF Spec

-----------------------------------------------------------------------------
(* The agent.                                                               *)

\* A request for evidence changes its own record, its TSM directory and
\* Gramine's file only.
LEMMA RequestStep ==
    ASSUME NEW r \in Requests,
           GetEvidence(r) \/ Evidence(r) \/ OtherWrites(r) \/ EvidenceFails(r)
    PROVE  UNCHANGED <<vars, env, boot, tee, leaked, pcr8, stops>>
  BY DEF GetEvidence, Evidence, OtherWrites, EvidenceFails, RefuseData,
       TsmReportPathNew, WriteInblob, ReadOutblob, CheckInblobWriteRace,
       WriteUserReportData, ReadQuote, GetQuoteIoctl, OcclumQuote, SnpReport,
       CsvReport, SeAttestation, AzSnpQuote, AzTdxQuote, SampleQuote, QuoteAtOnce,
       Collect, Post, UnchangedButReq

\* A step of the agent is a step of EventLog, or leaves the log, the registers
\* and the callers alone.
LEMMA AgentStep == [AgentNext]_allVars => [Next]_vars
<1>. SUFFICES ASSUME [AgentNext]_allVars PROVE Next \/ UNCHANGED vars
  OBVIOUS
<1>1. CASE Starting
  <2>1. CASE StartLog
    BY <2>1 DEF StartLog, Next
  <2>. QED
    BY <1>1, <2>1 DEF Starting, New, BindInitData, ServeWithoutLog
<1>2. CASE InitDataRefused \/ StopWithoutLog \/ BindInitDataRequest
  BY <1>2 DEF InitDataRefused, StopWithoutLog, BindInitDataRequest
<1>3. CASE StartLogFails
  BY <1>3 DEF StartLogFails, Next
<1>4. CASE AgentCrash
  BY <1>4 DEF AgentCrash, Next
<1>5. CASE LogRequest
  BY <1>5 DEF LogRequest, Next
<1>6. ASSUME NEW r \in Requests,
             GetEvidence(r) \/ Evidence(r) \/ OtherWrites(r) \/ EvidenceFails(r)
      PROVE  UNCHANGED vars
  BY <1>6, RequestStep
<1>7. CASE UNCHANGED allVars
  BY <1>7 DEF allVars
<1>. QED
  BY <1>1, <1>2, <1>3, <1>4, <1>5, <1>6, <1>7 DEF AgentNext

\* The event log's invariants hold of every behaviour of the agent.
LEMMA AgentInvariance == AgentSpec => [](IInv /\ MeasuredInv /\ AckedInv)
<1>1. AgentInit => IInv /\ MeasuredInv /\ AckedInv
  <2>1. Init => MeasuredInv
    BY DEF Init, MeasuredInv, NoCall
  <2>. QED
    BY InitEstablishes, AckedInit, <2>1 DEF AgentInit
<1>2. IInv /\ MeasuredInv /\ AckedInv /\ [AgentNext]_allVars => (IInv /\ MeasuredInv /\ AckedInv)'
  BY AgentStep, TypeStep, LockStep, FileStep, ReplayStep, MeasuredStep, AckedStep DEF IInv
<1>. QED
  BY <1>1, <1>2, PTL DEF AgentSpec

\* A verifier that replays the agent's log finds its register, although
\* evidence is collected and the process ends at any time (LogReplaysToRegister).
THEOREM AgentReplayCorrect == AgentSpec => []LogReplaysToRegister
  BY AgentInvariance, ReplayFromInv, PTL

\* No digest is in a register of the agent's platform without its line in the
\* log, on any platform and through any number of starts.
THEOREM AgentMeasuredLogged == AgentSpec => []MeasuredLinesLogged
<1>1. MeasuredInv => MeasuredLinesLogged
  BY DEF MeasuredInv, MeasuredLinesLogged, Logged
<1>. QED
  BY AgentInvariance, <1>1, PTL

\* The agent answers ExtendRuntimeMeasurement with Ok only for what is in the
\* log and the register, whatever evidence it collects in between.
THEOREM AgentAckedMeasured == AgentSpec => []AckedRequestsMeasured
  BY AgentInvariance, AckedFromInv, PTL

-----------------------------------------------------------------------------
(* Binding initdata.                                                        *)

Measured == {"none", "match", "longer", "other", "requested"}

\* A start that has passed main's BindInitData has bound the initdata, whatever
\* requests of the gRPC server and earlier starts add to PCR 8.
BindInv ==
    /\ pcr8 \in Seq(Measured)
    /\ env.grpc = FALSE => \A i \in 1..Len(pcr8) : pcr8[i] = env.initdata
    /\ (boot \in {"init", "serving"} /\ env.initdata # "none") =>
          /\ tee \in Compares => env.initdata # "other"
          /\ tee \in Measures => \E i \in 1..Len(pcr8) : pcr8[i] = env.initdata

\* An append keeps what was there.
LEMMA AppendKeeps ==
    ASSUME NEW S, NEW s \in Seq(S), NEW x \in S
    PROVE  /\ Append(s, x) \in Seq(S)
           /\ Len(Append(s, x)) = Len(s) + 1 /\ Len(s) \in Nat
           /\ \A i \in 1..Len(s) : i \in 1..Len(Append(s, x)) /\ Append(s, x)[i] = s[i]
           /\ Append(s, x)[Len(s) + 1] = x
<1>1. /\ Append(s, x) \in Seq(S)
      /\ Len(Append(s, x)) = Len(s) + 1 /\ Len(s) \in Nat
      /\ \A i \in 1..Len(s) : Append(s, x)[i] = s[i]
      /\ Append(s, x)[Len(s) + 1] = x
  BY AppendProperties
<1>. QED
  BY <1>1

\* Every step keeps it: only BindInitData and gRPC requests extend PCR 8.
LEMMA BindStep ==
    ASSUME BindInv, env \in Envs, [AgentNext]_allVars
    PROVE  BindInv'
<1>0. env.initdata \in Measured /\ "requested" \in Measured /\ env.grpc \in BOOLEAN
  BY AgentAssumption DEF Measured
<1>1. CASE New
  BY <1>1 DEF New, BindInv
<1>2. CASE BindInitData
  <2>1. CASE tee \in Measures /\ env.initdata # "none"
    <3>1. pcr8' = Append(pcr8, env.initdata)
      BY <1>2, <2>1 DEF BindInitData
    <3>2. pcr8' \in Seq(Measured) /\ Len(pcr8') = Len(pcr8) + 1 /\ Len(pcr8) \in Nat
          /\ (\A i \in 1..Len(pcr8) : pcr8'[i] = pcr8[i])
          /\ pcr8'[Len(pcr8) + 1] = env.initdata
      BY <1>0, <3>1, AppendKeeps DEF BindInv
    <3>3. Len(pcr8) + 1 \in 1..Len(pcr8')
      BY <3>2
    <3>4. env.grpc = FALSE => \A i \in 1..Len(pcr8') : pcr8'[i] = env.initdata
      <4>. SUFFICES ASSUME env.grpc = FALSE, NEW i \in 1..Len(pcr8')
                    PROVE  pcr8'[i] = env.initdata
        OBVIOUS
      <4>1. i \in 1..Len(pcr8) \/ i = Len(pcr8) + 1
        BY <3>2
      <4>. QED
        BY <3>2, <4>1 DEF BindInv
    <3>. QED
      BY <1>2, <2>1, <3>2, <3>3, <3>4
         DEF BindInitData, BindInv, Measures, Compares
  <2>2. CASE ~(tee \in Measures /\ env.initdata # "none")
    <3>1. pcr8' = pcr8
      BY <1>2, <2>2 DEF BindInitData
    <3>. QED
      BY <1>2, <2>2, <3>1 DEF BindInitData, BindInv, InitDataAccepted
  <2>. QED
    BY <2>1, <2>2
<1>3. CASE ServeWithoutLog
  BY <1>3 DEF ServeWithoutLog, BindInv
<1>4. CASE StartLog \/ StartLogFails
  BY <1>4 DEF StartLog, StartLogFails, BindInv
<1>5. CASE InitDataRefused
  BY <1>5 DEF InitDataRefused, BindInv
<1>6. CASE AgentCrash \/ StopWithoutLog
  BY <1>6 DEF AgentCrash, StopWithoutLog, EndOfProcess, BindInv
<1>7. CASE LogRequest \/ UNCHANGED allVars
  BY <1>7 DEF LogRequest, agentVars, allVars, BindInv
<1>8. CASE BindInitDataRequest
  <2>1. pcr8' = Append(pcr8, "requested")
    BY <1>8 DEF BindInitDataRequest
  <2>2. pcr8' \in Seq(Measured)
        /\ \A i \in 1..Len(pcr8) : i \in 1..Len(pcr8') /\ pcr8'[i] = pcr8[i]
    BY <1>0, <2>1, AppendKeeps DEF BindInv
  <2>. QED
    BY <1>8, <2>2 DEF BindInitDataRequest, BindInv
<1>9. ASSUME NEW r \in Requests,
             GetEvidence(r) \/ Evidence(r) \/ OtherWrites(r) \/ EvidenceFails(r)
      PROVE  UNCHANGED <<env, boot, tee, pcr8>>
  BY <1>9, RequestStep
<1>. QED
  BY <1>1, <1>2, <1>3, <1>4, <1>5, <1>6, <1>7, <1>8, <1>9
     DEF AgentNext, Starting, BindInv

\* The platform is the one the agent was first started on.
LEMMA PlatformStays == AgentSpec => [](env \in Envs)
<1>1. AgentInit => env \in Envs
  BY DEF AgentInit
<1>2. env \in Envs /\ [AgentNext]_allVars => (env \in Envs)'
  <2>. SUFFICES ASSUME [AgentNext]_allVars PROVE env' = env
    OBVIOUS
  <2>1. ASSUME NEW r \in Requests,
               GetEvidence(r) \/ Evidence(r) \/ OtherWrites(r) \/ EvidenceFails(r)
        PROVE  env' = env
    BY <2>1, RequestStep
  <2>. QED
    BY <2>1 DEF AgentNext, Starting, New, BindInitData, ServeWithoutLog, StartLog,
         InitDataRefused, StartLogFails, AgentCrash, StopWithoutLog, EndOfProcess,
         LogRequest, BindInitDataRequest, agentVars, allVars
<1>. QED
  BY <1>1, <1>2, PTL DEF AgentSpec

\* main serves no request before the initdata it was given is bound to the
\* platform, at the first start and after every end of the process.
THEOREM InitDataAlwaysBound == AgentSpec => []InitDataBound
<1>1. AgentInit => BindInv
  BY DEF AgentInit, BindInv
<1>2. BindInv /\ env \in Envs /\ [AgentNext]_allVars => BindInv'
  BY BindStep
<1>3. BindInv /\ env \in Envs => InitDataBound
  BY AgentAssumption DEF BindInv, InitDataBound
<1>. QED
  BY PlatformStays, <1>1, <1>2, <1>3, PTL DEF AgentSpec

-----------------------------------------------------------------------------
(* Requests for evidence.                                                   *)

Pcs == {"idle", "start", "inblob", "outblob", "generation", "ioctl", "quote", "collect",
        "post"}
Data == [of : Requests \cup {None, "other"}, len : Nat]
Quotes == [data : Data \cup {None}, regs : [Registers -> Seq(Digests)]]
RequestRecord ==
    [pc : Pcs, kind : {None, "evidence", "token"}, data : Data, quote : {None} \cup Quotes,
     aael : Seq(AllLines), out : {None, "ok", "error"}]
EntryRecord == [gen : Nat, inblob : Data \cup {None}, made : BOOLEAN]

RequestType ==
    /\ req \in [Requests -> RequestRecord] /\ entry \in [Requests -> EntryRecord]
    /\ userData \in Data

\* How far the TSM report of a request q with directory e can be trusted: once
\* the agent has written inblob, a generation of one says that nobody else has.
TsmInv(q, e) ==
    /\ e.made => q.pc \in {"inblob", "outblob", "generation"}
    /\ q.pc \in {"inblob", "outblob", "generation"} => tee \in {"tdx", "cca"}
    /\ q.pc = "outblob" => e.gen > 0 /\ (e.gen = 1 => e.inblob = Resized(q.data))
    /\ q.pc = "generation" => e.gen > 0 /\ (e.gen = 1 => q.quote.data = Resized(q.data))

\* From the quote on it covers the request's data, unless Gramine made it.
QuoteInv(q) ==
    /\ q.pc = "quote" => tee = "sgx-gramine"
    /\ (q.pc \in {"collect", "post"} \/ (q.pc = "idle" /\ q.out = "ok")) =>
          tee = "sgx-gramine" \/ q.quote.data = Bound(q.data)

\* A request is in flight, and the platform known, only while the agent serves;
\* what a later start detects is the same.
ServingInv ==
    /\ boot # "stopped" => tee = DetectTeeType
    /\ \A r \in Requests :
          /\ req[r].pc # "idle" => boot = "serving"
          /\ req[r].out = "ok" => tee = DetectTeeType

EvidenceInv ==
    /\ RequestType /\ ServingInv
    /\ \A r \in Requests : TsmInv(req[r], entry[r]) /\ QuoteInv(req[r])

\* The constants of the model have the types.
LEMMA NoRequestType ==
    /\ NoData \in Data /\ NoRequest \in RequestRecord /\ NoEntry \in EntryRecord
    /\ NoRequest.pc = "idle" /\ NoRequest.out = None
    /\ NoEntry.gen = 0 /\ NoEntry.made = FALSE
<1>1. NoData \in Data
  BY DEF NoData, Data
<1>2. NoRequest \in RequestRecord
  <2>1. <<>> \in Seq(AllLines) /\ "idle" \in Pcs
    BY DEF Pcs
  <2>. QED
    BY <1>1, <2>1 DEF NoRequest, RequestRecord
<1>3. NoEntry \in EntryRecord
  BY DEF NoEntry, EntryRecord
<1>. QED
  BY <1>1, <1>2, <1>3 DEF NoRequest, NoEntry

\* Before the first start there is no request.
LEMMA EvidenceInit == AgentInit => EvidenceInv
<1>. SUFFICES ASSUME AgentInit PROVE EvidenceInv
  OBVIOUS
<1>1. RequestType
  BY NoRequestType DEF AgentInit, RequestType
<1>2. \A r \in Requests : req[r] = NoRequest /\ entry[r] = NoEntry
  BY DEF AgentInit
<1>3. ServingInv
  BY <1>2, NoRequestType DEF AgentInit, ServingInv, None
<1>4. \A r \in Requests : TsmInv(req[r], entry[r]) /\ QuoteInv(req[r])
  BY <1>2, NoRequestType DEF TsmInv, QuoteInv, None
<1>. QED
  BY <1>1, <1>3, <1>4 DEF EvidenceInv

\* detect_tee_type depends on the platform alone.
LEMMA DetectStays == ASSUME env' = env PROVE DetectTeeType' = DetectTeeType
  BY DEF DetectTeeType, Detected

\* A step of one request keeps the invariant if the request's own record and
\* directory do.
LEMMA OneRequest ==
    ASSUME EvidenceInv, boot = "serving", UNCHANGED <<env, boot, tee>>, userData' \in Data,
           NEW r \in Requests, NEW q \in RequestRecord, NEW e \in EntryRecord,
           req' = [req EXCEPT ![r] = q], entry' = [entry EXCEPT ![r] = e],
           TsmInv(q, e), QuoteInv(q)
    PROVE  EvidenceInv'
<1>1. RequestType'
  BY DEF EvidenceInv, RequestType
<1>2. \A s \in Requests :
          /\ req'[s] = IF s = r THEN q ELSE req[s]
          /\ entry'[s] = IF s = r THEN e ELSE entry[s]
  BY DEF EvidenceInv, RequestType
<1>3. tee = DetectTeeType /\ DetectTeeType' = DetectTeeType
  BY DetectStays DEF EvidenceInv, ServingInv
<1>4. ServingInv'
  BY <1>3 DEF ServingInv
<1>5. \A s \in Requests : (TsmInv(req[s], entry[s]) /\ QuoteInv(req[s]))'
  BY <1>2 DEF EvidenceInv, TsmInv, QuoteInv, Bound, Resized, ReportDataSize
<1>. QED
  BY <1>1, <1>4, <1>5 DEF EvidenceInv

\* Every step of a request for evidence keeps the invariant.
LEMMA EvidenceRequestStep ==
    ASSUME EvidenceInv, TypeOK, env \in Envs, NEW r \in Requests,
           GetEvidence(r) \/ Evidence(r) \/ OtherWrites(r) \/ EvidenceFails(r)
    PROVE  EvidenceInv'
<1>. DEFINE q == req[r]
            e == entry[r]
<1>1. /\ q \in RequestRecord /\ e \in EntryRecord /\ userData \in Data
      /\ TsmInv(q, e) /\ QuoteInv(q)
      /\ req = [req EXCEPT ![r] = q] /\ entry = [entry EXCEPT ![r] = e]
  BY DEF EvidenceInv, RequestType
<1>2. UNCHANGED <<env, boot, tee>>
  BY RequestStep
<1>3. boot = "serving"
  <2>1. CASE OtherWrites(r)
    BY <2>1 DEF OtherWrites, EvidenceInv, ServingInv, TsmInv
  <2>. QED
    BY <2>1 DEF GetEvidence, Evidence, EvidenceFails, RefuseData, TsmReportPathNew,
         WriteInblob, ReadOutblob, CheckInblobWriteRace, WriteUserReportData, ReadQuote,
         GetQuoteIoctl, OcclumQuote, SnpReport, CsvReport, SeAttestation, AzSnpQuote,
         AzTdxQuote, SampleQuote, QuoteAtOnce, Collect, Post, At
<1>4. Resized(q.data) \in Data /\ Bound(q.data) \in Data
  BY <1>1 DEF Resized, Bound, Data, RequestRecord, ReportDataSize
<1>5. rtmr \in [Registers -> Seq(Digests)] /\ log \in Seq(AllLines)
  BY DEF TypeOK
<1>. HIDE DEF q, e
\* Common to the steps below: the request answers with an error, or gets a quote.
<1>6. ASSUME req' = [req EXCEPT ![r] = [q EXCEPT !.pc = "idle", !.out = "error"]],
             entry' = [entry EXCEPT ![r] = NoEntry] \/ (entry' = entry /\ ~e.made),
             userData' = userData
      PROVE  EvidenceInv'
  <2>. DEFINE q1 == [q EXCEPT !.pc = "idle", !.out = "error"]
  <2>1. q1 \in RequestRecord
    BY <1>1 DEF RequestRecord, Pcs
  <2>2. q1.pc = "idle" /\ q1.out = "error"
    BY <1>1 DEF RequestRecord
  <2>3. PICK e1 \in EntryRecord : ~e1.made /\ entry' = [entry EXCEPT ![r] = e1]
    BY <1>1, <1>6, NoRequestType
  <2>. HIDE DEF q1
  <2>4. TsmInv(q1, e1) /\ QuoteInv(q1)
    BY <2>2, <2>3 DEF TsmInv, QuoteInv
  <2>5. req' = [req EXCEPT ![r] = q1]
    BY <1>6 DEF q1
  <2>. QED
    BY <1>1, <1>2, <1>3, <1>6, <2>1, <2>3, <2>4, <2>5, OneRequest
<1>7. CASE GetEvidence(r)
  <2>1. PICK k \in {"evidence", "token"}, n \in Nat :
           req' = [req EXCEPT ![r] = [NoRequest EXCEPT !.pc = "start", !.kind = k,
                                                       !.data = [of |-> r, len |-> n]]]
    <3>1. env.asks[r].kind \in {"evidence", "token"} /\ env.asks[r].len \in Nat
      BY <1>7, AgentAssumption DEF GetEvidence
    <3>2. (IF env.asks[r].kind = "token" THEN 0 ELSE env.asks[r].len) \in Nat
      BY <3>1
    <3>. QED
      BY <1>7, <3>1, <3>2 DEF GetEvidence
  <2>. DEFINE q1 == [NoRequest EXCEPT !.pc = "start", !.kind = k,
                                      !.data = [of |-> r, len |-> n]]
  <2>2. q1 \in RequestRecord /\ q1.pc = "start"
    BY NoRequestType DEF RequestRecord, Data, Pcs
  <2>3. ~e.made
    <3>1. q.pc = "idle"
      BY <1>7, NoRequestType DEF GetEvidence, q
    <3>. QED
      BY <1>1, <3>1 DEF TsmInv
  <2>4. req' = [req EXCEPT ![r] = q1] /\ entry' = [entry EXCEPT ![r] = e] /\ userData' = userData
    BY <1>1, <1>7, <2>1 DEF GetEvidence, UnchangedButReq
  <2>. HIDE DEF q1
  <2>5. TsmInv(q1, e) /\ QuoteInv(q1)
    BY <2>2, <2>3 DEF TsmInv, QuoteInv
  <2>. QED
    BY <1>1, <1>2, <1>3, <2>2, <2>4, <2>5, OneRequest
<1>8. CASE RefuseData(r)
  <2>1. ~e.made
    BY <1>1, <1>8 DEF RefuseData, At, TsmInv, q
  <2>. QED
    BY <1>6, <1>8, <2>1 DEF RefuseData, Answer, UnchangedButReq, q
<1>9. CASE TsmReportPathNew(r)
  <2>1. q.pc = "start" /\ ~e.made /\ tee \in {"tdx", "cca"} /\ userData' = userData
    BY <1>1, <1>9 DEF TsmReportPathNew, UnchangedButReq, At, TsmInv, q
  <2>2. CASE /\ entry' = [entry EXCEPT ![r] = [NoEntry EXCEPT !.made = TRUE]]
             /\ Goto(r, "inblob")
    <3>. DEFINE q1 == [q EXCEPT !.pc = "inblob"]
                e1 == [NoEntry EXCEPT !.made = TRUE]
    <3>1. q1 \in RequestRecord /\ q1.pc = "inblob"
      BY <1>1 DEF RequestRecord, Pcs
    <3>2. e1 \in EntryRecord
      BY NoRequestType DEF EntryRecord
    <3>3. req' = [req EXCEPT ![r] = q1] /\ entry' = [entry EXCEPT ![r] = e1]
      BY <2>2 DEF Goto, q
    <3>. HIDE DEF q1, e1
    <3>4. TsmInv(q1, e1) /\ QuoteInv(q1)
      BY <2>1, <3>1 DEF TsmInv, QuoteInv
    <3>. QED
      BY <1>1, <1>2, <1>3, <2>1, <3>1, <3>2, <3>3, <3>4, OneRequest
  <2>3. CASE env.tsm # TsmProvider(tee) /\ Goto(r, "ioctl") /\ entry' = entry
    <3>. DEFINE q1 == [q EXCEPT !.pc = "ioctl"]
    <3>1. q1 \in RequestRecord /\ q1.pc = "ioctl"
      BY <1>1 DEF RequestRecord, Pcs
    <3>2. req' = [req EXCEPT ![r] = q1] /\ entry' = [entry EXCEPT ![r] = e]
      BY <1>1, <2>3 DEF Goto, q
    <3>. HIDE DEF q1
    <3>3. TsmInv(q1, e) /\ QuoteInv(q1)
      BY <2>1, <3>1 DEF TsmInv, QuoteInv
    <3>. QED
      BY <1>1, <1>2, <1>3, <2>1, <3>1, <3>2, <3>3, OneRequest
  <2>. QED
    BY <1>9, <2>2, <2>3 DEF TsmReportPathNew
<1>10. CASE WriteInblob(r)
  <2>. DEFINE q1 == [q EXCEPT !.pc = "outblob"]
              e1 == [e EXCEPT !.gen = @ + 1, !.inblob = Resized(q.data)]
  <2>1. q.pc = "inblob" /\ tee \in {"tdx", "cca"} /\ userData' = userData
    BY <1>1, <1>10 DEF WriteInblob, UnchangedButReq, At, TsmInv, q
  <2>2. q1 \in RequestRecord /\ q1.pc = "outblob" /\ q1.data = q.data
    BY <1>1 DEF RequestRecord, Pcs
  <2>3. e1 \in EntryRecord /\ e1.inblob = Resized(q.data) /\ e1.gen > 0
    <3>1. e.gen \in Nat /\ e.gen + 1 \in Nat /\ e.gen + 1 > 0
      BY <1>1 DEF EntryRecord
    <3>2. e1 \in EntryRecord /\ e1.inblob = Resized(q.data) /\ e1.gen = e.gen + 1
      BY <1>1, <1>4, <3>1 DEF EntryRecord
    <3>. QED
      BY <3>1, <3>2
  <2>4. req' = [req EXCEPT ![r] = q1] /\ entry' = [entry EXCEPT ![r] = e1]
    BY <1>10 DEF WriteInblob, Goto, q, e
  <2>. HIDE DEF q1, e1
  <2>5. TsmInv(q1, e1) /\ QuoteInv(q1)
    BY <2>1, <2>2, <2>3 DEF TsmInv, QuoteInv
  <2>. QED
    BY <1>1, <1>2, <1>3, <2>1, <2>2, <2>3, <2>4, <2>5, OneRequest
<1>11. ASSUME NEW d \in Data \cup {None}, NEW pc \in {"generation", "collect"},
              GotQuote(r, d, pc), entry' = entry, userData' = userData,
              pc = "generation" => q.pc = "outblob" /\ d = e.inblob,
              pc = "collect" => /\ q.pc \in {"start", "ioctl", "quote"}
                                /\ tee = "sgx-gramine" \/ d = Bound(q.data)
       PROVE  EvidenceInv'
  <2>. DEFINE q1 == [q EXCEPT !.pc = pc, !.quote = QuoteOf(d)]
  <2>1. QuoteOf(d) \in Quotes /\ QuoteOf(d).data = d
    BY <1>5 DEF QuoteOf, Quotes
  <2>2. q1 \in RequestRecord /\ q1.pc = pc /\ q1.quote.data = d /\ q1.data = q.data
    BY <1>1, <2>1 DEF RequestRecord, Pcs
  <2>3. req' = [req EXCEPT ![r] = q1] /\ entry' = [entry EXCEPT ![r] = e]
    BY <1>1, <1>11 DEF GotQuote, q
  <2>. HIDE DEF q1
  <2>4. TsmInv(q1, e) /\ QuoteInv(q1)
    BY <1>1, <1>11, <2>2 DEF TsmInv, QuoteInv
  <2>. QED
    BY <1>1, <1>2, <1>3, <1>11, <2>2, <2>3, <2>4, OneRequest
<1>12. CASE ReadOutblob(r)
  <2>1. q.pc = "outblob" /\ e.inblob \in Data \cup {None}
    BY <1>1, <1>12 DEF ReadOutblob, At, EntryRecord, q
  <2>. QED
    BY <1>11, <1>12, <2>1 DEF ReadOutblob, UnchangedButReq, e
<1>13. CASE ReadQuote(r)
  <2>1. q.pc = "quote" /\ tee = "sgx-gramine"
    BY <1>1, <1>13 DEF ReadQuote, At, QuoteInv, q
  <2>. QED
    BY <1>1, <1>11, <1>13, <2>1 DEF ReadQuote, UnchangedButReq
<1>14. ASSUME NEW t, QuoteAtOnce(r, "start", t) \/ QuoteAtOnce(r, "ioctl", t)
       PROVE  EvidenceInv'
  BY <1>4, <1>11, <1>14 DEF QuoteAtOnce, At, UnchangedButReq, q
<1>15. CASE CheckInblobWriteRace(r)
  <2>1. q.pc = "generation" /\ tee \in {"tdx", "cca"} /\ userData' = userData
        /\ entry' = [entry EXCEPT ![r] = NoEntry] /\ e.gen > 0
        /\ (e.gen = 1 => q.quote.data = Resized(q.data)) /\ e.gen \in Nat
    BY <1>1, <1>15 DEF CheckInblobWriteRace, UnchangedButReq, At, Drop, TsmInv, EntryRecord, q
  <2>2. CASE e.gen > 1
    BY <1>6, <1>15, <2>1, <2>2 DEF CheckInblobWriteRace, Answer, q, e
  <2>3. CASE ~(e.gen > 1)
    <3>. DEFINE q1 == [q EXCEPT !.pc = "collect"]
    <3>1. q1 \in RequestRecord /\ q1.pc = "collect" /\ q1.quote = q.quote /\ q1.data = q.data
      BY <1>1 DEF RequestRecord, Pcs
    <3>2. req' = [req EXCEPT ![r] = q1]
      BY <1>15, <2>3 DEF CheckInblobWriteRace, Goto, q, e
    <3>3. q.quote.data = Bound(q.data)
      BY <2>1, <2>3 DEF Bound, SizedTees
    <3>. HIDE DEF q1
    <3>4. TsmInv(q1, NoEntry) /\ QuoteInv(q1)
      BY <3>1, <3>3, NoRequestType DEF TsmInv, QuoteInv
    <3>. QED
      BY <1>1, <1>2, <1>3, <2>1, <3>1, <3>2, <3>4, NoRequestType, OneRequest
  <2>. QED
    BY <2>2, <2>3
<1>16. CASE WriteUserReportData(r)
  <2>. DEFINE q1 == [q EXCEPT !.pc = "quote"]
  <2>1. q.pc = "start" /\ ~e.made /\ tee = "sgx-gramine" /\ userData' \in Data
    BY <1>1, <1>4, <1>16 DEF WriteUserReportData, At, TsmInv, q
  <2>2. q1 \in RequestRecord /\ q1.pc = "quote"
    BY <1>1 DEF RequestRecord, Pcs
  <2>3. req' = [req EXCEPT ![r] = q1] /\ entry' = [entry EXCEPT ![r] = e]
    BY <1>1, <1>16 DEF WriteUserReportData, Goto, q
  <2>. HIDE DEF q1
  <2>4. TsmInv(q1, e) /\ QuoteInv(q1)
    BY <2>1, <2>2 DEF TsmInv, QuoteInv
  <2>. QED
    BY <1>1, <1>2, <1>3, <2>1, <2>2, <2>3, <2>4, OneRequest
<1>17. CASE Collect(r)
  <2>1. q.pc = "collect" /\ ~e.made /\ userData' = userData /\ entry' = entry
        /\ (tee = "sgx-gramine" \/ q.quote.data = Bound(q.data))
    BY <1>1, <1>17 DEF Collect, UnchangedButReq, At, TsmInv, QuoteInv, q
  <2>2. PICK pc \in {"post", "idle"}, l \in Seq(AllLines), out \in {None, "ok"} :
           req' = [req EXCEPT ![r] = [q EXCEPT !.pc = pc, !.aael = l, !.out = out]]
    <3>1. <<>> \in Seq(AllLines)
      OBVIOUS
    <3>. QED
      BY ZenonT(40), <1>5, <1>17, <3>1 DEF Collect, q
  <2>. DEFINE q1 == [q EXCEPT !.pc = pc, !.aael = l, !.out = out]
  <2>3. q1 \in RequestRecord /\ q1.pc = pc /\ q1.quote = q.quote /\ q1.data = q.data
    BY <1>1 DEF RequestRecord, Pcs
  <2>4. req' = [req EXCEPT ![r] = q1] /\ entry' = [entry EXCEPT ![r] = e]
    BY <1>1, <2>1, <2>2
  <2>. HIDE DEF q1
  <2>5. TsmInv(q1, e) /\ QuoteInv(q1)
    BY <2>1, <2>3 DEF TsmInv, QuoteInv
  <2>. QED
    BY <1>1, <1>2, <1>3, <2>1, <2>3, <2>4, <2>5, OneRequest
<1>18. CASE Post(r)
  <2>1. q.pc = "post" /\ ~e.made /\ userData' = userData /\ entry' = entry
        /\ (tee = "sgx-gramine" \/ q.quote.data = Bound(q.data))
    BY <1>1, <1>18 DEF Post, UnchangedButReq, At, TsmInv, QuoteInv, q
  <2>2. CASE Answer(r, "error")
    BY <1>6, <2>1, <2>2 DEF Answer, q
  <2>3. CASE Answer(r, "ok")
    <3>. DEFINE q1 == [q EXCEPT !.pc = "idle", !.out = "ok"]
    <3>1. q1 \in RequestRecord /\ q1.pc = "idle" /\ q1.quote = q.quote /\ q1.data = q.data
      BY <1>1 DEF RequestRecord, Pcs
    <3>2. req' = [req EXCEPT ![r] = q1] /\ entry' = [entry EXCEPT ![r] = e]
      BY <1>1, <2>1, <2>3 DEF Answer, q
    <3>. HIDE DEF q1
    <3>3. TsmInv(q1, e) /\ QuoteInv(q1)
      BY <2>1, <3>1 DEF TsmInv, QuoteInv
    <3>. QED
      BY <1>1, <1>2, <1>3, <2>1, <3>1, <3>2, <3>3, OneRequest
  <2>. QED
    BY <1>18, <2>2, <2>3 DEF Post
<1>19. CASE OtherWrites(r)
  <2>. DEFINE d == [of |-> "other", len |-> ReportDataSize]
              e1 == [e EXCEPT !.gen = @ + 1, !.inblob = d]
  <2>1. e.made /\ e.gen \in Nat /\ e.gen + 1 \in Nat
    BY <1>1, <1>19 DEF OtherWrites, EntryRecord, e
  <2>2. d \in Data
    BY DEF Data, ReportDataSize
  <2>3. e1 \in EntryRecord /\ e1.gen = e.gen + 1 /\ e1.made
    BY <1>1, <2>1, <2>2 DEF EntryRecord
  <2>4. req' = [req EXCEPT ![r] = q] /\ entry' = [entry EXCEPT ![r] = e1] /\ userData' = userData
    BY <1>1, <1>19 DEF OtherWrites, UnchangedButReq, e
  <2>. HIDE DEF e1
  <2>5. TsmInv(q, e1) /\ QuoteInv(q)
    BY <1>1, <2>1, <2>3 DEF TsmInv
  <2>. QED
    BY <1>1, <1>2, <1>3, <2>3, <2>4, <2>5, OneRequest
<1>20. CASE EvidenceFails(r)
  BY <1>6, <1>20 DEF EvidenceFails, Answer, Drop, UnchangedButReq, q
<1>. QED
  BY <1>7, <1>8, <1>9, <1>10, <1>12, <1>13, <1>14, <1>15, <1>16, <1>17, <1>18, <1>19, <1>20
     DEF Evidence, GetQuoteIoctl, OcclumQuote, SnpReport, CsvReport, SeAttestation,
         AzSnpQuote, AzTdxQuote, SampleQuote

\* A step that leaves requests and platform alone, or ends requests, keeps it.
LEMMA EvidenceStep ==
    ASSUME EvidenceInv, TypeOK, env \in Envs, [AgentNext]_allVars
    PROVE  EvidenceInv'
<1>1. ASSUME UNCHANGED <<env, tee, req, entry, userData>>,
             boot' # "stopped" => boot # "stopped",
             boot = "serving" => boot' = "serving"
      PROVE  EvidenceInv'
  <2>1. RequestType' /\ DetectTeeType' = DetectTeeType
    BY <1>1, DetectStays DEF EvidenceInv, RequestType
  <2>2. ServingInv'
    BY <1>1, <2>1 DEF EvidenceInv, ServingInv
  <2>. QED
    BY <1>1, <2>1, <2>2 DEF EvidenceInv, TsmInv, QuoteInv, Bound
<1>2. CASE New
  <2>1. /\ UNCHANGED <<env, req, entry, userData>> /\ boot = "stopped"
        /\ tee' = DetectTeeType /\ DetectTeeType' = DetectTeeType
    BY <1>2, DetectStays DEF New
  <2>2. \A r \in Requests : req[r].pc = "idle" /\ (req[r].out = "ok" => tee' = tee)
    BY <2>1 DEF EvidenceInv, ServingInv
  <2>3. RequestType' /\ ServingInv'
    BY <2>1, <2>2 DEF EvidenceInv, RequestType, ServingInv
  <2>4. \A r \in Requests : (TsmInv(req[r], entry[r]) /\ QuoteInv(req[r]))'
    BY <2>1, <2>2 DEF EvidenceInv, TsmInv, QuoteInv, Bound
  <2>. QED
    BY <2>3, <2>4 DEF EvidenceInv
<1>3. CASE EndOfProcess
  <2>1. /\ UNCHANGED <<env, tee, userData>> /\ boot' = "stopped"
        /\ DetectTeeType' = DetectTeeType
    BY <1>3, DetectStays DEF EndOfProcess
  <2>2. \A r \in Requests :
           /\ req'[r] = IF req[r].pc = "idle" THEN req[r] ELSE NoRequest
           /\ entry'[r] = NoEntry
    BY <1>3 DEF EndOfProcess
  <2>3. RequestType'
    BY <1>3, <2>1, <2>2, NoRequestType DEF EvidenceInv, RequestType, EndOfProcess
  <2>4. \A r \in Requests : req'[r].pc = "idle" /\ (req'[r].out = "ok" => req'[r] = req[r])
    BY <2>2, NoRequestType DEF None
  <2>5. ServingInv'
    BY <2>1, <2>4 DEF EvidenceInv, ServingInv
  <2>6. \A r \in Requests : (TsmInv(req[r], entry[r]) /\ QuoteInv(req[r]))'
    BY <2>1, <2>2, <2>4, NoRequestType DEF EvidenceInv, TsmInv, QuoteInv, Bound
  <2>. QED
    BY <2>3, <2>5, <2>6 DEF EvidenceInv
<1>4. CASE StartLog \/ StartLogFails \/ ServeWithoutLog \/ BindInitData \/ InitDataRefused
  BY <1>1, <1>4 DEF StartLog, StartLogFails, ServeWithoutLog, BindInitData, InitDataRefused
<1>5. CASE LogRequest \/ BindInitDataRequest \/ UNCHANGED allVars
  BY <1>1, <1>5 DEF LogRequest, BindInitDataRequest, allVars, agentVars
<1>. QED
  BY <1>2, <1>3, <1>4, <1>5, EvidenceRequestStep
     DEF AgentNext, Starting, AgentCrash, StopWithoutLog

\* The invariant holds throughout, beside that of the log.
LEMMA EvidenceInvariance == AgentSpec => []EvidenceInv
<1>1. EvidenceInv /\ IInv /\ env \in Envs /\ [AgentNext]_allVars => EvidenceInv'
  BY EvidenceStep DEF IInv
<1>. QED
  BY EvidenceInit, AgentInvariance, PlatformStays, <1>1, PTL DEF AgentSpec

\* get_evidence answers with a quote over the request's own data, whatever
\* other requests and processes do to the TSM directory meanwhile: the check
\* of the generation in check_inblob_write_race is enough.
THEOREM QuoteCorrect == AgentSpec => []QuoteAnswersRequest
<1>1. EvidenceInv => QuoteAnswersRequest
  BY DEF EvidenceInv, QuoteInv, QuoteAnswersRequest, Evidenced
<1>. QED
  BY EvidenceInvariance, <1>1, PTL

\* A directory loses its owner only with the process.
LeakInv == stops \in Nat /\ (leaked > 0 => crashes + stops > 0)

\* One more end of a process than none.
LEMMA SumPositive == \A m, n \in Nat : n + 1 \in Nat /\ m + (n + 1) > 0
  OBVIOUS

\* No step but the end of a process leaves a directory without an owner.
LEMMA LeakStep ==
    ASSUME LeakInv, IInv, IInv', [AgentNext]_allVars
    PROVE  LeakInv'
<1>1. crashes \in Nat /\ crashes' \in Nat
  BY DEF IInv, TypeOK
<1>2. CASE AgentCrash
  <2>1. crashes' = crashes + 1 /\ stops' = stops
    BY <1>2 DEF AgentCrash, Crash
  <2>. QED
    BY <1>1, <2>1 DEF LeakInv
<1>3. CASE StopWithoutLog
  <2>1. stops \in Nat /\ stops' = stops + 1
    BY <1>3 DEF StopWithoutLog, LeakInv
  <2>2. stops + 1 \in Nat /\ crashes' + (stops + 1) > 0
    BY <1>1, <2>1, SumPositive
  <2>. QED
    BY <2>1, <2>2 DEF LeakInv
<1>4. CASE InitDataRefused
  <2>1. stops \in Nat /\ stops' = stops + 1
    BY <1>4 DEF InitDataRefused, LeakInv
  <2>2. stops + 1 \in Nat /\ crashes' + (stops + 1) > 0
    BY <1>1, <2>1, SumPositive
  <2>. QED
    BY <2>1, <2>2 DEF LeakInv
<1>5. ASSUME UNCHANGED <<leaked, stops, crashes>> PROVE LeakInv'
  BY <1>5 DEF LeakInv
<1>6. CASE Starting \/ StartLogFails \/ BindInitDataRequest \/ UNCHANGED allVars
  BY <1>5, <1>6 DEF Starting, New, BindInitData, ServeWithoutLog, StartLog, StartLogFails,
       StartFails, Start, CreateLog, OpenEmptyLog, CheckLog, RecoverExtend, AppendInit,
       AppendInitRefused, ExtendInit, BindInitDataRequest, allVars, agentVars, vars
<1>7. CASE LogRequest
  BY <1>5, <1>7 DEF LogRequest, agentVars, Call, Serve, AppendEntry, ExtendEntry,
       AppendEntryFails, ExtendEntryFails
<1>8. ASSUME NEW r \in Requests,
             GetEvidence(r) \/ Evidence(r) \/ OtherWrites(r) \/ EvidenceFails(r)
      PROVE  UNCHANGED <<leaked, stops, crashes>>
  BY <1>8, RequestStep DEF vars
<1>. QED
  BY <1>2, <1>3, <1>4, <1>5, <1>6, <1>7, <1>8 DEF AgentNext

\* Every way out of a TSM report removes its directory: one is left behind only
\* by a process that ended (TsmReportPath's Drop and the early return in new).
THEOREM TsmEntriesCorrect == AgentSpec => []TsmEntriesRemoved
<1>1. AgentInit => LeakInv
  BY DEF AgentInit, LeakInv
<1>2. LeakInv /\ IInv /\ IInv' /\ [AgentNext]_allVars => LeakInv'
  BY LeakStep
<1>3. EvidenceInv /\ LeakInv => TsmEntriesRemoved
  BY DEF EvidenceInv, LeakInv, TsmInv, TsmEntriesRemoved
<1>. QED
  BY EvidenceInvariance, AgentInvariance, <1>1, <1>2, <1>3, PTL DEF AgentSpec

-----------------------------------------------------------------------------
(* Evidence and the log it carries.                                         *)

\* Every digest of a quote's registers has its line among lines; its initial
\* register is the replay of some of the first of them.
QuoteLogged(regs, lines) ==
    \A g \in Registers : \A i \in 1..Len(regs[g]) : Logged(regs[g][i], lines)
QuoteReplays(regs, lines, init) ==
    \E k \in 0..Len(lines) : regs[InitPcr] = AccumulateHash(init, SubSeq(lines, 1, k))

\* A quote is covered by the log as it is from then on; when the evidence has
\* been collected it is covered by the log it carries.
CoverHas(q) ==
    /\ q.pc \in {"generation", "collect"} =>
          /\ QuoteLogged(q.quote.regs, log)
          /\ ~disturbed => QuoteReplays(q.quote.regs, log, initState)
    /\ q.pc = "post" \/ (q.pc = "idle" /\ q.out = "ok") =>
          /\ DetectTeeType = "tdx" =>
                /\ QuoteLogged(q.quote.regs, q.aael)
                /\ ~disturbed => QuoteReplays(q.quote.regs, q.aael, initState)
          /\ env.log => log # <<>>

\* Without an event log there is none; with one the agent serves with it.
LogServes ==
    /\ ~env.log => aa = "down" /\ log = <<>> /\ rtmr[InitPcr] = initState
    /\ env.log /\ boot = "serving" => aa = "up"

CoverInv == LogServes /\ \A r \in Requests : CoverHas(req[r])

\* What is covered stays so when the log goes on.
LEMMA CoversGrow ==
    ASSUME NEW lines \in Seq(AllLines), NEW more \in Seq(AllLines), Continues(more, lines),
           NEW regs, NEW init
    PROVE  /\ QuoteLogged(regs, lines) => QuoteLogged(regs, more)
           /\ QuoteReplays(regs, lines, init) => QuoteReplays(regs, more, init)
<1>1. QuoteLogged(regs, lines) => QuoteLogged(regs, more)
  BY LoggedStays DEF QuoteLogged
<1>2. ASSUME NEW k \in 0..Len(lines), regs[InitPcr] = AccumulateHash(init, SubSeq(lines, 1, k))
      PROVE  QuoteReplays(regs, more, init)
  <2>1. Len(lines) \in Nat /\ Len(more) \in Nat /\ Len(lines) <= Len(more)
        /\ \A i \in 1..Len(lines) : more[i] = lines[i]
    BY DEF Continues
  <2>2. k \in 0..Len(more) /\ k \in Int /\ 1 \in Int
    BY <2>1
  <2>3. \A i \in 1..k : i \in 1..Len(lines) /\ i \in 1..Len(more)
    BY <2>1
  <2>4. \A i \in 1..k : lines[i] \in AllLines /\ more[i] \in AllLines /\ more[i] = lines[i]
    BY <2>1, <2>3, ElementOfSeq
  <2>5. PICK a, b : a = SubSeq(more, 1, k) /\ b = SubSeq(lines, 1, k)
    OBVIOUS
  <2>6. /\ a \in Seq(AllLines) /\ Len(a) = k /\ \A i \in 1..k : a[i] = more[i]
        /\ b \in Seq(AllLines) /\ Len(b) = k /\ \A i \in 1..k : b[i] = lines[i]
    <3>1. \A i \in 1..(k - 1 + 1) : i \in 1..k /\ 1 + i - 1 = i
      BY <2>2
    <3>2. (IF 1 <= k THEN k - 1 + 1 ELSE 0) = k
      BY <2>2
    <3>. QED
      BY <2>2, <2>4, <2>5, <3>1, <3>2, SubSeqProperties
  <2>7. a = b
    BY <2>4, <2>6, SeqEqual
  <2>8. regs[InitPcr] = AccumulateHash(init, SubSeq(more, 1, k))
    BY <1>2, <2>5, <2>7
  <2>. QED
    BY <2>2, <2>8 DEF QuoteReplays
<1>. QED
  BY <1>1, <1>2 DEF QuoteReplays

\* At any time the log covers the registers: it is written first.
LEMMA NowCovers ==
    ASSUME IInv, MeasuredInv, log = <<>> => rtmr[InitPcr] = initState
    PROVE  /\ QuoteLogged(rtmr, log)
           /\ ~disturbed => QuoteReplays(rtmr, log, initState)
<1>1. QuoteLogged(rtmr, log)
  BY DEF MeasuredInv, QuoteLogged
<1>2. /\ log \in Seq(AllLines) /\ initState \in Seq(Digests) /\ Len(log) \in Nat
      /\ rtmr[InitPcr] \in Seq(Digests)
  BY ConstantsAssumption DEF IInv, TypeOK
<1>3. CASE log = <<>>
  <2>1. AccumulateHash(initState, SubSeq(log, 1, 0)) = initState
    <3>1. SubSeq(log, 1, 0) = <<>>
      BY <1>2
    <3>. QED
      BY <1>2, <3>1, AccumulateEmpty
  <2>2. 0 \in 0..Len(log)
    BY <1>2
  <2>3. rtmr[InitPcr] = AccumulateHash(initState, SubSeq(log, 1, 0))
    BY <1>3, <2>1
  <2>. QED
    BY <1>1, <2>2, <2>3 DEF QuoteReplays
<1>4. CASE log # <<>> /\ ~disturbed /\ InSync
  <2>1. Len(log) \in 0..Len(log) /\ SubSeq(log, 1, Len(log)) = log
    BY <1>2
  <2>2. rtmr[InitPcr] = AccumulateHash(initState, SubSeq(log, 1, Len(log)))
    BY <1>4, <2>1 DEF InSync
  <2>. QED
    BY <1>1, <2>1, <2>2 DEF QuoteReplays
<1>5. CASE log # <<>> /\ ~disturbed /\ Behind
  <2>1. PICK k, lines, last : /\ k = Len(log) - 1 /\ lines = SubSeq(log, 1, k)
                              /\ last = log[Len(log)]
    OBVIOUS
  <2>2. Len(log) # 0
    BY <1>2, <1>5
  <2>3. k \in 0..Len(log) /\ Len(log) \in 1..Len(log)
    BY <1>2, <2>1, <2>2
  <2>4. lines \in Seq(AllLines) /\ last \in AllLines /\ log = Append(lines, last)
    <3>1. last \in AllLines
      BY <1>2, <2>1, <2>3, ElementOfSeq
    <3>2. lines \in Seq(AllLines) /\ Len(lines) = k /\ \A j \in 1..k : lines[j] = log[j]
      BY <1>2, <2>1, <2>3
    <3>3. /\ Append(lines, last) \in Seq(AllLines) /\ Len(Append(lines, last)) = Len(log)
          /\ \A j \in 1..Len(log) : Append(lines, last)[j] = log[j]
      BY <1>2, <2>1, <2>2, <3>1, <3>2
    <3>4. log = Append(lines, last)
      BY <1>2, <3>3, SeqEqual
    <3>. QED
      BY <3>1, <3>2, <3>4
  <2>5. PICK before, d : before = AccumulateHash(initState, lines) /\ d = ParsedDigest(last)
    OBVIOUS
  <2>6. before \in Seq(Digests) /\ d \in Digests /\ AccumulateHash(initState, log) = Append(before, d)
    BY <1>2, <2>4, <2>5, AccumulateAppend, DigestType
  <2>7. Append(rtmr[InitPcr], d) = Append(before, d)
    BY <1>5, <2>1, <2>5, <2>6 DEF Behind
  <2>8. rtmr[InitPcr] = before
    <3>1. PICK x : x = rtmr[InitPcr]
      OBVIOUS
    <3>2. x \in Seq(Digests) /\ Append(x, d) = Append(before, d)
      BY <1>2, <2>7, <3>1
    <3>. QED
      BY <2>6, <3>1, <3>2, AppendInjective
  <2>9. rtmr[InitPcr] = AccumulateHash(initState, SubSeq(log, 1, k))
    BY <2>1, <2>5, <2>8
  <2>. QED
    BY <1>1, <2>3, <2>9 DEF QuoteReplays
<1>. QED
  BY <1>1, <1>3, <1>4, <1>5 DEF IInv, ReplayInv

\* What a step of the log may change of what evidence depends on.
LEMMA LogMoves ==
    ASSUME IInv, [Next]_vars
    PROVE  /\ log' = log \/ (log' \in Seq(AllLines) /\ Continues(log', log))
           /\ disturbed => disturbed'
           /\ initState' = initState \/ AppendInit
<1>1. CASE AppendInit
  BY <1>1, AppendContinues DEF AppendInit, AllLines, IInv, TypeOK
<1>2. ASSUME NEW c \in Callers, AppendEntry(c)
      PROVE  /\ log' \in Seq(AllLines) /\ Continues(log', log)
             /\ disturbed => disturbed'
             /\ initState' = initState
  BY <1>2, AppendEntryLog, ConcatContinues DEF AppendEntry, NoteAppend, IInv, TypeOK
<1>3. CASE CreateLog \/ OpenEmptyLog \/ CheckLog \/ RecoverExtend \/ AppendInitRefused \/ ExtendInit
           \/ StartFails
  BY <1>3 DEF CreateLog, OpenEmptyLog, CheckLog, RecoverExtend, AppendInitRefused, ExtendInit,
              StartFails
<1>4. CASE Crash
  BY <1>4 DEF Crash, NoteAbandoned
<1>5. ASSUME NEW c \in Callers, NEW line \in Lines, NEW reg \in Registers, Call(c, line, reg)
      PROVE  log' = log /\ disturbed' = disturbed /\ initState' = initState
  BY <1>5 DEF Call
<1>6. ASSUME NEW c \in Callers, AppendEntryFails(c) \/ ExtendEntry(c)
      PROVE  log' = log /\ disturbed' = disturbed /\ initState' = initState
  BY <1>6 DEF AppendEntryFails, ExtendEntry
<1>7. ASSUME NEW c \in Callers, ExtendEntryFails(c)
      PROVE  log' = log /\ (disturbed => disturbed') /\ initState' = initState
  BY <1>7 DEF ExtendEntryFails, NoteAbandoned
<1>8. CASE UNCHANGED vars
  BY <1>8 DEF vars
<1>. QED
  BY <1>1, <1>2, <1>3, <1>4, <1>5, <1>6, <1>7, <1>8 DEF Next, Start, Serve

\* A step that leaves a request alone leaves it covered.
LEMMA CoverStays ==
    ASSUME IInv, [Next]_vars, LogServes, env' = env, NEW q, CoverHas(q),
           q.pc \in {"generation", "collect"} => boot = "serving",
           AppendInit => boot = "init" /\ env.log
    PROVE  CoverHas(q)'
<1>1. /\ log' = log \/ (log' \in Seq(AllLines) /\ Continues(log', log))
      /\ disturbed => disturbed'
      /\ initState' = initState \/ AppendInit
  BY LogMoves
<1>2. DetectTeeType' = DetectTeeType
  BY DetectStays
<1>3. log \in Seq(AllLines) /\ (AppendInit => log = <<>>)
  BY DEF IInv, TypeOK, FileInv, AppendInit
<1>4. CASE q.pc \in {"generation", "collect"}
  <2>1. initState' = initState
    BY <1>1, <1>4
  <2>2. QuoteLogged(q.quote.regs, log) /\ (~disturbed => QuoteReplays(q.quote.regs, log, initState))
    BY <1>4 DEF CoverHas
  <2>3. /\ QuoteLogged(q.quote.regs, log')
        /\ ~disturbed' => QuoteReplays(q.quote.regs, log', initState')
    BY <1>1, <1>3, <2>1, <2>2, CoversGrow
  <2>4. q.pc # "post" /\ q.pc # "idle"
    BY <1>4
  <2>. QED
    BY <2>3, <2>4 DEF CoverHas, QuoteLogged, QuoteReplays, Logged, Accounts,
                            StandsAt, FileLines, AllLines, AccumulateHash, Digest, ParsedDigest
<1>5. CASE q.pc = "post" \/ (q.pc = "idle" /\ q.out = "ok")
  <2>1. env.log => log # <<>>
    BY <1>5 DEF CoverHas
  <2>2. initState' = initState
    BY <1>1, <1>3, <2>1
  <2>3. env'.log => log' # <<>>
    <3>1. ASSUME log # <<>>, log' \in Seq(AllLines), Continues(log', log) PROVE log' # <<>>
      BY <1>3, <3>1 DEF Continues
    <3>. QED
      BY <1>1, <1>3, <2>1, <3>1
  <2>4. DetectTeeType = "tdx" =>
            /\ QuoteLogged(q.quote.regs, q.aael)
            /\ ~disturbed => QuoteReplays(q.quote.regs, q.aael, initState)
    BY <1>5 DEF CoverHas
  <2>5. DetectTeeType' = "tdx" =>
            /\ QuoteLogged(q.quote.regs, q.aael)
            /\ ~disturbed' => QuoteReplays(q.quote.regs, q.aael, initState')
    BY <1>1, <1>2, <2>2, <2>4
  <2>6. q.pc \notin {"generation", "collect"}
    BY <1>5
  <2>. QED
    BY <2>3, <2>5, <2>6 DEF CoverHas, QuoteLogged, QuoteReplays, Logged, Accounts,
                            StandsAt, FileLines, AllLines, AccumulateHash, Digest,
                            ParsedDigest
<1>. QED
  BY <1>4, <1>5 DEF CoverHas

\* What a request for evidence makes of its record o: it gets its quote from
\* the registers as they are, and its log after that.
RequestMove(o, q) ==
    \/ q = o
    \/ q.pc \in {"start", "inblob", "outblob", "ioctl", "quote"}
    \/ q.pc = "idle" /\ q.out # "ok"
    \/ boot = "serving" /\ q.pc \in {"generation", "collect"} /\ q.quote.regs = rtmr
    \/ o.pc = "generation" /\ q.pc = "collect" /\ q.quote = o.quote
    \/ /\ boot = "serving" /\ o.pc = "collect" /\ q.pc \in {"post", "idle"}
       /\ q.quote = o.quote /\ (q.aael = IF tee = "tdx" /\ file THEN log ELSE <<>>)
    \/ o.pc = "post" /\ q.pc = "idle" /\ q.quote = o.quote /\ q.aael = o.aael

LEMMA RequestMoves ==
    ASSUME EvidenceInv, NEW r \in Requests,
           GetEvidence(r) \/ Evidence(r) \/ OtherWrites(r) \/ EvidenceFails(r)
    PROVE  \E q : req' = [req EXCEPT ![r] = q] /\ RequestMove(req[r], q)
<1>1. PICK o : o = req[r]
  OBVIOUS
<1>2. o \in RequestRecord /\ req = [req EXCEPT ![r] = o] /\ NoRequest \in RequestRecord
  BY <1>1, NoRequestType DEF EvidenceInv, RequestType
\* Common to the steps below: another place, an answer, a quote.
<1>3. ASSUME NEW pc \in {"start", "inblob", "outblob", "ioctl", "quote"}, Goto(r, pc)
      PROVE  \E q : req' = [req EXCEPT ![r] = q] /\ RequestMove(o, q)
  <2>1. PICK q : q = [o EXCEPT !.pc = pc]
    OBVIOUS
  <2>2. q.pc = pc
    BY <1>2, <2>1 DEF RequestRecord
  <2>3. req' = [req EXCEPT ![r] = q]
    BY <1>1, <1>3, <2>1 DEF Goto
  <2>. QED
    BY <2>2, <2>3 DEF RequestMove
<1>4. ASSUME Answer(r, "error") PROVE \E q : req' = [req EXCEPT ![r] = q] /\ RequestMove(o, q)
  <2>1. PICK q : q = [o EXCEPT !.pc = "idle", !.out = "error"]
    OBVIOUS
  <2>2. q.pc = "idle" /\ q.out = "error"
    BY <1>2, <2>1 DEF RequestRecord
  <2>3. req' = [req EXCEPT ![r] = q]
    BY <1>1, <1>4, <2>1 DEF Answer
  <2>. QED
    BY <2>2, <2>3 DEF RequestMove
<1>5. ASSUME NEW d, NEW pc \in {"generation", "collect"}, GotQuote(r, d, pc), boot = "serving"
      PROVE  \E q : req' = [req EXCEPT ![r] = q] /\ RequestMove(o, q)
  <2>1. PICK x : x = QuoteOf(d)
    OBVIOUS
  <2>2. x.regs = rtmr
    BY <2>1 DEF QuoteOf
  <2>3. PICK q : q = [o EXCEPT !.pc = pc, !.quote = x]
    OBVIOUS
  <2>4. q.pc = pc /\ q.quote = x
    BY <1>2, <2>3 DEF RequestRecord
  <2>5. req' = [req EXCEPT ![r] = q]
    BY <1>1, <1>5, <2>1, <2>3 DEF GotQuote
  <2>. QED
    BY <1>5, <2>2, <2>4, <2>5 DEF RequestMove
<1>6. CASE GetEvidence(r)
  <2>1. PICK d, k : req' = [req EXCEPT ![r] =
                              [NoRequest EXCEPT !.pc = "start", !.kind = k, !.data = d]]
    BY <1>6 DEF GetEvidence
  <2>2. PICK q : q = [NoRequest EXCEPT !.pc = "start", !.kind = k, !.data = d]
    OBVIOUS
  <2>3. q.pc = "start"
    BY <1>2, <2>2 DEF RequestRecord
  <2>. QED
    BY <1>1, <2>1, <2>2, <2>3 DEF RequestMove
<1>7. CASE TsmReportPathNew(r) \/ WriteInblob(r) \/ WriteUserReportData(r)
  <2>1. \E pc \in {"inblob", "ioctl", "outblob", "quote"} : Goto(r, pc)
    BY <1>7 DEF TsmReportPathNew, WriteInblob, WriteUserReportData
  <2>. QED
    BY <1>1, <1>3, <2>1
<1>8. CASE RefuseData(r) \/ EvidenceFails(r)
  BY <1>1, <1>4, <1>8 DEF RefuseData, EvidenceFails
<1>9. CASE ReadOutblob(r) \/ ReadQuote(r)
  BY <1>1, <1>5, <1>9 DEF ReadOutblob, ReadQuote, At
<1>10. ASSUME NEW pc, NEW t, QuoteAtOnce(r, pc, t)
       PROVE  \E q : req' = [req EXCEPT ![r] = q] /\ RequestMove(o, q)
  BY <1>5, <1>10 DEF QuoteAtOnce, At
<1>11. CASE CheckInblobWriteRace(r)
  <2>1. CASE Answer(r, "error")
    BY <1>1, <1>4, <2>1
  <2>2. CASE Goto(r, "collect")
    <3>1. PICK q : q = [o EXCEPT !.pc = "collect"]
      OBVIOUS
    <3>2. q.pc = "collect" /\ q.quote = o.quote
      BY <1>2, <3>1 DEF RequestRecord
    <3>3. req' = [req EXCEPT ![r] = q] /\ o.pc = "generation"
      BY <1>1, <1>11, <2>2, <3>1 DEF Goto, CheckInblobWriteRace, At
    <3>. QED
      BY <1>1, <3>2, <3>3 DEF RequestMove
  <2>. QED
    BY <1>11, <2>1, <2>2 DEF CheckInblobWriteRace
<1>12. CASE Collect(r)
  <2>1. PICK pc, l, out : /\ pc = (IF o.kind = "token" THEN "post" ELSE "idle")
                          /\ l = (IF tee = "tdx" /\ file THEN log ELSE <<>>)
                          /\ out = (IF o.kind = "token" THEN None ELSE "ok")
    OBVIOUS
  <2>2. PICK q : q = [o EXCEPT !.pc = pc, !.aael = l, !.out = out]
    OBVIOUS
  <2>3. q.pc = pc /\ q.aael = l /\ q.quote = o.quote
    BY <1>2, <2>2 DEF RequestRecord
  <2>4. req' = [req EXCEPT ![r] = q]
    BY <1>1, <1>12, <2>1, <2>2, Zenon DEF Collect
  <2>5. boot = "serving" /\ o.pc = "collect" /\ pc \in {"post", "idle"}
    BY <1>1, <1>12, <2>1 DEF Collect, At
  <2>. QED
    BY <1>1, <2>1, <2>3, <2>4, <2>5 DEF RequestMove
<1>13. CASE Post(r)
  <2>1. CASE Answer(r, "error")
    BY <1>1, <1>4, <2>1
  <2>2. CASE Answer(r, "ok")
    <3>1. PICK q : q = [o EXCEPT !.pc = "idle", !.out = "ok"]
      OBVIOUS
    <3>2. q.pc = "idle" /\ q.quote = o.quote /\ q.aael = o.aael
      BY <1>2, <3>1 DEF RequestRecord
    <3>3. req' = [req EXCEPT ![r] = q] /\ o.pc = "post"
      BY <1>1, <1>13, <2>2, <3>1 DEF Answer, Post, At
    <3>. QED
      BY <1>1, <3>2, <3>3 DEF RequestMove
  <2>. QED
    BY <1>13, <2>1, <2>2 DEF Post
<1>14. CASE OtherWrites(r)
  BY <1>1, <1>2, <1>14 DEF OtherWrites, RequestMove
<1>. QED
  BY <1>1, <1>6, <1>7, <1>8, <1>9, <1>10, <1>11, <1>12, <1>13, <1>14
     DEF Evidence, GetQuoteIoctl, OcclumQuote, SnpReport, CsvReport, SeAttestation,
         AzSnpQuote, AzTdxQuote, SampleQuote

\* So the request stays covered.
LEMMA MoveCovered ==
    ASSUME IInv, MeasuredInv, LogServes, NEW o, CoverHas(o), NEW q, RequestMove(o, q),
           boot = "serving" => tee = DetectTeeType
    PROVE  CoverHas(q)
<1>1. CASE q = o
  BY <1>1
<1>2. CASE q.pc \in {"start", "inblob", "outblob", "ioctl", "quote"} \/ (q.pc = "idle" /\ q.out # "ok")
  BY <1>2 DEF CoverHas
<1>3. CASE boot = "serving" /\ q.pc \in {"generation", "collect"} /\ q.quote.regs = rtmr
  <2>1. log = <<>> => rtmr[InitPcr] = initState
    BY <1>3 DEF LogServes, IInv, FileInv
  <2>2. /\ QuoteLogged(rtmr, log)
        /\ ~disturbed => QuoteReplays(rtmr, log, initState)
    BY <2>1, NowCovers
  <2>. QED
    BY <1>3, <2>2 DEF CoverHas
<1>4. CASE o.pc = "generation" /\ q.pc = "collect" /\ q.quote = o.quote
  BY <1>4 DEF CoverHas
<1>5. CASE /\ boot = "serving" /\ o.pc = "collect" /\ q.pc \in {"post", "idle"}
           /\ q.quote = o.quote /\ (q.aael = IF tee = "tdx" /\ file THEN log ELSE <<>>)
  <2>1. env.log => log # <<>>
    BY <1>5 DEF LogServes, IInv, FileInv
  <2>2. DetectTeeType = "tdx" => q.aael = log
    BY <1>5 DEF IInv, FileInv
  <2>3. /\ QuoteLogged(o.quote.regs, log)
        /\ ~disturbed => QuoteReplays(o.quote.regs, log, initState)
    BY <1>5 DEF CoverHas
  <2>. QED
    BY <1>5, <2>1, <2>2, <2>3 DEF CoverHas
<1>6. CASE o.pc = "post" /\ q.pc = "idle" /\ q.quote = o.quote /\ q.aael = o.aael
  BY <1>6 DEF CoverHas
<1>. QED
  BY <1>1, <1>2, <1>3, <1>4, <1>5, <1>6 DEF RequestMove

\* A step that is no request for evidence.
LEMMA OtherStep ==
    ASSUME IInv, [AgentNext]_allVars, LogServes
    PROVE  /\ LogServes' /\ env' = env
           /\ AppendInit => boot = "init" /\ env.log
<1>1. CASE StartLog \/ StartLogFails
  <2>1. env.log /\ boot = "init" /\ env' = env /\ boot' = (IF aa' = "up" THEN "serving" ELSE IF aa' = "down" THEN "stopped" ELSE "init")
    BY <1>1 DEF StartLog, StartLogFails, AfterLogStep
  <2>. QED
    BY <2>1 DEF LogServes
<1>2. CASE New \/ BindInitData \/ ServeWithoutLog \/ InitDataRefused \/ StopWithoutLog \/ BindInitDataRequest
  <2>1. UNCHANGED vars /\ env' = env /\ (env.log /\ boot' = "serving" => boot = "serving")
    BY <1>2 DEF New, BindInitData, ServeWithoutLog, InitDataRefused, StopWithoutLog,
                BindInitDataRequest, EndOfProcess
  <2>2. ~AppendInit
    BY <2>1 DEF vars, AppendInit
  <2>. QED
    BY <2>1, <2>2 DEF LogServes, vars
<1>3. CASE AgentCrash
  <2>1. env' = env /\ boot' = "stopped" /\ Crash
    BY <1>3 DEF AgentCrash, EndOfProcess
  <2>2. ~AppendInit /\ aa # "down"
    BY <2>1 DEF Crash, AppendInit
  <2>. QED
    BY <2>1, <2>2 DEF LogServes
<1>4. CASE LogRequest
  <2>1. env' = env /\ boot' = boot /\ boot = "serving"
    BY <1>4 DEF LogRequest, agentVars
  <2>2. ASSUME NEW c \in Callers, \/ \E line \in Lines, reg \in Registers : Call(c, line, reg)
                                  \/ Serve(c) \/ AppendEntryFails(c) \/ ExtendEntryFails(c)
        PROVE  aa = "up" /\ aa' = "up" /\ ~AppendInit
    <3>1. aa' = aa /\ (aa = "up" \/ call[c].pc # "idle")
      BY <2>2 DEF Call, Serve, AppendEntry, ExtendEntry, AppendEntryFails, ExtendEntryFails
    <3>2. aa = "up"
      BY <3>1 DEF IInv, LockInv
    <3>. QED
      BY <3>1, <3>2 DEF AppendInit
  <2>3. aa = "up" /\ aa' = "up" /\ ~AppendInit
    BY <1>4, <2>2 DEF LogRequest
  <2>. QED
    BY <2>1, <2>3 DEF LogServes
<1>5. ASSUME NEW r \in Requests, GetEvidence(r) \/ Evidence(r) \/ OtherWrites(r) \/ EvidenceFails(r)
      PROVE  /\ LogServes' /\ env' = env
             /\ AppendInit => boot = "init" /\ env.log
  <2>1. UNCHANGED <<vars, env, boot>>
    BY <1>5, RequestStep
  <2>2. ~AppendInit
    BY <2>1 DEF vars, AppendInit
  <2>. QED
    BY <2>1, <2>2 DEF LogServes, vars
<1>6. CASE UNCHANGED allVars
  <2>1. UNCHANGED <<vars, env, boot>>
    BY <1>6 DEF allVars, agentVars
  <2>2. ~AppendInit
    BY <2>1 DEF vars, AppendInit
  <2>. QED
    BY <2>1, <2>2 DEF LogServes, vars
<1>. QED
  BY <1>1, <1>2, <1>3, <1>4, <1>5, <1>6 DEF AgentNext, Starting

LEMMA CoverStep ==
    IInv /\ MeasuredInv /\ EvidenceInv /\ CoverInv /\ [AgentNext]_allVars => CoverInv'
<1>. SUFFICES ASSUME IInv, MeasuredInv, EvidenceInv, CoverInv, [AgentNext]_allVars PROVE CoverInv'
  OBVIOUS
<1>1. /\ LogServes /\ LogServes' /\ env' = env
      /\ AppendInit => boot = "init" /\ env.log
  BY OtherStep DEF CoverInv
<1>2. ASSUME NEW q, CoverHas(q), q.pc \in {"generation", "collect"} => boot = "serving"
      PROVE  CoverHas(q)'
  BY <1>1, <1>2, AgentStep, CoverStays
<1>3. \A s \in Requests : CoverHas(req[s]) /\ (req[s].pc # "idle" => boot = "serving")
  BY DEF CoverInv, EvidenceInv, ServingInv
<1>4. \A s \in Requests : CoverHas(req[s]) /\ (req[s].pc \in {"generation", "collect"} => boot = "serving")
  BY <1>3
<1>5. CASE UNCHANGED req
  <2>1. ASSUME NEW s \in Requests PROVE CoverHas(req[s])'
    <3>1. PICK q : q = req[s]
      OBVIOUS
    <3>2. CoverHas(q)'
      BY <1>2, <1>4, <3>1
    <3>3. req'[s] = q
      BY <1>5, <3>1
    <3>. QED
      BY <3>2, <3>3 DEF CoverHas
  <2>. QED
    BY <1>1, <2>1 DEF CoverInv
<1>6. CASE EndOfProcess
  <2>1. ASSUME NEW s \in Requests PROVE CoverHas(req[s])'
    <3>1. PICK q, n : q = req[s] /\ n = req'[s]
      OBVIOUS
    <3>2. n = q \/ n = NoRequest
      BY <1>6, <3>1 DEF EndOfProcess
    <3>3. CASE n = q
      <4>1. CoverHas(q)'
        BY <1>2, <1>4, <3>1
      <4>. QED
        BY <3>1, <3>3, <4>1 DEF CoverHas
    <3>4. CASE n = NoRequest
      <4>1. n.pc = "idle" /\ n.out # "ok"
        BY <3>4, NoRequestType DEF None
      <4>. QED
        BY <3>1, <4>1 DEF CoverHas
    <3>. QED
      BY <3>2, <3>3, <3>4
  <2>. QED
    BY <1>1, <2>1 DEF CoverInv
<1>7. ASSUME NEW r \in Requests, GetEvidence(r) \/ Evidence(r) \/ OtherWrites(r) \/ EvidenceFails(r)
      PROVE  CoverInv'
  <2>1. PICK q : req' = [req EXCEPT ![r] = q] /\ RequestMove(req[r], q)
    BY <1>7, RequestMoves
  <2>2. UNCHANGED <<vars, env, boot, tee>>
    BY <1>7, RequestStep
  <2>3. boot = "serving" => tee = DetectTeeType
    BY DEF EvidenceInv, ServingInv
  <2>4. CoverHas(q)
    BY <1>1, <1>3, <2>1, <2>3, MoveCovered
  <2>5. \A s \in Requests : req'[s] = IF s = r THEN q ELSE req[s]
    BY <2>1 DEF EvidenceInv, RequestType
  <2>6. ASSUME NEW s \in Requests PROVE CoverHas(req[s])'
    <3>1. PICK n : n = req'[s]
      OBVIOUS
    <3>2. CoverHas(n)
      BY <1>3, <2>4, <2>5, <3>1
    <3>3. DetectTeeType' = DetectTeeType
      BY <1>1, DetectStays
    <3>4. /\ QuoteLogged(n.quote.regs, log)' = QuoteLogged(n.quote.regs, log)
          /\ QuoteReplays(n.quote.regs, log, initState)' = QuoteReplays(n.quote.regs, log, initState)
          /\ QuoteLogged(n.quote.regs, n.aael)' = QuoteLogged(n.quote.regs, n.aael)
          /\ QuoteReplays(n.quote.regs, n.aael, initState)' = QuoteReplays(n.quote.regs, n.aael, initState)
      BY <2>2 DEF vars, QuoteLogged, QuoteReplays, Logged, Accounts,
                            StandsAt, FileLines, AllLines, AccumulateHash, Digest, ParsedDigest
    <3>5. CoverHas(n)'
      BY <2>2, <3>2, <3>3, <3>4 DEF CoverHas, vars
    <3>. QED
      BY <3>1, <3>5 DEF CoverHas
  <2>. QED
    BY <1>1, <2>6 DEF CoverInv
<1>8. UNCHANGED req \/ EndOfProcess
      \/ \E r \in Requests : GetEvidence(r) \/ Evidence(r) \/ OtherWrites(r) \/ EvidenceFails(r)
  BY DEF AgentNext, allVars, agentVars, Starting, New, BindInitData, ServeWithoutLog, StartLog,
         InitDataRefused, StartLogFails, AgentCrash, StopWithoutLog, LogRequest, BindInitDataRequest
<1>. QED
  BY <1>5, <1>6, <1>7, <1>8

\* A verifier can replay TDX evidence: the quote is taken before the log is
\* read, a line is written before it is extended, so the log that GetEvidence
\* returns has a line for every digest of the quote, and of an undisturbed log
\* the first lines replay to the quoted register.
THEOREM EvidenceLogCovers == AgentSpec => []EvidenceLogCoversQuote
<1>1. AgentInit => CoverInv
  <2>1. ASSUME AgentInit PROVE LogServes
    BY <2>1, ConstantsAssumption DEF AgentInit, Init, LogServes
  <2>2. ASSUME AgentInit, NEW s \in Requests PROVE CoverHas(req[s])
    <3>1. req[s] = NoRequest
      BY <2>2 DEF AgentInit
    <3>. QED
      BY <3>1, NoRequestType DEF CoverHas, None
  <2>. QED
    BY <2>1, <2>2 DEF CoverInv
<1>2. EvidenceInv /\ CoverInv => EvidenceLogCoversQuote
  <2>1. ASSUME EvidenceInv, CoverInv, NEW r \in Requests, Evidenced(r), tee = "tdx"
        PROVE  /\ QuoteLogged(req[r].quote.regs, req[r].aael)
               /\ ~disturbed => QuoteReplays(req[r].quote.regs, req[r].aael, initState)
    <3>1. req[r].pc = "idle" /\ req[r].out = "ok" /\ DetectTeeType = "tdx"
      BY <2>1 DEF Evidenced, EvidenceInv, ServingInv
    <3>2. CoverHas(req[r])
      BY <2>1 DEF CoverInv
    <3>. QED
      BY <3>1, <3>2 DEF CoverHas
  <2>. QED
    BY <2>1 DEF EvidenceLogCoversQuote, QuoteLogged, QuoteReplays, Logged
<1>. QED
  BY AgentInvariance, EvidenceInvariance, CoverStep, <1>1, <1>2, PTL DEF AgentSpec
=============================================================================
