-------------------------- MODULE RuntimeShareProofs --------------------------
(***************************************************************************)
(* Proofs about RuntimeShare: what guest_pull_image leaves in a bundle,    *)
(* and what it does with prefetched answers, for any number of bundles,    *)
(* prefetches, pulls, failures and restarts.                               *)
(***************************************************************************)
EXTENDS RuntimeShare, SequenceTheorems, TLAPS

-----------------------------------------------------------------------------
(* The inductive invariant.                                                 *)

\* An answer of the image CVM is about one image.
AnswerSet ==
    {a \in [ref : Refs, config : Refs \cup {None}, epoch : Nat, num : Nat] :
        a.config \in {a.ref, None}}

Sharing == {"destroy", "create", "preflight", "umountRootfs", "umountLower", "mountLower",
            "mountRootfs"}
Created == {"preflight", "umountRootfs", "umountLower", "mountLower", "mountRootfs"}

PrefetchRecord == [pc : {"idle", "lock", "request", "store"}, ref : Refs \cup {None},
                   conn : Nat \cup {None}, answer : AnswerSet \cup {None}]
PullRecord == [pc : {"idle", "take", "lock", "request", "fallback", "config"} \cup Sharing,
               ref : Refs \cup {None}, bundle : Bundles \cup {None},
               conn : Nat \cup {None}, answer : AnswerSet \cup {None},
               out : {None, "ok", "error"}, fault : BOOLEAN]

TypeInv ==
    /\ epoch \in Nat /\ answers \in Nat
    /\ prefetch \in [Prefetchers -> PrefetchRecord]
    /\ pull \in PullRecord
    /\ prefetched \in AnswerSet \cup {None}
    /\ stream \in Nat \cup {None}
    /\ lower \in [Bundles -> Seq(AnswerSet)]
    /\ rootfs \in [Bundles -> Seq(AnswerSet)]
    /\ config \in [Bundles -> Refs \cup {None}]

\* An answer is in one place: taken by a pull, in FAST_PREPARED_ROOTFS, or in
\* the hands of one prefetch.
Stored(t) == prefetch[t].pc = "store"
NumInv ==
    /\ \A n \in used : n \in Nat /\ n <= answers
    /\ prefetched # None => prefetched.num <= answers /\ prefetched.num \notin used
    /\ \A t \in Prefetchers : prefetch[t].pc # "idle" => prefetch[t].ref \in Refs
    /\ \A t \in Prefetchers : Stored(t) =>
          /\ prefetch[t].answer \in AnswerSet
          /\ prefetch[t].answer.num <= answers /\ prefetch[t].answer.num \notin used
          /\ prefetched # None => prefetch[t].answer.num # prefetched.num
          /\ \A u \in Prefetchers : Stored(u) /\ u # t =>
                prefetch[u].answer.num # prefetch[t].answer.num

\* Where the pull is, what it holds is of the image it was asked for.
PullInv ==
    /\ pull.pc # "idle" => pull.ref \in Refs /\ pull.bundle \in Bundles /\ pull.out = None
    /\ pull.pc \in {"config"} \cup Sharing =>
          pull.answer \in AnswerSet /\ pull.answer.ref = pull.ref
    /\ pull.pc \in Sharing /\ pull.answer.config # None => config[pull.bundle] = pull.ref
    /\ pull.pc \in Created => device = pull.answer
    /\ pull.pc = "umountLower" => rootfs[pull.bundle] = <<>>
    /\ pull.pc = "mountLower" => rootfs[pull.bundle] = <<>> /\ lower[pull.bundle] = <<>>
    /\ pull.pc = "mountRootfs" =>
          rootfs[pull.bundle] = <<>> /\ lower[pull.bundle] = <<pull.answer>>

DoneInv ==
    pull.out = "ok" =>
        /\ pull.answer \in AnswerSet /\ pull.answer.ref = pull.ref /\ pull.bundle \in Bundles
        /\ pull.answer.config # None => config[pull.bundle] = pull.ref
        /\ lower[pull.bundle] = <<pull.answer>> /\ rootfs[pull.bundle] = <<pull.answer>>

IInv == TypeInv /\ NumInv /\ PullInv /\ DoneInv /\ MountsNested

-----------------------------------------------------------------------------
(* Steps preserve the invariant.                                            *)

LEMMA InitInv == Init => IInv
<1>. SUFFICES ASSUME Init PROVE IInv
  OBVIOUS
<1>. USE DEF Init, NoPull, NoPrefetch
<1>1. TypeInv
  BY DEF TypeInv, PrefetchRecord, PullRecord
<1>2. NumInv /\ MountsNested
  BY DEF NumInv, MountsNested, Stored
<1>3. PullInv /\ DoneInv
  BY RuntimeShareAssumption DEF PullInv, DoneInv, Sharing, Created
<1>. QED
  BY <1>1, <1>2, <1>3 DEF IInv

\* Prefetches and the image CVM leave the pull and the bundles alone ...
LEMMA BundlesKept ==
    ASSUME PullInv, DoneInv, MountsNested, UNCHANGED <<pull, device, lower, rootfs, config>>
    PROVE  PullInv' /\ DoneInv' /\ MountsNested'
BY DEF PullInv, DoneInv, MountsNested

\* ... and the steps on a bundle leave the answers alone.
LEMMA AnswersKept ==
    ASSUME NumInv, UNCHANGED <<answers, prefetched, prefetch, used>>
    PROVE  NumInv'
BY DEF NumInv, Stored

LEMMA PreconnectInv == ASSUME IInv, Preconnect \/ ImageCvmRestarts PROVE IInv'
<1>. USE DEF IInv, Preconnect, ImageCvmRestarts, statics, mounts
<1>1. TypeInv'
  BY DEF TypeInv
<1>2. NumInv'
  BY AnswersKept
<1>3. PullInv' /\ DoneInv' /\ MountsNested'
  BY BundlesKept
<1>. QED
  BY <1>1, <1>2, <1>3

\* A prefetch that has no answer in its hands.
LEMMA PrefetchStep ==
    ASSUME IInv, NEW t \in Prefetchers,
           NEW p \in PrefetchRecord, p.pc # "store", p.pc # "idle" => p.ref \in Refs,
           prefetch' = [prefetch EXCEPT ![t] = p],
           UNCHANGED <<epoch, answers, prefetched, pull, device, lower, rootfs, config, used>>,
           stream' \in {stream, None}
    PROVE  IInv'
<1>1. \A u \in Prefetchers : prefetch'[u] = IF u = t THEN p ELSE prefetch[u]
  BY DEF IInv, TypeInv
<1>2. TypeInv'
  BY DEF IInv, TypeInv
<1>3. NumInv'
  BY <1>1 DEF IInv, NumInv, Stored
<1>4. PullInv' /\ DoneInv' /\ MountsNested'
  BY BundlesKept DEF IInv
<1>. QED
  BY <1>2, <1>3, <1>4 DEF IInv

LEMMA StartPrefetchInv ==
    ASSUME IInv, NEW t \in Prefetchers, NEW ref \in Refs, StartPrefetch(t, ref)
    PROVE  IInv'
BY PrefetchStep DEF StartPrefetch, NoPrefetch, PrefetchRecord, statics, mounts

LEMMA PrefetchEndsInv ==
    ASSUME IInv, NEW t \in Prefetchers, PrefetchSkips(t) \/ PrefetchFails(t)
    PROVE  IInv'
BY PrefetchStep DEF PrefetchSkips, PrefetchFails, EndPrefetch, NoPrefetch, PrefetchRecord, statics, mounts

LEMMA PrefetchConnectsInv ==
    ASSUME IInv, NEW t \in Prefetchers, PrefetchConnects(t)
    PROVE  IInv'
<1>. DEFINE p == [prefetch[t] EXCEPT !.pc = "request", !.conn = Connection]
<1>1. prefetch[t] \in PrefetchRecord
  BY DEF IInv, TypeInv
<1>2. Connection \in Nat \cup {None} /\ prefetch[t].ref \in Refs
  BY DEF IInv, TypeInv, Connection, PrefetchConnects, NumInv
<1>3. p \in PrefetchRecord
  BY <1>1, <1>2 DEF PrefetchRecord
<1>4. p.pc = "request" /\ p.ref \in Refs
  BY <1>1, <1>2 DEF PrefetchRecord
<1>5. prefetch' = [prefetch EXCEPT ![t] = p]
  BY DEF PrefetchConnects, IInv, TypeInv
<1>. HIDE DEF p
<1>. QED
  BY <1>3, <1>4, <1>5, PrefetchStep DEF PrefetchConnects, mounts

\* The image CVM's next answer has a number of its own.
LEMMA AnswerType ==
    ASSUME TypeInv, NEW ref \in Refs, NEW c \in Configs(ref)
    PROVE  /\ Answer(ref, c) \in AnswerSet
           /\ Answer(ref, c).ref = ref /\ Answer(ref, c).num = answers + 1
BY DEF TypeInv, Configs, Answer, AnswerSet

LEMMA PrefetchAnsweredInv ==
    ASSUME IInv, NEW t \in Prefetchers, PrefetchAnswered(t)
    PROVE  IInv'
<1>1. prefetch[t].pc = "request" /\ prefetch[t].ref \in Refs
  BY DEF PrefetchAnswered, IInv, NumInv
<1>2. PICK c \in Configs(prefetch[t].ref) :
        prefetch' = [prefetch EXCEPT ![t].pc = "store",
                                     ![t].answer = Answer(prefetch[t].ref, c)]
  BY DEF PrefetchAnswered
<1>. DEFINE a == Answer(prefetch[t].ref, c)
<1>3. a \in AnswerSet /\ a.num = answers + 1
  BY <1>1, AnswerType DEF IInv
<1>. HIDE DEF a
<1>4. /\ prefetch' = [prefetch EXCEPT ![t] = [prefetch[t] EXCEPT !.pc = "store", !.answer = a]]
      /\ answers' = answers + 1 /\ answers \in Nat
      /\ UNCHANGED <<epoch, stream, prefetched, pull, device, lower, rootfs, config, used>>
  BY <1>2 DEF PrefetchAnswered, statics, mounts, a, IInv, TypeInv
<1>5. TypeInv'
  <2>0. prefetch[t] \in PrefetchRecord
    BY DEF IInv, TypeInv
  <2>1. [prefetch[t] EXCEPT !.pc = "store", !.answer = a] \in PrefetchRecord
    BY <1>3, <2>0 DEF PrefetchRecord
  <2>. QED
    BY <1>4, <2>1 DEF IInv, TypeInv
<1>6. NumInv'
  <2>1. /\ prefetch'[t].pc = "store" /\ prefetch'[t].answer = a
        /\ prefetch'[t].ref = prefetch[t].ref
        /\ \A u \in Prefetchers : u # t => prefetch'[u] = prefetch[u]
    BY <1>4 DEF IInv, TypeInv, PrefetchRecord
  <2>2. \A x \in AnswerSet : x.num \in Nat
    BY DEF AnswerSet
  <2>3. answers + 1 \notin used
    BY <1>4 DEF IInv, NumInv
  <2>4. prefetched # None => prefetched \in AnswerSet
    BY DEF IInv, TypeInv
  <2>. HIDE DEF AnswerSet
  <2>. QED
    BY <1>1, <1>3, <1>4, <2>1, <2>2, <2>3, <2>4 DEF IInv, NumInv, Stored
<1>7. PullInv' /\ DoneInv' /\ MountsNested'
  BY <1>4, BundlesKept DEF IInv
<1>. QED
  BY <1>5, <1>6, <1>7 DEF IInv

LEMMA PrefetchStoresInv ==
    ASSUME IInv, NEW t \in Prefetchers, PrefetchStores(t)
    PROVE  IInv'
<1>1. /\ prefetched' = prefetch[t].answer /\ Stored(t)
      /\ prefetch' = [prefetch EXCEPT ![t] = NoPrefetch]
      /\ UNCHANGED <<epoch, answers, stream, pull, device, lower, rootfs, config, used>>
  BY DEF PrefetchStores, EndPrefetch, mounts, Stored
<1>2. TypeInv'
  BY <1>1 DEF IInv, TypeInv, NumInv, NoPrefetch, PrefetchRecord
<1>3. NumInv'
  <2>1. \A u \in Prefetchers : prefetch'[u] = IF u = t THEN NoPrefetch ELSE prefetch[u]
    BY <1>1 DEF IInv, TypeInv
  <2>. QED
    BY <1>1, <2>1 DEF IInv, NumInv, Stored, NoPrefetch
<1>4. PullInv' /\ DoneInv' /\ MountsNested'
  BY <1>1, BundlesKept DEF IInv
<1>. QED
  BY <1>2, <1>3, <1>4 DEF IInv

-----------------------------------------------------------------------------
(* The pull: its answer.                                                    *)

\* A pull that has not come to the bundle yet.
LEMMA EarlyStep ==
    ASSUME IInv, NEW p \in PullRecord, pull' = p,
           p.pc \in {"take", "lock", "request", "fallback", "config"},
           p.ref \in Refs, p.bundle \in Bundles, p.out = None,
           p.pc = "config" => p.answer \in AnswerSet /\ p.answer.ref = p.ref,
           UNCHANGED <<lower, rootfs, config>>
    PROVE  PullInv' /\ DoneInv' /\ MountsNested'
BY RuntimeShareAssumption DEF IInv, PullInv, DoneInv, MountsNested, Sharing, Created

LEMMA StartInv ==
    ASSUME IInv, NEW ref \in Refs, NEW b \in Bundles, Start(ref, b)
    PROVE  IInv'
<1>. DEFINE p == [NoPull EXCEPT !.pc = "take", !.ref = ref, !.bundle = b]
<1>1. /\ pull' = p
      /\ UNCHANGED <<epoch, answers, stream, prefetched, prefetch, device, lower, rootfs, config, used>>
  BY DEF Start, statics, mounts
<1>2. p \in PullRecord /\ p.pc = "take" /\ p.ref \in Refs /\ p.bundle \in Bundles /\ p.out = None
  BY DEF NoPull, PullRecord
<1>. HIDE DEF p
<1>3. PullInv' /\ DoneInv' /\ MountsNested'
  BY <1>1, <1>2, EarlyStep
<1>4. TypeInv' /\ NumInv'
  BY <1>1, <1>2, AnswersKept DEF IInv, TypeInv
<1>. QED
  BY <1>3, <1>4 DEF IInv

\* take_prefetched_rootfs: the answer moves from the static to the pull.
LEMMA TakeInv ==
    ASSUME IInv, Take, pull.pc \in {"take", "lock"}, stream' \in {stream, None},
           UNCHANGED <<epoch, answers, prefetch, device, lower, rootfs, config>>
    PROVE  IInv'
<1>. DEFINE p == [pull EXCEPT !.pc = "config", !.answer = prefetched]
<1>1. /\ prefetched # None /\ prefetched.ref = pull.ref /\ pull' = p
      /\ used' = used \cup {prefetched.num} /\ prefetched' = None
  BY DEF Take, Matches
<1>2. prefetched \in AnswerSet /\ prefetched.num \in Nat
  BY <1>1 DEF IInv, TypeInv, AnswerSet
<1>3. /\ p \in PullRecord /\ p.pc = "config" /\ p.ref = pull.ref /\ p.bundle = pull.bundle
      /\ p.out = pull.out /\ p.answer = prefetched
  BY <1>2 DEF IInv, TypeInv, PullRecord
<1>. HIDE DEF p
<1>4. pull.ref \in Refs /\ pull.bundle \in Bundles /\ pull.out = None
  BY DEF IInv, PullInv
<1>5. PullInv' /\ DoneInv' /\ MountsNested'
  BY <1>1, <1>2, <1>3, <1>4, EarlyStep
<1>6. TypeInv'
  BY <1>1, <1>3 DEF IInv, TypeInv
<1>7. NumInv'
  BY <1>1, <1>2 DEF IInv, NumInv, Stored
<1>. QED
  BY <1>5, <1>6, <1>7 DEF IInv

\* The pull goes on without an answer.
LEMMA WaitInv ==
    ASSUME IInv, NEW pc \in {"lock", "request", "fallback"}, NEW conn \in Nat \cup {None},
           pull.pc \in {"take", "lock", "request"},
           pull' = [pull EXCEPT !.pc = pc, !.conn = conn], stream' \in {stream, None},
           UNCHANGED <<epoch, answers, prefetched, prefetch, device, lower, rootfs, config, used>>
    PROVE  IInv'
<1>1. pull.ref \in Refs /\ pull.bundle \in Bundles /\ pull.out = None
  BY DEF IInv, PullInv
<1>2. /\ pull' \in PullRecord /\ pull'.pc = pc /\ pull'.ref = pull.ref
      /\ pull'.bundle = pull.bundle /\ pull'.out = pull.out
  BY DEF IInv, TypeInv, PullRecord
<1>3. PullInv' /\ DoneInv' /\ MountsNested'
  BY <1>1, <1>2, EarlyStep
<1>4. TypeInv' /\ NumInv'
  BY <1>2, AnswersKept DEF IInv, TypeInv
<1>. QED
  BY <1>3, <1>4 DEF IInv

LEMMA TakePrefetchedInv == ASSUME IInv, TakePrefetched PROVE IInv'
<1>1. CASE Take
  BY <1>1, TakeInv DEF TakePrefetched, At, mounts
<1>2. CASE ~Take
  <2>1. pull.conn \in Nat \cup {None} /\ pull' = [pull EXCEPT !.pc = "lock", !.conn = pull.conn]
    BY <1>2 DEF TakePrefetched, Goto, IInv, TypeInv, PullRecord
  <2>. QED
    BY <1>2, <2>1, WaitInv DEF TakePrefetched, At, mounts
<1>. QED
  BY <1>1, <1>2

LEMMA PullLockInv == ASSUME IInv, PullLock PROVE IInv'
<1>1. CASE Take
  BY <1>1, TakeInv DEF PullLock, At, mounts
<1>2. CASE ~Take
  <2>1. Connection \in Nat \cup {None}
    BY DEF IInv, TypeInv, Connection
  <2>. QED
    BY <1>2, <2>1, WaitInv DEF PullLock, At, mounts
<1>. QED
  BY <1>1, <1>2

LEMMA PullFastFailsInv == ASSUME IInv, PullFastFails PROVE IInv'
<1>1. pull.conn \in Nat \cup {None} /\ pull' = [pull EXCEPT !.pc = "fallback", !.conn = pull.conn]
  BY DEF PullFastFails, Goto, IInv, TypeInv, PullRecord
<1>. QED
  BY <1>1, WaitInv DEF PullFastFails, At, mounts

LEMMA AnsweredInv == ASSUME IInv, PullAnswered \/ Fallback PROVE IInv'
<1>1. /\ pull.pc \in {"request", "fallback"}
      /\ \E c \in Configs(pull.ref) :
            pull' = [pull EXCEPT !.pc = "config", !.answer = Answer(pull.ref, c)]
      /\ answers' = answers + 1 /\ used' = used \cup {answers + 1}
      /\ UNCHANGED <<epoch, stream, prefetched, prefetch, device, lower, rootfs, config>>
  BY DEF PullAnswered, Fallback, Answered, At, statics, mounts
<1>2. pull.ref \in Refs /\ pull.bundle \in Bundles /\ pull.out = None
  BY <1>1 DEF IInv, PullInv
<1>3. PICK c \in Configs(pull.ref) :
        pull' = [pull EXCEPT !.pc = "config", !.answer = Answer(pull.ref, c)]
  BY <1>1
<1>. DEFINE a == Answer(pull.ref, c)
<1>4. a \in AnswerSet /\ a.ref = pull.ref
  BY <1>2, AnswerType DEF IInv
<1>5. pull' = [pull EXCEPT !.pc = "config", !.answer = a]
  BY <1>3
<1>. HIDE DEF a
<1>6. /\ pull' \in PullRecord /\ pull'.pc = "config" /\ pull'.ref = pull.ref
      /\ pull'.bundle = pull.bundle /\ pull'.out = pull.out /\ pull'.answer = a
  BY <1>4, <1>5 DEF IInv, TypeInv, PullRecord
<1>7. PullInv' /\ DoneInv' /\ MountsNested'
  BY <1>1, <1>2, <1>4, <1>6, EarlyStep
<1>8. TypeInv'
  BY <1>1, <1>6 DEF IInv, TypeInv
<1>9. NumInv'
  <2>1. \A x \in AnswerSet : x.num \in Nat
    BY DEF AnswerSet
  <2>2. answers \in Nat /\ (prefetched # None => prefetched \in AnswerSet)
    BY DEF IInv, TypeInv
  <2>. HIDE DEF AnswerSet
  <2>. QED
    BY <1>1, <2>1, <2>2 DEF IInv, NumInv, Stored
<1>. QED
  BY <1>7, <1>8, <1>9 DEF IInv

-----------------------------------------------------------------------------
(* The pull: its bundle.                                                    *)

\* What a step on the bundle leaves alone, and what it starts from.
LEMMA BundleStep ==
    ASSUME IInv, UNCHANGED same, pull.pc \in {"config"} \cup Sharing
    PROVE  /\ NumInv'
           /\ UNCHANGED <<epoch, answers, stream, prefetched, prefetch, used>>
           /\ pull.ref \in Refs /\ pull.bundle \in Bundles /\ pull.out = None
           /\ pull.answer \in AnswerSet /\ pull.answer.ref = pull.ref
           /\ pull.answer.config \in {pull.ref, None}
<1>1. UNCHANGED <<epoch, answers, stream, prefetched, prefetch, used>>
  BY DEF same, statics
<1>2. NumInv'
  BY <1>1, AnswersKept DEF IInv
<1>. QED
  BY <1>1, <1>2 DEF IInv, PullInv, Sharing, AnswerSet

\* The pull moves on in the bundle.
LEMMA Moves ==
    ASSUME TypeInv, NEW pc \in {"config"} \cup Sharing, Goto(pc)
    PROVE  /\ pull' \in PullRecord /\ pull'.pc = pc
           /\ pull'.ref = pull.ref /\ pull'.bundle = pull.bundle /\ pull'.answer = pull.answer
           /\ pull'.out = pull.out
BY DEF TypeInv, PullRecord, Goto, Sharing

LEMMA WriteConfigInv == ASSUME IInv, WriteConfig PROVE IInv'
<1>1. pull.pc = "config" /\ UNCHANGED <<same, device, lower, rootfs>>
  BY DEF WriteConfig, At, mounts
<1>2. Goto("destroy") /\ config' = IF pull.answer.config = None THEN config
                                   ELSE [config EXCEPT ![pull.bundle] = pull.answer.config]
  BY DEF WriteConfig
<1>3. /\ NumInv' /\ UNCHANGED <<epoch, answers, stream, prefetched, prefetch, used>>
      /\ pull.ref \in Refs /\ pull.bundle \in Bundles /\ pull.out = None
      /\ pull.answer \in AnswerSet /\ pull.answer.ref = pull.ref
      /\ pull.answer.config \in {pull.ref, None}
  BY <1>1, BundleStep
<1>4. /\ pull' \in PullRecord /\ pull'.pc = "destroy"
      /\ pull'.ref = pull.ref /\ pull'.bundle = pull.bundle /\ pull'.answer = pull.answer
      /\ pull'.out = pull.out
  BY <1>2, Moves DEF IInv, Sharing
<1>5. TypeInv'
  BY <1>1, <1>2, <1>3, <1>4 DEF IInv, TypeInv
<1>6. PullInv'
  BY <1>2, <1>3, <1>4, RuntimeShareAssumption DEF IInv, TypeInv, PullInv, Sharing, Created
<1>7. DoneInv' /\ MountsNested'
  BY <1>1, <1>3, <1>4, RuntimeShareAssumption DEF IInv, DoneInv, MountsNested
<1>. QED
  BY <1>3, <1>5, <1>6, <1>7 DEF IInv

LEMMA DeviceInv == ASSUME IInv, DestroyDevice \/ CreateDevice \/ Preflight PROVE IInv'
<1>1. /\ pull.pc \in {"destroy", "create", "preflight"}
      /\ UNCHANGED <<same, lower, rootfs, config>>
  BY DEF DestroyDevice, CreateDevice, Preflight, At, mounts
<1>2. \/ pull.pc = "destroy" /\ Goto("create")
      \/ pull.pc = "create" /\ Goto("preflight") /\ device' = pull.answer
      \/ pull.pc = "preflight" /\ Goto("umountRootfs") /\ device' = device
  BY DEF DestroyDevice, CreateDevice, Preflight, At
<1>3. /\ NumInv' /\ UNCHANGED <<epoch, answers, stream, prefetched, prefetch, used>>
      /\ pull.ref \in Refs /\ pull.bundle \in Bundles /\ pull.out = None
      /\ pull.answer \in AnswerSet /\ pull.answer.ref = pull.ref
  BY <1>1, BundleStep DEF Sharing
<1>4. /\ pull' \in PullRecord
      /\ pull'.ref = pull.ref /\ pull'.bundle = pull.bundle /\ pull'.answer = pull.answer
      /\ pull'.out = pull.out
      /\ \/ pull.pc = "destroy" /\ pull'.pc = "create"
         \/ pull.pc = "create" /\ pull'.pc = "preflight" /\ device' = pull.answer
         \/ pull.pc = "preflight" /\ pull'.pc = "umountRootfs" /\ device' = device
  BY <1>2, Moves DEF IInv, Sharing
<1>5. TypeInv'
  BY <1>1, <1>3, <1>4 DEF IInv, TypeInv
<1>6. PullInv'
  BY <1>1, <1>3, <1>4, RuntimeShareAssumption DEF IInv, PullInv, Sharing, Created
<1>7. DoneInv' /\ MountsNested'
  BY <1>1, <1>3, <1>4, RuntimeShareAssumption DEF IInv, DoneInv, MountsNested
<1>. QED
  BY <1>3, <1>5, <1>6, <1>7 DEF IInv

\* Unmounting takes away all there is, since mounts are never stacked.
LEMMA PopAll ==
    ASSUME NEW S, NEW stack \in Seq(S), Len(stack) <= 1
    PROVE  Pop(stack) = <<>>
BY DEF Pop

LEMMA CleanupInv == ASSUME IInv, Cleanup PROVE IInv'
<1>. DEFINE b == pull.bundle
<1>1. /\ pull.pc \in {"umountRootfs", "umountLower"}
      /\ UNCHANGED <<same, device, config>>
  BY DEF Cleanup, Umount, At
<1>2. /\ NumInv' /\ UNCHANGED <<epoch, answers, stream, prefetched, prefetch, used>>
      /\ pull.ref \in Refs /\ b \in Bundles /\ pull.out = None
      /\ pull.answer \in AnswerSet /\ pull.answer.ref = pull.ref
  BY <1>1, BundleStep DEF Sharing
<1>. HIDE DEF b
<1>3. /\ lower \in [Bundles -> Seq(AnswerSet)] /\ rootfs \in [Bundles -> Seq(AnswerSet)]
      /\ \A c \in Bundles : Len(lower[c]) <= 1 /\ Len(rootfs[c]) <= 1
  BY DEF IInv, TypeInv, MountsNested
<1>4. /\ Pop(lower[b]) = <<>> /\ Pop(rootfs[b]) = <<>>
  BY <1>2, <1>3, PopAll
<1>5. \/ /\ pull.pc = "umountRootfs" /\ Goto("umountLower")
         /\ rootfs' = [rootfs EXCEPT ![b] = <<>>] /\ lower' = lower
      \/ /\ pull.pc = "umountLower" /\ Goto("mountLower")
         /\ lower' = [lower EXCEPT ![b] = <<>>] /\ rootfs' = rootfs
  BY <1>4 DEF Cleanup, Umount, At, b
<1>6. /\ pull' \in PullRecord
      /\ pull'.ref = pull.ref /\ pull'.bundle = b /\ pull'.answer = pull.answer
      /\ pull'.out = pull.out
      /\ \/ pull.pc = "umountRootfs" /\ pull'.pc = "umountLower"
         \/ pull.pc = "umountLower" /\ pull'.pc = "mountLower"
  BY <1>5, Moves DEF IInv, Sharing, b
<1>7. /\ lower' \in [Bundles -> Seq(AnswerSet)] /\ rootfs' \in [Bundles -> Seq(AnswerSet)]
      /\ \A c \in Bundles : c # b => lower'[c] = lower[c] /\ rootfs'[c] = rootfs[c]
      /\ rootfs'[b] = <<>>
      /\ lower'[b] = IF pull.pc = "umountRootfs" THEN lower[b] ELSE <<>>
  <2>0. <<>> \in Seq(AnswerSet)
    OBVIOUS
  <2>. HIDE DEF AnswerSet
  <2>1. CASE pull.pc = "umountRootfs"
    BY <1>2, <1>3, <1>5, <2>0, <2>1
  <2>2. CASE pull.pc # "umountRootfs"
    <3>1. rootfs[b] = <<>>
      BY <1>1, <2>2 DEF IInv, PullInv, b
    <3>. QED
      BY <1>2, <1>3, <1>5, <2>0, <2>2, <3>1
  <2>. QED
    BY <2>1, <2>2
<1>8. TypeInv'
  BY <1>1, <1>2, <1>6, <1>7 DEF IInv, TypeInv
<1>9. PullInv'
  BY <1>1, <1>2, <1>6, <1>7, RuntimeShareAssumption DEF IInv, PullInv, Sharing, Created, b
<1>10. DoneInv'
  BY <1>2, <1>6, RuntimeShareAssumption DEF DoneInv
<1>11. MountsNested'
  <2>1. ASSUME NEW c \in Bundles
        PROVE  Len(lower'[c]) <= 1 /\ (rootfs'[c] = <<>> \/ rootfs'[c] = lower'[c])
    <3>1. Len(lower[c]) <= 1 /\ (rootfs[c] = <<>> \/ rootfs[c] = lower[c])
      BY DEF IInv, MountsNested
    <3>2. Len(<<>>) <= 1
      OBVIOUS
    <3>3. CASE c = b
      BY <1>7, <3>1, <3>2, <3>3
    <3>4. CASE c # b
      BY <1>7, <3>1, <3>4
    <3>. QED
      BY <3>3, <3>4
  <2>. QED
    BY <2>1 DEF MountsNested
<1>. QED
  BY <1>2, <1>8, <1>9, <1>10, <1>11 DEF IInv

LEMMA MountLowerInv == ASSUME IInv, MountLower PROVE IInv'
<1>. DEFINE b == pull.bundle
<1>1. /\ pull.pc = "mountLower" /\ Goto("mountRootfs")
      /\ UNCHANGED <<same, device, rootfs, config>>
  BY DEF MountLower, At
<1>2. /\ NumInv' /\ UNCHANGED <<epoch, answers, stream, prefetched, prefetch, used>>
      /\ pull.ref \in Refs /\ b \in Bundles /\ pull.out = None
      /\ pull.answer \in AnswerSet /\ pull.answer.ref = pull.ref
  BY <1>1, BundleStep DEF Sharing
<1>3. lower[b] = <<>> /\ rootfs[b] = <<>> /\ device = pull.answer
  BY <1>1 DEF IInv, PullInv, Created
<1>4. lower' = [lower EXCEPT ![b] = <<pull.answer>>]
  BY <1>3 DEF MountLower
<1>. HIDE DEF b
<1>5. /\ lower' \in [Bundles -> Seq(AnswerSet)]
      /\ \A c \in Bundles : lower'[c] = IF c = b THEN <<pull.answer>> ELSE lower[c]
  BY <1>2, <1>4 DEF IInv, TypeInv
<1>6. /\ pull' \in PullRecord /\ pull'.pc = "mountRootfs"
      /\ pull'.ref = pull.ref /\ pull'.bundle = b /\ pull'.answer = pull.answer
      /\ pull'.out = pull.out
  BY <1>1, Moves DEF IInv, Sharing, b
<1>7. TypeInv'
  BY <1>1, <1>2, <1>5, <1>6 DEF IInv, TypeInv
<1>8. PullInv'
  BY <1>1, <1>2, <1>3, <1>5, <1>6, RuntimeShareAssumption
     DEF IInv, PullInv, Sharing, Created, b
<1>9. DoneInv'
  BY <1>2, <1>6, RuntimeShareAssumption DEF DoneInv
<1>10. MountsNested'
  <2>1. Len(<<pull.answer>>) <= 1
    OBVIOUS
  <2>. QED
    BY <1>1, <1>2, <1>3, <1>5, <2>1 DEF IInv, MountsNested
<1>. QED
  BY <1>2, <1>7, <1>8, <1>9, <1>10 DEF IInv

LEMMA MountRootfsInv == ASSUME IInv, MountRootfs PROVE IInv'
<1>. DEFINE b == pull.bundle
<1>1. /\ pull.pc = "mountRootfs" /\ pull' = [pull EXCEPT !.pc = "idle", !.out = "ok"]
      /\ UNCHANGED <<same, device, lower, config>>
  BY DEF MountRootfs, At
<1>2. /\ NumInv' /\ UNCHANGED <<epoch, answers, stream, prefetched, prefetch, used>>
      /\ pull.ref \in Refs /\ b \in Bundles /\ pull.out = None
      /\ pull.answer \in AnswerSet /\ pull.answer.ref = pull.ref
  BY <1>1, BundleStep DEF Sharing
<1>3. /\ lower[b] = <<pull.answer>> /\ rootfs[b] = <<>>
      /\ pull.answer.config # None => config[b] = pull.ref
  BY <1>1 DEF IInv, PullInv, Sharing
<1>4. rootfs' = [rootfs EXCEPT ![b] = <<pull.answer>>]
  BY <1>3 DEF MountRootfs
<1>. HIDE DEF b
<1>5. /\ rootfs' \in [Bundles -> Seq(AnswerSet)]
      /\ \A c \in Bundles : rootfs'[c] = IF c = b THEN <<pull.answer>> ELSE rootfs[c]
  BY <1>2, <1>4 DEF IInv, TypeInv
<1>6. /\ pull' \in PullRecord /\ pull'.pc = "idle"
      /\ pull'.ref = pull.ref /\ pull'.bundle = b /\ pull'.answer = pull.answer
      /\ pull'.out = "ok"
  BY <1>1 DEF IInv, TypeInv, PullRecord, b
<1>7. TypeInv'
  BY <1>1, <1>2, <1>5, <1>6 DEF IInv, TypeInv
<1>8. PullInv' /\ DoneInv'
  BY <1>1, <1>2, <1>3, <1>5, <1>6 DEF IInv, PullInv, DoneInv, Sharing, Created
<1>9. MountsNested'
  BY <1>1, <1>2, <1>3, <1>5 DEF IInv, MountsNested
<1>. QED
  BY <1>2, <1>7, <1>8, <1>9 DEF IInv

\* A step that fails ends the pull where it is.
LEMMA ErrorInv == ASSUME IInv, CreateRefused \/ StepFails PROVE IInv'
<1>1. /\ \E f \in BOOLEAN : Error(f)
      /\ UNCHANGED <<epoch, answers, stream, prefetched, prefetch, used, lower, rootfs, config>>
  BY DEF CreateRefused, StepFails, same, statics, mounts
<1>2. pull' \in PullRecord /\ pull'.pc = "idle" /\ pull'.out = "error"
  BY <1>1 DEF Error, IInv, TypeInv, PullRecord
<1>3. TypeInv' /\ NumInv'
  BY <1>1, <1>2, AnswersKept DEF IInv, TypeInv
<1>4. PullInv' /\ DoneInv'
  BY <1>2 DEF PullInv, DoneInv, Sharing, Created
<1>5. MountsNested'
  BY <1>1 DEF IInv, MountsNested
<1>. QED
  BY <1>3, <1>4, <1>5 DEF IInv

LEMMA HubRestartsInv == ASSUME IInv, HubRestarts PROVE IInv'
<1>1. /\ stream' = None /\ prefetched' = None
      /\ prefetch' = [t \in Prefetchers |-> NoPrefetch] /\ pull' = NoPull
      /\ UNCHANGED <<epoch, answers, device, lower, rootfs, config, used>>
  BY DEF HubRestarts, mounts
<1>2. TypeInv'
  BY <1>1 DEF IInv, TypeInv, NoPrefetch, NoPull, PrefetchRecord, PullRecord
<1>3. NumInv'
  BY <1>1 DEF IInv, NumInv, Stored, NoPrefetch
<1>4. PullInv' /\ DoneInv' /\ MountsNested'
  BY <1>1, RuntimeShareAssumption
     DEF IInv, PullInv, DoneInv, MountsNested, NoPull, Sharing, Created
<1>. QED
  BY <1>2, <1>3, <1>4 DEF IInv

LEMMA NextInv == ASSUME IInv, [Next]_vars PROVE IInv'
<1>1. CASE Preconnect \/ ImageCvmRestarts
  BY <1>1, PreconnectInv
<1>2. CASE Pull
  BY <1>2, TakePrefetchedInv, PullLockInv, AnsweredInv, PullFastFailsInv, WriteConfigInv,
     DeviceInv, ErrorInv, CleanupInv, MountLowerInv, MountRootfsInv DEF Pull
<1>3. CASE StepFails
  BY <1>3, ErrorInv
<1>4. CASE HubRestarts
  BY <1>4, HubRestartsInv
<1>5. ASSUME NEW ref \in Refs, NEW b \in Bundles, Start(ref, b) PROVE IInv'
  BY <1>5, StartInv
<1>6. ASSUME NEW t \in Prefetchers, Prefetch(t) \/ \E ref \in Refs : StartPrefetch(t, ref)
      PROVE  IInv'
  BY <1>6, PrefetchEndsInv, PrefetchConnectsInv, PrefetchAnsweredInv, PrefetchStoresInv,
     StartPrefetchInv DEF Prefetch
<1>7. CASE UNCHANGED vars
  <2>1. UNCHANGED <<epoch, answers, stream, prefetched, prefetch, pull, device, lower, rootfs,
                    config, used>>
    BY <1>7 DEF vars, statics, mounts
  <2>. QED
    BY <2>1, BundlesKept, AnswersKept DEF IInv, TypeInv
<1>. QED
  BY <1>1, <1>2, <1>3, <1>4, <1>5, <1>6, <1>7 DEF Next

LEMMA InvHolds == Spec => []IInv
<1>1. Init => IInv
  BY InitInv
<1>2. IInv /\ [Next]_vars => IInv'
  BY NextInv
<1>. QED
  BY <1>1, <1>2, PTL DEF Spec

-----------------------------------------------------------------------------
(* What follows.                                                            *)

\* guest_pull_image returns Ok only over a bundle of the image it was asked
\* for, whether the answer was prefetched, fast or a fallback.
THEOREM PulledBundleCorrect == Spec => []PulledBundleIsRequested
<1>1. IInv => PulledBundleIsRequested
  <2>. SUFFICES ASSUME IInv, pull.out = "ok" PROVE PulledBundleIsRequested
    BY DEF PulledBundleIsRequested
  <2>. DEFINE b == pull.bundle
  <2>1. /\ pull.answer.ref = pull.ref
        /\ pull.answer.config # None => config[b] = pull.ref
        /\ lower[b] = <<pull.answer>> /\ rootfs[b] = <<pull.answer>>
    BY DEF IInv, DoneInv
  <2>2. rootfs[b][Len(rootfs[b])] = pull.answer
    BY <2>1
  <2>. QED
    BY <2>1, <2>2 DEF PulledBundleIsRequested
<1>. QED
  BY <1>1, InvHolds, PTL

\* cleanup_shared_rootfs_mount and the two mounts keep at most one lower mount
\* and one overlay on it, whatever fails or restarts between them.
THEOREM MountsStayNested == Spec => []MountsNested
<1>1. IInv => MountsNested
  BY DEF IInv
<1>. QED
  BY <1>1, InvHolds, PTL

\* take_prefetched_rootfs takes: no two pulls get the same answer, with any
\* number of prefetches under way.
THEOREM AnswersAreUsedOnce == Spec => []AnswersUsedOnce
<1>1. IInv => AnswersUsedOnce
  BY DEF IInv, NumInv, AnswersUsedOnce
<1>. QED
  BY <1>1, InvHolds, PTL

-----------------------------------------------------------------------------
(* Why a pull fails.                                                        *)

\* Answers are of an epoch the image CVM had, so that one of another epoch
\* stays one; and destroy_device leaves only a device that is mounted.
Past(a) == a # None => a.epoch <= epoch
ReasonInv ==
    /\ Past(prefetched) /\ Past(pull.answer)
    /\ \A t \in Prefetchers : Stored(t) => Past(prefetch[t].answer)
    /\ pull.pc = "create" => device = None \/ Mounted
    /\ PullFailsForAReason

\* Steps that give the pull no answer, leave the image CVM and the bundles
\* alone, and move the pull, if it is under way, to before the bundle.
LEMMA ReasonKept ==
    ASSUME IInv, IInv', ReasonInv, UNCHANGED <<epoch, device, lower>>,
           \/ pull' = pull
           \/ pull'.pc \notin {"idle", "create"},
           pull'.answer \in {pull.answer, prefetched},
           prefetched' \in {prefetched, None},
           \A t \in Prefetchers : Stored(t)' => prefetch'[t] = prefetch[t]
    PROVE  ReasonInv'
<1>1. PullFailsForAReason'
  BY RuntimeShareAssumption DEF IInv, PullInv, ReasonInv, PullFailsForAReason, Mounted
<1>. QED
  BY <1>1 DEF ReasonInv, Past, Stored, Mounted

\* The image CVM gives an answer of its epoch.
LEMMA ReasonAnswered ==
    ASSUME IInv, IInv', ReasonInv, PullAnswered \/ Fallback PROVE ReasonInv'
<1>1. /\ \E c \in Configs(pull.ref) :
            pull' = [pull EXCEPT !.pc = "config", !.answer = Answer(pull.ref, c)]
      /\ UNCHANGED <<epoch, prefetched, prefetch, device, lower>>
  BY DEF PullAnswered, Fallback, Answered, statics, mounts
<1>2. PICK c \in Configs(pull.ref) :
        pull' = [pull EXCEPT !.pc = "config", !.answer = Answer(pull.ref, c)]
  BY <1>1
<1>3. Answer(pull.ref, c).epoch = epoch /\ epoch \in Nat
  BY DEF Answer, IInv, TypeInv
<1>. DEFINE a == Answer(pull.ref, c)
<1>. HIDE DEF a
<1>4. pull'.pc = "config" /\ pull'.answer = a
  BY <1>2 DEF a, IInv, TypeInv, PullRecord
<1>5. a.epoch = epoch
  BY <1>3 DEF a
<1>6. PullFailsForAReason'
  BY <1>4, RuntimeShareAssumption DEF IInv, PullInv, PullFailsForAReason
<1>. QED
  BY <1>1, <1>3, <1>4, <1>5, <1>6 DEF ReasonInv, Past, Stored

LEMMA ReasonPrefetchAnswered ==
    ASSUME IInv, IInv', ReasonInv, NEW t \in Prefetchers, PrefetchAnswered(t)
    PROVE  ReasonInv'
<1>1. /\ \E c \in Configs(prefetch[t].ref) :
            prefetch' = [prefetch EXCEPT ![t].pc = "store",
                                         ![t].answer = Answer(prefetch[t].ref, c)]
      /\ UNCHANGED <<epoch, prefetched, pull, device, lower>>
  BY DEF PrefetchAnswered, statics, mounts
<1>2. PICK c \in Configs(prefetch[t].ref) :
        prefetch' = [prefetch EXCEPT ![t].pc = "store",
                                     ![t].answer = Answer(prefetch[t].ref, c)]
  BY <1>1
<1>. DEFINE a == Answer(prefetch[t].ref, c)
<1>3. a.epoch = epoch /\ epoch \in Nat
  BY DEF Answer, IInv, TypeInv
<1>. HIDE DEF a
<1>4. prefetch[t] \in PrefetchRecord
  BY DEF IInv, TypeInv
<1>5. prefetch' = [prefetch EXCEPT ![t] = [prefetch[t] EXCEPT !.pc = "store", !.answer = a]]
  BY <1>2, <1>4 DEF a, PrefetchRecord, IInv, TypeInv
<1>6. /\ prefetch'[t].answer = a
      /\ \A u \in Prefetchers : u # t => prefetch'[u] = prefetch[u]
  BY <1>4, <1>5 DEF IInv, TypeInv, PrefetchRecord
<1>7. PullFailsForAReason'
  BY <1>1 DEF ReasonInv, PullFailsForAReason, Mounted
<1>8. ASSUME NEW u \in Prefetchers, Stored(u)' PROVE Past(prefetch[u].answer)'
  <2>1. CASE u = t
    BY <1>1, <1>3, <1>6, <2>1 DEF Past
  <2>2. CASE u # t
    BY <1>1, <1>6, <1>8, <2>2 DEF ReasonInv, Past, Stored
  <2>. QED
    BY <2>1, <2>2
<1>. QED
  BY <1>1, <1>7, <1>8 DEF ReasonInv, Past, Mounted

LEMMA ReasonPrefetchStores ==
    ASSUME IInv, IInv', ReasonInv, NEW t \in Prefetchers, PrefetchStores(t)
    PROVE  ReasonInv'
<1>1. /\ prefetched' = prefetch[t].answer /\ Stored(t)
      /\ prefetch' = [prefetch EXCEPT ![t] = NoPrefetch]
      /\ UNCHANGED <<epoch, pull, device, lower>>
  BY DEF PrefetchStores, EndPrefetch, mounts, Stored
<1>2. \A u \in Prefetchers : prefetch'[u] = IF u = t THEN NoPrefetch ELSE prefetch[u]
  BY <1>1 DEF IInv, TypeInv
<1>3. PullFailsForAReason'
  BY <1>1 DEF ReasonInv, PullFailsForAReason, Mounted
<1>. QED
  BY <1>1, <1>2, <1>3 DEF ReasonInv, Past, Stored, NoPrefetch, Mounted

\* A step on the bundle keeps the answer; only one that fails ends the pull.
LEMMA ReasonBundle ==
    ASSUME IInv, IInv', ReasonInv,
           WriteConfig \/ DestroyDevice \/ CreateDevice \/ Preflight \/ Cleanup
              \/ MountLower \/ MountRootfs
    PROVE  ReasonInv'
<1>1. UNCHANGED <<epoch, prefetched, prefetch>>
  BY DEF WriteConfig, DestroyDevice, CreateDevice, Preflight, Cleanup, MountLower,
         MountRootfs, same, statics
<1>2. pull'.answer = pull.answer /\ pull'.out # "error"
  <2>1. pull \in PullRecord
    BY DEF IInv, TypeInv
  <2>2. \/ \E pc \in {"config"} \cup Sharing : Goto(pc) /\ pull.pc \in {"config"} \cup Sharing
        \/ pull' = [pull EXCEPT !.pc = "idle", !.out = "ok"]
    BY DEF WriteConfig, DestroyDevice, CreateDevice, Preflight, Cleanup, Umount, MountLower,
           MountRootfs, At, Sharing
  <2>. QED
    BY <2>1, <2>2, RuntimeShareAssumption
       DEF Goto, PullRecord, IInv, PullInv, Sharing
<1>3. pull'.pc = "create" => (device = None \/ Mounted)'
  <2>1. ASSUME DestroyDevice PROVE (device = None \/ Mounted)'
    BY <2>1 DEF DestroyDevice, mounts, Mounted
  <2>2. ASSUME WriteConfig \/ CreateDevice \/ Preflight \/ Cleanup \/ MountLower \/ MountRootfs
        PROVE  pull'.pc # "create"
    BY <2>2 DEF WriteConfig, CreateDevice, Preflight, Cleanup, Umount, MountLower,
                MountRootfs, Goto, IInv, TypeInv, PullRecord
  <2>. QED
    BY <2>1, <2>2
<1>. QED
  BY <1>1, <1>2, <1>3 DEF ReasonInv, Past, Stored, PullFailsForAReason

\* create_device refuses a share that is gone or a device that is there.
LEMMA ReasonError ==
    ASSUME IInv, IInv', ReasonInv, CreateRefused \/ StepFails PROVE ReasonInv'
<1>1. /\ \/ CreateRefused /\ Error(FALSE)
         \/ StepFails /\ Error(TRUE)
      /\ UNCHANGED <<epoch, prefetched, prefetch, device, lower>>
  BY DEF CreateRefused, StepFails, same, statics, mounts
<1>2. pull \in PullRecord
  BY DEF IInv, TypeInv
<1>3. /\ pull'.pc = "idle" /\ pull'.answer = pull.answer
      /\ StepFails => pull'.fault = TRUE
  BY <1>1, <1>2 DEF Error, PullRecord, CreateRefused, StepFails, Fail
<1>4. ASSUME CreateRefused
      PROVE  \/ pull.answer # None /\ pull.answer.epoch # epoch
             \/ device # None /\ Mounted
  <2>1. pull.pc = "create" /\ (device # None \/ pull.answer.epoch # epoch)
    BY <1>4 DEF CreateRefused, At
  <2>2. pull.answer # None
    BY <2>1, RuntimeShareAssumption DEF IInv, PullInv, Sharing, AnswerSet
  <2>. QED
    BY <2>1, <2>2 DEF ReasonInv
<1>5. PullFailsForAReason'
  BY <1>1, <1>3, <1>4 DEF PullFailsForAReason, Mounted
<1>. QED
  BY <1>1, <1>3, <1>5 DEF ReasonInv, Past, Stored, Mounted

LEMMA ReasonRestarts ==
    ASSUME IInv, IInv', ReasonInv, ImageCvmRestarts \/ HubRestarts PROVE ReasonInv'
<1>1. CASE ImageCvmRestarts
  <2>1. epoch' = epoch + 1 /\ UNCHANGED <<prefetched, prefetch, pull, device, lower>>
    BY <1>1 DEF ImageCvmRestarts, statics, mounts
  <2>2. /\ epoch \in Nat /\ pull.answer \in AnswerSet \cup {None}
        /\ prefetched \in AnswerSet \cup {None}
        /\ \A t \in Prefetchers : prefetch[t].answer \in AnswerSet \cup {None}
    BY DEF IInv, TypeInv, PullRecord, PrefetchRecord
  <2>3. ASSUME NEW a \in AnswerSet \cup {None}, Past(a)
        PROVE  Past(a)' /\ (a # None => a.epoch # epoch')
    BY <2>1, <2>2, <2>3 DEF Past, AnswerSet
  <2>. HIDE DEF AnswerSet
  <2>4. PullFailsForAReason'
    BY <2>1, <2>2, <2>3 DEF ReasonInv, PullFailsForAReason, Mounted
  <2>. QED
    BY <2>1, <2>2, <2>3, <2>4 DEF ReasonInv, Past, Stored, Mounted
<1>2. CASE HubRestarts
  BY <1>2, RuntimeShareAssumption
     DEF HubRestarts, NoPull, NoPrefetch, ReasonInv, Past, Stored, PullFailsForAReason
<1>. QED
  BY <1>1, <1>2

LEMMA ReasonNext == ASSUME IInv, IInv', ReasonInv, [Next]_vars PROVE ReasonInv'
<1>0. /\ pull \in PullRecord /\ prefetch \in [Prefetchers -> PrefetchRecord]
  BY DEF IInv, TypeInv
<1>1. CASE Preconnect \/ UNCHANGED vars
  BY <1>1, ReasonKept DEF Preconnect, vars, statics, mounts
<1>2. ASSUME NEW ref \in Refs, NEW b \in Bundles, Start(ref, b) PROVE ReasonInv'
  <2>1. pull'.pc = "take" /\ pull'.answer = None /\ pull'.out = None
        /\ UNCHANGED <<epoch, prefetched, prefetch, device, lower>>
    BY <1>2 DEF Start, NoPull, statics, mounts
  <2>. QED
    BY <2>1, RuntimeShareAssumption DEF ReasonInv, Past, Stored, PullFailsForAReason
<1>3. ASSUME NEW t \in Prefetchers, NEW ref \in Refs, StartPrefetch(t, ref) PROVE ReasonInv'
  <2>1. \A u \in Prefetchers : Stored(u)' => prefetch'[u] = prefetch[u]
    BY <1>0, <1>3 DEF StartPrefetch, NoPrefetch, Stored
  <2>. QED
    BY <1>3, <2>1, ReasonKept DEF StartPrefetch, statics, mounts
<1>4. ASSUME NEW t \in Prefetchers, PrefetchSkips(t) \/ PrefetchFails(t) \/ PrefetchConnects(t)
      PROVE  ReasonInv'
  <2>1. \A u \in Prefetchers : Stored(u)' => prefetch'[u] = prefetch[u]
    BY <1>0, <1>4 DEF PrefetchSkips, PrefetchFails, PrefetchConnects, EndPrefetch, NoPrefetch,
                      Stored, PrefetchRecord
  <2>. QED
    BY <1>4, <2>1, ReasonKept
       DEF PrefetchSkips, PrefetchFails, PrefetchConnects, statics, mounts
<1>5. CASE TakePrefetched \/ PullLock \/ PullFastFails
  <2>1. /\ pull'.pc \in {"config", "lock", "request", "fallback"}
        /\ pull'.answer \in {pull.answer, prefetched}
    BY <1>0, <1>5 DEF TakePrefetched, PullLock, PullFastFails, Take, Goto, PullRecord
  <2>2. UNCHANGED <<epoch, prefetch, device, lower>> /\ prefetched' \in {prefetched, None}
    BY <1>5 DEF TakePrefetched, PullLock, PullFastFails, Take, mounts
  <2>. QED
    BY <2>1, <2>2, ReasonKept DEF Stored
<1>6. CASE Pull
  BY <1>5, <1>6, ReasonAnswered, ReasonBundle, ReasonError DEF Pull
<1>7. ASSUME NEW t \in Prefetchers, Prefetch(t) PROVE ReasonInv'
  BY <1>4, <1>7, ReasonPrefetchAnswered, ReasonPrefetchStores DEF Prefetch
<1>. QED
  BY <1>1, <1>2, <1>3, <1>6, <1>7, ReasonError, ReasonRestarts DEF Next

\* guest_mount_shared_rootfs takes the tonic server where the fast path fails,
\* and cleans up the device and the mounts it finds: what went wrong before a
\* pull, or in its fast path, does not fail it.
THEOREM PullsFailForAReason == Spec => []PullFailsForAReason
<1>1. Init => ReasonInv
  BY RuntimeShareAssumption
     DEF Init, NoPull, NoPrefetch, ReasonInv, Past, Stored, PullFailsForAReason
<1>2. IInv /\ IInv' /\ ReasonInv /\ [Next]_vars => ReasonInv'
  BY ReasonNext
<1>3. ReasonInv => PullFailsForAReason
  BY DEF ReasonInv
<1>. QED
  BY <1>1, <1>2, <1>3, InvHolds, PTL DEF Spec
=============================================================================
