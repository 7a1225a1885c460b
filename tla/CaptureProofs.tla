----------------------------- MODULE CaptureProofs -----------------------------
(* The captures, for any number of syncs, captures and runs, of ranges,        *)
(* datasets and pages: what a sync publishes is official, it leaves nothing    *)
(* behind, whoever succeeds has the result of the others, and no page of an    *)
(* Europeana window is committed twice.                                        *)
EXTENDS MCCapture, FiniteSetTheorems, WellFoundedInduction, TLAPS

\* ------------------------------------------------------------ WikidataSync

SyncPcs ==
  {"idle", "lookup", "head", "create", "range", "verify", "create final", "copy", "publish",
   "existing", "check", "cleanup", "abort", "abort final", "done", "failed", "dead"}
Bytes == Seq(1..Editions)
FinalObject == [bytes : Bytes, by : Syncs \cup {"none"}]
SyncRecord ==
  [pc : SyncPcs, sha1 : 0..Editions, seen : 0..Editions, try : Nat, parts : Bytes,
   res : FinalObject, out : {"none", "failed", "done"}]

SyncTypes ==
  /\ up \in 1..Editions /\ sums \in 1..Editions
  /\ dest \in [1..Editions -> FinalObject]
  /\ stage \in [Syncs -> Bytes]
  /\ sy \in [Syncs -> SyncRecord]

\* A command that knows the official SHA-1 has a destination; what it has staged,
\* since the comparison, has that SHA-1; what it is to return is what is stored.
StagedIsOfficial(s) ==
  /\ sy[s].pc \notin {"idle", "failed", "dead"} => sy[s].sha1 \in 1..Editions
  /\ sy[s].pc \in {"create final", "copy", "publish"} => W!HasSha1(stage[s], sy[s].sha1)
  /\ sy[s].pc = "publish" => stage[s] # <<>>
  /\ sy[s].pc \in {"check", "cleanup", "done"} /\ sy[s].out = "done" =>
       sy[s].res = dest[sy[s].sha1] /\ sy[s].res # W!Absent
  /\ sy[s].pc = "done" => sy[s].out = "done"
  /\ sy[s].pc = "cleanup" => sy[s].out \in {"done", "failed"}
  /\ sy[s].pc \in {"abort", "abort final", "failed"} => sy[s].out = "failed"
  /\ sy[s].pc = "check" => sy[s].out = "done"

\* What a command may have left at each place, as long as S3 answers it.
LeftBehind(s) ==
  /\ sy[s].pc \in {"idle", "lookup", "head", "create", "range", "verify", "abort", "done", "failed"} =>
       stage[s] = <<>>
  /\ sy[s].pc \in {"idle", "lookup", "head", "create", "create final", "copy", "publish",
                   "abort final", "existing", "check", "cleanup", "done", "failed"} =>
       <<s, "staging">> \notin open
  /\ sy[s].pc \in {"idle", "lookup", "head", "create", "range", "verify", "abort",
                   "create final", "existing", "check", "cleanup", "done", "failed"} =>
       <<s, "final">> \notin open

SyncInv ==
  /\ SyncTypes
  /\ W!PublishedIsOfficial
  /\ \A s \in Syncs : StagedIsOfficial(s) /\ (s \notin lost => LeftBehind(s))

\* A step of one sync: no object is replaced, and what is not its own stays.
SyncMoves(s) ==
  /\ UNCHANGED <<up, sums>>
  /\ sy' = [sy EXCEPT ![s] = sy'[s]] /\ sy'[s] \in SyncRecord
  /\ stage' = [stage EXCEPT ![s] = stage'[s]] /\ stage'[s] \in Bytes
  /\ \A t \in Syncs \ {s}, k \in {"staging", "final"} : <<t, k>> \in open' => <<t, k>> \in open
  /\ lost \subseteq lost'
  /\ dest' \in [1..Editions -> FinalObject]
  /\ \A e \in 1..Editions : dest[e] # W!Absent => dest'[e] = dest[e]

LEMMA SyncNumbers == Editions \in Nat \ {0} /\ Ranges \in Nat \ {0}
  BY CaptureConstants

LEMMA SyncStep ==
  ASSUME SyncInv, NEW s \in Syncs, SyncMoves(s), W!PublishedIsOfficial',
         StagedIsOfficial(s)', s \notin lost' => LeftBehind(s)'
  PROVE  SyncInv'
<1>1. SyncTypes'
  BY DEF SyncInv, SyncTypes, SyncMoves
<1>2. ASSUME NEW t \in Syncs, t # s
      PROVE  StagedIsOfficial(t)' /\ (t \notin lost' => LeftBehind(t)')
  <2>1. sy'[t] = sy[t] /\ stage'[t] = stage[t]
    BY <1>2 DEF SyncInv, SyncTypes, SyncMoves
  <2>2. StagedIsOfficial(t)'
    <3>1. StagedIsOfficial(t)
      BY DEF SyncInv
    <3>2. ASSUME sy[t].pc \in {"check", "cleanup", "done"}, sy[t].out = "done"
          PROVE  sy[t].res = dest'[sy[t].sha1]
      BY <3>1, <3>2 DEF SyncMoves, StagedIsOfficial
    <3>3. W!HasSha1(stage[t], sy[t].sha1) => W!HasSha1(stage'[t], sy'[t].sha1)
      BY <2>1
    <3> QED BY <2>1, <3>1, <3>2, <3>3 DEF StagedIsOfficial
  <2>3. t \notin lost' => LeftBehind(t)'
    BY <1>2, <2>1 DEF SyncInv, SyncMoves, LeftBehind
  <2> QED BY <2>2, <2>3
<1> QED BY <1>1, <1>2 DEF SyncInv

\* A step that touches neither objects nor uploads.
LEMMA LocalStep ==
  ASSUME SyncInv, NEW s \in Syncs, W!Local, sy' = [sy EXCEPT ![s] = sy'[s]], sy'[s] \in SyncRecord,
         StagedIsOfficial(s)', s \notin lost => LeftBehind(s)'
  PROVE  SyncInv'
<1>1. SyncMoves(s)
  BY DEF SyncInv, SyncTypes, SyncMoves, W!Local
<1>2. W!PublishedIsOfficial'
  BY DEF SyncInv, W!PublishedIsOfficial, W!Local, W!HasSha1
<1>3. s \notin lost' => LeftBehind(s)'
  BY DEF W!Local
<1> QED BY <1>1, <1>2, <1>3, SyncStep

LEMMA RaisedIs ==
  ASSUME SyncInv, NEW s \in Syncs
  PROVE  /\ W!Raised(s) \in SyncRecord
         /\ W!Raised(s).pc = W!Unwound(sy[s].pc) /\ W!Raised(s).out = "failed"
         /\ W!Raised(s).sha1 = sy[s].sha1
         /\ W!Unwound(sy[s].pc) \in {"abort", "abort final", "cleanup", "failed"}
BY DEF SyncInv, SyncTypes, SyncRecord, SyncPcs, W!Raised, W!Unwound

\* An exception leads to the clean-up that its place calls for.
LEMMA RaiseOK ==
  ASSUME SyncInv, NEW s \in Syncs, W!Raise(s), sy[s].pc \notin {"abort", "abort final", "cleanup"},
         sy[s].pc \notin {"done", "failed", "dead"},
         stage'[s] = stage[s], 
         \A k \in {"staging", "final"} : <<s, k>> \in open' => <<s, k>> \in open
  PROVE  /\ sy' = [sy EXCEPT ![s] = sy'[s]] /\ sy'[s] \in SyncRecord
         /\ StagedIsOfficial(s)' /\ (s \notin lost => LeftBehind(s)')
<1>1. sy' = [sy EXCEPT ![s] = W!Raised(s)] /\ sy'[s] = W!Raised(s)
  BY DEF SyncInv, SyncTypes, W!Raise
<1>2. StagedIsOfficial(s)'
  BY <1>1, RaisedIs DEF SyncInv, StagedIsOfficial, W!Unwound
<1>3. ASSUME s \notin lost PROVE LeftBehind(s)'
  BY <1>1, <1>3, RaisedIs DEF SyncInv, SyncTypes, SyncRecord, SyncPcs, LeftBehind, W!Unwound
<1> QED BY <1>1, <1>2, <1>3, RaisedIs

LEMMA RaiseStep ==
  ASSUME SyncInv, NEW s \in Syncs, W!Raise(s), W!Local,
         sy[s].pc \notin {"abort", "abort final", "cleanup", "done", "failed", "dead"}
  PROVE  SyncInv'
<1>1. stage'[s] = stage[s] /\ open' = open
  BY DEF W!Local
<1> QED BY <1>1, RaiseOK, LocalStep

LEMMA RefusedStep == ASSUME SyncInv, NEW s \in Syncs, W!Refused(s) PROVE SyncInv'
BY RaiseStep DEF W!Refused

LEMMA FetchSha1Step == ASSUME SyncInv, NEW s \in Syncs, W!FetchSha1(s) PROVE SyncInv'
<1>1. sy' = [sy EXCEPT ![s] = sy'[s]] /\ sy'[s] \in SyncRecord
  <2>1. sums \in 0..Editions /\ sy \in [Syncs -> SyncRecord]
    BY SyncNumbers DEF SyncInv, SyncTypes
  <2>2. sy'[s] = [sy[s] EXCEPT !.pc = "lookup", !.sha1 = sums] /\ sy' = [sy EXCEPT ![s] = sy'[s]]
    BY <2>1 DEF W!FetchSha1
  <2> QED BY <2>1, <2>2 DEF SyncRecord, SyncPcs
<1>2. sy'[s].pc = "lookup" /\ sy'[s].sha1 \in 1..Editions
  BY DEF SyncInv, SyncTypes, SyncRecord, W!FetchSha1
<1>3. StagedIsOfficial(s)'
  BY <1>2 DEF StagedIsOfficial
<1>4. s \notin lost => LeftBehind(s)'
  BY <1>2 DEF SyncInv, W!FetchSha1, W!Local, LeftBehind
<1> QED BY <1>1, <1>3, <1>4, LocalStep DEF W!FetchSha1

\* The object at the destination is the one to return.
LEMMA ExistingStep ==
  ASSUME SyncInv, NEW s \in Syncs, W!Local, NEW next, W!Existing(s, next),
         \/ sy[s].pc = "lookup" /\ next = "done" /\ dest[sy[s].sha1] # W!Absent
         \/ sy[s].pc = "existing" /\ next = "cleanup"
  PROVE  SyncInv'
<1> DEFINE e == sy[s].sha1
<1>1. e \in 1..Editions /\ sy[s] \in SyncRecord /\ dest[e] \in FinalObject
  BY DEF SyncInv, SyncTypes, StagedIsOfficial
<1>2. CASE W!HasSha1(dest[e].bytes, e) /\ dest[e] # W!Absent
  <2>1. sy' = [sy EXCEPT ![s].pc = next, ![s].res = dest[e], ![s].out = "done"]
    BY <1>2 DEF W!Existing
  <2>2. /\ sy'[s] \in SyncRecord /\ sy' = [sy EXCEPT ![s] = sy'[s]]
        /\ sy'[s].pc = next /\ sy'[s].sha1 = e /\ sy'[s].res = dest[e] /\ sy'[s].out = "done"
    BY <1>1, <2>1 DEF SyncInv, SyncTypes, SyncRecord, SyncPcs
  <2>3. StagedIsOfficial(s)'
    BY <1>1, <1>2, <2>2 DEF StagedIsOfficial, W!Local
  <2>4. s \notin lost => LeftBehind(s)'
    BY <2>2 DEF SyncInv, LeftBehind, W!Local
  <2> QED BY <2>2, <2>3, <2>4, LocalStep
<1>3. CASE ~W!HasSha1(dest[e].bytes, e)
  BY <1>3, RaiseStep DEF W!Existing
<1>4. CASE dest[e] = W!Absent /\ W!HasSha1(dest[e].bytes, e)
  BY <1>4, SyncNumbers DEF W!HasSha1, W!Absent
<1> QED BY <1>2, <1>3, <1>4

\* A step that only goes to another place.
LEMMA GotoIs ==
  ASSUME SyncInv, NEW s \in Syncs, NEW pc \in SyncPcs, W!Goto(s, pc)
  PROVE  /\ sy' = [sy EXCEPT ![s] = sy'[s]] /\ sy'[s] \in SyncRecord
         /\ sy'[s] = [sy[s] EXCEPT !.pc = pc]
         /\ sy'[s].pc = pc /\ sy'[s].sha1 = sy[s].sha1 /\ sy'[s].res = sy[s].res /\ sy'[s].out = sy[s].out
<1>1. sy \in [Syncs -> SyncRecord]
  BY DEF SyncInv, SyncTypes
<1>2. sy'[s] = [sy[s] EXCEPT !.pc = pc] /\ sy' = [sy EXCEPT ![s] = sy'[s]]
  BY <1>1 DEF W!Goto
<1> QED BY <1>1, <1>2 DEF SyncRecord

LEMMA LookupStep == ASSUME SyncInv, NEW s \in Syncs, W!Lookup(s) PROVE SyncInv'
<1>1. CASE dest[sy[s].sha1] = W!Absent
  <2>1. sy[s].pc = "lookup" /\ W!Goto(s, "head") /\ W!Local
    BY <1>1 DEF W!Lookup
  <2>2. "head" \in SyncPcs
    BY DEF SyncPcs
  <2>3. StagedIsOfficial(s)' /\ (s \notin lost => LeftBehind(s)')
    BY <2>1, <2>2, GotoIs DEF SyncInv, StagedIsOfficial, LeftBehind, W!Local
  <2> QED BY <2>1, <2>2, <2>3, GotoIs, LocalStep
<1>2. CASE dest[sy[s].sha1] # W!Absent
  BY <1>2, ExistingStep DEF W!Lookup
<1> QED BY <1>1, <1>2

LEMMA HeadDumpStep == ASSUME SyncInv, NEW s \in Syncs, W!HeadDump(s) PROVE SyncInv'
<1>1. sy' = [sy EXCEPT ![s] = sy'[s]] /\ sy'[s] \in SyncRecord /\ sy'[s].pc = "create" /\ sy'[s].sha1 = sy[s].sha1
  <2>1. up \in 0..Editions /\ sy \in [Syncs -> SyncRecord]
    BY SyncNumbers DEF SyncInv, SyncTypes
  <2>2. sy'[s] = [sy[s] EXCEPT !.pc = "create", !.seen = up] /\ sy' = [sy EXCEPT ![s] = sy'[s]]
    BY <2>1 DEF W!HeadDump
  <2>3. sy'[s] \in SyncRecord
    BY <2>1, <2>2 DEF SyncRecord, SyncPcs
  <2>4. sy'[s].pc = "create" /\ sy'[s].sha1 = sy[s].sha1
    BY <2>1, <2>2 DEF SyncRecord
  <2> QED BY <2>2, <2>3, <2>4
<1>2. StagedIsOfficial(s)' /\ (s \notin lost => LeftBehind(s)')
  BY <1>1 DEF SyncInv, StagedIsOfficial, LeftBehind, W!Local, W!HeadDump
<1> QED BY <1>1, <1>2, LocalStep DEF W!HeadDump

\* Of a step that leaves the objects alone.
LEMMA QuietStep ==
  ASSUME SyncInv, NEW s \in Syncs, UNCHANGED <<up, sums, dest>>,
         sy' = [sy EXCEPT ![s] = sy'[s]], sy'[s] \in SyncRecord,
         stage' = [stage EXCEPT ![s] = stage'[s]], stage'[s] \in Bytes,
         \A t \in Syncs \ {s}, k \in {"staging", "final"} : <<t, k>> \in open' => <<t, k>> \in open,
         lost \subseteq lost', StagedIsOfficial(s)', s \notin lost' => LeftBehind(s)'
  PROVE  SyncInv'
<1>1. SyncMoves(s)
  BY DEF SyncInv, SyncTypes, SyncMoves
<1>2. W!PublishedIsOfficial'
  BY DEF SyncInv, W!PublishedIsOfficial, W!HasSha1
<1> QED BY <1>1, <1>2, SyncStep

LEMMA StageStays ==
  ASSUME SyncInv, NEW s \in Syncs, UNCHANGED stage
  PROVE  stage' = [stage EXCEPT ![s] = stage'[s]] /\ stage'[s] \in Bytes
BY DEF SyncInv, SyncTypes

\* An upload is created for the staging object or the final one.
LEMMA CreateUploadStep ==
  ASSUME SyncInv, NEW s \in Syncs, NEW object, NEW next \in SyncPcs, W!CreateUpload(s, object, next),
         \/ sy[s].pc = "create" /\ object = "staging" /\ next = "range"
         \/ sy[s].pc = "create final" /\ object = "final" /\ next = "copy"
  PROVE  SyncInv'
<1>1. \A t \in Syncs \ {s}, k \in {"staging", "final"} : <<t, k>> \in open' => <<t, k>> \in open
  BY DEF W!CreateUpload
<1>2. CASE W!Replied(s) /\ W!Goto(s, next)
  <2>1. StagedIsOfficial(s)'
    BY <1>2, GotoIs DEF SyncInv, StagedIsOfficial, W!CreateUpload, W!HasSha1
  <2>2. s \notin lost' => LeftBehind(s)'
    BY <1>2, GotoIs DEF SyncInv, LeftBehind, W!CreateUpload, W!Replied
  <2> QED BY <1>1, <1>2, <2>1, <2>2, GotoIs, StageStays, QuietStep DEF W!CreateUpload, W!Replied
<1>3. CASE W!ReplyLost(s) /\ W!Raise(s)
  <2>1. sy' = [sy EXCEPT ![s] = W!Raised(s)] /\ sy'[s] = W!Raised(s)
    BY <1>3 DEF SyncInv, SyncTypes, W!Raise
  <2>2. sy'[s].pc \in {"failed", "cleanup"} /\ sy'[s].out = "failed" /\ sy'[s] \in SyncRecord
    BY <2>1, RaisedIs DEF W!Unwound
  <2>3. StagedIsOfficial(s)'
    BY <2>1, <2>2, RaisedIs DEF SyncInv, StagedIsOfficial
  <2>4. s \in lost' /\ lost \subseteq lost'
    BY <1>3 DEF W!ReplyLost
  <2> QED BY <1>1, <2>1, <2>2, <2>3, <2>4, StageStays, QuietStep DEF W!CreateUpload
<1> QED BY <1>2, <1>3 DEF W!CreateUpload

LEMMA CreateSteps ==
  ASSUME SyncInv, NEW s \in Syncs, W!CreateStaging(s) \/ W!CreateFinal(s)
  PROVE  SyncInv'
<1>1. "range" \in SyncPcs /\ "copy" \in SyncPcs
  BY DEF SyncPcs
<1> QED BY <1>1, CreateUploadStep DEF W!CreateStaging, W!CreateFinal

LEMMA ReadIs ==
  ASSUME NEW r \in SyncRecord, NEW pc \in SyncPcs, NEW parts \in Bytes
  PROVE  [r EXCEPT !.parts = parts, !.try = 1, !.pc = pc] \in SyncRecord
BY DEF SyncRecord

LEMMA ReadRangeStep == ASSUME SyncInv, NEW s \in Syncs, W!ReadRange(s) PROVE SyncInv'
<1>1. CASE W!SameValidator(s)
  <2> DEFINE parts == Append(sy[s].parts, up)
             next == IF Len(parts) = Ranges THEN "verify" ELSE "range"
  <2>1. sy \in [Syncs -> SyncRecord] /\ parts \in Bytes
    BY DEF SyncInv, SyncTypes, SyncRecord, Bytes
  <2>2. next \in {"verify", "range"}
    OBVIOUS
  <2> HIDE DEF parts, next
  <2>3. sy' = [sy EXCEPT ![s].parts = parts, ![s].try = 1, ![s].pc = next]
    BY <1>1 DEF W!ReadRange, parts, next
  <2>4. sy'[s] = [sy[s] EXCEPT !.parts = parts, !.try = 1, !.pc = next] /\ sy' = [sy EXCEPT ![s] = sy'[s]]
    BY <2>1, <2>3
  <2>5. sy'[s] \in SyncRecord /\ sy'[s].pc = next /\ sy'[s].sha1 = sy[s].sha1
    <3>1. next \in SyncPcs
      BY <2>2 DEF SyncPcs
    <3>2. sy'[s] \in SyncRecord
      <4>1. sy[s] \in SyncRecord
        BY <2>1
      <4>2. [sy[s] EXCEPT !.parts = parts, !.try = 1, !.pc = next] \in SyncRecord
        BY <2>1, <3>1, <4>1, ReadIs
      <4> QED BY <2>4, <4>2
    <3>3. sy'[s].pc = next /\ sy'[s].sha1 = sy[s].sha1
      BY <2>1, <2>4 DEF SyncRecord
    <3> QED BY <3>2, <3>3
  <2>6. StagedIsOfficial(s)' /\ (s \notin lost => LeftBehind(s)')
    BY <2>2, <2>5 DEF SyncInv, StagedIsOfficial, LeftBehind, W!Local, W!ReadRange
  <2> QED BY <2>4, <2>5, <2>6, LocalStep DEF W!ReadRange
<1>2. CASE ~W!SameValidator(s)
  BY <1>2, RaiseStep DEF W!ReadRange
<1> QED BY <1>1, <1>2

LEMMA RangeFailsStep == ASSUME SyncInv, NEW s \in Syncs, W!RangeFails(s) PROVE SyncInv'
<1>1. CASE sy[s].try < RangeAttempts
  <2>1. sy \in [Syncs -> SyncRecord]
    BY DEF SyncInv, SyncTypes
  <2>2. sy'[s] = [sy[s] EXCEPT !.try = sy[s].try + 1] /\ sy' = [sy EXCEPT ![s] = sy'[s]]
    BY <1>1, <2>1 DEF W!RangeFails
  <2>3. sy'[s] \in SyncRecord /\ sy'[s].pc = "range" /\ sy'[s].sha1 = sy[s].sha1
    BY <2>1, <2>2 DEF SyncRecord, W!RangeFails
  <2>4. StagedIsOfficial(s)' /\ (s \notin lost => LeftBehind(s)')
    BY <2>3 DEF SyncInv, StagedIsOfficial, LeftBehind, W!Local, W!RangeFails
  <2> QED BY <2>2, <2>3, <2>4, LocalStep DEF W!RangeFails
<1>2. CASE ~(sy[s].try < RangeAttempts)
  BY <1>2, RaiseStep DEF W!RangeFails
<1> QED BY <1>1, <1>2

\* Uploads of others stay when one of s is completed or aborted.
LEMMA StageVerifiedStep == ASSUME SyncInv, NEW s \in Syncs, W!StageVerified(s) PROVE SyncInv'
<1>1. CASE ~W!HasSha1(sy[s].parts, sy[s].sha1)
  BY <1>1, RaiseStep DEF W!StageVerified, W!Local
<1>2. CASE W!HasSha1(sy[s].parts, sy[s].sha1)
  <2>1. /\ sy[s].pc = "verify" /\ UNCHANGED <<up, sums, dest>>
        /\ stage' = [stage EXCEPT ![s] = sy[s].parts] /\ open' = open \ {<<s, "staging">>}
        /\ sy[s].parts \in Bytes /\ "create final" \in SyncPcs
    BY <1>2 DEF SyncInv, SyncTypes, SyncRecord, SyncPcs, W!StageVerified
  <2>2. /\ stage' = [stage EXCEPT ![s] = stage'[s]] /\ stage'[s] = sy[s].parts
        /\ \A t \in Syncs \ {s}, k \in {"staging", "final"} : <<t, k>> \in open' => <<t, k>> \in open
    BY <2>1 DEF SyncInv, SyncTypes
  <2>3. CASE W!Replied(s) /\ W!Goto(s, "create final")
    <3>1. StagedIsOfficial(s)'
      <4>1. sy'[s].pc = "create final" /\ sy'[s].sha1 = sy[s].sha1 /\ sy[s].sha1 \in 1..Editions
        BY <2>1, <2>3, GotoIs DEF SyncInv, StagedIsOfficial
      <4>2. W!HasSha1(stage'[s], sy'[s].sha1)
        BY <1>2, <2>2, <4>1
      <4> QED BY <4>1, <4>2 DEF StagedIsOfficial
    <3>2. s \notin lost' => LeftBehind(s)'
      BY <2>1, <2>3, GotoIs DEF SyncInv, LeftBehind, W!Replied
    <3> QED BY <2>1, <2>2, <2>3, <3>1, <3>2, GotoIs, QuietStep DEF W!Replied
  <2>4. CASE W!ReplyLost(s) /\ W!Raise(s)
    <3>1. sy' = [sy EXCEPT ![s] = W!Raised(s)] /\ sy'[s] = W!Raised(s)
      BY <2>4 DEF SyncInv, SyncTypes, W!Raise
    <3>2. sy'[s].pc = "abort" /\ sy'[s].out = "failed" /\ sy'[s] \in SyncRecord /\ sy'[s].sha1 = sy[s].sha1
      BY <2>1, <3>1, RaisedIs DEF W!Unwound
    <3>3. StagedIsOfficial(s)'
      BY <2>1, <3>2 DEF SyncInv, StagedIsOfficial
    <3>4. s \in lost' /\ lost \subseteq lost'
      BY <2>4 DEF W!ReplyLost
    <3> QED BY <2>1, <2>2, <3>1, <3>2, <3>3, <3>4, QuietStep
  <2> QED BY <1>2, <2>3, <2>4 DEF W!StageVerified
<1> QED BY <1>1, <1>2

LEMMA CopySteps ==
  ASSUME SyncInv, NEW s \in Syncs, W!Copy(s) \/ W!CheckFinal(s) \/ W!Dies(s)
  PROVE  SyncInv'
<1>1. PICK pc \in {"publish", "cleanup", "dead"} :
        /\ W!Goto(s, pc) /\ W!Local
        /\ pc = "publish" => sy[s].pc = "copy" /\ stage[s] # <<>>
        /\ pc = "cleanup" => sy[s].pc = "check"
  BY DEF W!Copy, W!CheckFinal, W!Dies
<1>2. pc \in SyncPcs
  BY DEF SyncPcs
<1>3. StagedIsOfficial(s)'
  BY <1>1, <1>2, GotoIs DEF SyncInv, StagedIsOfficial, W!Local, W!HasSha1
<1>4. s \notin lost => LeftBehind(s)'
  BY <1>1, <1>2, GotoIs DEF SyncInv, LeftBehind, W!Local
<1> QED BY <1>1, <1>2, <1>3, <1>4, GotoIs, LocalStep

LEMMA AbortUploadStep == ASSUME SyncInv, NEW s \in Syncs, W!AbortUpload(s) PROVE SyncInv'
<1> DEFINE next == IF sy[s].pc = "abort" THEN "failed" ELSE "cleanup"
<1>1. next \in SyncPcs /\ next \in {"failed", "cleanup"} /\ (sy[s].pc = "abort" <=> next = "failed")
  BY DEF SyncPcs
<1>2. W!Goto(s, next) /\ UNCHANGED <<up, sums, dest, stage>> /\ sy[s].pc \in {"abort", "abort final"}
  BY DEF W!AbortUpload
<1>3. \A t \in Syncs \ {s}, k \in {"staging", "final"} : <<t, k>> \in open' => <<t, k>> \in open
  BY DEF W!AbortUpload
<1>4. lost \subseteq lost'
  BY DEF W!AbortUpload, W!Replied, W!ReplyLost
<1>5. s \notin lost' => s \notin lost /\ open' = open \ {<<s, IF sy[s].pc = "abort" THEN "staging" ELSE "final">>}
  BY DEF W!AbortUpload, W!Replied, W!ReplyLost
<1> HIDE DEF next
<1>6. StagedIsOfficial(s)'
  BY <1>1, <1>2, GotoIs DEF SyncInv, StagedIsOfficial
<1>7. s \notin lost' => LeftBehind(s)'
  BY <1>1, <1>2, <1>5, GotoIs DEF SyncInv, LeftBehind
<1> QED BY <1>1, <1>2, <1>3, <1>4, <1>6, <1>7, GotoIs, StageStays, QuietStep

LEMMA DeleteStagingStep == ASSUME SyncInv, NEW s \in Syncs, W!DeleteStaging(s) PROVE SyncInv'
<1> DEFINE next == sy[s].out
<1>1. next \in SyncPcs /\ next \in {"failed", "done"} /\ sy[s].pc = "cleanup"
  BY DEF SyncInv, StagedIsOfficial, SyncPcs, W!DeleteStaging
<1>2. W!Goto(s, next) /\ UNCHANGED <<up, sums, dest, open>>
  BY DEF W!DeleteStaging
<1>3. stage' = [stage EXCEPT ![s] = stage'[s]] /\ stage'[s] \in Bytes
  <2>1. <<>> \in Bytes /\ stage \in [Syncs -> Bytes]
    BY DEF SyncInv, SyncTypes, Bytes
  <2>2. stage' = [stage EXCEPT ![s] = <<>>] \/ stage' = stage
    BY DEF W!DeleteStaging
  <2> QED BY <2>1, <2>2
<1>4. lost \subseteq lost' /\ (s \notin lost' => s \notin lost /\ stage'[s] = <<>>)
  BY DEF SyncInv, SyncTypes, W!DeleteStaging, W!Replied, W!ReplyLost
<1>5. StagedIsOfficial(s)'
  BY <1>1, <1>2, GotoIs DEF SyncInv, StagedIsOfficial
<1>6. s \notin lost' => LeftBehind(s)'
  BY <1>1, <1>2, <1>4, GotoIs DEF SyncInv, LeftBehind
<1> HIDE DEF next
<1> QED BY <1>1, <1>2, <1>3, <1>4, <1>5, <1>6, GotoIs, QuietStep

\* The final object is there from now on: its bytes were compared when they were staged.
LEMMA PublishedStep ==
  ASSUME SyncInv, NEW s \in Syncs, UNCHANGED <<up, sums, stage>>, sy[s].pc = "publish",
         dest[sy[s].sha1] = W!Absent, dest' = [dest EXCEPT ![sy[s].sha1] = W!Final(s)],
         open' = open \ {<<s, "final">>},
         \/ /\ W!Replied(s)
            /\ sy' = [sy EXCEPT ![s].pc = "check", ![s].res = W!Final(s), ![s].out = "done"]
         \/ W!ReplyLost(s) /\ (W!Raise(s) \/ W!Goto(s, "existing"))
  PROVE  SyncInv'
<1> DEFINE e == sy[s].sha1
<1>1. /\ e \in 1..Editions /\ sy \in [Syncs -> SyncRecord] /\ W!Final(s) \in FinalObject
      /\ W!HasSha1(stage[s], e) /\ W!Final(s) # W!Absent /\ W!Final(s).bytes = stage[s]
  BY DEF SyncInv, SyncTypes, StagedIsOfficial, W!Final, W!Absent, FinalObject
<1>2. /\ dest' \in [1..Editions -> FinalObject] /\ dest'[e] = W!Final(s)
      /\ \A f \in 1..Editions : f # e => dest'[f] = dest[f]
  BY <1>1 DEF SyncInv, SyncTypes
<1>3. W!PublishedIsOfficial'
  <2> SUFFICES ASSUME NEW f \in 1..Editions, dest'[f] # W!Absent
               PROVE  W!HasSha1(dest'[f].bytes, f)
    BY DEF W!PublishedIsOfficial, W!HasSha1
  <2>1. CASE f = e
    BY <1>1, <1>2, <2>1
  <2>2. CASE f # e
    BY <1>2, <2>2 DEF SyncInv, W!PublishedIsOfficial
  <2> QED BY <2>1, <2>2
<1>4. /\ lost \subseteq lost' /\ stage' = [stage EXCEPT ![s] = stage'[s]] /\ stage'[s] \in Bytes
      /\ \A t \in Syncs \ {s}, k \in {"staging", "final"} : <<t, k>> \in open' => <<t, k>> \in open
  BY StageStays DEF W!Replied, W!ReplyLost
<1>5. /\ sy' = [sy EXCEPT ![s] = sy'[s]] /\ sy'[s] \in SyncRecord
      /\ StagedIsOfficial(s)' /\ (s \notin lost' => LeftBehind(s)')
  <2>1. CASE W!Replied(s) /\ sy' = [sy EXCEPT ![s].pc = "check", ![s].res = W!Final(s), ![s].out = "done"]
    <3>1. /\ sy'[s] = [sy[s] EXCEPT !.pc = "check", !.res = W!Final(s), !.out = "done"]
          /\ sy' = [sy EXCEPT ![s] = sy'[s]]
      BY <1>1, <2>1
    <3>2. sy'[s] \in SyncRecord
      BY <1>1, <3>1 DEF SyncRecord, SyncPcs
    <3>3. sy'[s].pc = "check" /\ sy'[s].res = W!Final(s) /\ sy'[s].out = "done" /\ sy'[s].sha1 = e
      BY <1>1, <3>1 DEF SyncRecord
    <3>4. StagedIsOfficial(s)'
      BY <1>1, <1>2, <3>3 DEF StagedIsOfficial
    <3>5. s \notin lost' => LeftBehind(s)'
      BY <2>1, <3>3 DEF SyncInv, LeftBehind, W!Replied
    <3> QED BY <3>1, <3>2, <3>4, <3>5
  <2>2. CASE W!ReplyLost(s) /\ W!Raise(s)
    <3>1. sy' = [sy EXCEPT ![s] = W!Raised(s)] /\ sy'[s] = W!Raised(s)
      BY <1>1, <2>2 DEF W!Raise
    <3>2. sy'[s].pc = "abort final" /\ sy'[s].out = "failed" /\ sy'[s] \in SyncRecord /\ sy'[s].sha1 = e
      BY <3>1, RaisedIs DEF W!Unwound
    <3>3. StagedIsOfficial(s)'
      BY <1>1, <3>2 DEF StagedIsOfficial
    <3> QED BY <2>2, <3>1, <3>2, <3>3 DEF W!ReplyLost
  <2>3. CASE W!ReplyLost(s) /\ W!Goto(s, "existing")
    <3>1. "existing" \in SyncPcs
      BY DEF SyncPcs
    <3>2. StagedIsOfficial(s)'
      BY <1>1, <2>3, <3>1, GotoIs DEF StagedIsOfficial
    <3> QED BY <2>3, <3>1, <3>2, GotoIs DEF W!ReplyLost
  <2> QED BY <2>1, <2>2, <2>3
<1>6. SyncMoves(s)
  <2>1. \A f \in 1..Editions : dest[f] # W!Absent => dest'[f] = dest[f]
    BY <1>2
  <2> QED BY <1>2, <1>4, <1>5, <2>1 DEF SyncMoves
<1> QED BY <1>3, <1>5, <1>6, SyncStep

LEMMA PublishStep == ASSUME SyncInv, NEW s \in Syncs, W!Publish(s) PROVE SyncInv'
<1>1. CASE /\ W!Conflicts(s) /\ UNCHANGED dest
           /\ \/ W!Replied(s) /\ open' = open \ {<<s, "final">>}
              \/ W!ReplyLost(s) /\ UNCHANGED open
           /\ W!Goto(s, "existing")
  <2>1. "existing" \in SyncPcs /\ sy[s].pc = "publish" /\ UNCHANGED <<up, sums, stage>>
    BY DEF SyncPcs, W!Publish
  <2>2. StagedIsOfficial(s)'
    BY <1>1, <2>1, GotoIs DEF SyncInv, StagedIsOfficial
  <2>3. s \notin lost' => LeftBehind(s)'
    BY <1>1, <2>1, GotoIs DEF SyncInv, LeftBehind, W!Replied, W!ReplyLost
  <2>4. /\ lost \subseteq lost'
        /\ \A t \in Syncs \ {s}, k \in {"staging", "final"} : <<t, k>> \in open' => <<t, k>> \in open
    BY <1>1 DEF W!Replied, W!ReplyLost
  <2> QED BY <1>1, <2>1, <2>2, <2>3, <2>4, GotoIs, StageStays, QuietStep
<1>2. CASE ~(W!Conflicts(s) /\ UNCHANGED dest
             /\ (\/ W!Replied(s) /\ open' = open \ {<<s, "final">>}
                 \/ W!ReplyLost(s) /\ UNCHANGED open)
             /\ W!Goto(s, "existing"))
  <2>1. UNCHANGED <<up, sums, stage>> /\ sy[s].pc = "publish"
    BY DEF W!Publish
  <2>2. /\ dest[sy[s].sha1] = W!Absent /\ dest' = [dest EXCEPT ![sy[s].sha1] = W!Final(s)]
        /\ open' = open \ {<<s, "final">>}
        /\ \/ /\ W!Replied(s)
              /\ sy' = [sy EXCEPT ![s].pc = "check", ![s].res = W!Final(s), ![s].out = "done"]
           \/ W!ReplyLost(s) /\ (W!Raise(s) \/ W!Goto(s, "existing"))
    BY <1>2 DEF W!Publish
  <2> QED BY <2>1, <2>2, PublishedStep
<1> QED BY <1>1, <1>2

LEMMA CompareWinnerStep == ASSUME SyncInv, NEW s \in Syncs, W!CompareWinner(s) PROVE SyncInv'
BY ExistingStep DEF W!CompareWinner

LEMMA UpstreamSteps == ASSUME SyncInv, W!Republish \/ W!PublishSums \/ UNCHANGED wikidata PROVE SyncInv'
<1>1. up' \in 1..Editions /\ sums' \in 1..Editions /\ UNCHANGED <<dest, stage, open, sy, lost>>
  BY SyncNumbers DEF SyncInv, SyncTypes, W!Republish, W!PublishSums, wikidata
<1>2. SyncTypes'
  BY <1>1 DEF SyncInv, SyncTypes
<1>3. W!PublishedIsOfficial'
  BY <1>1 DEF SyncInv, W!PublishedIsOfficial, W!HasSha1
<1>4. ASSUME NEW s \in Syncs PROVE StagedIsOfficial(s)' /\ (s \notin lost' => LeftBehind(s)')
  BY <1>1 DEF SyncInv, StagedIsOfficial, LeftBehind, W!HasSha1
<1> QED BY <1>2, <1>3, <1>4 DEF SyncInv

LEMMA SyncInit == W!Init => SyncInv
<1> SUFFICES ASSUME W!Init PROVE SyncInv
  OBVIOUS
<1>1. W!Idle \in SyncRecord /\ W!Absent \in FinalObject /\ <<>> \in Bytes /\ 1 \in 1..Editions
  BY SyncNumbers DEF W!Idle, W!Absent, SyncRecord, SyncPcs, FinalObject, Bytes
<1>2. SyncTypes
  BY <1>1 DEF W!Init, SyncTypes
<1>3. ASSUME NEW s \in Syncs PROVE StagedIsOfficial(s) /\ LeftBehind(s)
  <2>1. sy[s].pc = "idle" /\ stage[s] = <<>> /\ open = {}
    BY DEF W!Init, W!Idle
  <2> QED BY <2>1 DEF StagedIsOfficial, LeftBehind
<1>4. W!PublishedIsOfficial
  BY DEF W!Init, W!PublishedIsOfficial
<1> QED BY <1>2, <1>3, <1>4 DEF SyncInv

LEMMA SyncNext == SyncInv /\ [W!Next]_wikidata => SyncInv'
<1> SUFFICES ASSUME SyncInv, [W!Next]_wikidata PROVE SyncInv'
  OBVIOUS
<1>1. CASE W!Republish \/ W!PublishSums \/ UNCHANGED wikidata
  BY <1>1, UpstreamSteps
<1>2. ASSUME NEW s \in Syncs, W!Sync(s) \/ W!Dies(s) PROVE SyncInv'
  BY <1>2, RefusedStep, FetchSha1Step, LookupStep, HeadDumpStep, CreateSteps, ReadRangeStep,
    RangeFailsStep, StageVerifiedStep, CopySteps, PublishStep, CompareWinnerStep, AbortUploadStep,
    DeleteStagingStep DEF W!Sync
<1> QED BY <1>1, <1>2 DEF W!Next

LEMMA SyncsAgree == SyncInv => W!ResultsAgree
  BY DEF SyncInv, StagedIsOfficial, W!ResultsAgree

LEMMA SyncsClean == SyncInv => W!SyncsCleanUp
  BY DEF SyncInv, LeftBehind, W!SyncsCleanUp

\* ------------------------------------------------------------ ImmutableStore

IsObject(o) == o = [bytes |-> o.bytes, version |-> o.version] /\ o.version \in Nat \ {0}
StoreOK(store0) == \A key \in DOMAIN store0 : IsObject(store0[key])

\* No object is replaced; one may be new.
Keeps(before, after) == \A key \in DOMAIN before : key \in DOMAIN after /\ after[key] = before[key]
Stores(before, after, key, bytes) ==
  /\ StoreOK(after) /\ Keeps(before, after)
  /\ \A k \in DOMAIN after : k \in DOMAIN before \/ (k = key /\ after[k].bytes = bytes)

\* A call that returns a reference has found or left the object under its key.
Succeeds(after, key, bytes, ref) ==
  /\ key \in DOMAIN after /\ after[key] = ref /\ ref.bytes = bytes /\ IsObject(ref)

LEMMA Outcomes ==
  ASSUME NEW before, NEW key, NEW bytes, NEW writer \in Nat \ {0}, StoreOK(before),
         NEW o \in P!PublishOutcomes(before, key, bytes, writer)
  PROVE  /\ Stores(before, o.objects, key, bytes)
         /\ ~P!Failed(o.ref) => Succeeds(o.objects, key, bytes, o.ref)
<1>1. CASE o = P!Outcome(before, P!NoRef)
  BY <1>1 DEF P!Outcome, P!NoRef, P!Failed, Stores, Keeps
<1>2. CASE key \in DOMAIN before /\ o = P!Outcome(before, before[key]) /\ before[key].bytes = bytes
  BY <1>2 DEF P!Outcome, P!Failed, Stores, Keeps, Succeeds, StoreOK
<1>3. CASE /\ key \notin DOMAIN before
           /\ \/ o = P!Outcome(P!Put(before, key, P!Version(bytes, writer)), P!NoRef)
              \/ o = P!Outcome(P!Put(before, key, P!Version(bytes, writer)), P!Version(bytes, writer))
  <2> DEFINE mine == P!Version(bytes, writer)
             after == P!Put(before, key, mine)
  <2>1. mine.bytes = bytes /\ IsObject(mine)
    BY DEF P!Version, IsObject
  <2>2. /\ DOMAIN after = DOMAIN before \cup {key} /\ after[key] = mine
        /\ \A k \in DOMAIN before : after[k] = before[k]
    BY <1>3 DEF P!Put
  <2> HIDE DEF mine, after
  <2>3. Stores(before, after, key, bytes) /\ Succeeds(after, key, bytes, mine)
    BY <2>1, <2>2 DEF Stores, Keeps, StoreOK, Succeeds
  <2>4. o.objects = after /\ (o.ref = P!NoRef \/ o.ref = mine)
    BY <1>3 DEF P!Outcome, mine, after
  <2>5. P!Failed(P!NoRef)
    BY DEF P!Failed
  <2> QED BY <2>3, <2>4, <2>5
<1> QED BY <1>1, <1>2, <1>3 DEF P!PublishOutcomes

LEMMA KeepsAll == ASSUME NEW a PROVE Keeps(a, a)
  BY DEF Keeps

\* ------------------------------------------------------------ ConnectorPartitions

CaptureShape(r) ==
  r = [field \in {"pc", "edition", "batch", "next", "completed", "result"} |-> r[field]]

\* A capture that has a batch has the raw files that are stored, one that is done the
\* stored record set of its batch.
CaptureOK(c) ==
  /\ CaptureShape(cap[c])
  /\ cap[c].pc \notin {"idle", "failed"} =>
       /\ P!RawKey(cap[c].edition) \in DOMAIN objects
       /\ objects[P!RawKey(cap[c].edition)] = cap[c].batch
  /\ cap[c].pc = "done" =>
       /\ P!SetKey(cap[c].batch) \in DOMAIN objects
       /\ objects[P!SetKey(cap[c].batch)] = cap[c].result

PartitionsInv ==
  /\ StoreOK(objects)
  /\ cap = [c \in P!Captures |-> cap[c]]
  /\ \A c \in P!Captures : CaptureOK(c)

LEMMA CaptureMoves ==
  ASSUME PartitionsInv, NEW c \in P!Captures, cap' = [cap EXCEPT ![c] = cap'[c]],
         StoreOK(objects'), Keeps(objects, objects'), CaptureOK(c)'
  PROVE  PartitionsInv'
<1>1. ASSUME NEW d \in P!Captures, d # c PROVE CaptureOK(d)'
  <2>1. cap'[d] = cap[d]
    BY <1>1 DEF PartitionsInv
  <2>2. CaptureOK(d)
    BY DEF PartitionsInv
  <2>3. /\ P!RawKey(cap'[d].edition) = P!RawKey(cap[d].edition)
        /\ P!SetKey(cap'[d].batch) = P!SetKey(cap[d].batch)
    BY <2>1
  <2> QED BY <2>1, <2>2, <2>3 DEF CaptureOK, Keeps, CaptureShape
<1>2. cap' = [d \in P!Captures |-> cap'[d]]
  BY DEF PartitionsInv
<1> QED BY <1>1, <1>2 DEF PartitionsInv

\* A capture that goes elsewhere, or ends in failure.
LEMMA CaptureGoes ==
  ASSUME PartitionsInv, NEW c \in P!Captures, cap' = [cap EXCEPT ![c] = cap'[c]],
         CaptureShape(cap'[c]), StoreOK(objects'), Keeps(objects, objects'),
         cap'[c].pc = "failed" \/
           /\ cap[c].pc \notin {"idle", "failed"} /\ cap'[c].pc # "done"
           /\ cap'[c].edition = cap[c].edition /\ cap'[c].batch = cap[c].batch
  PROVE  PartitionsInv'
<1>1. CaptureOK(c)'
  BY DEF PartitionsInv, CaptureOK, Keeps, P!RawKey
<1> QED BY <1>1, CaptureMoves

\* What becomes of the record of a capture.
LEMMA EndsIs ==
  ASSUME PartitionsInv, NEW c \in P!Captures, NEW pc, NEW result, P!Ends(c, pc, result)
  PROVE  /\ cap' = [cap EXCEPT ![c] = cap'[c]] /\ CaptureShape(cap'[c])
         /\ cap'[c].pc = pc /\ cap'[c].result = result
         /\ cap'[c].edition = cap[c].edition /\ cap'[c].batch = cap[c].batch
<1>1. CaptureShape(cap[c]) /\ cap = [d \in P!Captures |-> cap[d]]
  BY DEF PartitionsInv, CaptureOK
<1> DEFINE new == [cap[c] EXCEPT !.pc = pc, !.next = 1, !.result = result,
                                 !.completed = P!IdleCapture.completed]
<1>2. cap' = [cap EXCEPT ![c] = new]
  BY DEF P!Ends
<1>3. /\ CaptureShape(new) /\ new.pc = pc /\ new.result = result
      /\ new.edition = cap[c].edition /\ new.batch = cap[c].batch
  BY <1>1 DEF CaptureShape
<1> HIDE DEF new
<1> QED BY <1>1, <1>2, <1>3

LEMMA ContinuesIs ==
  ASSUME PartitionsInv, NEW c \in P!Captures, NEW pc, P!Continues(c, pc)
  PROVE  /\ cap' = [cap EXCEPT ![c] = cap'[c]] /\ CaptureShape(cap'[c]) /\ cap'[c].pc = pc
         /\ cap'[c].edition = cap[c].edition /\ cap'[c].batch = cap[c].batch
<1>1. CaptureShape(cap[c]) /\ cap = [d \in P!Captures |-> cap[d]]
  BY DEF PartitionsInv, CaptureOK
<1>2. cap' = [cap EXCEPT ![c] = [cap[c] EXCEPT !.pc = pc]]
  BY <1>1 DEF P!Continues
<1> QED BY <1>1, <1>2 DEF CaptureShape

LEMMA FailsStep ==
  ASSUME PartitionsInv, NEW c \in P!Captures, P!Fails(c), StoreOK(objects'), Keeps(objects, objects')
  PROVE  PartitionsInv'
BY EndsIs, CaptureGoes DEF P!Fails

LEMMA Writer == ASSUME NEW c \in P!Captures PROVE c \in Nat \ {0}
  BY DEF P!Captures

LEMMA CaptureFirst == ASSUME PartitionsInv, NEW c \in P!Captures, NEW e, P!PrepareBatch(c, e) PROVE PartitionsInv'
<1>1. PICK o \in P!PublishOutcomes(objects, P!RawKey(e), <<e>>, c) :
        /\ objects' = o.objects
        /\ cap' = [cap EXCEPT ![c] = [@ EXCEPT !.edition = e, !.batch = o.ref,
                                             !.pc = IF P!Failed(o.ref) THEN "failed" ELSE "batch"]]
  BY DEF P!PrepareBatch
<1>2. /\ Stores(objects, objects', P!RawKey(e), <<e>>)
      /\ ~P!Failed(o.ref) => Succeeds(objects', P!RawKey(e), <<e>>, o.ref)
  BY <1>1, Outcomes, Writer DEF PartitionsInv
<1> DEFINE pc == IF P!Failed(o.ref) THEN "failed" ELSE "batch"
<1>3. pc = "batch" \/ pc = "failed"
  OBVIOUS
<1>4. pc = "batch" => ~P!Failed(o.ref)
  OBVIOUS
<1>5. CaptureShape(cap[c]) /\ cap = [d \in P!Captures |-> cap[d]]
  BY DEF PartitionsInv, CaptureOK
<1>6. cap'[c] = [cap[c] EXCEPT !.edition = e, !.batch = o.ref, !.pc = pc] /\ cap' = [cap EXCEPT ![c] = cap'[c]]
  BY <1>1, <1>5
<1> HIDE DEF pc
<1>7. CaptureShape(cap'[c]) /\ cap'[c].pc = pc /\ cap'[c].edition = e /\ cap'[c].batch = o.ref
  BY <1>5, <1>6 DEF CaptureShape
<1>8. CaptureOK(c)'
  BY <1>2, <1>3, <1>4, <1>7 DEF CaptureOK, Succeeds
<1> QED BY <1>2, <1>6, <1>8, CaptureMoves DEF Stores

LEMMA CaptureBatchStep == ASSUME PartitionsInv, NEW c \in P!Captures, P!PublishBatch(c) PROVE PartitionsInv'
<1>1. PICK o \in P!PublishOutcomes(objects, P!BatchKey(cap[c].batch), <<cap[c].batch>>, c) :
        objects' = o.objects /\ (P!Fails(c) \/ P!Continues(c, "load"))
  BY DEF P!PublishBatch
<1>2. StoreOK(objects') /\ Keeps(objects, objects')
  BY <1>1, Outcomes, Writer DEF PartitionsInv, Stores
<1>3. cap[c].pc = "batch"
  BY DEF P!PublishBatch
<1> QED BY <1>1, <1>2, <1>3, FailsStep, ContinuesIs, CaptureGoes

LEMMA FinalizeStep == ASSUME PartitionsInv, NEW c \in P!Captures, P!Finalize(c) PROVE PartitionsInv'
<1> DEFINE key == P!SetKey(cap[c].batch)
<1>1. PICK o \in P!PublishOutcomes(objects, key, P!RecordObjects(c), c) :
        objects' = o.objects /\ IF P!Failed(o.ref) THEN P!Fails(c) ELSE P!Ends(c, "done", o.ref)
  BY DEF P!Finalize
<1>2. /\ Stores(objects, objects', key, P!RecordObjects(c))
      /\ ~P!Failed(o.ref) => Succeeds(objects', key, P!RecordObjects(c), o.ref)
  BY <1>1, Outcomes, Writer DEF PartitionsInv
<1>3. StoreOK(objects') /\ Keeps(objects, objects')
  BY <1>2 DEF Stores
<1>4. CASE P!Failed(o.ref)
  BY <1>1, <1>3, <1>4, FailsStep
<1>5. CASE ~P!Failed(o.ref)
  <2>1. P!Ends(c, "done", o.ref)
    BY <1>1, <1>5
  <2>2. /\ cap' = [cap EXCEPT ![c] = cap'[c]] /\ CaptureShape(cap'[c])
        /\ cap'[c].pc = "done" /\ cap'[c].result = o.ref
        /\ cap'[c].edition = cap[c].edition /\ cap'[c].batch = cap[c].batch
    BY <2>1, EndsIs
  <2>3. cap[c].pc = "final" /\ CaptureOK(c)
    BY DEF P!Finalize, PartitionsInv
  <2>4. CaptureOK(c)'
    BY <1>2, <1>3, <1>5, <2>2, <2>3 DEF CaptureOK, Succeeds, Keeps, P!RawKey
  <2> QED BY <1>3, <2>2, <2>4, CaptureMoves
<1> QED BY <1>4, <1>5

LEMMA LoadPartitionStep == ASSUME PartitionsInv, NEW c \in P!Captures, P!LoadPartition(c) PROVE PartitionsInv'
<1>1. UNCHANGED objects /\ StoreOK(objects') /\ Keeps(objects, objects') /\ cap[c].pc = "load"
  BY KeepsAll DEF P!LoadPartition, PartitionsInv
<1>2. CASE P!Fails(c)
  BY <1>1, <1>2, FailsStep
<1>3. CASE ~P!Fails(c)
  <2> DEFINE key == P!CheckpointKey(cap[c].batch, cap[c].next)
             found == IF key \in DOMAIN objects THEN objects[key] ELSE P!NoRef
             completed == [cap[c].completed EXCEPT ![cap[c].next] = found]
             pc == IF cap[c].next = Partitions THEN "pool" ELSE "load"
  <2>1. cap' = [cap EXCEPT ![c].completed = completed, ![c].next = @ + 1, ![c].pc = pc]
    BY <1>3 DEF P!LoadPartition
  <2>2. CaptureShape(cap[c]) /\ cap = [d \in P!Captures |-> cap[d]]
    BY DEF PartitionsInv, CaptureOK
  <2>5. pc \in {"pool", "load"}
    OBVIOUS
  <2> HIDE DEF completed, pc
  <2>3. /\ cap'[c] = [cap[c] EXCEPT !.completed = completed, !.next = @ + 1, !.pc = pc]
        /\ cap' = [cap EXCEPT ![c] = cap'[c]]
    BY <2>1, <2>2
  <2>4. CaptureShape(cap'[c]) /\ cap'[c].pc = pc /\ cap'[c].edition = cap[c].edition /\ cap'[c].batch = cap[c].batch
    BY <2>2, <2>3 DEF CaptureShape
  <2> QED BY <1>1, <2>3, <2>4, <2>5, CaptureGoes
<1> QED BY <1>2, <1>3

\* Steps of the capture that publish nothing.
LEMMA CaptureQuiet ==
  ASSUME PartitionsInv, NEW c \in P!Captures, P!Refused(c) \/ P!Join(c) \/ P!Dies(c)
  PROVE  PartitionsInv'
<1>1. UNCHANGED objects /\ StoreOK(objects') /\ Keeps(objects, objects')
  BY KeepsAll DEF PartitionsInv, P!Refused, P!Join, P!Dies
<1>2. CASE P!Fails(c)
  BY <1>1, <1>2, FailsStep
<1>3. CASE P!Join(c) /\ P!Continues(c, "final")
  <2>1. cap[c].pc = "pool"
    BY <1>3 DEF P!Join
  <2> QED BY <1>1, <1>3, <2>1, ContinuesIs, CaptureGoes
<1> QED BY <1>2, <1>3 DEF P!Refused, P!Join, P!Dies

\* Steps of a worker process change the store at most.
LEMMA WorkerStep ==
  ASSUME PartitionsInv, UNCHANGED cap, StoreOK(objects'), Keeps(objects, objects')
  PROVE  PartitionsInv'
BY DEF PartitionsInv, CaptureOK, CaptureShape, Keeps, P!RawKey, P!SetKey

LEMMA WorkerSteps ==
  ASSUME PartitionsInv, NEW c \in P!Captures,
         \/ P!CancelWaiting(c)
         \/ \E p \in P!Datasets : P!StartTask(c, p) \/ P!PublishShard(c, p) \/ P!PublishCheckpoint(c, p)
  PROVE  PartitionsInv'
<1>1. UNCHANGED cap
  BY DEF P!CancelWaiting, P!StartTask, P!PublishShard, P!PublishCheckpoint
<1>2. UNCHANGED objects \/ \E key, bytes : \E o \in P!PublishOutcomes(objects, key, bytes, c) : objects' = o.objects
  BY DEF P!CancelWaiting, P!StartTask, P!PublishShard, P!PublishCheckpoint
<1>3. StoreOK(objects') /\ Keeps(objects, objects')
  BY <1>2, Outcomes, KeepsAll, Writer DEF PartitionsInv, Stores
<1> QED BY <1>1, <1>3, WorkerStep

LEMMA PartitionsInit == P!Init => PartitionsInv
<1> SUFFICES ASSUME P!Init PROVE PartitionsInv
  OBVIOUS
<1>1. StoreOK(objects)
  BY DEF P!Init, StoreOK
<1>2. ASSUME NEW c \in P!Captures PROVE CaptureOK(c)
  <2>1. cap[c] = P!IdleCapture
    BY DEF P!Init
  <2> QED BY <2>1 DEF CaptureOK, CaptureShape, P!IdleCapture
<1> QED BY <1>1, <1>2 DEF P!Init, PartitionsInv

LEMMA PartitionsNext == PartitionsInv /\ [P!Next]_imdb => PartitionsInv'
<1> SUFFICES ASSUME PartitionsInv, [P!Next]_imdb PROVE PartitionsInv'
  OBVIOUS
<1>1. CASE UNCHANGED imdb
  BY <1>1, WorkerStep, KeepsAll DEF imdb, PartitionsInv
<1>2. ASSUME NEW c \in P!Captures, (\E e \in 1..c : P!PrepareBatch(c, e)) \/ P!Work(c) \/ P!Dies(c)
      PROVE  PartitionsInv'
  BY <1>2, CaptureFirst, CaptureBatchStep, LoadPartitionStep, CaptureQuiet, FinalizeStep, WorkerSteps
  DEF P!Work
<1> QED BY <1>1, <1>2 DEF P!Next

LEMMA PartitionsAgree == PartitionsInv => P!CapturesAgree
  BY DEF PartitionsInv, CaptureOK, P!CapturesAgree

\* The instances publish alike.
LEMMA SameOutcomes ==
  ASSUME NEW before, NEW key, NEW bytes, NEW writer
  PROVE  /\ B!PublishOutcomes(before, key, bytes, writer) = P!PublishOutcomes(before, key, bytes, writer)
         /\ E!PublishOutcomes(before, key, bytes, writer) = P!PublishOutcomes(before, key, bytes, writer)
BY DEF B!PublishOutcomes, P!PublishOutcomes, E!PublishOutcomes, B!Outcome, P!Outcome, E!Outcome,
       B!NoRef, P!NoRef, E!NoRef, B!Version, P!Version, E!Version, B!Put, P!Put, E!Put

LEMMA SameFailed == ASSUME NEW ref PROVE B!Failed(ref) = P!Failed(ref) /\ E!Failed(ref) = P!Failed(ref)
  BY DEF B!Failed, P!Failed, E!Failed, B!NoRef, P!NoRef, E!NoRef

\* ------------------------------------------------------------ WikidataBackfill

RunShape(s) ==
  s = [field \in {"pc", "mode", "image", "build", "gp", "shards", "parts", "epochs", "refs", "result"}
         |-> s[field]]

PublishPcs == {"shards", "epoch", "batch", "set", "watermark", "receipt", "commit"}

\* A run that publishes has the one build of the dump, and one that is done the
\* stored commit or that build.
RunOK(s, kept) ==
  /\ RunShape(s) /\ s.mode \in {"profile", "backfill"}
  /\ s.pc = "existing" => s.mode = "backfill"
  /\ s.pc \in PublishPcs => s.mode = "backfill" /\ s.build \in dump.builds
  /\ s.pc = "done" /\ s.mode = "backfill" =>
       B!CommitKey(s.image) \in DOMAIN kept /\ kept[B!CommitKey(s.image)].bytes = s.result
  /\ s.pc = "done" /\ s.mode = "profile" => \E build \in dump.builds : s.result = <<build>>

IsCommit(o, builds) == \E commit : o.bytes = <<commit>> /\ commit.profile \in builds

BackfillInv ==
  /\ StoreOK(things)
  /\ \A a, b \in dump.builds : a = b
  /\ run = [r \in 1..Runs |-> run[r]]
  /\ \A key \in DOMAIN things : (\E image : key = B!CommitKey(image)) => IsCommit(things[key], dump.builds)
  /\ \A r \in 1..Runs : RunOK(run[r], things)

LEMMA RunStays ==
  ASSUME NEW s, NEW a, NEW b, RunOK(s, a), Keeps(a, b)
  PROVE  RunOK(s, b)
BY DEF RunOK, Keeps

\* A step of one run; a key that may be new is a commit or none.
LEMMA RunStep ==
  ASSUME BackfillInv, NEW r \in 1..Runs, NEW state, NEW key, NEW bytes, UNCHANGED dump,
         Stores(things, things', key, bytes),
         (\E image : key = B!CommitKey(image)) =>
            \E commit : bytes = <<commit>> /\ commit.profile \in dump.builds,
         B!Becomes(r, state), RunOK(state, things')
  PROVE  BackfillInv'
<1>1. Keeps(things, things') /\ StoreOK(things')
  BY DEF Stores
<1>2. run' = [run EXCEPT ![r] = state] /\ run = [q \in 1..Runs |-> run[q]]
  BY DEF B!Becomes, BackfillInv
<1>3. ASSUME NEW q \in 1..Runs PROVE RunOK(run'[q], things')
  <2>1. CASE q = r
    BY <1>2, <2>1
  <2>2. CASE q # r
    BY <1>1, <1>2, <2>2, RunStays DEF BackfillInv
  <2> QED BY <2>1, <2>2
<1>4. \A q \in 1..Runs : RunOK(run[q], things)'
  BY <1>3 DEF RunOK
<1>5. ASSUME NEW k \in DOMAIN things', \E image : k = B!CommitKey(image)
      PROVE  IsCommit(things'[k], dump.builds)
  <2>1. CASE k \in DOMAIN things
    <3>1. things'[k] = things[k] /\ IsCommit(things[k], dump.builds)
      BY <1>1, <1>5, <2>1 DEF Keeps, BackfillInv
    <3> QED BY <3>1
  <2>2. CASE k = key /\ things'[k].bytes = bytes
    BY <1>5, <2>2 DEF IsCommit
  <2> QED BY <2>1, <2>2 DEF Stores
<1>6. \A k \in DOMAIN things' : (\E image : k = B!CommitKey(image)) => IsCommit(things'[k], dump.builds)
  BY <1>5
<1>7. run' = [q \in 1..Runs |-> run'[q]]
  BY <1>2
<1>8. \A a, b \in dump'.builds : a = b
  BY DEF BackfillInv
<1> QED BY <1>1, <1>4, <1>6, <1>7, <1>8 DEF BackfillInv

NoCommitKey(key) == \A image : key # B!CommitKey(image)

LEMMA QuietRun ==
  ASSUME BackfillInv, NEW r \in 1..Runs, NEW state, UNCHANGED <<dump, things>>,
         B!Becomes(r, state), RunOK(state, things)
  PROVE  BackfillInv'
<1>1. Stores(things, things', B!MarkerKey, <<>>)
  BY KeepsAll DEF BackfillInv, Stores
<1>2. NoCommitKey(B!MarkerKey)
  BY DEF NoCommitKey, B!MarkerKey, B!CommitKey
<1> QED BY <1>1, <1>2, RunStep DEF NoCommitKey

LEMMA FailedRun == ASSUME NEW kept PROVE RunOK([B!IdleRun EXCEPT !.pc = "failed"], kept)
<1> DEFINE s == [B!IdleRun EXCEPT !.pc = "failed"]
<1>1. RunShape(s) /\ s.pc = "failed" /\ s.mode = "profile"
  BY DEF RunShape, B!IdleRun
<1> HIDE DEF s
<1> QED BY <1>1 DEF RunOK, PublishPcs, s

LEMMA LeavesStep ==
  ASSUME BackfillInv, NEW r \in 1..Runs, UNCHANGED <<dump, things>>, B!Leaves(r)
  PROVE  BackfillInv'
BY FailedRun, QuietRun DEF B!Leaves

\* A publication that is no commit.
LEMMA PublishesOn ==
  ASSUME BackfillInv, NEW r \in 1..Runs, NEW key, NEW bytes, NoCommitKey(key), UNCHANGED dump,
         NEW o \in B!PublishOutcomes(things, key, bytes, 1), things' = o.objects,
         NEW state, RunOK(state, things), B!Leaves(r) \/ B!Becomes(r, state)
  PROVE  BackfillInv'
<1>1. Stores(things, things', key, bytes)
  BY SameOutcomes, Outcomes DEF BackfillInv
<1>2. RunOK(state, things') /\ RunOK([B!IdleRun EXCEPT !.pc = "failed"], things')
  BY <1>1, RunStays, FailedRun DEF Stores
<1> QED BY <1>1, <1>2, RunStep DEF NoCommitKey, B!Leaves

\* The record of a run whose build stays.
Onwards(r, state) ==
  RunShape(state) /\ state.pc \in PublishPcs /\ state.mode = run[r].mode /\ state.build = run[r].build

LEMMA OnwardsOK ==
  ASSUME BackfillInv, NEW r \in 1..Runs, NEW state, run[r].pc \in PublishPcs, Onwards(r, state)
  PROVE  RunOK(state, things)
<1>1. RunOK(run[r], things)
  BY DEF BackfillInv
<1> QED BY <1>1 DEF RunOK, Onwards, PublishPcs

LEMMA ShapeOf == ASSUME BackfillInv, NEW r \in 1..Runs PROVE RunShape(run[r]) /\ run = [q \in 1..Runs |-> run[q]]
  BY DEF BackfillInv, RunOK

LEMMA AdvancedIs ==
  ASSUME NEW s, RunShape(s)
  PROVE  /\ RunShape(B!Advanced(s)) /\ B!Advanced(s).pc \in {"shards", "epoch"}
         /\ B!Advanced(s).mode = s.mode /\ B!Advanced(s).build = s.build
<1> DEFINE gp == s.gp + 1
           pc == IF gp = s.build.partitions \/ gp % PartitionsPerEpoch = 0 THEN "epoch" ELSE "shards"
<1>1. B!Advanced(s) = [s EXCEPT !.gp = gp, !.shards = <<>>, !.pc = pc] /\ pc \in {"shards", "epoch"}
  BY DEF B!Advanced
<1> HIDE DEF gp, pc
<1> QED BY <1>1 DEF RunShape

LEMMA AfterEpochIs ==
  ASSUME NEW s, RunShape(s)
  PROVE  /\ RunShape(B!AfterEpoch(s)) /\ B!AfterEpoch(s).pc \in {"shards", "batch"}
         /\ B!AfterEpoch(s).mode = s.mode /\ B!AfterEpoch(s).build = s.build
<1> DEFINE pc == IF s.gp < s.build.partitions THEN "shards" ELSE "batch"
<1>1. B!AfterEpoch(s) = [s EXCEPT !.parts = <<>>, !.pc = pc] /\ pc \in {"shards", "batch"}
  BY DEF B!AfterEpoch
<1> HIDE DEF pc
<1> QED BY <1>1 DEF RunShape

LEMMA PublishShardStep == ASSUME BackfillInv, NEW r \in 1..Runs, B!PublishShard(r) PROVE BackfillInv'
<1>1. run[r].pc = "shards"
  BY DEF B!PublishShard, B!At
<1> DEFINE shard == B!Due(r)[Len(run[r].shards) + 1]
           lines == B!Envelopes(run[r].build, shard)
           key == <<run[r].image, "shard", B!EpochOf(run[r].gp), run[r].gp, shard, lines>>
           Next(object) == [run[r] EXCEPT !.shards = Append(@, B!RecordShard(shard, object))]
<1>2. CASE ~B!Inspected(run[r].build, lines)
  BY <1>2, LeavesStep DEF B!PublishShard
<1>3. CASE B!Inspected(run[r].build, lines)
  <2>1. PICK o \in B!PublishOutcomes(things, key, lines, 1) :
          /\ things' = o.objects /\ UNCHANGED dump
          /\ B!Leaves(r) \/ B!Becomes(r, Next(B!Object(key, o.ref)))
    BY <1>3 DEF B!PublishShard, B!Publishing
  <2>2. NoCommitKey(key)
    BY DEF NoCommitKey, B!CommitKey
  <2>3. Onwards(r, Next(B!Object(key, o.ref)))
    BY <1>1, ShapeOf DEF Onwards, RunShape, PublishPcs
  <2> HIDE DEF key, Next, lines
  <2> QED BY <1>1, <2>1, <2>2, <2>3, OnwardsOK, PublishesOn DEF PublishPcs
<1> QED BY <1>2, <1>3

LEMMA PublishPartitionStep == ASSUME BackfillInv, NEW r \in 1..Runs, B!PublishPartition(r) PROVE BackfillInv'
<1> DEFINE key == <<run[r].image, "partition", run[r].gp>>
           bytes == <<B!PartitionManifest(run[r].gp, run[r].shards)>>
           Added(object) == [run[r] EXCEPT !.parts = Append(@, B!Entry(object))]
<1>1. PICK o \in B!PublishOutcomes(things, key, bytes, 1) :
        /\ things' = o.objects /\ UNCHANGED dump /\ run[r].pc = "shards"
        /\ B!Leaves(r) \/ B!Becomes(r, B!Advanced(Added(B!Object(key, o.ref))))
  BY DEF B!PublishPartition, B!Publishing, B!At
<1> DEFINE added == Added(B!Object(key, o.ref))
<1>2. NoCommitKey(key)
  BY DEF NoCommitKey, B!CommitKey
<1>3. RunShape(added) /\ added.mode = run[r].mode /\ added.build = run[r].build
  BY ShapeOf DEF RunShape
<1> HIDE DEF key, bytes, Added
<1>4. Onwards(r, B!Advanced(added))
  BY <1>3, AdvancedIs DEF Onwards, PublishPcs
<1> QED BY <1>1, <1>2, <1>4, OnwardsOK, PublishesOn DEF PublishPcs

LEMMA PublishEpochStep == ASSUME BackfillInv, NEW r \in 1..Runs, B!PublishEpoch(r) PROVE BackfillInv'
<1> DEFINE epoch == B!EpochOf(run[r].gp - 1)
           key == <<run[r].image, "epoch", epoch>>
           bytes == <<B!EpochManifest(epoch, run[r].parts)>>
           Added(object) == [run[r] EXCEPT !.epochs = Append(@, B!Entry(object))]
<1>1. PICK o \in B!PublishOutcomes(things, key, bytes, 1) :
        /\ things' = o.objects /\ UNCHANGED dump /\ run[r].pc = "epoch"
        /\ B!Leaves(r) \/ B!Becomes(r, B!AfterEpoch(Added(B!Object(key, o.ref))))
  BY DEF B!PublishEpoch, B!Publishing, B!At
<1> DEFINE added == Added(B!Object(key, o.ref))
<1>2. NoCommitKey(key)
  BY DEF NoCommitKey, B!CommitKey
<1>3. RunShape(added) /\ added.mode = run[r].mode /\ added.build = run[r].build
  BY ShapeOf DEF RunShape
<1> HIDE DEF key, bytes, Added
<1>4. Onwards(r, B!AfterEpoch(added))
  BY <1>3, AfterEpochIs DEF Onwards, PublishPcs
<1> QED BY <1>1, <1>2, <1>4, OnwardsOK, PublishesOn DEF PublishPcs

LEMMA SkipSteps ==
  ASSUME BackfillInv, NEW r \in 1..Runs, B!SkipPartition(r) \/ B!SkipEpoch(r)
  PROVE  BackfillInv'
<1>1. PICK state \in {B!Advanced(run[r]), B!AfterEpoch(run[r])} :
        B!Becomes(r, state) /\ UNCHANGED <<dump, things>> /\ run[r].pc \in {"shards", "epoch"}
  BY DEF B!SkipPartition, B!SkipEpoch, B!At
<1>2. Onwards(r, state)
  BY <1>1, AdvancedIs, AfterEpochIs, ShapeOf DEF Onwards, PublishPcs
<1> QED BY <1>1, <1>2, OnwardsOK, QuietRun DEF PublishPcs

LEMMA PublishBatchStep == ASSUME BackfillInv, NEW r \in 1..Runs, B!PublishBatch(r) PROVE BackfillInv'
<1> DEFINE key == <<run[r].image, "batch">>
           Next(object) == [run[r] EXCEPT !.pc = "set", !.refs = <<object>>]
<1>1. PICK o \in B!PublishOutcomes(things, key, <<B!Batch(r)>>, 1) :
        /\ things' = o.objects /\ UNCHANGED dump /\ run[r].pc = "batch"
        /\ B!Leaves(r) \/ B!Becomes(r, Next(B!Object(key, o.ref)))
  BY DEF B!PublishBatch, B!Publishing, B!At
<1>2. NoCommitKey(key)
  BY DEF NoCommitKey, B!CommitKey
<1>3. Onwards(r, Next(B!Object(key, o.ref)))
  BY <1>1, ShapeOf DEF Onwards, RunShape, PublishPcs
<1> HIDE DEF key, Next
<1> QED BY <1>1, <1>2, <1>3, OnwardsOK, PublishesOn DEF PublishPcs

LEMMA PublishSetStep == ASSUME BackfillInv, NEW r \in 1..Runs, B!PublishSet(r) PROVE BackfillInv'
<1> DEFINE key == <<run[r].image, "set">>
           Next(object) == [run[r] EXCEPT !.pc = "watermark", !.refs = Append(@, object)]
<1>1. PICK o \in B!PublishOutcomes(things, key, <<B!ShardedRecordSet(run[r].epochs)>>, 1) :
        /\ things' = o.objects /\ UNCHANGED dump /\ run[r].pc = "set"
        /\ B!Leaves(r) \/ B!Becomes(r, Next(B!Object(key, o.ref)))
  BY DEF B!PublishSet, B!Publishing, B!At
<1>2. NoCommitKey(key)
  BY DEF NoCommitKey, B!CommitKey
<1>3. Onwards(r, Next(B!Object(key, o.ref)))
  BY <1>1, ShapeOf DEF Onwards, RunShape, PublishPcs
<1> HIDE DEF key, Next
<1> QED BY <1>1, <1>2, <1>3, OnwardsOK, PublishesOn DEF PublishPcs

LEMMA PublishMarkStep == ASSUME BackfillInv, NEW r \in 1..Runs, B!PublishMark(r) PROVE BackfillInv'
<1> DEFINE key == <<run[r].image, "watermark">>
           Next(object) == [run[r] EXCEPT !.pc = "receipt", !.refs = Append(@, object)]
<1>1. PICK o \in B!PublishOutcomes(things, key, <<B!Mark(r)>>, 1) :
        /\ things' = o.objects /\ UNCHANGED dump /\ run[r].pc = "watermark"
        /\ B!Leaves(r) \/ B!Becomes(r, Next(B!Object(key, o.ref)))
  BY DEF B!PublishMark, B!Publishing, B!At
<1>2. NoCommitKey(key)
  BY DEF NoCommitKey, B!CommitKey
<1>3. Onwards(r, Next(B!Object(key, o.ref)))
  BY <1>1, ShapeOf DEF Onwards, RunShape, PublishPcs
<1> HIDE DEF key, Next
<1> QED BY <1>1, <1>2, <1>3, OnwardsOK, PublishesOn DEF PublishPcs

LEMMA PublishReceiptStep == ASSUME BackfillInv, NEW r \in 1..Runs, B!PublishReceipt(r) PROVE BackfillInv'
<1> DEFINE key == <<run[r].image, "receipt">>
           Next(object) == [run[r] EXCEPT !.pc = "commit", !.refs = Append(@, object)]
<1>1. PICK o \in B!PublishOutcomes(things, key, <<B!Receipt(r)>>, 1) :
        /\ things' = o.objects /\ UNCHANGED dump /\ run[r].pc = "receipt"
        /\ B!Leaves(r) \/ B!Becomes(r, Next(B!Object(key, o.ref)))
  BY DEF B!PublishReceipt, B!Publishing, B!At
<1>2. NoCommitKey(key)
  BY DEF NoCommitKey, B!CommitKey
<1>3. Onwards(r, Next(B!Object(key, o.ref)))
  BY <1>1, ShapeOf DEF Onwards, RunShape, PublishPcs
<1> HIDE DEF key, Next
<1> QED BY <1>1, <1>2, <1>3, OnwardsOK, PublishesOn DEF PublishPcs

\* The commit names the build of its run, or was there with the same bytes.
LEMMA PublishCommitStep == ASSUME BackfillInv, NEW r \in 1..Runs, B!PublishCommit(r) PROVE BackfillInv'
<1> DEFINE key == B!CommitKey(run[r].image)
           bytes == <<B!Commit(r)>>
           Next(object) == [B!IdleRun EXCEPT !.pc = "done", !.mode = run[r].mode,
                                             !.image = run[r].image, !.result = object.ref.bytes]
<1>1. PICK o \in B!PublishOutcomes(things, key, bytes, 1) :
        /\ things' = o.objects /\ UNCHANGED dump /\ run[r].pc = "commit"
        /\ IF P!Failed(o.ref) THEN B!Leaves(r) ELSE B!Becomes(r, Next(B!Object(key, o.ref)))
  BY SameFailed DEF B!PublishCommit, B!Publishing, B!At
<1>2. /\ Stores(things, things', key, bytes)
      /\ ~P!Failed(o.ref) => Succeeds(things', key, bytes, o.ref)
  BY <1>1, SameOutcomes, Outcomes DEF BackfillInv
<1>3. run[r].mode = "backfill" /\ run[r].build \in dump.builds
  BY <1>1 DEF BackfillInv, RunOK, PublishPcs
<1>4. B!Commit(r).profile \in dump.builds
  BY <1>3 DEF B!Commit
<1>5. CASE P!Failed(o.ref)
  <2>1. RunOK([B!IdleRun EXCEPT !.pc = "failed"], things')
    BY FailedRun
  <2> QED BY <1>1, <1>2, <1>4, <1>5, <2>1, RunStep DEF B!Leaves
<1>6. CASE ~P!Failed(o.ref)
  <2> DEFINE state == Next(B!Object(key, o.ref))
  <2>1. /\ RunShape(state) /\ state.pc = "done" /\ state.mode = run[r].mode
        /\ state.image = run[r].image /\ state.result = o.ref.bytes
    BY DEF RunShape, B!IdleRun, B!Object
  <2>2. B!Becomes(r, state)
    BY <1>1, <1>6
  <2> HIDE DEF state
  <2>3. RunOK(state, things')
    BY <1>2, <1>3, <1>6, <2>1 DEF RunOK, PublishPcs, Succeeds
  <2> QED BY <1>1, <1>2, <1>4, <2>2, <2>3, RunStep
<1> QED BY <1>5, <1>6

LEMMA PublishMarkerStep == ASSUME BackfillInv, NEW r \in 1..Runs, B!PublishMarker(r) PROVE BackfillInv'
<1> DEFINE state == [run[r] EXCEPT !.pc = "select"]
<1>1. PICK o \in B!PublishOutcomes(things, B!MarkerKey, <<B!StagingManifest>>, 1) :
        /\ things' = o.objects /\ UNCHANGED dump
        /\ B!Leaves(r) \/ B!Becomes(r, state)
  BY DEF B!PublishMarker, B!Publishing
<1>2. NoCommitKey(B!MarkerKey)
  BY DEF NoCommitKey, B!MarkerKey, B!CommitKey
<1>3. RunShape(state) /\ state.pc = "select" /\ state.mode = run[r].mode
  BY ShapeOf DEF RunShape
<1> HIDE DEF state
<1>4. RunOK(state, things)
  BY <1>3 DEF BackfillInv, RunOK, PublishPcs
<1> QED BY <1>1, <1>2, <1>4, PublishesOn

\* A run that goes elsewhere before it publishes.
LEMMA GoesOn ==
  ASSUME BackfillInv, NEW r \in 1..Runs, NEW pc \in {"dump", "existing", "normalize", "target", "write", "marker", "select"},
         UNCHANGED <<dump, things>>, B!Becomes(r, [run[r] EXCEPT !.pc = pc]),
         pc = "existing" => run[r].mode = "backfill"
  PROVE  BackfillInv'
<1> DEFINE state == [run[r] EXCEPT !.pc = pc]
<1>1. RunShape(state) /\ state.pc = pc /\ state.mode = run[r].mode
  BY ShapeOf DEF RunShape
<1> HIDE DEF state
<1>2. RunOK(state, things)
  BY <1>1 DEF BackfillInv, RunOK, PublishPcs
<1> QED BY <1>2, QuietRun DEF state

LEMMA StartRunStep == ASSUME BackfillInv, NEW r \in 1..Runs, B!StartRun(r) PROVE BackfillInv'
<1>1. PICK mode \in {"profile", "backfill"}, image \in Images :
        B!Becomes(r, [B!IdleRun EXCEPT !.pc = "dump", !.mode = mode, !.image = image]) /\ UNCHANGED <<dump, things>>
  BY DEF B!StartRun, B!Modes
<1> DEFINE state == [B!IdleRun EXCEPT !.pc = "dump", !.mode = mode, !.image = image]
<1>2. RunShape(state) /\ state.pc = "dump" /\ state.mode = mode
  BY DEF RunShape, B!IdleRun
<1> HIDE DEF state
<1>3. RunOK(state, things)
  BY <1>2 DEF RunOK, PublishPcs
<1> QED BY <1>1, <1>3, QuietRun DEF state

LEMMA FirstSteps ==
  ASSUME BackfillInv, NEW r \in 1..Runs,
         B!RunDies(r) \/ B!VerifyDump(r) \/ B!ReadMarker(r) \/ B!CheckTarget(r) \/ B!WriteStaging(r)
  PROVE  BackfillInv'
<1>1. UNCHANGED <<dump, things>>
  BY DEF B!RunDies, B!VerifyDump, B!ReadMarker, B!CheckTarget, B!WriteStaging
<1>2. CASE B!Leaves(r)
  BY <1>1, <1>2, LeavesStep
<1>3. CASE ~B!Leaves(r)
  <2>1. CASE B!VerifyDump(r)
    <3>1. B!Becomes(r, [run[r] EXCEPT !.pc = IF run[r].mode = "backfill" THEN "existing" ELSE "normalize"])
      BY <1>3, <2>1 DEF B!VerifyDump
    <3>2. CASE run[r].mode = "backfill"
      <4>1. B!Becomes(r, [run[r] EXCEPT !.pc = "existing"])
        BY <3>1, <3>2
      <4> QED BY <1>1, <3>2, <4>1, GoesOn
    <3>3. CASE run[r].mode # "backfill"
      <4>1. B!Becomes(r, [run[r] EXCEPT !.pc = "normalize"])
        BY <3>1, <3>3
      <4> QED BY <1>1, <4>1, GoesOn
    <3> QED BY <3>2, <3>3
  <2>2. CASE B!ReadMarker(r) \/ B!CheckTarget(r) \/ B!WriteStaging(r)
    <3>1. PICK pc \in {"target", "write", "marker", "select"} : B!Becomes(r, [run[r] EXCEPT !.pc = pc])
      BY <1>3, <2>2 DEF B!ReadMarker, B!CheckTarget, B!WriteStaging
    <3> QED BY <1>1, <3>1, GoesOn
  <2> QED BY <1>3, <2>1, <2>2 DEF B!RunDies
<1> QED BY <1>2, <1>3

\* What a run returns.
LEMMA ReturnsOK ==
  ASSUME BackfillInv, NEW r \in 1..Runs, NEW result, B!Returns(r, result), UNCHANGED <<dump, things>>,
         run[r].mode = "backfill" =>
           /\ B!CommitKey(run[r].image) \in DOMAIN things
           /\ things[B!CommitKey(run[r].image)].bytes = <<result>>,
         run[r].mode = "profile" => result \in dump.builds
  PROVE  BackfillInv'
<1> DEFINE state == [B!IdleRun EXCEPT !.pc = "done", !.mode = run[r].mode, !.image = run[r].image,
                                      !.result = <<result>>]
<1>1. /\ RunShape(state) /\ state.pc = "done" /\ state.mode = run[r].mode
      /\ state.image = run[r].image /\ state.result = <<result>>
  BY DEF RunShape, B!IdleRun
<1>2. B!Becomes(r, state)
  BY DEF B!Returns
<1> HIDE DEF state
<1>3. RunOK(state, things)
  BY <1>1 DEF BackfillInv, RunOK, PublishPcs
<1> QED BY <1>2, <1>3, QuietRun

LEMMA LoadCommitStep == ASSUME BackfillInv, NEW r \in 1..Runs, B!LoadCommit(r) PROVE BackfillInv'
<1> DEFINE key == B!CommitKey(run[r].image)
<1>1. run[r].mode = "backfill" /\ UNCHANGED <<dump, things>>
  BY DEF BackfillInv, RunOK, B!LoadCommit, B!At
<1>2. CASE key \in DOMAIN things
  <2>1. PICK commit : things[key].bytes = <<commit>>
    BY <1>2 DEF BackfillInv, IsCommit
  <2>2. B!Returns(r, commit)
    BY <1>2, <2>1 DEF B!LoadCommit
  <2> QED BY <1>1, <1>2, <2>1, <2>2, ReturnsOK
<1>3. CASE key \notin DOMAIN things
  <2>1. B!Becomes(r, [run[r] EXCEPT !.pc = "normalize"])
    BY <1>3 DEF B!LoadCommit
  <2> QED BY <1>1, <2>1, GoesOn
<1> QED BY <1>2, <1>3

LEMMA BuildBackfillStep == ASSUME BackfillInv, NEW r \in 1..Runs, B!BuildBackfill(r) PROVE BackfillInv'
<1>1. UNCHANGED <<dump, things>> /\ run[r].mode \in {"profile", "backfill"}
  BY DEF B!BuildBackfill, BackfillInv, RunOK
<1>2. CASE B!Leaves(r)
  BY <1>1, <1>2, LeavesStep
<1>3. ASSUME NEW build \in dump.builds, run[r].mode = "profile", B!Returns(r, build)
      PROVE  BackfillInv'
  BY <1>1, <1>3, ReturnsOK
<1>4. ASSUME NEW build \in dump.builds, run[r].mode # "profile",
             B!Becomes(r, [run[r] EXCEPT !.pc = "shards", !.build = build])
      PROVE  BackfillInv'
  <2> DEFINE state == [run[r] EXCEPT !.pc = "shards", !.build = build]
  <2>1. RunShape(state) /\ state.pc = "shards" /\ state.mode = run[r].mode /\ state.build = build
    BY ShapeOf DEF RunShape
  <2> HIDE DEF state
  <2>2. RunOK(state, things)
    BY <1>1, <1>4, <2>1 DEF RunOK, PublishPcs
  <2> QED BY <1>1, <1>4, <2>2, QuietRun DEF state
<1> QED BY <1>1, <1>2, <1>3, <1>4 DEF B!BuildBackfill

\* A dump has one build at most: the selection is a function of its lines.
LEMMA OneSelection == ASSUME NEW lines, NEW a \in B!Selections(lines), NEW b \in B!Selections(lines) PROVE a = b
<1>1. PICK rows, closure : B!Selections(lines) = B!Selected(rows, closure)
  <2>1. B!Selections(lines) = B!Selected(B!Entities(lines), B!TypeClosure(B!Entities(lines)))
    BY DEF B!Selections
  <2> QED BY <2>1
<1>2. \/ B!Selected(rows, closure) = {}
      \/ \E records : B!Selected(rows, closure) = {records}
  BY DEF B!Selected
<1> QED BY <1>1, <1>2

LEMMA BackfillInit == B!BackfillInit => BackfillInv
<1> SUFFICES ASSUME B!BackfillInit PROVE BackfillInv
  OBVIOUS
<1>1. StoreOK(things) /\ DOMAIN things = {}
  BY DEF B!BackfillInit, StoreOK
<1>2. \A a, b \in dump.builds : a = b
  <2>1. PICK lines : dump.builds = IF B!Normalizable(lines) THEN B!Builds(lines) ELSE {}
    BY DEF B!BackfillInit
  <2>2. \A a, b \in B!Builds(lines) : a = b
    BY OneSelection DEF B!Builds
  <2> QED BY <2>1, <2>2
<1>3. ASSUME NEW r \in 1..Runs PROVE RunOK(run[r], things)
  <2>1. run[r] = B!IdleRun
    BY DEF B!BackfillInit
  <2>2. RunShape(B!IdleRun) /\ B!IdleRun.pc = "idle" /\ B!IdleRun.mode = "profile"
    BY DEF RunShape, B!IdleRun
  <2> QED BY <2>1, <2>2 DEF RunOK, PublishPcs
<1> QED BY <1>1, <1>2, <1>3 DEF BackfillInv, B!BackfillInit

LEMMA BackfillNext == BackfillInv /\ [B!BackfillNext]_backfill => BackfillInv'
<1> SUFFICES ASSUME BackfillInv, [B!BackfillNext]_backfill PROVE BackfillInv'
  OBVIOUS
<1>1. CASE UNCHANGED backfill
  BY <1>1 DEF backfill, BackfillInv, StoreOK, RunOK, IsCommit
<1>2. ASSUME NEW r \in 1..Runs, B!StartRun(r) \/ B!RunDies(r) \/ B!Works(r) PROVE BackfillInv'
  BY <1>2, StartRunStep, FirstSteps, LoadCommitStep, BuildBackfillStep, PublishMarkerStep, PublishShardStep,
    SkipSteps, PublishPartitionStep, PublishEpochStep, PublishBatchStep, PublishSetStep, PublishMarkStep,
    PublishReceiptStep, PublishCommitStep DEF B!Works
<1> QED BY <1>1, <1>2 DEF B!BackfillNext

LEMMA BackfillRunsAgree == BackfillInv => B!BackfillsAgree
<1> SUFFICES ASSUME BackfillInv, NEW r \in 1..Runs, B!At(r, "done") PROVE
      IF run[r].mode = "backfill"
      THEN /\ B!CommitKey(run[r].image) \in DOMAIN things
           /\ things[B!CommitKey(run[r].image)].bytes = run[r].result
      ELSE \A commit \in B!Commits : commit.profile = run[r].result[1]
  BY DEF B!BackfillsAgree
<1>1. RunOK(run[r], things) /\ run[r].pc = "done"
  BY DEF BackfillInv, B!At
<1>2. ASSUME NEW commit \in B!Commits PROVE commit.profile \in dump.builds
  BY DEF B!Commits, BackfillInv, IsCommit
<1>3. ASSUME run[r].mode # "backfill" PROVE run[r].result[1] \in dump.builds
  BY <1>1, <1>3 DEF RunOK
<1> QED BY <1>1, <1>2, <1>3 DEF RunOK, BackfillInv

\* ------------------------------------------------------------ EuropeanaCapture

\* What a listing l is; whether it goes forward; the page behind a raw reference.
IsListing(l) ==
  /\ l.after \in [1..Pages -> 0..Pages \ {1}]
  /\ l.records \in [1..Pages -> Seq([id : Nat, deleted : BOOLEAN])]
GoesForward(l) == \A p \in 1..Pages : l.after[p] = 0 \/ l.after[p] > p
Page(raw, n) == raw[n].bytes[1]

RawRefs == [bytes : (1..Pages) \X Nat, version : Nat]
Envelopes == [id : Nat, datestamp : Nat, raw : (1..Pages) \X Nat]

\* The pages of raw lead from one to the next, and to the token.
Follows(l, from, raw, token) ==
  /\ raw \in Seq(RawRefs) /\ from \in 1..Pages /\ token \in 0..Pages
  /\ token = IF raw = <<>> THEN from ELSE l.after[Page(raw, Len(raw))]
  /\ raw # <<>> => Page(raw, 1) = from
  /\ \A n \in 2..Len(raw) : Page(raw, n) = l.after[Page(raw, n - 1)]

\* No page comes twice, nor again; they lie between the first and the next one
\* when the listing goes forward.
NeverBack(l, from, raw, token) ==
  /\ \A m, n \in 1..Len(raw) : Page(raw, m) = Page(raw, n) => m = n
  /\ \A n \in 1..Len(raw) : Page(raw, n) # token
  /\ GoesForward(l) =>
       /\ token = 0 \/ from <= token
       /\ \A n \in 1..Len(raw) : from <= Page(raw, n) /\ (token = 0 \/ Page(raw, n) < token)

\* k counts the records up to a page; before the last page they were too few to stop.
Counts(l, raw, k) ==
  /\ k[0] = 0
  /\ \A n \in 1..Len(raw) : k[n] = k[n - 1] + Len(l.records[Page(raw, n)])
  /\ \A n \in 1..Len(raw) : n < Len(raw) => k[n] < MaxRecords
Counted(l, raw, count) ==
  \E k \in [0..Len(raw) -> 0..MaxRecords] : Counts(l, raw, k) /\ k[Len(raw)] = count

Walk(l, from, raw, token, count) ==
  Follows(l, from, raw, token) /\ NeverBack(l, from, raw, token) /\ Counted(l, raw, count)

\* The bounds at which a capture stops.
Finished(raw, token, count) ==
  /\ raw # <<>> /\ Len(raw) <= MaxPages
  /\ token = 0 \/ Len(raw) = MaxPages \/ count >= MaxRecords
GoingOn(raw, token, count) ==
  token # 0 /\ Len(raw) < MaxPages /\ (raw # <<>> => count < MaxRecords)

ReceiptsOf(o) == {o[key].bytes[1] : key \in {k \in DOMAIN o : k[1] = "receipt"}}
Reached(o, set, page) ==
  \E r \in ReceiptsOf(o) : r.watermark.cursor = page /\ r.watermark.set = set

HarvestShape(h) ==
  h = [field \in {"pc", "set", "at", "from", "token", "raw", "records", "batch", "shards"} |-> h[field]]

\* A capture walks from the start or from what a receipt of its set has committed,
\* and its batch says where it walked.
HarvestOK(h, l, o) ==
  /\ HarvestShape(h)
  /\ h.pc \in {"fetch", "batch", "records", "watermark", "receipt"} =>
       /\ h.records \in Seq(Envelopes) /\ Walk(l, h.from, h.raw, h.token, Len(h.records))
       /\ IF h.pc = "fetch" THEN GoingOn(h.raw, h.token, Len(h.records))
          ELSE Finished(h.raw, h.token, Len(h.records))
       /\ h.from # 1 => Reached(o, h.set, h.from)
  /\ h.pc \in {"records", "watermark", "receipt"} =>
       LET b == h.batch.bytes[1]
       IN  b.before = h.from /\ b.after = h.token /\ b.raw = h.raw /\ b.records = Len(h.records)

\* So does a receipt, whose slot is the page it leads to.
ReceiptOK(r, l, o) ==
  LET b == r.batch.bytes[1]
  IN  /\ r.watermark.cursor = b.after
      /\ Walk(l, b.before, b.raw, b.after, b.records) /\ Finished(b.raw, b.after, b.records)
      /\ b.before # 1 => Reached(o, r.watermark.set, b.before)

Before(r, q) == r.watermark.cursor # 0 /\ r.watermark.cursor <= q.batch.bytes[1].before

\* Of two receipts of a set one ends where the other begins, or before.
ReceiptsApart(l, o) ==
  GoesForward(l) =>
    \A r, q \in ReceiptsOf(o) :
      r.watermark.set = q.watermark.set /\ r.watermark.cursor # q.watermark.cursor =>
        Before(r, q) \/ Before(q, r)

EuropeanaInv ==
  /\ IsListing(listing) /\ revision \in Nat
  /\ StoreOK(oaiObjects)
  /\ harvest = [c \in E!Captures |-> harvest[c]]
  /\ \A c \in E!Captures : HarvestOK(harvest[c], listing, oaiObjects)
  /\ \A key \in DOMAIN oaiObjects : key[1] = "receipt" =>
       /\ key = <<"receipt", oaiObjects[key].bytes[1].watermark.cursor>>
       /\ ReceiptOK(oaiObjects[key].bytes[1], listing, oaiObjects)
  /\ ReceiptsApart(listing, oaiObjects)
  /\ \A w \in handed : \E r \in ReceiptsOf(oaiObjects) : r.watermark = w

LEMMA HarvestNumbers ==
  /\ Pages \in Nat \ {0} /\ MaxPages \in Nat \ {0} /\ MaxRecords \in Nat
  /\ \A l \in Listings : IsListing(l)
BY CaptureConstants DEF IsListing

\* An appended reference, and its page.
LEMMA AppendedPage ==
  ASSUME NEW raw \in Seq(RawRefs), NEW ref \in RawRefs
  PROVE  /\ Append(raw, ref) \in Seq(RawRefs) /\ Len(Append(raw, ref)) = Len(raw) + 1
         /\ Append(raw, ref) # <<>> /\ Len(raw) \in Nat
         /\ Page(Append(raw, ref), Len(raw) + 1) = ref.bytes[1]
         /\ \A n \in 1..Len(raw) : Page(Append(raw, ref), n) = Page(raw, n)
BY DEF Page

LEMMA PageIs ==
  ASSUME NEW raw \in Seq(RawRefs), NEW n \in 1..Len(raw)
  PROVE  Page(raw, n) \in 1..Pages
<1>1. raw[n] \in RawRefs
  OBVIOUS
<1> QED BY <1>1 DEF Page, RawRefs

LEMMA WalkGrows ==
  ASSUME NEW l, NEW from, NEW raw, NEW token, NEW count, NEW ref \in RawRefs,
         IsListing(l), Walk(l, from, raw, token, count), GoingOn(raw, token, count),
         ref.bytes[1] = token, count + Len(l.records[token]) <= MaxRecords,
         \A n \in 1..Len(raw) : l.after[token] # 0 => l.after[token] # l.after[Page(raw, n)],
         from # 1 => l.after[token] # from
  PROVE  Walk(l, from, Append(raw, ref), l.after[token], count + Len(l.records[token]))
<1> DEFINE r == Append(raw, ref)
           next == l.after[token]
           m == Len(raw)
           total == count + Len(l.records[token])
<1>1. /\ Pages \in Nat /\ MaxRecords \in Nat /\ raw \in Seq(RawRefs) /\ from \in 1..Pages /\ token \in 1..Pages
      /\ next \in 0..Pages /\ next # 1 /\ Len(l.records[token]) \in Nat
  <2>1. Pages \in Nat /\ MaxRecords \in Nat
    BY HarvestNumbers
  <2>2. raw \in Seq(RawRefs) /\ from \in 1..Pages /\ token \in 0..Pages /\ token # 0
    BY DEF Walk, Follows, GoingOn
  <2>3. token \in 1..Pages
    BY <2>1, <2>2
  <2>4. next \in 0..Pages \ {1}
    BY <2>3 DEF IsListing
  <2>5. l.records[token] \in Seq([id : Nat, deleted : BOOLEAN])
    BY <2>3 DEF IsListing
  <2> QED BY <2>1, <2>2, <2>3, <2>4, <2>5
<1>2. /\ r \in Seq(RawRefs) /\ Len(r) = m + 1 /\ r # <<>> /\ m \in Nat
      /\ Page(r, m + 1) = token /\ \A n \in 1..m : Page(r, n) = Page(raw, n)
  BY <1>1, AppendedPage
<1>3. m = 0 <=> raw = <<>>
  BY <1>1
<1>4. PICK k \in [0..m -> 0..MaxRecords] : Counts(l, raw, k) /\ k[m] = count
  BY DEF Walk, Counted
<1>5. \A n \in 1..m : Page(raw, n) \in 1..Pages
  BY <1>1, PageIs
<1>12. \A n \in 1..m : next # 0 => next # l.after[Page(raw, n)]
  OBVIOUS
<1> HIDE DEF r, next, m
<1>6. Follows(l, from, r, next)
  <2>1. next = IF r = <<>> THEN from ELSE l.after[Page(r, Len(r))]
    BY <1>2 DEF next
  <2>2. Page(r, 1) = from
    <3>1. CASE m = 0
      BY <1>2, <1>3, <3>1 DEF Walk, Follows
    <3>2. CASE m # 0
      BY <1>2, <1>3, <3>2 DEF Walk, Follows
    <3> QED BY <3>1, <3>2
  <2>3. ASSUME NEW n \in 2..Len(r) PROVE Page(r, n) = l.after[Page(r, n - 1)]
    <3>1. CASE n = m + 1
      <4>1. m # 0 /\ token = l.after[Page(raw, m)]
        BY <1>2, <1>3, <3>1 DEF Walk, Follows, m
      <4>2. Page(r, n - 1) = Page(raw, m)
        BY <1>2, <3>1, <4>1
      <4> QED BY <1>2, <3>1, <4>1, <4>2
    <3>2. CASE n # m + 1
      <4>1. n \in 2..m /\ n - 1 \in 1..m /\ n \in 1..m
        BY <1>2, <3>2
      <4>2. Page(raw, n) = l.after[Page(raw, n - 1)]
        BY <4>1 DEF Walk, Follows, m
      <4> QED BY <1>2, <4>1, <4>2
    <3> QED BY <3>1, <3>2
  <2> QED BY <1>1, <1>2, <2>1, <2>2, <2>3 DEF Follows
<1>7. ASSUME NEW n \in 1..(m + 1) PROVE Page(r, n) \in 1..Pages /\ Page(r, n) # next
  <2>1. Page(r, n) \in 1..Pages
    <3>1. CASE n = m + 1
      BY <1>1, <1>2, <3>1
    <3>2. CASE n \in 1..m
      BY <1>2, <1>5, <3>2
    <3> QED BY <1>2, <3>1, <3>2
  <2>2. CASE next = 0
    BY <1>1, <2>1, <2>2
  <2>3. CASE next # 0 /\ n = 1
    <3>1. Page(r, 1) = from
      BY <1>2, <1>6 DEF Follows
    <3> QED BY <1>1, <2>3, <3>1 DEF next
  <2>4. CASE next # 0 /\ n # 1
    <3>1. n \in 2..Len(r) /\ n - 1 \in 1..m
      BY <1>2, <2>4
    <3>2. Page(r, n) = l.after[Page(raw, n - 1)]
      BY <1>2, <1>6, <3>1 DEF Follows
    <3>3. next # l.after[Page(raw, n - 1)]
      BY <1>12, <2>4, <3>1
    <3>4. Page(r, n) # next
      BY ONLY <3>2, <3>3
    <3> QED BY <2>1, <3>4
  <2> QED BY <2>1, <2>2, <2>3, <2>4
<1>8. NeverBack(l, from, r, next)
  <2>1. ASSUME NEW i \in 1..(m + 1), NEW j \in 1..(m + 1), Page(r, i) = Page(r, j) PROVE i = j
    <3>1. \A n \in 1..m : Page(raw, n) # token
      BY DEF Walk, NeverBack, m
    <3>2. CASE i \in 1..m /\ j \in 1..m
      BY <1>2, <2>1, <3>2 DEF Walk, NeverBack, m
    <3>3. CASE i = m + 1 \/ j = m + 1
      BY <1>2, <2>1, <3>1, <3>3
    <3> QED BY <1>2, <3>2, <3>3
  <2>2. ASSUME GoesForward(l)
        PROVE  /\ next = 0 \/ from <= next
               /\ \A n \in 1..(m + 1) : from <= Page(r, n) /\ (next = 0 \/ Page(r, n) < next)
    <3>1. from <= token /\ (next = 0 \/ token < next)
      BY <1>1, <2>2 DEF Walk, NeverBack, GoesForward, next
    <3>2. \A n \in 1..m : from <= Page(raw, n) /\ Page(raw, n) < token
      BY <1>1, <2>2 DEF Walk, NeverBack, m
    <3>3. next = 0 \/ from <= next
      BY <1>1, <3>1
    <3>4. ASSUME NEW n \in 1..(m + 1) PROVE from <= Page(r, n) /\ (next = 0 \/ Page(r, n) < next)
      <4>1. CASE n = m + 1
        BY <1>2, <3>1, <4>1
      <4>2. CASE n \in 1..m
        <5>1. Page(r, n) = Page(raw, n) /\ Page(raw, n) \in 1..Pages
          BY <1>2, <1>5, <4>2
        <5>2. from <= Page(raw, n) /\ Page(raw, n) < token
          BY <3>2, <4>2
        <5> QED BY <1>1, <3>1, <5>1, <5>2
      <4> QED BY <1>2, <4>1, <4>2
    <3> QED BY <3>3, <3>4
  <2> QED BY <1>2, <1>7, <2>1, <2>2 DEF NeverBack
<1>9. Counted(l, r, total)
  <2> DEFINE c == [i \in 0..(m + 1) |-> IF i = m + 1 THEN total ELSE k[i]]
  <2>0. m \in 0..m /\ k[0] = 0 /\ count \in 0..MaxRecords
    BY <1>2, <1>4 DEF Counts
  <2>1. k[0] = 0 /\ count \in 0..MaxRecords /\ total \in 0..MaxRecords
    BY <1>1, <2>0
  <2>2. c \in [0..(m + 1) -> 0..MaxRecords] /\ c[0] = 0 /\ c[m + 1] = total
    BY <1>2, <2>1
  <2>3. \A i \in 0..m : c[i] = k[i]
    BY <1>2
  <2> HIDE DEF c
  <2>4. ASSUME NEW n \in 1..(m + 1) PROVE c[n] = c[n - 1] + Len(l.records[Page(r, n)])
    <3>1. CASE n = m + 1
      <4>1. n - 1 = m /\ c[m] = count
        BY <1>2, <1>4, <2>3, <3>1
      <4> QED BY <1>2, <2>2, <3>1, <4>1
    <3>2. CASE n \in 1..m
      <4>1. n - 1 \in 0..m /\ n \in 0..m
        BY <1>2, <3>2
      <4>2. k[n] = k[n - 1] + Len(l.records[Page(raw, n)])
        BY <1>4, <3>2 DEF Counts, m
      <4> QED BY <1>2, <2>3, <3>2, <4>1, <4>2
    <3> QED BY <1>2, <3>1, <3>2
  <2>5. ASSUME NEW n \in 1..(m + 1), n < m + 1 PROVE c[n] < MaxRecords
    <3>1. n \in 1..m /\ c[n] = k[n]
      BY <1>2, <2>3, <2>5
    <3>2. CASE n = m
      BY <1>2, <1>3, <1>4, <3>1, <3>2 DEF GoingOn
    <3>3. CASE n # m
      <4>1. n < m
        BY <1>2, <3>1, <3>3
      <4> QED BY <1>4, <3>1, <4>1 DEF Counts, m
    <3> QED BY <3>2, <3>3
  <2> QED BY <1>2, <2>2, <2>4, <2>5 DEF Counted, Counts
<1> QED BY <1>6, <1>8, <1>9 DEF Walk, r, next

Below == {p \in Nat \X Nat : p[1] < p[2]}

LEMMA Least ==
  ASSUME NEW N \in SUBSET Nat, N # {}
  PROVE  \E t \in N : \A u \in N : t <= u
<1>1. IsWellFoundedOn(Below, Nat)
  BY NatLessThanWellFounded DEF OpToRel, Below
<1>2. PICK x \in N : \A y \in N : ~(<<y, x>> \in Below)
  BY <1>1, WFMin
<1>3. \A y \in N : ~(y < x)
  BY <1>2 DEF Below
<1> QED BY <1>3

\* Walks from the same page read the same pages as far as both go, and count the same.
LEMMA SamePages ==
  ASSUME NEW l, NEW from, NEW r, NEW q, NEW t, NEW u,
         Follows(l, from, r, t), Follows(l, from, q, u), NEW n \in 1..Len(r), n <= Len(q)
  PROVE  Page(r, n) = Page(q, n)
<1> DEFINE D == {i \in 1..Len(r) : i <= Len(q) /\ Page(r, i) # Page(q, i)}
<1>1. Len(r) \in Nat /\ Len(q) \in Nat /\ D \in SUBSET Nat
  BY DEF Follows
<1>2. SUFFICES ASSUME D # {} PROVE FALSE
  OBVIOUS
<1>3. PICK i \in D : \A j \in D : i <= j
  BY <1>1, <1>2, Least
<1>4. i \in 1..Len(r) /\ i \in 1..Len(q) /\ Page(r, i) # Page(q, i)
  BY <1>1, <1>3
<1>5. CASE i = 1
  <2>1. r # <<>> /\ q # <<>>
    BY <1>1, <1>4
  <2> QED BY <1>4, <1>5, <2>1 DEF Follows
<1>6. CASE i # 1
  <2>1. i - 1 \notin D
    BY <1>1, <1>3, <1>4
  <2>2. i - 1 \in 1..Len(r) /\ i - 1 <= Len(q) /\ i \in 2..Len(r) /\ i \in 2..Len(q)
    BY <1>1, <1>4, <1>6
  <2>3. Page(r, i - 1) = Page(q, i - 1)
    BY <2>1, <2>2
  <2>4. Page(r, i) = l.after[Page(r, i - 1)] /\ Page(q, i) = l.after[Page(q, i - 1)]
    BY <2>2 DEF Follows
  <2> QED BY <1>4, <2>3, <2>4
<1> QED BY <1>5, <1>6

LEMMA SameCounts ==
  ASSUME NEW l, NEW from, NEW r, NEW q, NEW t, NEW u, NEW j, NEW k,
         Follows(l, from, r, t), Follows(l, from, q, u), Counts(l, r, j), Counts(l, q, k),
         NEW n \in 0..Len(r), n <= Len(q)
  PROVE  j[n] = k[n]
<1> DEFINE D == {i \in 0..Len(r) : i <= Len(q) /\ j[i] # k[i]}
<1>1. Len(r) \in Nat /\ Len(q) \in Nat /\ D \in SUBSET Nat
  BY DEF Follows
<1>2. SUFFICES ASSUME D # {} PROVE FALSE
  OBVIOUS
<1>3. PICK i \in D : \A m \in D : i <= m
  BY <1>1, <1>2, Least
<1>4. i \in 0..Len(r) /\ i <= Len(q) /\ j[i] # k[i] /\ i # 0
  BY <1>3 DEF Counts
<1>5. i \in 1..Len(r) /\ i \in 1..Len(q) /\ i - 1 \in 0..Len(r) /\ i - 1 <= Len(q)
  BY <1>1, <1>4
<1>6. j[i - 1] = k[i - 1]
  BY <1>1, <1>3, <1>5
<1>7. Page(r, i) = Page(q, i)
  BY <1>4, <1>5, SamePages
<1>8. /\ j[i] = j[i - 1] + Len(l.records[Page(r, i)])
      /\ k[i] = k[i - 1] + Len(l.records[Page(q, i)])
  BY <1>5 DEF Counts
<1> QED BY <1>4, <1>6, <1>7, <1>8

\* A walk that stopped did not stop before another one.
LEMMA NotShorter ==
  ASSUME NEW l, NEW from, NEW r, NEW q, NEW t, NEW u, NEW c, NEW d,
         Walk(l, from, r, t, c), Finished(r, t, c), Walk(l, from, q, u, d), Finished(q, u, d)
  PROVE  Len(r) >= Len(q)
<1>1. SUFFICES ASSUME Len(r) < Len(q) PROVE FALSE
  BY DEF Walk, Follows
<1> DEFINE m == Len(r)
<1>2. m \in 1..m /\ m \in Nat /\ Len(q) \in Nat /\ m \in 0..m
  BY DEF Walk, Follows, Finished
<1>3. Page(r, m) = Page(q, m)
  BY <1>1, <1>2, SamePages DEF Walk
<1>4. CASE t = 0
  <2>1. m + 1 \in 2..Len(q) /\ m + 1 \in 1..Len(q) /\ (m + 1) - 1 = m
    BY <1>1, <1>2
  <2>2. Page(q, m + 1) = l.after[Page(q, m)]
    BY <2>1 DEF Walk, Follows
  <2>3. t = l.after[Page(r, m)]
    BY DEF Walk, Follows, Finished
  <2>4. q \in Seq(RawRefs) /\ Pages \in Nat
    BY HarvestNumbers DEF Walk, Follows
  <2>5. Page(q, m + 1) \in 1..Pages
    BY <2>1, <2>4, PageIs
  <2> QED BY <1>3, <1>4, <2>2, <2>3, <2>4, <2>5
<1>5. CASE m = MaxPages
  BY <1>1, <1>2, <1>5, HarvestNumbers DEF Finished
<1>6. CASE c >= MaxRecords
  <2>1. PICK j \in [0..m -> 0..MaxRecords] : Counts(l, r, j) /\ j[m] = c
    BY DEF Walk, Counted
  <2>2. PICK k \in [0..Len(q) -> 0..MaxRecords] : Counts(l, q, k) /\ k[Len(q)] = d
    BY DEF Walk, Counted
  <2>3. j[m] = k[m]
    BY <1>1, <1>2, <2>1, <2>2, SameCounts DEF Walk
  <2>4. m \in 1..Len(q) /\ m \in 0..Len(q)
    BY <1>1, <1>2
  <2>5. k[m] < MaxRecords
    BY <1>1, <2>2, <2>4 DEF Counts
  <2>6. k[m] \in 0..MaxRecords /\ MaxRecords \in Nat
    BY <2>4, HarvestNumbers
  <2> QED BY <1>6, <2>1, <2>3, <2>5, <2>6
<1> QED BY <1>4, <1>5, <1>6 DEF Finished

\* So they lead to the same page.
LEMMA SameWalk ==
  ASSUME NEW l, NEW from, NEW r, NEW q, NEW t, NEW u, NEW c, NEW d,
         Walk(l, from, r, t, c), Finished(r, t, c), Walk(l, from, q, u, d), Finished(q, u, d)
  PROVE  t = u
<1>1. Len(r) >= Len(q) /\ Len(q) >= Len(r)
  BY NotShorter
<1>2. Len(r) \in Nat /\ Len(q) \in Nat /\ r # <<>> /\ q # <<>>
  BY DEF Walk, Follows, Finished
<1>3. Len(r) = Len(q) /\ Len(r) \in 1..Len(r)
  BY <1>1, <1>2 DEF Walk, Follows
<1>4. Page(r, Len(r)) = Page(q, Len(q))
  BY <1>1, <1>3, SamePages DEF Walk
<1>5. t = l.after[Page(r, Len(r))] /\ u = l.after[Page(q, Len(q))]
  BY <1>2 DEF Walk, Follows
<1> QED BY <1>4, <1>5

\* What was published stays: receipts, and with them what rests on them.
LEMMA ReceiptsStay ==
  ASSUME NEW o, NEW after, Keeps(o, after)
  PROVE  /\ ReceiptsOf(o) \subseteq ReceiptsOf(after)
         /\ \A set, page : Reached(o, set, page) => Reached(after, set, page)
         /\ \A r, l : ReceiptOK(r, l, o) => ReceiptOK(r, l, after)
         /\ \A h, l : HarvestOK(h, l, o) => HarvestOK(h, l, after)
<1>1. ReceiptsOf(o) \subseteq ReceiptsOf(after)
  BY DEF ReceiptsOf, Keeps
<1>2. \A set, page : Reached(o, set, page) => Reached(after, set, page)
  BY <1>1 DEF Reached
<1>3. \A r, l : ReceiptOK(r, l, o) => ReceiptOK(r, l, after)
  BY <1>2 DEF ReceiptOK
<1>4. \A h, l : HarvestOK(h, l, o) => HarvestOK(h, l, after)
  BY <1>2 DEF HarvestOK
<1> QED BY <1>1, <1>2, <1>3, <1>4

LEMMA ReceiptIs ==
  ASSUME EuropeanaInv, NEW r \in ReceiptsOf(oaiObjects)
  PROVE  /\ ReceiptOK(r, listing, oaiObjects)
         /\ <<"receipt", r.watermark.cursor>> \in DOMAIN oaiObjects
         /\ oaiObjects[<<"receipt", r.watermark.cursor>>].bytes[1] = r
<1>1. PICK key \in DOMAIN oaiObjects : key[1] = "receipt" /\ r = oaiObjects[key].bytes[1]
  BY DEF ReceiptsOf
<1> QED BY <1>1 DEF EuropeanaInv

LEMMA HarvestPublishes ==
  ASSUME EuropeanaInv, NEW c \in E!Captures, NEW key, NEW bytes,
         NEW o \in E!PublishOutcomes(oaiObjects, key, bytes, c)
  PROVE  /\ Stores(oaiObjects, o.objects, key, bytes)
         /\ ~E!Failed(o.ref) => Succeeds(o.objects, key, bytes, o.ref)
<1>1. c \in Nat \ {0}
  BY DEF E!Captures
<1>2. o \in P!PublishOutcomes(oaiObjects, key, bytes, c) /\ (E!Failed(o.ref) <=> P!Failed(o.ref))
  BY SameOutcomes, SameFailed
<1> QED BY <1>1, <1>2, Outcomes DEF EuropeanaInv

\* A capture moves and may store an object that is no receipt.
LEMMA HarvestMoves ==
  ASSUME EuropeanaInv, NEW c \in E!Captures, NEW h, harvest' = [harvest EXCEPT ![c] = h],
         UNCHANGED <<listing, revision, handed>>,
         NEW key, NEW bytes, key[1] # "receipt", Stores(oaiObjects, oaiObjects', key, bytes),
         HarvestOK(h, listing, oaiObjects')
  PROVE  EuropeanaInv'
<1>1. StoreOK(oaiObjects') /\ Keeps(oaiObjects, oaiObjects')
  BY DEF Stores
<1>2. ReceiptsOf(oaiObjects') = ReceiptsOf(oaiObjects)
  <2>1. \A k \in DOMAIN oaiObjects' : k[1] = "receipt" => k \in DOMAIN oaiObjects /\ oaiObjects'[k] = oaiObjects[k]
    BY DEF Stores, Keeps
  <2>2. ReceiptsOf(oaiObjects) \subseteq ReceiptsOf(oaiObjects')
    BY <1>1, ReceiptsStay
  <2>3. ASSUME NEW r \in ReceiptsOf(oaiObjects') PROVE r \in ReceiptsOf(oaiObjects)
    <3>1. PICK k \in DOMAIN oaiObjects' : k[1] = "receipt" /\ r = oaiObjects'[k].bytes[1]
      BY DEF ReceiptsOf
    <3> QED BY <2>1, <3>1 DEF ReceiptsOf
  <2> QED BY <2>2, <2>3
<1>3. harvest' = [d \in E!Captures |-> harvest'[d]]
  BY DEF EuropeanaInv
<1>4. ASSUME NEW d \in E!Captures PROVE HarvestOK(harvest'[d], listing, oaiObjects')
  <2>1. CASE d = c
    BY <2>1 DEF EuropeanaInv
  <2>2. CASE d # c
    <3>1. harvest'[d] = harvest[d] /\ HarvestOK(harvest[d], listing, oaiObjects)
      BY <2>2 DEF EuropeanaInv
    <3> QED BY <1>1, <3>1, ReceiptsStay
  <2> QED BY <2>1, <2>2
<1>5. ASSUME NEW k \in DOMAIN oaiObjects', k[1] = "receipt"
      PROVE  /\ k = <<"receipt", oaiObjects'[k].bytes[1].watermark.cursor>>
             /\ ReceiptOK(oaiObjects'[k].bytes[1], listing, oaiObjects')
  <2>1. k \in DOMAIN oaiObjects /\ oaiObjects'[k] = oaiObjects[k]
    BY <1>5 DEF Stores, Keeps
  <2>2. /\ k = <<"receipt", oaiObjects[k].bytes[1].watermark.cursor>>
        /\ ReceiptOK(oaiObjects[k].bytes[1], listing, oaiObjects)
    BY <1>5, <2>1 DEF EuropeanaInv
  <2> QED BY <1>1, <2>1, <2>2, ReceiptsStay
<1>6. ReceiptsApart(listing, oaiObjects')
  BY <1>2 DEF EuropeanaInv, ReceiptsApart
<1> QED BY <1>1, <1>2, <1>3, <1>4, <1>5, <1>6 DEF EuropeanaInv

\* It fails.
LEMMA FailedHarvest ==
  ASSUME NEW l, NEW o PROVE HarvestOK([E!IdleCapture EXCEPT !.pc = "failed"], l, o)
BY DEF HarvestOK, HarvestShape, E!IdleCapture

\* It goes on with what it has read.
LEMMA HarvestGoes ==
  ASSUME NEW h, NEW g, NEW l, NEW o, NEW after, HarvestOK(h, l, o), Keeps(o, after),
         h.pc \in {"batch", "records", "watermark"}, g.pc \in {"records", "watermark", "receipt"},
         HarvestShape(g), g.set = h.set, g.from = h.from, g.token = h.token, g.raw = h.raw,
         g.records = h.records,
         LET b == g.batch.bytes[1]
         IN  b.before = h.from /\ b.after = h.token /\ b.raw = h.raw /\ b.records = Len(h.records)
  PROVE  HarvestOK(g, l, after)
<1>1. HarvestOK(h, l, after)
  BY ReceiptsStay
<1> QED BY <1>1 DEF HarvestOK

LEMMA HarvestIs ==
  ASSUME EuropeanaInv, NEW c \in E!Captures
  PROVE  /\ HarvestShape(harvest[c]) /\ HarvestOK(harvest[c], listing, oaiObjects)
         /\ harvest = [d \in E!Captures |-> harvest[d]]
BY DEF EuropeanaInv, HarvestOK

LEMMA NothingStored ==
  ASSUME EuropeanaInv, NEW key, NEW bytes, UNCHANGED oaiObjects
  PROVE  Stores(oaiObjects, oaiObjects', key, bytes)
BY DEF EuropeanaInv, Stores, Keeps

\* FetchFails, Dies
LEMMA HarvestFails ==
  ASSUME EuropeanaInv, NEW c \in E!Captures, UNCHANGED <<listing, revision, oaiObjects, handed>>,
         harvest' = [harvest EXCEPT ![c] = [E!IdleCapture EXCEPT !.pc = "failed"]]
  PROVE  EuropeanaInv'
<1>1. Stores(oaiObjects, oaiObjects', <<"page">>, <<>>)
  BY NothingStored
<1> QED BY <1>1, FailedHarvest, HarvestMoves

LEMMA ReviseStep == ASSUME EuropeanaInv, E!Revise PROVE EuropeanaInv'
<1>1. revision' \in Nat /\ UNCHANGED <<listing, oaiObjects, harvest, handed>>
  BY DEF E!Revise, EuropeanaInv
<1> QED BY <1>1 DEF EuropeanaInv

LEMMA WalkStarts ==
  ASSUME NEW l, NEW from \in 1..Pages
  PROVE  Walk(l, from, <<>>, from, 0)
<1>1. Follows(l, from, <<>>, from)
  BY HarvestNumbers DEF Follows
<1>2. NeverBack(l, from, <<>>, from)
  BY HarvestNumbers DEF NeverBack
<1>3. Counted(l, <<>>, 0)
  <2> DEFINE k == [n \in 0..0 |-> 0]
  <2>1. k \in [0..0 -> 0..MaxRecords] /\ k[0] = 0
    BY HarvestNumbers
  <2>2. Len(<<>>) = 0
    OBVIOUS
  <2> HIDE DEF k
  <2>3. Counts(l, <<>>, k)
    BY <2>1, <2>2 DEF Counts
  <2> QED BY <2>1, <2>2, <2>3 DEF Counted
<1> QED BY <1>1, <1>2, <1>3 DEF Walk

LEMMA HarvestBegins ==
  ASSUME EuropeanaInv, NEW c \in E!Captures, NEW set, NEW at, E!Begin(c, set, at)
  PROVE  EuropeanaInv'
<1>1. PICK from \in {E!Start} \cup {w.cursor : w \in {w \in E!Verified : E!Resumable(set, w)}} :
        harvest' = [harvest EXCEPT ![c] = [E!IdleCapture EXCEPT !.pc = "fetch", !.set = set, !.at = at,
                                                           !.from = from, !.token = from]]
  BY DEF E!Begin
<1> DEFINE h == [E!IdleCapture EXCEPT !.pc = "fetch", !.set = set, !.at = at, !.from = from, !.token = from]
<1>2. from \in 1..Pages /\ (from # 1 => Reached(oaiObjects, set, from))
  <2>1. CASE from = 1
    BY <2>1, HarvestNumbers
  <2>2. CASE from # 1
    <3>1. PICK w \in handed : w.cursor = from /\ w.set = set /\ w.cursor # 0
      BY <2>2 DEF E!Verified, E!Resumable, E!Terminal, E!Start
    <3>2. PICK r \in ReceiptsOf(oaiObjects) : r.watermark = w
      BY DEF EuropeanaInv
    <3>3. r.watermark.cursor = from /\ r.watermark.set = set
      BY <3>1, <3>2
    <3>4. from \in 0..Pages
      BY <3>3, ReceiptIs DEF ReceiptOK, Walk, Follows
    <3> QED BY <3>1, <3>3, <3>4, HarvestNumbers DEF Reached
  <2> QED BY <2>1, <2>2
<1>3. /\ HarvestShape(h) /\ h.pc = "fetch" /\ h.set = set /\ h.from = from /\ h.token = from
      /\ h.raw = <<>> /\ h.records = <<>>
  BY DEF HarvestShape, E!IdleCapture
<1>4. UNCHANGED <<listing, revision, oaiObjects, handed>>
  BY DEF E!Begin
<1>5. Walk(listing, from, <<>>, from, 0)
  BY <1>2, WalkStarts
<1>6. GoingOn(<<>>, from, 0)
  BY <1>2, HarvestNumbers DEF GoingOn
<1> HIDE DEF h
<1>7. HarvestOK(h, listing, oaiObjects')
  BY <1>2, <1>3, <1>4, <1>5, <1>6 DEF HarvestOK
<1>8. Stores(oaiObjects, oaiObjects', <<"page">>, <<>>)
  BY <1>4, NothingStored
<1> QED BY <1>1, <1>4, <1>7, <1>8, HarvestMoves DEF h

LEMMA HarvestBatchStep == ASSUME EuropeanaInv, NEW c \in E!Captures, E!PublishBatch(c) PROVE EuropeanaInv'
<1> DEFINE key == E!BatchKey(E!Batch(c))
           bytes == <<E!Batch(c)>>
<1>1. PICK o \in E!PublishOutcomes(oaiObjects, key, bytes, c) :
        /\ oaiObjects' = o.objects
        /\ harvest' = [harvest EXCEPT ![c] =
             IF E!Failed(o.ref) THEN [E!IdleCapture EXCEPT !.pc = "failed"]
             ELSE [harvest[c] EXCEPT !.pc = "records", !.batch = o.ref]]
  BY DEF E!PublishBatch, E!Publishing
<1>2. UNCHANGED <<listing, revision, handed>> /\ harvest[c].pc = "batch"
  BY DEF E!PublishBatch, E!Publishing
<1>3. Stores(oaiObjects, oaiObjects', key, bytes) /\ (~E!Failed(o.ref) => o.ref.bytes = bytes)
  BY <1>1, HarvestPublishes DEF Succeeds
<1>4. key[1] # "receipt" /\ Keeps(oaiObjects, oaiObjects')
  BY <1>3 DEF E!BatchKey, Stores
<1>5. CASE E!Failed(o.ref)
  BY <1>1, <1>2, <1>3, <1>4, <1>5, FailedHarvest, HarvestMoves
<1>6. CASE ~E!Failed(o.ref)
  <2> DEFINE g == [harvest[c] EXCEPT !.pc = "records", !.batch = o.ref]
             b == E!Batch(c)
  <2>1. /\ b.before = harvest[c].from /\ b.after = harvest[c].token /\ b.raw = harvest[c].raw
        /\ b.records = Len(harvest[c].records)
    BY DEF E!Batch
  <2>2. /\ HarvestShape(g) /\ g.pc = "records" /\ g.set = harvest[c].set /\ g.from = harvest[c].from
        /\ g.token = harvest[c].token /\ g.raw = harvest[c].raw /\ g.records = harvest[c].records
        /\ g.batch = o.ref
    BY HarvestIs DEF HarvestShape
  <2>3. harvest' = [harvest EXCEPT ![c] = g]
    BY <1>1, <1>6
  <2>4. g.batch.bytes[1] = b
    BY <1>3, <1>6, <2>2
  <2> HIDE DEF g, b
  <2>5. HarvestOK(g, listing, oaiObjects')
    BY <1>2, <1>4, <2>1, <2>2, <2>4, HarvestIs, HarvestGoes
  <2> QED BY <1>2, <1>3, <1>4, <2>3, <2>5, HarvestMoves
<1> QED BY <1>5, <1>6

\* A capture that has its batch publishes, and goes on with it or fails.
LEMMA HarvestGoesOn ==
  ASSUME EuropeanaInv, NEW c \in E!Captures, NEW key, NEW bytes, key[1] # "receipt",
         NEW o \in E!PublishOutcomes(oaiObjects, key, bytes, c), oaiObjects' = o.objects,
         UNCHANGED <<listing, revision, handed>>, harvest[c].pc \in {"records", "watermark"},
         NEW g, HarvestShape(g), g.pc \in {"records", "watermark", "receipt"},
         \A field \in {"set", "from", "token", "raw", "records", "batch"} : g[field] = harvest[c][field],
         harvest' = [harvest EXCEPT ![c] =
           IF E!Failed(o.ref) THEN [E!IdleCapture EXCEPT !.pc = "failed"] ELSE g]
  PROVE  EuropeanaInv'
<1>1. Stores(oaiObjects, oaiObjects', key, bytes)
  BY HarvestPublishes
<1>2. Keeps(oaiObjects, oaiObjects')
  BY <1>1 DEF Stores
<1>3. CASE E!Failed(o.ref)
  BY <1>1, <1>3, FailedHarvest, HarvestMoves
<1>4. CASE ~E!Failed(o.ref)
  <2>1. /\ g.set = harvest[c].set /\ g.from = harvest[c].from /\ g.token = harvest[c].token
        /\ g.raw = harvest[c].raw /\ g.records = harvest[c].records /\ g.batch = harvest[c].batch
    OBVIOUS
  <2>2. LET b == harvest[c].batch.bytes[1]
        IN  /\ b.before = harvest[c].from /\ b.after = harvest[c].token /\ b.raw = harvest[c].raw
            /\ b.records = Len(harvest[c].records)
    BY HarvestIs DEF HarvestOK
  <2>3. HarvestOK(g, listing, oaiObjects')
    BY <1>2, <2>1, <2>2, HarvestIs, HarvestGoes
  <2> QED BY <1>1, <1>4, <2>3, HarvestMoves
<1> QED BY <1>3, <1>4

LEMMA HarvestShardStep == ASSUME EuropeanaInv, NEW c \in E!Captures, E!PublishShard(c) PROVE EuropeanaInv'
<1> DEFINE key == E!ShardKey(harvest[c].batch.bytes[1], Len(harvest[c].shards) + 1)
<1>1. PICK o \in E!PublishOutcomes(oaiObjects, key, E!NextShard(c), c) :
        /\ oaiObjects' = o.objects
        /\ harvest' = [harvest EXCEPT ![c] =
             IF E!Failed(o.ref) THEN [E!IdleCapture EXCEPT !.pc = "failed"]
             ELSE [harvest[c] EXCEPT !.shards = Append(harvest[c].shards, o.ref)]]
  BY DEF E!PublishShard, E!Publishing
<1>2. UNCHANGED <<listing, revision, handed>> /\ harvest[c].pc = "records"
  BY DEF E!PublishShard, E!Publishing
<1> DEFINE shards == Append(harvest[c].shards, o.ref)
<1> HIDE DEF shards
<1> DEFINE g == [harvest[c] EXCEPT !.shards = shards]
<1>3. /\ HarvestShape(g) /\ g.pc = "records"
      /\ \A field \in {"set", "from", "token", "raw", "records", "batch"} : g[field] = harvest[c][field]
  BY <1>2, HarvestIs DEF HarvestShape
<1>4. key[1] # "receipt"
  BY DEF E!ShardKey
<1>5. harvest' = [harvest EXCEPT ![c] = IF E!Failed(o.ref) THEN [E!IdleCapture EXCEPT !.pc = "failed"] ELSE g]
  BY <1>1 DEF shards
<1> HIDE DEF g, key
<1> QED BY <1>1, <1>2, <1>3, <1>4, <1>5, HarvestGoesOn

LEMMA HarvestSetStep == ASSUME EuropeanaInv, NEW c \in E!Captures, E!PublishRecordSet(c) PROVE EuropeanaInv'
<1> DEFINE key == E!RecordSetKey(harvest[c].batch.bytes[1])
           g == [harvest[c] EXCEPT !.pc = "watermark"]
<1>1. PICK o \in E!PublishOutcomes(oaiObjects, key, <<E!RecordSet(c)>>, c) :
        /\ oaiObjects' = o.objects
        /\ harvest' = [harvest EXCEPT ![c] =
             IF E!Failed(o.ref) THEN [E!IdleCapture EXCEPT !.pc = "failed"] ELSE g]
  BY DEF E!PublishRecordSet, E!Publishing
<1>2. UNCHANGED <<listing, revision, handed>> /\ harvest[c].pc = "records"
  BY DEF E!PublishRecordSet, E!Publishing
<1>3. /\ HarvestShape(g) /\ g.pc = "watermark"
      /\ \A field \in {"set", "from", "token", "raw", "records", "batch"} : g[field] = harvest[c][field]
  BY HarvestIs DEF HarvestShape
<1>4. key[1] # "receipt"
  BY DEF E!RecordSetKey
<1> HIDE DEF g, key
<1> QED BY <1>1, <1>2, <1>3, <1>4, HarvestGoesOn

LEMMA HarvestWatermarkStep == ASSUME EuropeanaInv, NEW c \in E!Captures, E!PublishWatermark(c) PROVE EuropeanaInv'
<1> DEFINE key == E!WatermarkKey(E!Committed(c))
           g == [harvest[c] EXCEPT !.pc = "receipt"]
<1>1. PICK o \in E!PublishOutcomes(oaiObjects, key, <<E!Committed(c)>>, c) :
        /\ oaiObjects' = o.objects
        /\ harvest' = [harvest EXCEPT ![c] =
             IF E!Failed(o.ref) THEN [E!IdleCapture EXCEPT !.pc = "failed"] ELSE g]
  BY DEF E!PublishWatermark, E!Publishing
<1>2. UNCHANGED <<listing, revision, handed>> /\ harvest[c].pc = "watermark"
  BY DEF E!PublishWatermark, E!Publishing
<1>3. /\ HarvestShape(g) /\ g.pc = "receipt"
      /\ \A field \in {"set", "from", "token", "raw", "records", "batch"} : g[field] = harvest[c][field]
  BY HarvestIs DEF HarvestShape
<1>4. key[1] # "receipt"
  BY DEF E!WatermarkKey
<1> HIDE DEF g, key
<1> QED BY <1>1, <1>2, <1>3, <1>4, HarvestGoesOn

LEMMA ElementIs == ASSUME NEW S, NEW s \in Seq(S), NEW n \in 1..Len(s) PROVE s[n] \in S
  OBVIOUS

LEMMA Joined == ASSUME NEW S, NEW s \in Seq(S), NEW t \in Seq(S)
                PROVE  s \o t \in Seq(S) /\ Len(s \o t) = Len(s) + Len(t)
  OBVIOUS

\* The envelopes of a page.
LEMMA PageParsed ==
  ASSUME NEW l, IsListing(l), l = listing, NEW page \in 1..Pages, NEW bytes \in (1..Pages) \X Nat,
         NEW records \in E!ParsedPage(page, bytes)
  PROVE  records \in Seq(Envelopes) /\ Len(records) = Len(l.records[page]) /\ Len(records) \in Nat
<1> DEFINE rs == l.records[page]
<1>1. rs \in Seq([id : Nat, deleted : BOOLEAN])
  BY DEF IsListing
<1>2. records = [n \in DOMAIN rs |-> E!Envelope(rs[n].id, bytes)]
  BY DEF E!ParsedPage
<1> HIDE DEF rs
<1>3. \A n \in 1..Len(rs) : E!Envelope(rs[n].id, bytes) \in Envelopes
  <2> TAKE n \in 1..Len(rs)
  <2>0. rs[n] \in [id : Nat, deleted : BOOLEAN]
    BY <1>1, ElementIs
  <2>1. rs[n].id \in Nat
    BY <2>0
  <2>2. bytes[2] \in Nat
    OBVIOUS
  <2> QED BY <2>1, <2>2 DEF E!Envelope, Envelopes
<1>4. DOMAIN rs = 1..Len(rs) /\ Len(rs) \in Nat
  BY <1>1
<1>5. records \in [1..Len(rs) -> Envelopes]
  BY <1>2, <1>3, <1>4
<1> QED BY <1>4, <1>5 DEF rs

\* The token of the page that was read is new, or the capture fails.
LEMMA NewToken ==
  ASSUME EuropeanaInv, NEW c \in E!Captures, NEW next, next # 0, next \notin E!Seen(c)
  PROVE  /\ \A n \in 1..Len(harvest[c].raw) : next # listing.after[Page(harvest[c].raw, n)]
         /\ harvest[c].from # 1 => next # harvest[c].from
BY DEF E!Seen, E!Read, E!after, E!Start, Page

LEMMA HarvestPageStep == ASSUME EuropeanaInv, NEW c \in E!Captures, E!FetchPage(c) PROVE EuropeanaInv'
<1> DEFINE h == harvest[c]
           page == h.token
           bytes == <<page, revision>>
           key == E!RawKey(c, Len(h.raw) + 1, bytes)
           next == listing.after[page]
<1>1. PICK records \in E!ParsedPage(page, bytes) :
        /\ Len(h.records) + Len(records) <= MaxRecords
        /\ E!Publishing(c, key, bytes, LAMBDA ref : E!Follow(c, page, ref, h.records \o records))
  BY DEF E!FetchPage
<1> DEFINE all == h.records \o records
<1>2. PICK o \in E!PublishOutcomes(oaiObjects, key, bytes, c) :
        /\ oaiObjects' = o.objects
        /\ harvest' = [harvest EXCEPT ![c] = IF E!Failed(o.ref) THEN [E!IdleCapture EXCEPT !.pc = "failed"]
                                             ELSE E!Follow(c, page, o.ref, all)]
  BY <1>1 DEF E!Publishing
<1>3. UNCHANGED <<listing, revision, handed>> /\ h.pc = "fetch"
  BY <1>1 DEF E!FetchPage, E!Publishing
<1>4. /\ Stores(oaiObjects, oaiObjects', key, bytes)
      /\ ~E!Failed(o.ref) => o.ref.bytes = bytes /\ IsObject(o.ref)
  BY <1>2, HarvestPublishes DEF Succeeds
<1>5. key[1] # "receipt" /\ Keeps(oaiObjects, oaiObjects')
  BY <1>4 DEF E!RawKey, Stores
<1>6. /\ HarvestShape(h) /\ h.records \in Seq(Envelopes) /\ Walk(listing, h.from, h.raw, h.token, Len(h.records))
      /\ GoingOn(h.raw, h.token, Len(h.records))
      /\ h.from # 1 => Reached(oaiObjects, h.set, h.from)
  BY <1>3, HarvestIs DEF HarvestOK
<1>7. page \in 1..Pages /\ bytes \in (1..Pages) \X Nat /\ h.raw \in Seq(RawRefs)
  BY <1>6, HarvestNumbers DEF Walk, Follows, GoingOn, EuropeanaInv
<1>8. records \in Seq(Envelopes) /\ Len(records) = Len(listing.records[page]) /\ Len(records) \in Nat
  BY <1>7, PageParsed DEF EuropeanaInv
<1>9. all \in Seq(Envelopes) /\ Len(all) = Len(h.records) + Len(listing.records[page])
  <2>1. all \in Seq(Envelopes) /\ Len(all) = Len(h.records) + Len(records)
    BY <1>6, <1>8, Joined
  <2> HIDE DEF all
  <2> QED BY <1>8, <2>1
<1> HIDE DEF all
<1>10. CASE \/ E!Failed(o.ref)
            \/ E!Follow(c, page, o.ref, all) = [E!IdleCapture EXCEPT !.pc = "failed"]
  <2>1. harvest' = [harvest EXCEPT ![c] = [E!IdleCapture EXCEPT !.pc = "failed"]]
    BY <1>2, <1>10
  <2> HIDE DEF key, bytes
  <2> QED BY <1>3, <1>4, <1>5, <2>1, FailedHarvest, HarvestMoves
<1>11. CASE ~E!Failed(o.ref) /\ E!Follow(c, page, o.ref, all) # [E!IdleCapture EXCEPT !.pc = "failed"]
  <2> DEFINE done == next = 0 \/ Len(h.raw) + 1 = MaxPages \/ Len(all) >= MaxRecords
             pc == IF done THEN "batch" ELSE "fetch"
             raw == Append(h.raw, o.ref)
             g == [h EXCEPT !.raw = raw, !.records = all, !.token = next, !.pc = pc]
  <2>1. E!Follow(c, page, o.ref, all) = g /\ (next = 0 \/ next \notin E!Seen(c))
    BY <1>11 DEF E!Follow, E!after, E!Terminal
  <2>2. o.ref \in RawRefs /\ o.ref.bytes[1] = page
    <3>1. o.ref = [bytes |-> o.ref.bytes, version |-> o.ref.version] /\ o.ref.version \in Nat
      BY <1>4, <1>11 DEF IsObject
    <3>2. o.ref.bytes = bytes /\ bytes[1] = page
      BY <1>4, <1>11
    <3> HIDE DEF bytes
    <3> QED BY <1>7, <3>1, <3>2 DEF RawRefs
  <2>3. Walk(listing, h.from, raw, next, Len(all))
    <3>1. \A n \in 1..Len(h.raw) : next # 0 => next # listing.after[Page(h.raw, n)]
      BY <2>1, NewToken
    <3>2. h.from # 1 => next # h.from
      <4>1. CASE next = 0
        BY <1>6, <4>1, HarvestNumbers DEF Walk, Follows
      <4>2. CASE next # 0
        BY <2>1, <4>2, NewToken
      <4> QED BY <4>1, <4>2
    <3>3. IsListing(listing) /\ Len(h.records) + Len(listing.records[page]) <= MaxRecords
      BY <1>1, <1>8 DEF EuropeanaInv
    <3> QED BY <1>6, <1>9, <2>2, <3>1, <3>2, <3>3, WalkGrows
  <2>4. Len(raw) = Len(h.raw) + 1 /\ raw # <<>> /\ Len(h.raw) \in Nat /\ Len(h.raw) < MaxPages
    BY <1>6, <1>7, <2>2, AppendedPage DEF GoingOn
  <2>5. /\ HarvestShape(g) /\ g.pc = pc /\ g.set = h.set /\ g.from = h.from /\ g.token = next
        /\ g.raw = raw /\ g.records = all
    BY <1>6 DEF HarvestShape
  <2>6. h.from # 1 => Reached(oaiObjects', h.set, h.from)
    BY <1>5, <1>6, ReceiptsStay
  <2>7. done => pc = "batch" /\ Finished(raw, next, Len(all))
    BY <2>4, HarvestNumbers DEF Finished
  <2>8. ~done => pc = "fetch" /\ GoingOn(raw, next, Len(all))
    <3>0. all \in Seq(Envelopes)
      BY <1>9
    <3>1. Len(all) \in Nat /\ MaxRecords \in Nat /\ MaxPages \in Nat
      BY <3>0, HarvestNumbers
    <3> HIDE DEF g, next
    <3> QED BY <2>4, <3>1 DEF GoingOn
  <2>9. harvest' = [harvest EXCEPT ![c] = g]
    BY <1>2, <1>11, <2>1
  <2> HIDE DEF g, pc, done, raw, next, key, bytes
  <2>10. HarvestOK(g, listing, oaiObjects')
    BY <1>9, <2>3, <2>5, <2>6, <2>7, <2>8 DEF HarvestOK
  <2> QED BY <1>3, <1>4, <1>5, <2>9, <2>10, HarvestMoves
<1> QED BY <1>10, <1>11

\* A receipt begins before it ends, when the listing goes forward.
LEMMA ReceiptSpans ==
  ASSUME EuropeanaInv, NEW r \in ReceiptsOf(oaiObjects), NEW b, b = r.batch.bytes[1]
  PROVE  /\ b.before \in 1..Pages /\ r.watermark.cursor \in 0..Pages
         /\ GoesForward(listing) => r.watermark.cursor = 0 \/ b.before < r.watermark.cursor
         /\ b.before # 1 => Reached(oaiObjects, r.watermark.set, b.before)
<1>1. /\ r.watermark.cursor = b.after
      /\ b.before # 1 => Reached(oaiObjects, r.watermark.set, b.before)
      /\ Follows(listing, b.before, b.raw, b.after) /\ NeverBack(listing, b.before, b.raw, b.after)
      /\ b.raw # <<>>
  BY ReceiptIs DEF ReceiptOK, Walk, Finished
<1>2. b.before \in 1..Pages /\ b.after \in 0..Pages
  BY <1>1 DEF Follows
<1> DEFINE raw == b.raw
<1>3. 1 \in 1..Len(raw) /\ Page(raw, 1) = b.before
  <2>1. raw \in Seq(RawRefs) /\ raw # <<>> /\ Page(raw, 1) = b.before
    BY <1>1 DEF Follows
  <2> HIDE DEF raw
  <2> QED BY <2>1
<1>4. GoesForward(listing) => b.after = 0 \/ b.before < b.after
  BY <1>1, <1>3 DEF NeverBack
<1> QED BY <1>1, <1>2, <1>4

\* A capture whose slot is free begins where the receipts of its set end.
LEMMA NoneBeginsAfter ==
  ASSUME EuropeanaInv, GoesForward(listing), NEW set, NEW from \in 1..Pages,
         from # 1 => Reached(oaiObjects, set, from),
         \A q \in ReceiptsOf(oaiObjects) : q.watermark.set = set => q.batch.bytes[1].before # from,
         NEW r \in ReceiptsOf(oaiObjects), r.watermark.set = set
  PROVE  r.watermark.cursor # 0 /\ r.watermark.cursor <= from
<1> DEFINE Of == {q \in ReceiptsOf(oaiObjects) : q.watermark.set = set}
           Begins(q) == q.batch.bytes[1].before
           Ends(q) == q.watermark.cursor
           Later == {q \in Of : Begins(q) > from}
<1>1. \A q \in Of : /\ Begins(q) \in 1..Pages /\ Ends(q) \in 0..Pages /\ Begins(q) # from
                    /\ Ends(q) = 0 \/ Begins(q) < Ends(q)
                    /\ Begins(q) # 1 => \E p \in Of : Ends(p) = Begins(q)
  BY ReceiptSpans DEF Reached
<1>2. from # 1 => \E p \in Of : Ends(p) = from
  BY DEF Reached
<1>3. \A p, q \in Of : Ends(p) # Ends(q) => \/ Ends(p) # 0 /\ Ends(p) <= Begins(q)
                                            \/ Ends(q) # 0 /\ Ends(q) <= Begins(p)
  BY DEF EuropeanaInv, ReceiptsApart, Before
<1>4. Pages \in Nat /\ r \in Of
  BY HarvestNumbers
<1> HIDE DEF Of, Begins, Ends
<1>5. ASSUME NEW q \in Of, Begins(q) < from PROVE Ends(q) # 0 /\ Ends(q) <= from
  <2>1. PICK p \in Of : Ends(p) = from
    BY <1>1, <1>2, <1>4, <1>5
  <2>2. CASE Ends(q) = from
    BY <1>1, <1>4, <2>2
  <2>3. CASE Ends(q) # from
    <3>1. \/ Ends(p) # 0 /\ Ends(p) <= Begins(q)
          \/ Ends(q) # 0 /\ Ends(q) <= Begins(p)
      BY <1>3, <2>1, <2>3
    <3>2. Begins(p) < from
      BY <1>1, <2>1
    <3> QED BY <1>1, <1>4, <1>5, <2>1, <3>1, <3>2
  <2> QED BY <2>2, <2>3
<1>6. Later = {}
  <2>1. SUFFICES ASSUME Later # {} PROVE FALSE
    OBVIOUS
  <2>2. PICK n \in {Begins(q) : q \in Later} : \A m \in {Begins(q) : q \in Later} : n <= m
    <3>1. {Begins(q) : q \in Later} \in SUBSET Nat /\ {Begins(q) : q \in Later} # {}
      BY <1>1, <1>4, <2>1
    <3> QED BY <3>1, Least
  <2>3. PICK q \in Later : n = Begins(q)
    BY <2>2
  <2>4. q \in Of /\ Begins(q) > from /\ \A p \in Of : Begins(p) > from => Begins(q) <= Begins(p)
    BY <2>2, <2>3
  <2>5. PICK p \in Of : Ends(p) = Begins(q)
    BY <1>1, <1>4, <2>4
  <2>6. Begins(p) < Begins(q) /\ Begins(p) # from
    BY <1>1, <1>4, <2>4, <2>5
  <2>7. Begins(p) < from
    BY <1>1, <1>4, <2>4, <2>6
  <2> QED BY <1>1, <1>4, <1>5, <2>4, <2>5, <2>7
<1>7. Begins(r) < from
  BY <1>1, <1>4, <1>6
<1> QED BY <1>4, <1>5, <1>7 DEF Ends

\* The receipt of a capture: the first for its slot stands apart from the others.
LEMMA HarvestReceiptStep == ASSUME EuropeanaInv, NEW c \in E!Captures, E!PublishReceipt(c) PROVE EuropeanaInv'
<1> DEFINE h == harvest[c]
           new == E!Receipt(c)
           key == E!ReceiptKey(h.batch, h.token)
           g == [E!IdleCapture EXCEPT !.pc = "done"]
<1>1. PICK o \in E!PublishOutcomes(oaiObjects, key, <<new>>, c) :
        /\ oaiObjects' = o.objects
        /\ harvest' = [harvest EXCEPT ![c] =
             IF E!Failed(o.ref) THEN [E!IdleCapture EXCEPT !.pc = "failed"] ELSE g]
  BY DEF E!PublishReceipt, E!Publishing
<1>2. /\ UNCHANGED <<listing, revision>> /\ h.pc = "receipt"
      /\ handed' = handed \cup (IF harvest'[c].pc = "done" THEN {E!Committed(c)} ELSE {})
  BY DEF E!PublishReceipt, E!Publishing
<1>3. /\ Stores(oaiObjects, oaiObjects', key, <<new>>)
      /\ ~E!Failed(o.ref) => key \in DOMAIN oaiObjects' /\ oaiObjects'[key].bytes = <<new>>
  BY <1>1, HarvestPublishes DEF Succeeds
<1>4. StoreOK(oaiObjects') /\ Keeps(oaiObjects, oaiObjects')
  BY <1>3 DEF Stores
<1>5. key = <<"receipt", h.token>> /\ key[1] = "receipt"
  BY DEF E!ReceiptKey
<1>6. /\ new.watermark = E!Committed(c) /\ new.watermark.cursor = h.token /\ new.watermark.set = h.set
      /\ new.batch = h.batch
  BY DEF E!Receipt, E!Committed, E!Watermark
<1>7. /\ Walk(listing, h.from, h.raw, h.token, Len(h.records)) /\ Finished(h.raw, h.token, Len(h.records))
      /\ h.from # 1 => Reached(oaiObjects, h.set, h.from)
      /\ LET b == h.batch.bytes[1]
         IN  b.before = h.from /\ b.after = h.token /\ b.raw = h.raw /\ b.records = Len(h.records)
  BY <1>2, HarvestIs DEF HarvestOK
<1> HIDE DEF new, key
<1>8. ReceiptOK(new, listing, oaiObjects')
  <2>1. ReceiptOK(new, listing, oaiObjects)
    BY <1>6, <1>7 DEF ReceiptOK
  <2> QED BY <1>4, <2>1, ReceiptsStay
<1>9. ASSUME NEW k \in DOMAIN oaiObjects', k[1] = "receipt"
      PROVE  \/ k \in DOMAIN oaiObjects /\ oaiObjects'[k] = oaiObjects[k]
             \/ k = key /\ k \notin DOMAIN oaiObjects /\ oaiObjects'[k].bytes[1] = new
  BY <1>3, <1>9 DEF Stores, Keeps
<1>10. ASSUME NEW k \in DOMAIN oaiObjects', k[1] = "receipt"
       PROVE  /\ k = <<"receipt", oaiObjects'[k].bytes[1].watermark.cursor>>
              /\ ReceiptOK(oaiObjects'[k].bytes[1], listing, oaiObjects')
  <2>1. CASE k \in DOMAIN oaiObjects /\ oaiObjects'[k] = oaiObjects[k]
    <3>1. /\ k = <<"receipt", oaiObjects[k].bytes[1].watermark.cursor>>
          /\ ReceiptOK(oaiObjects[k].bytes[1], listing, oaiObjects)
      BY <1>10, <2>1 DEF EuropeanaInv
    <3> QED BY <1>4, <2>1, <3>1, ReceiptsStay
  <2>2. CASE k = key /\ oaiObjects'[k].bytes[1] = new
    BY <1>5, <1>6, <1>8, <2>2
  <2> QED BY <1>9, <1>10, <2>1, <2>2
<1>11. ASSUME NEW r \in ReceiptsOf(oaiObjects')
       PROVE  r \in ReceiptsOf(oaiObjects) \/ (r = new /\ key \notin DOMAIN oaiObjects)
  <2>1. PICK k \in DOMAIN oaiObjects' : k[1] = "receipt" /\ r = oaiObjects'[k].bytes[1]
    BY DEF ReceiptsOf
  <2> QED BY <1>9, <2>1 DEF ReceiptsOf
<1>12. ASSUME GoesForward(listing), key \notin DOMAIN oaiObjects,
              NEW r \in ReceiptsOf(oaiObjects), r.watermark.set = h.set
       PROVE  Before(r, new)
  <2>1. ASSUME NEW q \in ReceiptsOf(oaiObjects), q.batch.bytes[1].before = h.from PROVE FALSE
    <3> DEFINE b == q.batch.bytes[1]
    <3>1. /\ q.watermark.cursor = b.after /\ b.before = h.from
          /\ Walk(listing, b.before, b.raw, b.after, b.records) /\ Finished(b.raw, b.after, b.records)
      BY <2>1, ReceiptIs DEF ReceiptOK
    <3>2. b.after = h.token
      <4> HIDE DEF b
      <4>1. Walk(listing, h.from, b.raw, b.after, b.records)
        BY <3>1
      <4> QED BY <1>7, <3>1, <4>1, SameWalk
    <3>3. q.watermark.cursor = h.token
      BY <3>1, <3>2
    <3> QED BY <1>5, <1>12, <3>3, ReceiptIs
  <2>2. h.from \in 1..Pages
    BY <1>7 DEF Walk, Follows
  <2>3. r.watermark.cursor # 0 /\ r.watermark.cursor <= h.from
    BY <1>7, <1>12, <2>1, <2>2, NoneBeginsAfter
  <2> QED BY <1>6, <1>7, <2>3 DEF Before
<1>13. ReceiptsApart(listing, oaiObjects')
  <2> SUFFICES ASSUME GoesForward(listing), NEW r \in ReceiptsOf(oaiObjects'), NEW q \in ReceiptsOf(oaiObjects'),
                      r.watermark.set = q.watermark.set, r.watermark.cursor # q.watermark.cursor
               PROVE  Before(r, q) \/ Before(q, r)
    BY DEF ReceiptsApart
  <2>1. CASE r \in ReceiptsOf(oaiObjects) /\ q \in ReceiptsOf(oaiObjects)
    BY <2>1 DEF EuropeanaInv, ReceiptsApart
  <2>2. CASE r = new /\ key \notin DOMAIN oaiObjects /\ q \in ReceiptsOf(oaiObjects)
    BY <1>6, <1>12, <2>2
  <2>3. CASE q = new /\ key \notin DOMAIN oaiObjects /\ r \in ReceiptsOf(oaiObjects)
    BY <1>6, <1>12, <2>3
  <2> QED BY <1>11, <2>1, <2>2, <2>3
<1>14. ASSUME NEW w \in handed' PROVE \E r \in ReceiptsOf(oaiObjects') : r.watermark = w
  <2>1. CASE w \in handed
    BY <1>4, <2>1, ReceiptsStay DEF EuropeanaInv
  <2>2. CASE w \notin handed
    <3>1. harvest'[c].pc = "done" /\ w = E!Committed(c)
      BY <1>2, <2>2
    <3>2. ~E!Failed(o.ref)
      BY <1>1, <3>1 DEF EuropeanaInv, E!IdleCapture
    <3>3. key \in DOMAIN oaiObjects' /\ oaiObjects'[key].bytes[1] = new
      BY <1>3, <3>2
    <3>4. new \in ReceiptsOf(oaiObjects')
      BY <1>5, <3>3 DEF ReceiptsOf
    <3> QED BY <1>6, <3>1, <3>4
  <2> QED BY <2>1, <2>2
<1>15. \A d \in E!Captures : HarvestOK(harvest'[d], listing, oaiObjects')
  <2> TAKE d \in E!Captures
  <2>1. CASE d = c
    <3>1. HarvestOK(g, listing, oaiObjects')
      BY DEF HarvestOK, HarvestShape, E!IdleCapture
    <3>2. harvest'[d] = g \/ harvest'[d] = [E!IdleCapture EXCEPT !.pc = "failed"]
      BY <1>1, <2>1, HarvestIs
    <3> QED BY <3>1, <3>2, FailedHarvest
  <2>2. CASE d # c
    <3>1. harvest'[d] = harvest[d] /\ HarvestOK(harvest[d], listing, oaiObjects)
      BY <1>1, <2>2 DEF EuropeanaInv
    <3> QED BY <1>4, <3>1, ReceiptsStay
  <2> QED BY <2>1, <2>2
<1>16. harvest' = [d \in E!Captures |-> harvest'[d]]
  BY <1>1, HarvestIs
<1>17. IsListing(listing') /\ revision' \in Nat
  BY <1>2 DEF EuropeanaInv
<1> QED BY <1>2, <1>4, <1>10, <1>13, <1>14, <1>15, <1>16, <1>17 DEF EuropeanaInv

LEMMA EuropeanaInit == E!Init => EuropeanaInv
<1> SUFFICES ASSUME E!Init PROVE EuropeanaInv
  OBVIOUS
<1>1. IsListing(listing) /\ revision \in Nat /\ DOMAIN oaiObjects = {} /\ handed = {}
  BY HarvestNumbers DEF E!Init
<1>2. ReceiptsOf(oaiObjects) = {} /\ StoreOK(oaiObjects)
  BY <1>1 DEF ReceiptsOf, StoreOK
<1>3. harvest = [c \in E!Captures |-> harvest[c]]
  BY DEF E!Init
<1>4. \A c \in E!Captures : HarvestOK(harvest[c], listing, oaiObjects)
  BY DEF E!Init, HarvestOK, HarvestShape, E!IdleCapture
<1> QED BY <1>1, <1>2, <1>3, <1>4 DEF EuropeanaInv, ReceiptsApart

LEMMA EuropeanaNext == EuropeanaInv /\ [E!Next]_europeana => EuropeanaInv'
<1> SUFFICES ASSUME EuropeanaInv, [E!Next]_europeana PROVE EuropeanaInv'
  OBVIOUS
<1>1. CASE UNCHANGED europeana
  BY <1>1 DEF europeana, EuropeanaInv
<1>2. CASE E!Revise
  BY <1>2, ReviseStep
<1>3. ASSUME NEW c \in E!Captures,
             (\E set \in 1..LastSet, at \in 1..c : E!Begin(c, set, at)) \/ E!Works(c) \/ E!Dies(c)
      PROVE  EuropeanaInv'
  <2>1. CASE \E set \in 1..LastSet, at \in 1..c : E!Begin(c, set, at)
    BY <2>1, HarvestBegins
  <2>2. CASE E!FetchFails(c) \/ E!Dies(c)
    BY <2>2, HarvestFails DEF E!FetchFails, E!Dies
  <2>3. CASE E!Works(c) /\ ~E!FetchFails(c)
    BY <2>3, HarvestPageStep, HarvestBatchStep, HarvestShardStep, HarvestSetStep, HarvestWatermarkStep,
       HarvestReceiptStep DEF E!Works
  <2> QED BY <1>3, <2>1, <2>2, <2>3
<1> QED BY <1>1, <1>2, <1>3 DEF E!Next

LEMMA CardinalityIs == ASSUME NEW S PROVE E!Cardinality(S) = Cardinality(S)
  BY DEF E!Cardinality, Cardinality

\* The pages that a sequence of references stands for are as many as it has.
LEMMA PagesCounted ==
  ASSUME NEW raw \in Seq(RawRefs), \A m, n \in 1..Len(raw) : Page(raw, m) = Page(raw, n) => m = n
  PROVE  E!Cardinality({ref.bytes[1] : ref \in E!ToSet(raw)}) = Len(raw)
<1> DEFINE f == [n \in 1..Len(raw) |-> Page(raw, n)]
           S == {ref.bytes[1] : ref \in E!ToSet(raw)}
<1>1. Len(raw) \in Nat /\ DOMAIN raw = 1..Len(raw)
  OBVIOUS
<1>2. \A n \in 1..Len(raw) : Page(raw, n) \in S
  BY <1>1 DEF E!ToSet, Page
<1>3. \A page \in S : \E n \in 1..Len(raw) : page = Page(raw, n)
  BY <1>1 DEF E!ToSet, Page
<1> HIDE DEF S
<1>4. f \in Bijection(1..Len(raw), S)
  BY <1>2, <1>3 DEF Bijection, Injection, Surjection, IsInjective
<1>5. Cardinality(S) = Len(raw)
  BY <1>1, <1>4, FS_CountingElements DEF ExistsBijection
<1> QED BY <1>5, CardinalityIs DEF S

\* Where the pages of a receipt lie.
LEMMA ReceiptPages ==
  ASSUME EuropeanaInv, NEW r \in ReceiptsOf(oaiObjects)
  PROVE  /\ E!Cardinality(E!PagesOf(r)) = Len(E!BatchOf(r).raw)
         /\ \A page \in E!PagesOf(r) :
              /\ page \in 1..Pages /\ page # r.watermark.cursor
              /\ GoesForward(listing) =>
                   /\ r.batch.bytes[1].before <= page
                   /\ r.watermark.cursor = 0 \/ page < r.watermark.cursor
<1>1. PICK b : b = r.batch.bytes[1]
  OBVIOUS
<1>2. PICK raw : raw = b.raw
  OBVIOUS
<1>3. /\ r.watermark.cursor = b.after /\ Follows(listing, b.before, raw, b.after)
      /\ NeverBack(listing, b.before, raw, b.after)
  BY <1>1, <1>2, ReceiptIs DEF ReceiptOK, Walk
<1>4. raw \in Seq(RawRefs) /\ DOMAIN raw = 1..Len(raw)
  BY <1>3 DEF Follows
<1>5. E!PagesOf(r) = {ref.bytes[1] : ref \in E!ToSet(raw)} /\ E!BatchOf(r).raw = raw
  BY <1>1, <1>2 DEF E!PagesOf, E!BatchOf
<1>6. E!Cardinality(E!PagesOf(r)) = Len(raw)
  BY <1>3, <1>4, <1>5, PagesCounted DEF NeverBack
<1>7. ASSUME NEW page \in E!PagesOf(r) PROVE \E n \in 1..Len(raw) : page = Page(raw, n)
  BY <1>4, <1>5 DEF E!ToSet, Page
<1>8. ASSUME NEW n \in 1..Len(raw) PROVE Page(raw, n) \in 1..Pages
  BY <1>4, PageIs
<1>9. ASSUME NEW page \in E!PagesOf(r)
      PROVE  /\ page \in 1..Pages /\ page # r.watermark.cursor
             /\ GoesForward(listing) => b.before <= page /\ (b.after = 0 \/ page < b.after)
  <2>1. PICK n \in 1..Len(raw) : page = Page(raw, n)
    BY <1>7
  <2>2. Page(raw, n) # b.after
    BY <1>3 DEF NeverBack
  <2>3. GoesForward(listing) => b.before <= Page(raw, n) /\ (b.after = 0 \/ Page(raw, n) < b.after)
    BY <1>3 DEF NeverBack
  <2> QED BY <1>3, <1>8, <2>1, <2>2, <2>3
<1>10. E!Cardinality(E!PagesOf(r)) = Len(E!BatchOf(r).raw)
  BY <1>5, <1>6
<1> QED BY <1>1, <1>3, <1>9, <1>10

LEMMA PagesOnceOnly == EuropeanaInv => E!PagesCommittedOnce
<1> SUFFICES ASSUME EuropeanaInv PROVE E!PagesCommittedOnce
  OBVIOUS
<1>1. E!Receipts = ReceiptsOf(oaiObjects)
  BY DEF E!Receipts, ReceiptsOf
<1>2. ASSUME E!Forward, NEW r \in E!Receipts, NEW q \in E!Receipts, r # q, r.watermark.set = q.watermark.set
      PROVE  E!PagesOf(r) \cap E!PagesOf(q) = {}
  <2>1. GoesForward(listing)
    BY <1>2 DEF GoesForward, E!Forward, E!after, E!Terminal
  <2>2. r.watermark.cursor # q.watermark.cursor
    BY <1>1, <1>2, ReceiptIs
  <2>3. Before(r, q) \/ Before(q, r)
    BY <1>1, <1>2, <2>1, <2>2 DEF EuropeanaInv, ReceiptsApart
  <2>4. ASSUME NEW s \in E!Receipts, NEW t \in E!Receipts, Before(s, t)
        PROVE  E!PagesOf(s) \cap E!PagesOf(t) = {}
    <3>1. PICK b : b = t.batch.bytes[1]
      OBVIOUS
    <3>2. s.watermark.cursor # 0 /\ s.watermark.cursor <= b.before
      BY <2>4, <3>1 DEF Before
    <3>3. s.watermark.cursor \in 0..Pages /\ b.before \in 1..Pages /\ Pages \in Nat
      BY <1>1, <3>1, ReceiptSpans, HarvestNumbers
    <3>4. \A page \in E!PagesOf(s) : page \in 1..Pages /\ page < s.watermark.cursor
      BY <1>1, <2>1, <3>2, ReceiptPages
    <3>5. \A page \in E!PagesOf(t) : page \in 1..Pages /\ b.before <= page
      BY <1>1, <2>1, <3>1, ReceiptPages
    <3> HIDE DEF GoesForward
    <3>6. ASSUME NEW page \in E!PagesOf(s) \cap E!PagesOf(t) PROVE FALSE
      BY <3>2, <3>3, <3>4, <3>5
    <3> QED BY <3>6
  <2> QED BY <1>2, <2>3, <2>4
<1>3. ASSUME NEW r \in E!Receipts
      PROVE  E!Cardinality(E!PagesOf(r)) = Len(E!BatchOf(r).raw) /\ r.watermark.cursor \notin E!PagesOf(r)
  BY <1>1, ReceiptPages
<1> QED BY <1>2, <1>3 DEF E!PagesCommittedOnce

LEMMA ChainHolds == EuropeanaInv => E!ChainHasNoGap
<1> SUFFICES ASSUME EuropeanaInv, NEW r \in ReceiptsOf(oaiObjects), E!From(r) # 1
             PROVE  \E q \in ReceiptsOf(oaiObjects) :
                      q.watermark.cursor = E!From(r) /\ q.watermark.set = r.watermark.set
  BY DEF E!ChainHasNoGap, E!Receipts, ReceiptsOf, E!Start
<1>1. r.batch.bytes[1].before # 1 => Reached(oaiObjects, r.watermark.set, r.batch.bytes[1].before)
  BY ReceiptIs DEF ReceiptOK
<1> QED BY <1>1 DEF Reached, E!From, E!BatchOf

\* ------------------------------------------------- the pieces of a partitioned capture

\* A reference to a shard; what is under a key of a store; references to every shard
\* of a dataset.
ShardRefs == [bytes : Nat \X Nat \X Nat, version : Nat]
Holds(o, key, ref) == key \in DOMAIN o /\ o[key] = ref
Covers(o, batch, p, refs) ==
  /\ refs \in Seq(ShardRefs) /\ Len(refs) = Shards
  /\ \A n \in 1..Shards : Holds(o, P!ShardKey(batch, p, n), refs[n])

\* The shards of all datasets in order, of the batch's edition.
IsWholeSet(o, batch, refs) ==
  /\ P!BatchKey(batch) \in DOMAIN o
  /\ Len(refs) = Partitions * Shards
  /\ \A p \in P!Datasets, n \in 1..Shards :
       LET ref == refs[(p - 1) * Shards + n]
       IN  /\ Holds(o, P!ShardKey(batch, p, n), ref)
           /\ ref.bytes = P!ShardBytes(batch.bytes[1], p, n)

PieceOK(o, key) ==
  /\ key[1] = "shard" => o[key].bytes = P!ShardBytes(key[2].bytes[1], key[3], key[4])
  /\ key[1] = "checkpoint" => Covers(o, key[2], key[3], o[key].bytes)
  /\ key[1] = "record set" => IsWholeSet(o, key[2], o[key].bytes)

\* A worker knows the batch, also when its capture is over, and has stored the shards
\* it names; whoever is done has stored the checkpoint.
IsBatch(h) == h.edition \in Nat /\ h.batch.bytes = <<h.edition>>
TaskOK(h, p, t, o) ==
  /\ t = [field \in {"pc", "shards", "checkpoint"} |-> t[field]]
  /\ t.pc \in {"none", "waiting", "running", "done", "failed"}
  /\ t.pc = "waiting" => t.shards = <<>>
  /\ t.pc = "running" =>
       /\ IsBatch(h) /\ t.shards \in Seq(ShardRefs)
       /\ \A n \in 1..Len(t.shards) : Holds(o, P!ShardKey(h.batch, p, n), t.shards[n])
  /\ t.pc = "done" => Holds(o, P!CheckpointKey(h.batch, p), t.checkpoint)

\* A dataset without a checkpoint has a task; a task is given up in the pool only after
\* another has failed.
PoolOK(h, ts, o) ==
  /\ h.completed = [p \in P!Datasets |-> h.completed[p]]
  /\ h.pc = "idle" => \A p \in P!Datasets : ts[p].pc = "none"
  /\ h.pc \in {"idle", "batch"} => \A p \in P!Datasets : P!Failed(h.completed[p])
  /\ h.pc \in {"batch", "load", "pool", "final"} => IsBatch(h)
  /\ h.pc \in {"load", "pool", "final"} =>
       /\ P!BatchKey(h.batch) \in DOMAIN o
       /\ \A p \in P!Datasets :
            ~P!Failed(h.completed[p]) => Holds(o, P!CheckpointKey(h.batch, p), h.completed[p])
  /\ h.pc = "pool" => \A p \in P!Datasets :
       P!Failed(h.completed[p]) /\ ts[p].pc = "none" => \E q \in P!Datasets : ts[q].pc = "failed"
  /\ h.pc = "final" => \A p \in P!Datasets : P!Failed(h.completed[p]) => ts[p].pc = "done"
  /\ \A p \in P!Datasets : TaskOK(h, p, ts[p], o)

PiecesInv ==
  /\ \A key \in DOMAIN objects : PieceOK(objects, key)
  /\ task = [c \in P!Captures |-> [p \in P!Datasets |-> task[c][p]]]
  /\ \A c \in P!Captures : PoolOK(cap[c], task[c], objects)

LEMMA PiecesStay ==
  ASSUME NEW o, NEW after, Keeps(o, after)
  PROVE  /\ \A key, ref : Holds(o, key, ref) => Holds(after, key, ref)
         /\ \A key \in DOMAIN o : PieceOK(o, key) => PieceOK(after, key)
         /\ \A h, p, t : TaskOK(h, p, t, o) => TaskOK(h, p, t, after)
         /\ \A h, ts : PoolOK(h, ts, o) => PoolOK(h, ts, after)
<1>1. \A key, ref : Holds(o, key, ref) => Holds(after, key, ref)
  BY DEF Keeps, Holds
<1>2. ASSUME NEW key \in DOMAIN o, PieceOK(o, key) PROVE PieceOK(after, key)
  <2>1. after[key] = o[key]
    BY DEF Keeps
  <2>2. \A batch, p, refs : Covers(o, batch, p, refs) => Covers(after, batch, p, refs)
    BY <1>1 DEF Covers
  <2>3. \A batch, refs : IsWholeSet(o, batch, refs) => IsWholeSet(after, batch, refs)
    BY <1>1 DEF IsWholeSet, Keeps
  <2> QED BY <1>2, <2>1, <2>2, <2>3 DEF PieceOK
<1>3. \A h, p, t : TaskOK(h, p, t, o) => TaskOK(h, p, t, after)
  BY <1>1 DEF TaskOK
<1>4. ASSUME NEW h, NEW ts, PoolOK(h, ts, o) PROVE PoolOK(h, ts, after)
  <2>1. P!BatchKey(h.batch) \in DOMAIN o => P!BatchKey(h.batch) \in DOMAIN after
    BY DEF Keeps
  <2> QED BY <1>1, <1>3, <1>4, <2>1 DEF PoolOK
<1> QED BY <1>1, <1>2, <1>3, <1>4

\* A step of capture c, of its tasks and of the store.
LEMMA PoolMoves ==
  ASSUME PartitionsInv, PiecesInv, NEW c \in P!Captures, NEW h, NEW ts,
         cap' = [cap EXCEPT ![c] = h], task' = [task EXCEPT ![c] = ts],
         ts = [p \in P!Datasets |-> ts[p]],
         NEW key, NEW bytes, Stores(objects, objects', key, bytes),
         key \in DOMAIN objects' /\ key \notin DOMAIN objects => PieceOK(objects', key),
         PoolOK(h, ts, objects')
  PROVE  PiecesInv'
<1>1. Keeps(objects, objects')
  BY DEF Stores
<1>2. ASSUME NEW k \in DOMAIN objects' PROVE PieceOK(objects', k)
  <2>1. CASE k \in DOMAIN objects
    BY <1>1, <2>1, PiecesStay DEF PiecesInv
  <2>2. CASE k \notin DOMAIN objects
    <3>1. k = key
      BY <2>2 DEF Stores
    <3> QED BY <2>2, <3>1
  <2> QED BY <2>1, <2>2
<1>3. /\ task' = [d \in P!Captures |-> IF d = c THEN ts ELSE task[d]]
      /\ cap' = [d \in P!Captures |-> IF d = c THEN h ELSE cap[d]]
  BY DEF PiecesInv, PartitionsInv
<1>4. ASSUME NEW d \in P!Captures PROVE PoolOK(cap'[d], task'[d], objects')
  <2>1. CASE d = c
    BY <1>3, <2>1
  <2>2. CASE d # c
    <3>1. cap'[d] = cap[d] /\ task'[d] = task[d] /\ PoolOK(cap[d], task[d], objects)
      BY <1>3, <2>2 DEF PiecesInv
    <3> QED BY <1>1, <3>1, PiecesStay
  <2> QED BY <2>1, <2>2
<1>5. \A d \in P!Captures : task[d] = [p \in P!Datasets |-> task[d][p]]
  BY DEF PiecesInv
<1>6. task' = [d \in P!Captures |-> [p \in P!Datasets |-> task'[d][p]]]
  <2>1. \A d \in P!Captures : task'[d] = [p \in P!Datasets |-> task'[d][p]]
    BY <1>3, <1>5
  <2> QED BY <1>3, <2>1
<1> QED BY <1>2, <1>4, <1>6 DEF PiecesInv

\* What is known of a capture and its tasks.
LEMMA PoolIs ==
  ASSUME PartitionsInv, PiecesInv, NEW c \in P!Captures
  PROVE  /\ CaptureShape(cap[c]) /\ PoolOK(cap[c], task[c], objects)
         /\ task[c] = [p \in P!Datasets |-> task[c][p]]
         /\ cap = [d \in P!Captures |-> cap[d]] /\ task = [d \in P!Captures |-> task[d]]
         /\ \A p \in P!Datasets : TaskOK(cap[c], p, task[c][p], objects)
BY DEF PartitionsInv, CaptureOK, PiecesInv, PoolOK

\* Ends: running workers stay.
LEMMA PoolEnds ==
  ASSUME PartitionsInv, PiecesInv, NEW c \in P!Captures, NEW pc \in {"failed", "done"}, NEW result,
         P!Ends(c, pc, result),
         NEW key, NEW bytes, Stores(objects, objects', key, bytes),
         key \in DOMAIN objects' /\ key \notin DOMAIN objects => PieceOK(objects', key)
  PROVE  PiecesInv'
<1> DEFINE h == [cap[c] EXCEPT !.pc = pc, !.next = 1, !.result = result,
                                 !.completed = P!IdleCapture.completed]
           ts == [p \in P!Datasets |-> IF task[c][p].pc = "running" THEN task[c][p] ELSE P!NoTask]
<1>1. cap' = [cap EXCEPT ![c] = h]
  BY DEF P!Ends
<1>2. task' = [task EXCEPT ![c] = ts]
  BY PoolIs DEF P!Ends
<1>3. /\ h.pc = pc /\ h.edition = cap[c].edition /\ h.batch = cap[c].batch
      /\ h.completed = P!IdleCapture.completed
  BY PoolIs DEF CaptureShape
<1>4. h.completed = [p \in P!Datasets |-> h.completed[p]]
  BY <1>3 DEF P!IdleCapture
<1>5. Keeps(objects, objects')
  BY DEF Stores
<1>6. ASSUME NEW p \in P!Datasets PROVE TaskOK(h, p, ts[p], objects')
  <2>1. TaskOK(cap[c], p, task[c][p], objects')
    BY <1>5, PoolIs, PiecesStay
  <2>2. TaskOK(h, p, P!NoTask, objects')
    BY DEF TaskOK, P!NoTask
  <2>3. task[c][p].pc = "running" => TaskOK(h, p, task[c][p], objects')
    <3> HIDE DEF h
    <3> QED BY <1>3, <2>1 DEF TaskOK, IsBatch
  <2> QED BY <2>2, <2>3
<1> HIDE DEF h, ts
<1>7. PoolOK(h, ts, objects')
  BY <1>3, <1>4, <1>6 DEF PoolOK
<1>8. ts = [p \in P!Datasets |-> ts[p]]
  BY DEF ts
<1> QED BY <1>1, <1>2, <1>7, <1>8, PoolMoves

\* The store is as it was.
LEMMA StoreStays ==
  ASSUME PartitionsInv, UNCHANGED objects, NEW key, NEW bytes
  PROVE  Stores(objects, objects', key, bytes)
BY DEF PartitionsInv, Stores, Keeps

\* The capture goes on and its tasks stay.
LEMMA PoolGoes ==
  ASSUME PartitionsInv, PiecesInv, NEW c \in P!Captures, NEW pc, P!Continues(c, pc),
         NEW key, NEW bytes, Stores(objects, objects', key, bytes),
         key \in DOMAIN objects' /\ key \notin DOMAIN objects => PieceOK(objects', key),
         \/ cap[c].pc = "batch" /\ pc = "load" /\ P!BatchKey(cap[c].batch) \in DOMAIN objects'
            /\ \A p \in P!Datasets : P!Failed(cap[c].completed[p])
         \/ cap[c].pc = "pool" /\ pc = "final"
            /\ \A p \in P!Datasets : P!Failed(cap[c].completed[p]) => task[c][p].pc = "done"
  PROVE  PiecesInv'
<1> DEFINE h == [cap[c] EXCEPT !.pc = pc]
<1>1. cap' = [cap EXCEPT ![c] = h] /\ task' = [task EXCEPT ![c] = task[c]]
  BY PoolIs DEF P!Continues
<1>2. /\ h.pc = pc /\ h.edition = cap[c].edition /\ h.batch = cap[c].batch
      /\ h.completed = cap[c].completed
  BY PoolIs DEF CaptureShape
<1>3. PoolOK(cap[c], task[c], objects')
  BY PoolIs, PiecesStay DEF Stores
<1> HIDE DEF h
<1>4. ASSUME NEW p \in P!Datasets PROVE TaskOK(h, p, task[c][p], objects')
  BY <1>2, <1>3 DEF PoolOK, TaskOK, IsBatch
<1>5. PoolOK(h, task[c], objects')
  BY <1>2, <1>3, <1>4 DEF PoolOK, IsBatch
<1> QED BY <1>1, <1>5, PoolIs, PoolMoves

LEMMA PiecesFirst ==
  ASSUME PartitionsInv, PiecesInv, NEW c \in P!Captures, NEW e \in Nat, P!PrepareBatch(c, e)
  PROVE  PiecesInv'
<1>1. PICK o \in P!PublishOutcomes(objects, P!RawKey(e), <<e>>, c) :
        /\ objects' = o.objects
        /\ cap' = [cap EXCEPT ![c] = [@ EXCEPT !.edition = e, !.batch = o.ref,
                                             !.pc = IF P!Failed(o.ref) THEN "failed" ELSE "batch"]]
  BY DEF P!PrepareBatch
<1>2. /\ Stores(objects, objects', P!RawKey(e), <<e>>)
      /\ ~P!Failed(o.ref) => o.ref.bytes = <<e>>
  BY <1>1, Outcomes, Writer DEF PartitionsInv, Succeeds
<1> DEFINE pc == IF P!Failed(o.ref) THEN "failed" ELSE "batch"
           h == [cap[c] EXCEPT !.edition = e, !.batch = o.ref, !.pc = pc]
<1>3. cap' = [cap EXCEPT ![c] = h] /\ task' = [task EXCEPT ![c] = task[c]] /\ cap[c].pc = "idle"
  BY <1>1, PoolIs DEF P!PrepareBatch
<1>4. pc \in {"failed", "batch"} /\ (pc = "batch" => o.ref.bytes = <<e>>)
  BY <1>2
<1> HIDE DEF pc
<1>5. h.pc = pc /\ h.edition = e /\ h.batch = o.ref /\ h.completed = cap[c].completed
  BY PoolIs DEF CaptureShape
<1> HIDE DEF h
<1>6. \A p \in P!Datasets : TaskOK(h, p, task[c][p], objects')
  BY <1>3, PoolIs DEF PoolOK, TaskOK
<1>9. /\ cap[c].completed = [p \in P!Datasets |-> cap[c].completed[p]]
      /\ \A p \in P!Datasets : P!Failed(cap[c].completed[p])
  BY <1>3, PoolIs DEF PoolOK
<1>10. h.pc = "batch" => IsBatch(h)
  BY <1>4, <1>5 DEF IsBatch
<1>7. PoolOK(h, task[c], objects')
  BY <1>4, <1>5, <1>6, <1>9, <1>10 DEF PoolOK
<1>8. P!RawKey(e) \in DOMAIN objects' => PieceOK(objects', P!RawKey(e))
  BY DEF PieceOK, P!RawKey
<1> QED BY <1>2, <1>3, <1>7, <1>8, PoolIs, PoolMoves

LEMMA PiecesBatch ==
  ASSUME PartitionsInv, PiecesInv, NEW c \in P!Captures, P!PublishBatch(c)
  PROVE  PiecesInv'
<1> DEFINE key == P!BatchKey(cap[c].batch)
<1>1. PICK o \in P!PublishOutcomes(objects, key, <<cap[c].batch>>, c) :
        objects' = o.objects /\ IF P!Failed(o.ref) THEN P!Fails(c) ELSE P!Continues(c, "load")
  BY DEF P!PublishBatch
<1>2. /\ Stores(objects, objects', key, <<cap[c].batch>>)
      /\ ~P!Failed(o.ref) => key \in DOMAIN objects'
  BY <1>1, Outcomes, Writer DEF PartitionsInv, Succeeds
<1>3. key \in DOMAIN objects' => PieceOK(objects', key)
  BY DEF PieceOK, P!BatchKey
<1>4. cap[c].pc = "batch"
  BY DEF P!PublishBatch
<1>5. \A p \in P!Datasets : P!Failed(cap[c].completed[p])
  BY <1>4, PoolIs DEF PoolOK
<1> HIDE DEF key
<1>6. CASE P!Failed(o.ref)
  BY <1>1, <1>2, <1>3, <1>6, PoolEnds DEF P!Fails
<1>7. CASE ~P!Failed(o.ref)
  BY <1>1, <1>2, <1>3, <1>4, <1>5, <1>7, PoolGoes DEF key
<1> QED BY <1>6, <1>7

LEMMA PiecesLoad ==
  ASSUME PartitionsInv, PiecesInv, NEW c \in P!Captures, P!LoadPartition(c)
  PROVE  PiecesInv'
<1> DEFINE p == cap[c].next
           key == P!CheckpointKey(cap[c].batch, p)
           found == IF key \in DOMAIN objects THEN objects[key] ELSE P!NoRef
           completed == [cap[c].completed EXCEPT ![p] = found]
           pc == IF p = Partitions THEN "pool" ELSE "load"
           h == [cap[c] EXCEPT !.completed = completed, !.next = @ + 1, !.pc = pc]
           fresh == [q \in P!Datasets |-> [P!NoTask EXCEPT !.pc =
                                            IF P!Failed(completed[q]) THEN "waiting" ELSE "none"]]
           ts == IF p < Partitions THEN task[c] ELSE fresh
<1>1. UNCHANGED objects /\ cap[c].pc = "load"
  BY DEF P!LoadPartition
<1>2. Stores(objects, objects', P!RawKey(1), <<>>)
      /\ (P!RawKey(1) \in DOMAIN objects' /\ P!RawKey(1) \notin DOMAIN objects => PieceOK(objects', P!RawKey(1)))
  BY <1>1, StoreStays
<1>3. CASE P!Fails(c)
  BY <1>2, <1>3, PoolEnds DEF P!Fails
<1>4. CASE ~P!Fails(c)
  <2>1. /\ cap' = [cap EXCEPT ![c].completed = completed, ![c].next = @ + 1, ![c].pc = pc]
        /\ task' = IF p < Partitions THEN task ELSE [task EXCEPT ![c] = fresh]
    BY <1>4 DEF P!LoadPartition
  <2>2. ts = [q \in P!Datasets |-> ts[q]]
    BY PoolIs
  <2>3. pc \in {"pool", "load"} /\ (pc = "pool" => ts = fresh)
    BY CaptureConstants
  <2>4. \A q \in P!Datasets : completed[q] = IF q = p THEN found ELSE cap[c].completed[q]
    BY PoolIs DEF PoolOK
  <2>5. completed = [q \in P!Datasets |-> completed[q]]
    <3>1. cap[c].completed = [q \in P!Datasets |-> cap[c].completed[q]]
      BY PoolIs DEF PoolOK
    <3> HIDE DEF found, p
    <3> QED BY <3>1
  <2>6. ~P!Failed(found) => Holds(objects, P!CheckpointKey(cap[c].batch, p), found)
    BY DEF Holds, P!Failed
  <2>7. \A q \in P!Datasets : ~P!Failed(completed[q]) => Holds(objects, P!CheckpointKey(cap[c].batch, q), completed[q])
    <3> HIDE DEF found, completed
    <3> QED BY <1>1, <2>4, <2>6, PoolIs DEF PoolOK
  <2>8. \A q \in P!Datasets : /\ fresh[q] = [field \in {"pc", "shards", "checkpoint"} |-> fresh[q][field]]
                              /\ fresh[q].pc = IF P!Failed(completed[q]) THEN "waiting" ELSE "none"
                              /\ fresh[q].shards = <<>>
    BY DEF P!NoTask
  <2>9. task' = [task EXCEPT ![c] = ts]
    BY <2>1, PoolIs
  <2> HIDE DEF completed, found, pc, fresh
  <2>10. cap' = [cap EXCEPT ![c] = h]
    BY <2>1, PoolIs
  <2>11. h.pc = pc /\ h.edition = cap[c].edition /\ h.batch = cap[c].batch /\ h.completed = completed
    BY PoolIs DEF CaptureShape
  <2> HIDE DEF h, p
  <2>14. ts = task[c] \/ ts = fresh
    OBVIOUS
  <2>15. IsBatch(cap[c]) /\ P!BatchKey(cap[c].batch) \in DOMAIN objects
    BY <1>1, PoolIs DEF PoolOK
  <2> HIDE DEF ts
  <2>12. ASSUME NEW q \in P!Datasets PROVE TaskOK(h, q, ts[q], objects)
    <3>1. CASE ts = task[c]
      <4>1. TaskOK(cap[c], q, task[c][q], objects)
        BY PoolIs
      <4> QED BY <2>11, <3>1, <4>1 DEF TaskOK, IsBatch
    <3>2. CASE ts = fresh
      BY <2>8, <3>2 DEF TaskOK
    <3> QED BY <2>14, <3>1, <3>2
  <2>13. PoolOK(h, ts, objects')
    <3>1. h.pc = "pool" => \A q \in P!Datasets : P!Failed(h.completed[q]) => ts[q].pc = "waiting"
      <4> SUFFICES ASSUME h.pc = "pool", NEW q \in P!Datasets, P!Failed(h.completed[q])
                   PROVE  ts[q].pc = "waiting"
        OBVIOUS
      <4>1. ts = fresh /\ P!Failed(completed[q])
        BY <2>3, <2>11
      <4> QED BY <2>8, <4>1
    <3>2. IsBatch(h) /\ P!BatchKey(h.batch) \in DOMAIN objects'
      BY <1>1, <2>11, <2>15 DEF IsBatch
    <3>3. h.pc \in {"pool", "load"}
      BY <2>3, <2>11
    <3>4. h.completed = [q \in P!Datasets |-> h.completed[q]]
      BY <2>5, <2>11
    <3>5. \A q \in P!Datasets :
            ~P!Failed(h.completed[q]) => Holds(objects', P!CheckpointKey(h.batch, q), h.completed[q])
      BY <1>1, <2>7, <2>11
    <3>6. \A q \in P!Datasets : TaskOK(h, q, ts[q], objects')
      BY <1>1, <2>12
    <3> QED BY <3>1, <3>2, <3>3, <3>4, <3>5, <3>6 DEF PoolOK
  <2> QED BY <1>2, <2>2, <2>9, <2>10, <2>13, PoolMoves
<1> QED BY <1>3, <1>4

LEMMA PiecesQuiet ==
  ASSUME PartitionsInv, PiecesInv, NEW c \in P!Captures, P!Refused(c) \/ P!Join(c) \/ P!Dies(c)
  PROVE  PiecesInv'
<1>1. UNCHANGED objects
  BY DEF P!Refused, P!Join, P!Dies
<1>2. Stores(objects, objects', P!RawKey(1), <<>>)
      /\ (P!RawKey(1) \in DOMAIN objects' /\ P!RawKey(1) \notin DOMAIN objects => PieceOK(objects', P!RawKey(1)))
  BY <1>1, StoreStays
<1>3. CASE P!Fails(c)
  BY <1>2, <1>3, PoolEnds DEF P!Fails
<1>4. CASE P!Join(c) /\ ~P!Fails(c)
  <2>1. /\ cap[c].pc = "pool" /\ P!Continues(c, "final")
        /\ \A p \in P!Datasets : task[c][p].pc \notin {"waiting", "running", "failed"}
    BY <1>4 DEF P!Join
  <2>2. ASSUME NEW p \in P!Datasets, P!Failed(cap[c].completed[p]) PROVE task[c][p].pc = "done"
    <3>1. task[c][p].pc \in {"none", "done"}
      BY <2>1, PoolIs DEF TaskOK
    <3>2. task[c][p].pc # "none"
      <4>1. PoolOK(cap[c], task[c], objects)
        BY PoolIs
      <4>2. task[c][p].pc = "none" => \E q \in P!Datasets : task[c][q].pc = "failed"
        BY <2>1, <2>2, <4>1 DEF PoolOK
      <4> QED BY <2>1, <4>2
    <3> QED BY <3>1, <3>2
  <2> QED BY <1>2, <2>1, <2>2, PoolGoes
<1> QED BY <1>3, <1>4 DEF P!Refused, P!Join, P!Dies

\* A step of the task of dataset p.
LEMMA TaskMoves ==
  ASSUME PartitionsInv, PiecesInv, NEW c \in P!Captures, NEW p \in P!Datasets, NEW t, UNCHANGED cap,
         task' = [task EXCEPT ![c][p] = t], task[c][p].pc \in {"waiting", "running"},
         cap[c].pc = "pool" => t.pc # "none",
         NEW key, NEW bytes, Stores(objects, objects', key, bytes),
         key \in DOMAIN objects' /\ key \notin DOMAIN objects => PieceOK(objects', key),
         TaskOK(cap[c], p, t, objects')
  PROVE  PiecesInv'
<1> DEFINE ts == [q \in P!Datasets |-> IF q = p THEN t ELSE task[c][q]]
           h == cap[c]
<1>1. task' = [task EXCEPT ![c] = ts] /\ cap' = [cap EXCEPT ![c] = h]
  BY PoolIs
<1>2. PoolOK(h, task[c], objects')
  BY PoolIs, PiecesStay DEF Stores
<1>3. ts[p] = t /\ \A q \in P!Datasets : q # p => ts[q] = task[c][q]
  OBVIOUS
<1>4. ts = [q \in P!Datasets |-> ts[q]]
  OBVIOUS
<1> HIDE DEF ts
<1>5. \A q \in P!Datasets : TaskOK(h, q, ts[q], objects')
  BY <1>2, <1>3 DEF PoolOK
<1>6. h.pc # "idle" /\ (h.pc = "final" => \A q \in P!Datasets : P!Failed(h.completed[q]) => ts[q].pc = "done")
  BY <1>2, <1>3 DEF PoolOK
<1>7. ASSUME h.pc = "pool", NEW q \in P!Datasets, P!Failed(h.completed[q]), ts[q].pc = "none"
      PROVE  \E r \in P!Datasets : ts[r].pc = "failed"
  <2>1. q # p /\ task[c][q].pc = "none"
    BY <1>3, <1>7
  <2>2. PICK r \in P!Datasets : task[c][r].pc = "failed"
    BY <1>2, <1>7, <2>1 DEF PoolOK
  <2> QED BY <1>3, <2>2
<1> HIDE DEF h
<1>8. PoolOK(h, ts, objects')
  BY <1>2, <1>5, <1>6, <1>7 DEF PoolOK
<1> QED BY <1>1, <1>4, <1>8, PoolMoves

LEMMA PiecesStart ==
  ASSUME PartitionsInv, PiecesInv, NEW c \in P!Captures, NEW p \in P!Datasets, P!StartTask(c, p)
  PROVE  PiecesInv'
<1> DEFINE t == [task[c][p] EXCEPT !.pc = "running"]
<1>1. /\ UNCHANGED <<objects, cap>> /\ task' = [task EXCEPT ![c][p] = t]
      /\ task[c][p].pc = "waiting" /\ cap[c].pc = "pool"
  BY DEF P!StartTask
<1>2. /\ TaskOK(cap[c], p, task[c][p], objects) /\ IsBatch(cap[c])
  BY <1>1, PoolIs DEF PoolOK
<1>3. /\ t = [field \in {"pc", "shards", "checkpoint"} |-> t[field]] /\ t.pc = "running" /\ t.shards = <<>>
  BY <1>1, <1>2 DEF TaskOK
<1> HIDE DEF t
<1>4. TaskOK(cap[c], p, t, objects')
  <2>1. <<>> \in Seq(ShardRefs) /\ 1..Len(<<>>) = {}
    OBVIOUS
  <2> QED BY <1>2, <1>3, <2>1 DEF TaskOK
<1>5. Stores(objects, objects', P!RawKey(1), <<>>)
      /\ (P!RawKey(1) \in DOMAIN objects' /\ P!RawKey(1) \notin DOMAIN objects => PieceOK(objects', P!RawKey(1)))
  BY <1>1, StoreStays
<1> QED BY <1>1, <1>3, <1>4, <1>5, TaskMoves

LEMMA PiecesTaskEnds ==
  ASSUME PartitionsInv, PiecesInv, NEW c \in P!Captures, NEW p \in P!Datasets, NEW t,
         UNCHANGED cap, P!TaskEnds(c, p, t), task[c][p].pc = "running",
         t.pc # "none", TaskOK(cap[c], p, t, objects'),
         NEW key, NEW bytes, Stores(objects, objects', key, bytes),
         key \in DOMAIN objects' /\ key \notin DOMAIN objects => PieceOK(objects', key)
  PROVE  PiecesInv'
<1>1. TaskOK(cap[c], p, P!NoTask, objects')
  BY DEF TaskOK, P!NoTask
<1>2. CASE cap[c].pc = "pool"
  BY <1>2, TaskMoves DEF P!TaskEnds
<1>3. CASE cap[c].pc # "pool"
  BY <1>1, <1>3, TaskMoves DEF P!TaskEnds
<1> QED BY <1>2, <1>3

LEMMA TaskFailed ==
  ASSUME NEW h, NEW p, NEW o
  PROVE  /\ TaskOK(h, p, [P!NoTask EXCEPT !.pc = "failed"], o)
         /\ [P!NoTask EXCEPT !.pc = "failed"].pc # "none"
BY DEF TaskOK, P!NoTask

LEMMA PiecesShard ==
  ASSUME PartitionsInv, PiecesInv, NEW c \in P!Captures, NEW p \in P!Datasets, P!PublishShard(c, p)
  PROVE  PiecesInv'
<1> DEFINE n == Len(task[c][p].shards) + 1
           batch == cap[c].batch
           key == P!ShardKey(batch, p, n)
           bytes == P!ShardBytes(cap[c].edition, p, n)
<1>1. PICK o \in P!PublishOutcomes(objects, key, bytes, c) :
        /\ objects' = o.objects
        /\ IF P!Failed(o.ref) THEN P!TaskFails(c, p)
           ELSE task' = [task EXCEPT ![c][p].shards = Append(task[c][p].shards, o.ref)]
  BY PoolIs DEF P!PublishShard
<1>2. UNCHANGED cap /\ task[c][p].pc = "running"
  BY DEF P!PublishShard
<1>3. /\ IsBatch(cap[c]) /\ task[c][p].shards \in Seq(ShardRefs)
      /\ \A m \in 1..Len(task[c][p].shards) : Holds(objects, P!ShardKey(batch, p, m), task[c][p].shards[m])
      /\ task[c][p] = [field \in {"pc", "shards", "checkpoint"} |-> task[c][p][field]]
  BY <1>2, PoolIs DEF TaskOK
<1>4. /\ Stores(objects, objects', key, bytes)
      /\ ~P!Failed(o.ref) => Succeeds(objects', key, bytes, o.ref)
  BY <1>1, Outcomes, Writer DEF PartitionsInv
<1>5. key \in DOMAIN objects' /\ key \notin DOMAIN objects => PieceOK(objects', key)
  <2>1. key \in DOMAIN objects' /\ key \notin DOMAIN objects => objects'[key].bytes = bytes
    BY <1>4 DEF Stores
  <2>2. bytes = P!ShardBytes(batch.bytes[1], p, n)
    BY <1>3 DEF IsBatch
  <2>3. key[1] = "shard" /\ key[2] = batch /\ key[3] = p /\ key[4] = n
    BY DEF P!ShardKey
  <2> HIDE DEF key, bytes, n, batch
  <2> QED BY <2>1, <2>2, <2>3 DEF PieceOK
<1>6. CASE P!Failed(o.ref)
  <2> HIDE DEF key, bytes
  <2> QED BY <1>1, <1>2, <1>4, <1>5, <1>6, TaskFailed, PiecesTaskEnds DEF P!TaskFails
<1>7. CASE ~P!Failed(o.ref)
  <2> DEFINE t == [task[c][p] EXCEPT !.shards = Append(task[c][p].shards, o.ref)]
  <2>1. task' = [task EXCEPT ![c][p] = t]
    BY <1>1, <1>7, PoolIs
  <2>2. /\ t = [field \in {"pc", "shards", "checkpoint"} |-> t[field]] /\ t.pc = "running"
        /\ t.shards = Append(task[c][p].shards, o.ref)
    BY <1>2, <1>3
  <2>3. o.ref \in ShardRefs /\ Holds(objects', key, o.ref)
    <3>1. cap[c].edition \in Nat /\ p \in Nat /\ n \in Nat
      BY <1>3 DEF IsBatch, P!Datasets
    <3>2. bytes \in Nat \X Nat \X Nat
      BY <3>1 DEF P!ShardBytes
    <3> HIDE DEF key, bytes
    <3> QED BY <1>4, <1>7, <3>2 DEF Succeeds, IsObject, ShardRefs, Holds
  <2> HIDE DEF t
  <2>4. TaskOK(cap[c], p, t, objects')
    <3>1. t.shards \in Seq(ShardRefs) /\ Len(t.shards) = n /\ t.shards[n] = o.ref
          /\ \A m \in 1..(n - 1) : t.shards[m] = task[c][p].shards[m]
      <4>1. PICK s \in Seq(ShardRefs) : s = task[c][p].shards
        BY <1>3
      <4>2. PICK r \in ShardRefs : r = o.ref
        BY <2>3
      <4>3. /\ Append(s, r) \in Seq(ShardRefs) /\ Len(Append(s, r)) = Len(s) + 1
            /\ Append(s, r)[Len(s) + 1] = r /\ Len(s) \in Nat
            /\ \A m \in 1..Len(s) : Append(s, r)[m] = s[m]
        OBVIOUS
      <4>4. n = Len(s) + 1 /\ n - 1 = Len(s) /\ t.shards = Append(s, r)
        BY <2>2, <4>1, <4>2, <4>3
      <4> QED BY <4>1, <4>2, <4>3, <4>4
    <3>2. Keeps(objects, objects')
      BY <1>4 DEF Stores
    <3>3. ASSUME NEW m \in 1..Len(t.shards) PROVE Holds(objects', P!ShardKey(batch, p, m), t.shards[m])
      <4>1. CASE m = n
        BY <2>3, <3>1, <4>1
      <4>2. CASE m # n
        <5>1. m \in 1..(n - 1) /\ m \in 1..Len(task[c][p].shards)
          BY <1>3, <3>1, <4>2
        <5>2. Holds(objects, P!ShardKey(batch, p, m), t.shards[m])
          BY <1>3, <3>1, <5>1
        <5> QED BY <3>2, <5>2, PiecesStay
      <4> QED BY <4>1, <4>2
    <3> QED BY <1>3, <2>2, <3>1, <3>3 DEF TaskOK
  <2> HIDE DEF key, bytes
  <2> QED BY <1>2, <1>4, <1>5, <2>1, <2>2, <2>4, TaskMoves
<1> QED BY <1>6, <1>7

LEMMA PiecesCheckpoint ==
  ASSUME PartitionsInv, PiecesInv, NEW c \in P!Captures, NEW p \in P!Datasets, P!PublishCheckpoint(c, p)
  PROVE  PiecesInv'
<1> DEFINE key == P!CheckpointKey(cap[c].batch, p)
           bytes == task[c][p].shards
<1>1. PICK o \in P!PublishOutcomes(objects, key, bytes, c) :
        /\ objects' = o.objects
        /\ IF P!Failed(o.ref) THEN P!TaskFails(c, p) ELSE P!TaskDone(c, p, o.ref)
  BY DEF P!PublishCheckpoint
<1>2. UNCHANGED cap /\ task[c][p].pc = "running" /\ Len(bytes) = Shards
  BY DEF P!PublishCheckpoint
<1>3. Covers(objects, cap[c].batch, p, bytes)
  BY <1>2, PoolIs DEF TaskOK, Covers
<1>4. /\ Stores(objects, objects', key, bytes)
      /\ ~P!Failed(o.ref) => Succeeds(objects', key, bytes, o.ref)
  BY <1>1, Outcomes, Writer DEF PartitionsInv
<1>5. key \in DOMAIN objects' /\ key \notin DOMAIN objects => PieceOK(objects', key)
  <2>1. key \in DOMAIN objects' /\ key \notin DOMAIN objects => objects'[key].bytes = bytes
    BY <1>4 DEF Stores
  <2>2. Covers(objects', cap[c].batch, p, bytes)
    BY <1>3, <1>4, PiecesStay DEF Covers, Stores
  <2>3. key[1] = "checkpoint" /\ key[2] = cap[c].batch /\ key[3] = p
    BY DEF P!CheckpointKey
  <2> HIDE DEF key, bytes
  <2> QED BY <2>1, <2>2, <2>3 DEF PieceOK
<1>6. CASE P!Failed(o.ref)
  <2> HIDE DEF key, bytes
  <2> QED BY <1>1, <1>2, <1>4, <1>5, <1>6, TaskFailed, PiecesTaskEnds DEF P!TaskFails
<1>7. CASE ~P!Failed(o.ref)
  <2> DEFINE t == [P!NoTask EXCEPT !.pc = "done", !.checkpoint = o.ref]
  <2>1. P!TaskEnds(c, p, t)
    BY <1>1, <1>7 DEF P!TaskDone
  <2>2. t = [field \in {"pc", "shards", "checkpoint"} |-> t[field]] /\ t.pc = "done" /\ t.checkpoint = o.ref
    BY DEF P!NoTask
  <2>3. Holds(objects', key, o.ref)
    BY <1>4, <1>7 DEF Succeeds, Holds
  <2> HIDE DEF t
  <2>4. TaskOK(cap[c], p, t, objects')
    BY <2>2, <2>3 DEF TaskOK
  <2> HIDE DEF key, bytes
  <2> QED BY <1>2, <1>4, <1>5, <2>1, <2>2, <2>4, PiecesTaskEnds
<1> QED BY <1>6, <1>7

\* What has not begun is given up after a failure.
LEMMA PiecesCancel ==
  ASSUME PartitionsInv, PiecesInv, NEW c \in P!Captures, P!CancelWaiting(c)
  PROVE  PiecesInv'
<1> DEFINE h == cap[c]
           ts == [p \in P!Datasets |-> IF task[c][p].pc = "waiting" THEN P!NoTask ELSE task[c][p]]
<1>1. /\ UNCHANGED <<objects, cap>> /\ h.pc = "pool"
      /\ task' = [task EXCEPT ![c] = ts] /\ cap' = [cap EXCEPT ![c] = h]
  BY PoolIs DEF P!CancelWaiting
<1>2. PICK q \in P!Datasets : ts[q].pc = "failed"
  BY DEF P!CancelWaiting
<1>3. PoolOK(h, task[c], objects')
  BY <1>1, PoolIs
<1>4. ts = [p \in P!Datasets |-> ts[p]]
  OBVIOUS
<1>5. ASSUME NEW p \in P!Datasets PROVE TaskOK(h, p, ts[p], objects')
  <2>1. TaskOK(h, p, P!NoTask, objects')
    BY DEF TaskOK, P!NoTask
  <2>2. TaskOK(h, p, task[c][p], objects')
    BY <1>3 DEF PoolOK
  <2> QED BY <2>1, <2>2
<1> HIDE DEF ts, h
<1>6. PoolOK(h, ts, objects')
  BY <1>1, <1>2, <1>3, <1>5 DEF PoolOK
<1>7. Stores(objects, objects', P!RawKey(1), <<>>)
      /\ (P!RawKey(1) \in DOMAIN objects' /\ P!RawKey(1) \notin DOMAIN objects => PieceOK(objects', P!RawKey(1)))
  BY <1>1, StoreStays
<1> QED BY <1>1, <1>4, <1>6, <1>7, PoolMoves

\* The prefixes of s, concatenated: the recursion of FlattenSeq.
Concats(f, s, n) == f = [i \in 1..n |-> IF i = 1 THEN s[i] ELSE f[i - 1] \o s[i]]

LEMMA ConcatsExist ==
  ASSUME NEW s, NEW N \in Nat
  PROVE  \E f : Concats(f, s, N)
<1> DEFINE bad == {n \in Nat : ~ \E f : Concats(f, s, n)}
<1>1. SUFFICES ASSUME bad # {} PROVE FALSE
  OBVIOUS
<1>2. PICK n \in bad : \A m \in bad : n <= m
  BY <1>1, Least
<1>3. CASE n = 0
  <2> DEFINE f == [i \in 1..0 |-> s[i]]
  <2>1. 1..0 = {}
    OBVIOUS
  <2>2. f = [i \in 1..0 |-> IF i = 1 THEN s[i] ELSE f[i - 1] \o s[i]]
    BY <2>1
  <2> QED BY <1>2, <1>3, <2>2 DEF Concats
<1>4. CASE n # 0
  <2>1. n - 1 \in Nat /\ n - 1 \notin bad /\ n \in Nat
    BY <1>2, <1>4
  <2>2. PICK f : Concats(f, s, n - 1)
    BY <2>1
  <2> DEFINE last == IF n = 1 THEN s[n] ELSE f[n - 1] \o s[n]
             g == [i \in 1..n |-> IF i = n THEN last ELSE f[i]]
  <2>3. \A i \in 1..(n - 1) : f[i] = IF i = 1 THEN s[i] ELSE f[i - 1] \o s[i]
    BY <2>1, <2>2 DEF Concats
  <2>4. g[n] = last /\ (n # 1 => g[n - 1] = f[n - 1])
    BY <2>1, <1>4
  <2>5. g[n] = IF n = 1 THEN s[n] ELSE g[n - 1] \o s[n]
    BY <2>4
  <2> HIDE DEF last
  <2>6. \A i \in 1..n : g[i] = IF i = 1 THEN s[i] ELSE g[i - 1] \o s[i]
    <3> SUFFICES ASSUME NEW i \in 1..n
                 PROVE  g[i] = IF i = 1 THEN s[i] ELSE g[i - 1] \o s[i]
      OBVIOUS
    <3>1. CASE i = n
      BY <3>1, <2>5
    <3>2. CASE i # n
      <4>1. i \in 1..(n - 1) /\ g[i] = f[i] /\ (i # 1 => g[i - 1] = f[i - 1])
        BY <3>2, <2>1
      <4> QED BY <4>1, <2>3
    <3> QED BY <3>1, <3>2
  <2>7. g = [i \in 1..n |-> IF i = 1 THEN s[i] ELSE g[i - 1] \o s[i]]
    BY <2>6, Zenon
  <2> QED BY <1>2, <2>7 DEF Concats
<1> QED BY <1>3, <1>4

\* Pieces of one length fill the places before the end of the last.
LEMMA Places ==
  ASSUME NEW S \in Nat, NEW k \in Nat \ {0}
  PROVE  /\ k * S \in Nat /\ (k - 1) * S \in Nat /\ k * S = (k - 1) * S + S
         /\ \A p \in 1..(k - 1) : (p - 1) * S \in Nat /\ (p - 1) * S + S <= (k - 1) * S
<1>1. k * S = (k - 1) * S + S /\ k * S \in Nat /\ (k - 1) * S \in Nat
  OBVIOUS
<1>2. ASSUME NEW p \in 1..(k - 1)
      PROVE  (p - 1) * S \in Nat /\ (p - 1) * S + S <= (k - 1) * S
  <2>1. p - 1 \in Nat /\ k - 1 - p \in Nat /\ k - 1 = (p - 1) + 1 + (k - 1 - p)
    OBVIOUS
  <2>2. (k - 1 - p) * S \in Nat /\ (p - 1) * S \in Nat
    BY <2>1
  <2>3. (k - 1) * S = (p - 1) * S + S + (k - 1 - p) * S
    OBVIOUS
  <2> QED BY <2>2, <2>3
<1> QED BY <1>1, <1>2

\* s is the pieces up to the k-th one after the other.
Flattened(pieces, k, S, s) ==
  /\ Len(s) = k * S
  /\ \A p \in 1..k, n \in 1..S : s[(p - 1) * S + n] = pieces[p][n]

LEMMA FlattensNext ==
  ASSUME NEW V, NEW pieces, NEW k \in Nat \ {0}, NEW S \in Nat, NEW s \in Seq(V), NEW t \in Seq(V),
         Flattened(pieces, k - 1, S, s), Len(t) = S, t = pieces[k]
  PROVE  Flattened(pieces, k, S, s \o t)
<1> DEFINE b == (k - 1) * S
<1>1. b \in Nat /\ k * S = b + S
  BY Places
<1>2. Len(s) = b
  BY DEF Flattened
<1>3. \A p \in 1..(k - 1) : (p - 1) * S \in Nat /\ (p - 1) * S + S <= b
  BY Places
<1>4. \A p \in 1..(k - 1), n \in 1..S : s[(p - 1) * S + n] = pieces[p][n]
  BY DEF Flattened
<1> HIDE DEF b
<1>5. Len(s \o t) = b + S
  BY <1>1, <1>2
<1>6. \A i \in 1..b : (s \o t)[i] = s[i]
  BY <1>1, <1>2
<1>7. \A n \in 1..S : (s \o t)[b + n] = t[n]
  BY <1>1, <1>2
<1>8. ASSUME NEW p \in 1..k, NEW n \in 1..S PROVE (s \o t)[(p - 1) * S + n] = pieces[p][n]
  <2>1. CASE p = k
    <3>1. (p - 1) * S = b
      BY <2>1 DEF b
    <3> QED BY <1>7, <2>1, <3>1
  <2>2. CASE p # k
    <3>1. p \in 1..(k - 1)
      BY <2>2
    <3>2. PICK a \in Nat : a = (p - 1) * S /\ a + S <= b
      BY <1>3, <3>1
    <3>3. a + n \in 1..b
      BY <1>1, <3>2
    <3> QED BY <1>4, <1>6, <3>1, <3>2, <3>3
  <2> QED BY <2>1, <2>2
<1> QED BY <1>1, <1>5, <1>8 DEF Flattened

LEMMA FlattensAll ==
  ASSUME NEW V, NEW N \in Nat, NEW S \in Nat, NEW pieces, pieces = [p \in 1..N |-> pieces[p]],
         \A p \in 1..N : pieces[p] \in Seq(V) /\ Len(pieces[p]) = S
  PROVE  Flattened(pieces, N, S, P!FlattenSeq(pieces))
<1>1. Len(pieces) = N
  OBVIOUS
<1>2. CASE N = 0
  <2>1. P!FlattenSeq(pieces) = pieces
    BY <1>1, <1>2 DEF P!FlattenSeq
  <2> QED BY <1>1, <1>2, <2>1 DEF Flattened
<1>3. CASE N # 0
  <2> DEFINE F == CHOOSE f : Concats(f, pieces, N)
             bad == {n \in 1..N : ~(F[n] \in Seq(V) /\ Flattened(pieces, n, S, F[n]))}
  <2>1. Concats(F, pieces, N)
    BY ConcatsExist
  <2>2. P!FlattenSeq(pieces) = F[N]
    BY <1>1, <1>3 DEF P!FlattenSeq, Concats
  <2>3. \A i \in 1..N : F[i] = IF i = 1 THEN pieces[i] ELSE F[i - 1] \o pieces[i]
    BY <2>1, Zenon DEF Concats
  <2> HIDE DEF F
  <2>4. bad = {}
    <3> SUFFICES ASSUME bad # {} PROVE FALSE
      OBVIOUS
    <3>1. bad \in SUBSET Nat
      OBVIOUS
    <3>2. PICK n \in bad : \A m \in bad : n <= m
      <4> HIDE DEF bad
      <4> QED BY <3>1, Least
    <3>3. n \in 1..N /\ n \in Nat \ {0} /\ pieces[n] \in Seq(V) /\ Len(pieces[n]) = S
      BY <3>2
    <3>4. CASE n = 1
      <4>1. F[n] = pieces[n]
        BY <2>3, <3>3, <3>4
      <4>2. 1 * S = S /\ \A p \in 1..1, i \in 1..S : (p - 1) * S + i = i
        OBVIOUS
      <4>3. Flattened(pieces, 1, S, pieces[1])
        BY <3>3, <3>4, <4>2 DEF Flattened
      <4> QED BY <3>2, <3>3, <3>4, <4>1, <4>3
    <3>5. CASE n # 1
      <4>1. n - 1 \in 1..N /\ n - 1 \notin bad
        <5>1. n - 1 \in Nat /\ n - 1 \in 1..N /\ ~(n <= n - 1)
          BY <3>3, <3>5
        <5> HIDE DEF bad
        <5> QED BY <3>2, <5>1
      <4>2. F[n - 1] \in Seq(V) /\ Flattened(pieces, n - 1, S, F[n - 1])
        BY <4>1
      <4>3. F[n] = F[n - 1] \o pieces[n]
        BY <2>3, <3>3, <3>5
      <4>4. Flattened(pieces, n, S, F[n - 1] \o pieces[n])
        BY <3>3, <4>2, FlattensNext
      <4>5. F[n - 1] \o pieces[n] \in Seq(V)
        BY <3>3, <4>2
      <4> QED BY <3>2, <4>3, <4>4, <4>5
    <3> QED BY <3>4, <3>5
  <2>5. N \in 1..N /\ N \notin bad
    BY <1>3, <2>4
  <2> QED BY <2>2, <2>5
<1> QED BY <1>2, <1>3

\* The record set of a capture whose tasks are done.
LEMMA RecordsFlattened ==
  ASSUME PartitionsInv, PiecesInv, NEW c \in P!Captures, cap[c].pc = "final"
  PROVE  IsWholeSet(objects, cap[c].batch, P!RecordObjects(c))
<1> DEFINE batch == cap[c].batch
           pieces == [p \in P!Datasets |-> P!Partition(c, p).bytes]
<1>1. PoolOK(cap[c], task[c], objects) /\ P!BatchKey(batch) \in DOMAIN objects
  BY PoolIs DEF PoolOK
<1>2. ASSUME NEW p \in P!Datasets PROVE Covers(objects, batch, p, pieces[p])
  <2>1. Holds(objects, P!CheckpointKey(batch, p), P!Partition(c, p))
    <3>1. CASE P!Failed(cap[c].completed[p])
      <4>1. task[c][p].pc = "done" /\ TaskOK(cap[c], p, task[c][p], objects)
        BY <1>1, <3>1 DEF PoolOK
      <4> QED BY <3>1, <4>1 DEF TaskOK, P!Partition
    <3>2. CASE ~P!Failed(cap[c].completed[p])
      BY <1>1, <3>2 DEF PoolOK, P!Partition
    <3> QED BY <3>1, <3>2
  <2> DEFINE key == P!CheckpointKey(batch, p)
  <2>2. key[1] = "checkpoint" /\ key[2] = batch /\ key[3] = p
    BY DEF P!CheckpointKey
  <2> HIDE DEF key, batch
  <2>3. PieceOK(objects, key) /\ objects[key] = P!Partition(c, p)
    BY <2>1 DEF key, Holds, PiecesInv
  <2> QED BY <2>2, <2>3 DEF PieceOK
<1>3. ASSUME NEW p \in P!Datasets, NEW n \in 1..Shards
      PROVE  /\ Holds(objects, P!ShardKey(batch, p, n), pieces[p][n])
             /\ pieces[p][n].bytes = P!ShardBytes(batch.bytes[1], p, n)
  <2> DEFINE key == P!ShardKey(batch, p, n)
  <2>1. Holds(objects, key, pieces[p][n])
    BY <1>2 DEF Covers
  <2>2. key[1] = "shard" /\ key[2] = batch /\ key[3] = p /\ key[4] = n
    BY DEF P!ShardKey
  <2> HIDE DEF key, batch, pieces
  <2>3. PieceOK(objects, key) /\ objects[key] = pieces[p][n]
    BY <2>1 DEF Holds, PiecesInv
  <2>4. pieces[p][n].bytes = P!ShardBytes(batch.bytes[1], p, n)
    BY <2>2, <2>3 DEF PieceOK
  <2> QED BY <2>1, <2>4 DEF key
<1>4. pieces = [p \in 1..Partitions |-> pieces[p]]
  BY DEF P!Datasets
<1>5. \A p \in 1..Partitions : pieces[p] \in Seq(ShardRefs) /\ Len(pieces[p]) = Shards
  BY <1>2 DEF P!Datasets, Covers
<1>6. P!RecordObjects(c) = P!FlattenSeq(pieces)
  BY DEF P!RecordObjects
<1> HIDE DEF pieces, batch
<1>7. Flattened(pieces, Partitions, Shards, P!FlattenSeq(pieces))
  BY <1>4, <1>5, CaptureConstants, FlattensAll
<1>8. ASSUME NEW p \in P!Datasets, NEW n \in 1..Shards
      PROVE  P!RecordObjects(c)[(p - 1) * Shards + n] = pieces[p][n]
  BY <1>6, <1>7 DEF Flattened, P!Datasets
<1>9. Len(P!RecordObjects(c)) = Partitions * Shards
  BY <1>6, <1>7 DEF Flattened
<1> QED BY <1>1, <1>3, <1>8, <1>9 DEF IsWholeSet, batch

LEMMA PiecesFinal ==
  ASSUME PartitionsInv, PiecesInv, NEW c \in P!Captures, P!Finalize(c)
  PROVE  PiecesInv'
<1> DEFINE key == P!SetKey(cap[c].batch)
           bytes == P!RecordObjects(c)
<1>1. PICK o \in P!PublishOutcomes(objects, key, bytes, c) :
        /\ objects' = o.objects
        /\ IF P!Failed(o.ref) THEN P!Fails(c) ELSE P!Ends(c, "done", o.ref)
  BY DEF P!Finalize
<1>2. Stores(objects, objects', key, bytes)
  BY <1>1, Outcomes, Writer DEF PartitionsInv
<1>3. key \in DOMAIN objects' /\ key \notin DOMAIN objects => PieceOK(objects', key)
  <2>1. key \in DOMAIN objects' /\ key \notin DOMAIN objects => objects'[key].bytes = bytes
    BY <1>2 DEF Stores
  <2>2. IsWholeSet(objects, cap[c].batch, bytes)
    BY RecordsFlattened DEF P!Finalize
  <2>3. Keeps(objects, objects')
    BY <1>2 DEF Stores
  <2> HIDE DEF bytes
  <2>4. IsWholeSet(objects', cap[c].batch, bytes)
    BY <2>2, <2>3, PiecesStay DEF IsWholeSet, Keeps
  <2>5. key[1] = "record set" /\ key[2] = cap[c].batch
    BY DEF P!SetKey
  <2> HIDE DEF key
  <2> QED BY <2>1, <2>4, <2>5 DEF PieceOK
<1> HIDE DEF key, bytes
<1> QED BY <1>1, <1>2, <1>3, PoolEnds DEF P!Fails

LEMMA PiecesInit == P!Init => PiecesInv
<1> SUFFICES ASSUME P!Init PROVE PiecesInv
  OBVIOUS
<1>1. DOMAIN objects = {}
  BY DEF P!Init
<1>2. task = [c \in P!Captures |-> [p \in P!Datasets |-> task[c][p]]]
  BY DEF P!Init
<1>3. ASSUME NEW c \in P!Captures PROVE PoolOK(cap[c], task[c], objects)
  <2>1. cap[c] = P!IdleCapture /\ \A p \in P!Datasets : task[c][p] = P!NoTask
    BY DEF P!Init
  <2>2. P!IdleCapture.completed = [p \in P!Datasets |-> P!NoRef] /\ P!IdleCapture.pc = "idle"
    BY DEF P!IdleCapture
  <2>3. P!Failed(P!NoRef)
    BY DEF P!Failed
  <2>4. \A p \in P!Datasets : TaskOK(cap[c], p, task[c][p], objects)
    BY <2>1 DEF TaskOK, P!NoTask
  <2>5. P!NoTask.pc = "none"
    BY DEF P!NoTask
  <2> QED BY <2>1, <2>2, <2>3, <2>4, <2>5 DEF PoolOK
<1> QED BY <1>1, <1>2, <1>3 DEF PiecesInv

LEMMA PiecesNext == PartitionsInv /\ PiecesInv /\ [P!Next]_imdb => PiecesInv'
<1> SUFFICES ASSUME PartitionsInv, PiecesInv, [P!Next]_imdb PROVE PiecesInv'
  OBVIOUS
<1>1. CASE UNCHANGED imdb
  BY <1>1 DEF imdb, PiecesInv
<1>2. ASSUME NEW c \in P!Captures, NEW e \in 1..c, P!PrepareBatch(c, e) PROVE PiecesInv'
  <2>1. e \in Nat
    BY Writer
  <2> QED BY <1>2, <2>1, PiecesFirst
<1>3. ASSUME NEW c \in P!Captures, P!Work(c) \/ P!Dies(c) PROVE PiecesInv'
  <2>1. ASSUME NEW p \in P!Datasets, P!StartTask(c, p) \/ P!PublishShard(c, p) \/ P!PublishCheckpoint(c, p)
        PROVE  PiecesInv'
    BY <2>1, PiecesStart, PiecesShard, PiecesCheckpoint
  <2>2. CASE P!PublishBatch(c) \/ P!LoadPartition(c) \/ P!CancelWaiting(c) \/ P!Finalize(c)
    BY <2>2, PiecesBatch, PiecesLoad, PiecesCancel, PiecesFinal
  <2>3. CASE P!Refused(c) \/ P!Join(c) \/ P!Dies(c)
    BY <2>3, PiecesQuiet
  <2> QED BY <1>3, <2>1, <2>2, <2>3 DEF P!Work
<1> QED BY <1>1, <1>2, <1>3 DEF P!Next

LEMMA PiecesCover == PiecesInv => P!CheckpointsCover
<1> SUFFICES ASSUME PiecesInv, NEW key \in DOMAIN objects, key[1] = "checkpoint"
             PROVE  /\ Len(objects[key].bytes) = Shards
                    /\ \A n \in 1..Shards : P!StoredAt(P!ShardKey(key[2], key[3], n), objects[key].bytes[n])
  BY DEF P!CheckpointsCover
<1>1. Covers(objects, key[2], key[3], objects[key].bytes)
  BY DEF PiecesInv, PieceOK
<1> QED BY <1>1 DEF Covers, Holds, P!StoredAt

LEMMA PiecesWhole == PiecesInv => P!RecordSetIsWhole
<1> SUFFICES ASSUME PiecesInv, NEW key \in DOMAIN objects, key[1] = "record set"
             PROVE  /\ P!BatchKey(key[2]) \in DOMAIN objects
                    /\ Len(objects[key].bytes) = Partitions * Shards
                    /\ \A p \in P!Datasets, n \in 1..Shards :
                         LET ref == objects[key].bytes[(p - 1) * Shards + n]
                         IN  /\ P!StoredAt(P!ShardKey(key[2], p, n), ref)
                             /\ ref.bytes = P!ShardBytes(key[2].bytes[1], p, n)
  BY DEF P!RecordSetIsWhole
<1>1. IsWholeSet(objects, key[2], objects[key].bytes)
  BY DEF PiecesInv, PieceOK
<1> QED BY <1>1 DEF IsWholeSet, Holds, P!StoredAt

\* ---------------------------------------- the staging marker of a backfill

\* Only a run that has written the staging whole is about to publish its marker.
MarkedInv ==
  /\ staged = [there |-> staged.there, copies |-> staged.copies, torn |-> staged.torn]
  /\ staged.copies \in Nat
  /\ \A r \in 1..Runs : run[r].pc = "marker" => staged.copies > 0
  /\ B!MarkerIsHonest

\* A step of one run beside the staging.
LEMMA MarkedMoves ==
  ASSUME BackfillInv, MarkedInv, NEW r \in 1..Runs, UNCHANGED staged,
         NEW key, NEW bytes, Stores(things, things', key, bytes),
         key = B!MarkerKey => run[r].pc = "marker",
         NEW state, B!Becomes(r, state), state.pc # "marker"
  PROVE  MarkedInv'
<1>1. ASSUME NEW q \in 1..Runs, run'[q].pc = "marker" PROVE staged.copies > 0
  <2>1. q # r
    BY <1>1, ShapeOf DEF B!Becomes
  <2>2. run'[q] = run[q]
    BY <2>1, ShapeOf DEF B!Becomes
  <2> QED BY <1>1, <2>2 DEF MarkedInv
<1>2. B!MarkerKey \in DOMAIN things' => staged.copies > 0
  BY DEF MarkedInv, B!MarkerIsHonest, Stores
<1>3. B!MarkerIsHonest'
  BY <1>2 DEF B!MarkerIsHonest, B!MarkerKey
<1> QED BY <1>1, <1>3 DEF MarkedInv

LEMMA MarkedFails == [B!IdleRun EXCEPT !.pc = "failed"].pc # "marker"
  BY DEF B!IdleRun

LEMMA MarkedQuiet ==
  ASSUME BackfillInv, MarkedInv, NEW r \in 1..Runs, UNCHANGED <<staged, things>>,
         NEW state, state.pc # "marker", B!Leaves(r) \/ B!Becomes(r, state)
  PROVE  MarkedInv'
<1>1. Stores(things, things', <<"none">>, <<>>)
  BY KeepsAll DEF BackfillInv, Stores
<1>2. <<"none">> # B!MarkerKey
  BY DEF B!MarkerKey
<1> QED BY <1>1, <1>2, MarkedFails, MarkedMoves DEF B!Leaves

LEMMA MarkedPublishes ==
  ASSUME BackfillInv, MarkedInv, NEW r \in 1..Runs, UNCHANGED staged,
         NEW key, NEW bytes, key = B!MarkerKey => run[r].pc = "marker",
         NEW o \in B!PublishOutcomes(things, key, bytes, 1), things' = o.objects,
         NEW state, state.pc # "marker", B!Leaves(r) \/ B!Becomes(r, state)
  PROVE  MarkedInv'
<1>1. Stores(things, things', key, bytes)
  BY SameOutcomes, Outcomes DEF BackfillInv
<1> QED BY <1>1, MarkedFails, MarkedMoves DEF B!Leaves

\* The steps before anything is published.
LEMMA MarkedFirst ==
  ASSUME BackfillInv, MarkedInv, NEW r \in 1..Runs,
         \/ B!StartRun(r) \/ B!RunDies(r) \/ B!VerifyDump(r) \/ B!LoadCommit(r) \/ B!ReadMarker(r)
         \/ B!CheckTarget(r) \/ B!BuildBackfill(r)
  PROVE  MarkedInv'
<1>1. UNCHANGED <<staged, things>>
  BY DEF B!StartRun, B!RunDies, B!VerifyDump, B!LoadCommit, B!ReadMarker, B!CheckTarget, B!BuildBackfill
<1>2. ASSUME NEW pc, pc # "marker", B!Becomes(r, [run[r] EXCEPT !.pc = pc]) PROVE MarkedInv'
  <2>1. [run[r] EXCEPT !.pc = pc].pc # "marker"
    BY <1>2, ShapeOf DEF RunShape
  <2> QED BY <1>1, <1>2, <2>1, MarkedQuiet
<1>3. ASSUME NEW result, B!Returns(r, result) PROVE MarkedInv'
  <2> DEFINE state == [B!IdleRun EXCEPT !.pc = "done", !.mode = run[r].mode, !.image = run[r].image,
                                        !.result = <<result>>]
  <2>1. state.pc # "marker" /\ B!Becomes(r, state)
    BY <1>3 DEF B!Returns, B!IdleRun
  <2> HIDE DEF state
  <2> QED BY <1>1, <2>1, MarkedQuiet
<1>4. CASE B!StartRun(r)
  <2>1. PICK mode, image :
          B!Becomes(r, [B!IdleRun EXCEPT !.pc = "dump", !.mode = mode, !.image = image])
    BY <1>4 DEF B!StartRun
  <2>2. [B!IdleRun EXCEPT !.pc = "dump", !.mode = mode, !.image = image].pc # "marker"
    BY DEF B!IdleRun
  <2> QED BY <1>1, <2>1, <2>2, MarkedQuiet
<1>5. CASE B!Leaves(r)
  BY <1>1, <1>5, MarkedFails, MarkedQuiet DEF B!Leaves
<1>6. CASE B!VerifyDump(r) /\ ~B!Leaves(r)
  <2>1. PICK pc \in {"existing", "normalize"} : B!Becomes(r, [run[r] EXCEPT !.pc = pc])
    BY <1>6 DEF B!VerifyDump
  <2> QED BY <1>2, <2>1
<1>7. CASE B!LoadCommit(r)
  BY <1>2, <1>3, <1>7 DEF B!LoadCommit
<1>8. CASE (B!ReadMarker(r) \/ B!CheckTarget(r)) /\ ~B!Leaves(r)
  <2>1. PICK pc \in {"select", "target", "write"} : B!Becomes(r, [run[r] EXCEPT !.pc = pc])
    BY <1>8 DEF B!ReadMarker, B!CheckTarget
  <2> QED BY <1>2, <2>1
<1>9. CASE B!BuildBackfill(r) /\ ~B!Leaves(r)
  <2>1. PICK build \in dump.builds :
          B!Returns(r, build) \/ B!Becomes(r, [run[r] EXCEPT !.pc = "shards", !.build = build])
    BY <1>9 DEF B!BuildBackfill
  <2>2. [run[r] EXCEPT !.pc = "shards", !.build = build].pc # "marker"
    BY ShapeOf DEF RunShape
  <2>3. CASE B!Returns(r, build)
    BY <1>3, <2>3
  <2>4. CASE B!Becomes(r, [run[r] EXCEPT !.pc = "shards", !.build = build])
    BY <1>1, <2>2, <2>4, MarkedQuiet
  <2> QED BY <2>1, <2>3, <2>4
<1> QED BY <1>4, <1>5, <1>6, <1>7, <1>8, <1>9 DEF B!RunDies

\* The write leaves a whole copy, or parts and no run to mark them.
LEMMA MarkedWrite == ASSUME BackfillInv, MarkedInv, NEW r \in 1..Runs, B!WriteStaging(r) PROVE MarkedInv'
<1>1. UNCHANGED things /\ run = [q \in 1..Runs |-> run[q]]
  BY ShapeOf DEF B!WriteStaging
<1>2. CASE /\ staged' = [staged EXCEPT !.there = TRUE, !.copies = @ + 1]
           /\ B!Becomes(r, [run[r] EXCEPT !.pc = "marker"])
  <2>1. /\ staged' = [there |-> staged'.there, copies |-> staged'.copies, torn |-> staged'.torn]
        /\ staged'.copies = staged.copies + 1
    BY <1>2 DEF MarkedInv
  <2>2. staged'.copies \in Nat /\ staged'.copies > 0
    BY <2>1 DEF MarkedInv
  <2> QED BY <2>1, <2>2 DEF MarkedInv, B!MarkerIsHonest
<1>3. CASE staged' = [staged EXCEPT !.there = TRUE, !.torn = TRUE] /\ B!Leaves(r)
  <2>1. /\ staged' = [there |-> staged'.there, copies |-> staged'.copies, torn |-> staged'.torn]
        /\ staged'.copies = staged.copies
    BY <1>3 DEF MarkedInv
  <2>2. \A q \in 1..Runs : run'[q].pc = "marker" => run[q].pc = "marker"
    BY <1>1, <1>3, MarkedFails DEF B!Leaves, B!Becomes
  <2> QED BY <1>1, <2>1, <2>2 DEF MarkedInv, B!MarkerIsHonest, B!MarkerKey
<1> QED BY <1>2, <1>3 DEF B!WriteStaging

\* The other steps publish, under keys of their image, or skip what has no records.
LEMMA MarkedLoops ==
  ASSUME BackfillInv, MarkedInv, NEW r \in 1..Runs,
         B!PublishShard(r) \/ B!SkipPartition(r) \/ B!PublishPartition(r) \/ B!SkipEpoch(r) \/ B!PublishEpoch(r)
  PROVE  MarkedInv'
<1>1. CASE B!PublishShard(r)
  <2> DEFINE shard == B!Due(r)[Len(run[r].shards) + 1]
             lines == B!Envelopes(run[r].build, shard)
             key == <<run[r].image, "shard", B!EpochOf(run[r].gp), run[r].gp, shard, lines>>
             Next(object) == [run[r] EXCEPT !.shards = Append(@, B!RecordShard(shard, object))]
  <2>1. CASE B!Leaves(r) /\ UNCHANGED <<staged, things>>
    BY <2>1, MarkedFails, MarkedQuiet DEF B!Leaves
  <2>2. CASE ~(B!Leaves(r) /\ UNCHANGED <<staged, things>>)
    <3>1. PICK o \in B!PublishOutcomes(things, key, lines, 1) :
            /\ things' = o.objects /\ UNCHANGED staged
            /\ B!Leaves(r) \/ B!Becomes(r, Next(B!Object(key, o.ref)))
      BY <1>1, <2>2 DEF B!PublishShard, B!Publishing
    <3>2. key # B!MarkerKey
      BY DEF B!MarkerKey
    <3>3. Next(B!Object(key, o.ref)).pc # "marker"
      BY <1>1, ShapeOf DEF RunShape, B!PublishShard, B!At
    <3> HIDE DEF key, Next, lines
    <3> QED BY <3>1, <3>2, <3>3, MarkedPublishes
  <2> QED BY <2>1, <2>2
<1>2. CASE B!SkipPartition(r) \/ B!SkipEpoch(r)
  <2>1. PICK state \in {B!Advanced(run[r]), B!AfterEpoch(run[r])} :
          B!Becomes(r, state) /\ UNCHANGED <<staged, things>>
    BY <1>2 DEF B!SkipPartition, B!SkipEpoch
  <2>2. state.pc # "marker"
    BY ShapeOf, AdvancedIs, AfterEpochIs
  <2> QED BY <2>1, <2>2, MarkedQuiet
<1>3. CASE B!PublishPartition(r)
  <2> DEFINE key == <<run[r].image, "partition", run[r].gp>>
             bytes == <<B!PartitionManifest(run[r].gp, run[r].shards)>>
             Added(object) == [run[r] EXCEPT !.parts = Append(@, B!Entry(object))]
  <2>1. PICK o \in B!PublishOutcomes(things, key, bytes, 1) :
          /\ things' = o.objects /\ UNCHANGED staged
          /\ B!Leaves(r) \/ B!Becomes(r, B!Advanced(Added(B!Object(key, o.ref))))
    BY <1>3 DEF B!PublishPartition, B!Publishing
  <2>2. key # B!MarkerKey
    BY DEF B!MarkerKey
  <2>3. RunShape(Added(B!Object(key, o.ref)))
    BY ShapeOf DEF RunShape
  <2> HIDE DEF key, bytes, Added
  <2>4. B!Advanced(Added(B!Object(key, o.ref))).pc # "marker"
    BY <2>3, AdvancedIs
  <2> QED BY <2>1, <2>2, <2>4, MarkedPublishes
<1>4. CASE B!PublishEpoch(r)
  <2> DEFINE epoch == B!EpochOf(run[r].gp - 1)
             key == <<run[r].image, "epoch", epoch>>
             bytes == <<B!EpochManifest(epoch, run[r].parts)>>
             Added(object) == [run[r] EXCEPT !.epochs = Append(@, B!Entry(object))]
  <2>1. PICK o \in B!PublishOutcomes(things, key, bytes, 1) :
          /\ things' = o.objects /\ UNCHANGED staged
          /\ B!Leaves(r) \/ B!Becomes(r, B!AfterEpoch(Added(B!Object(key, o.ref))))
    BY <1>4 DEF B!PublishEpoch, B!Publishing
  <2>2. key # B!MarkerKey
    BY DEF B!MarkerKey
  <2>3. RunShape(Added(B!Object(key, o.ref)))
    BY ShapeOf DEF RunShape
  <2> HIDE DEF key, bytes, Added
  <2>4. B!AfterEpoch(Added(B!Object(key, o.ref))).pc # "marker"
    BY <2>3, AfterEpochIs
  <2> QED BY <2>1, <2>2, <2>4, MarkedPublishes
<1> QED BY <1>1, <1>2, <1>3, <1>4

LEMMA MarkedEnds ==
  ASSUME BackfillInv, MarkedInv, NEW r \in 1..Runs,
         \/ B!PublishMarker(r) \/ B!PublishBatch(r) \/ B!PublishSet(r) \/ B!PublishMark(r)
         \/ B!PublishReceipt(r) \/ B!PublishCommit(r)
  PROVE  MarkedInv'
<1>1. PICK key, bytes : \E o \in B!PublishOutcomes(things, key, bytes, 1) :
        /\ things' = o.objects /\ UNCHANGED staged /\ (key = B!MarkerKey => run[r].pc = "marker")
        /\ B!Leaves(r) \/ \E state : B!Becomes(r, state) /\ state.pc # "marker"
  <2>1. CASE B!PublishMarker(r)
    <3>1. \A object : [run[r] EXCEPT !.pc = "select"].pc # "marker"
      BY ShapeOf DEF RunShape
    <3> QED BY <2>1, <3>1 DEF B!PublishMarker, B!Publishing, B!At
  <2>2. CASE B!PublishBatch(r)
    <3>1. <<run[r].image, "batch">> # B!MarkerKey
      BY DEF B!MarkerKey
    <3>2. \A object : [run[r] EXCEPT !.pc = "set", !.refs = <<object>>].pc # "marker"
      BY ShapeOf DEF RunShape
    <3> QED BY <2>2, <3>1, <3>2 DEF B!PublishBatch, B!Publishing
  <2>3. CASE B!PublishSet(r)
    <3>1. <<run[r].image, "set">> # B!MarkerKey
      BY DEF B!MarkerKey
    <3>2. \A refs : [run[r] EXCEPT !.pc = "watermark", !.refs = refs].pc # "marker"
      BY ShapeOf DEF RunShape
    <3> QED BY <2>3, <3>1, <3>2 DEF B!PublishSet, B!Publishing
  <2>4. CASE B!PublishMark(r)
    <3>1. <<run[r].image, "watermark">> # B!MarkerKey
      BY DEF B!MarkerKey
    <3>2. \A refs : [run[r] EXCEPT !.pc = "receipt", !.refs = refs].pc # "marker"
      BY ShapeOf DEF RunShape
    <3> QED BY <2>4, <3>1, <3>2 DEF B!PublishMark, B!Publishing
  <2>5. CASE B!PublishReceipt(r)
    <3>1. <<run[r].image, "receipt">> # B!MarkerKey
      BY DEF B!MarkerKey
    <3>2. \A refs : [run[r] EXCEPT !.pc = "commit", !.refs = refs].pc # "marker"
      BY ShapeOf DEF RunShape
    <3> QED BY <2>5, <3>1, <3>2 DEF B!PublishReceipt, B!Publishing
  <2>6. CASE B!PublishCommit(r)
    <3>1. B!CommitKey(run[r].image) # B!MarkerKey
      BY DEF B!MarkerKey, B!CommitKey
    <3>2. \A mode, image, result :
            [B!IdleRun EXCEPT !.pc = "done", !.mode = mode, !.image = image, !.result = result].pc # "marker"
      BY DEF B!IdleRun
    <3> QED BY <2>6, <3>1, <3>2 DEF B!PublishCommit, B!Publishing
  <2> QED BY <2>1, <2>2, <2>3, <2>4, <2>5, <2>6
<1>2. CASE B!Leaves(r)
  BY <1>1, <1>2, MarkedFails, MarkedPublishes DEF B!Leaves
<1> QED BY <1>1, <1>2, MarkedPublishes

LEMMA MarkedInit == B!BackfillInit => MarkedInv
<1> SUFFICES ASSUME B!BackfillInit PROVE MarkedInv
  OBVIOUS
<1>1. \A r \in 1..Runs : run[r].pc # "marker"
  BY DEF B!BackfillInit, B!IdleRun
<1>2. DOMAIN things = {}
  BY DEF B!BackfillInit
<1> QED BY <1>1, <1>2 DEF B!BackfillInit, MarkedInv, B!MarkerIsHonest

LEMMA MarkedNext == BackfillInv /\ MarkedInv /\ [B!BackfillNext]_backfill => MarkedInv'
<1> SUFFICES ASSUME BackfillInv, MarkedInv, [B!BackfillNext]_backfill PROVE MarkedInv'
  OBVIOUS
<1>1. CASE UNCHANGED backfill
  BY <1>1 DEF backfill, MarkedInv, B!MarkerIsHonest, B!MarkerKey
<1>2. ASSUME NEW r \in 1..Runs, B!StartRun(r) \/ B!RunDies(r) \/ B!Works(r) PROVE MarkedInv'
  BY <1>2, MarkedFirst, MarkedWrite, MarkedLoops, MarkedEnds DEF B!Works
<1> QED BY <1>1, <1>2 DEF B!BackfillNext

\* ------------------------------------------- what a receipt of Europeana commits

ShardObjects == [bytes : Seq(Envelopes), version : Nat]
Puts(o, key, bytes) == key \in DOMAIN o /\ o[key].bytes = bytes

\* The records are those of the pages, each once.
Lists(l, raw, records) ==
  /\ \A m, n \in 1..Len(records) : records[m].id = records[n].id => m = n
  /\ \A m \in 1..Len(records) : \E n \in 1..Len(raw) :
       /\ records[m].raw[1] = Page(raw, n)
       /\ \E i \in 1..Len(l.records[Page(raw, n)]) : l.records[Page(raw, n)][i].id = records[m].id
  /\ \A n \in 1..Len(raw) : \A i \in 1..Len(l.records[Page(raw, n)]) : \E m \in 1..Len(records) :
       records[m].raw[1] = Page(raw, n) /\ records[m].id = l.records[Page(raw, n)][i].id

\* Piece n of a sequence: it begins at `from` and fills a shard, or ends the sequence.
Piece(s, from, piece) ==
  /\ piece \in Seq(Envelopes)
  /\ from < Len(s)
  /\ Len(piece) = IF from + ShardRecords <= Len(s) THEN ShardRecords ELSE Len(s) - from
  /\ \A i \in 1..Len(piece) : piece[i] = s[from + i]

\* The shards of a batch are the first pieces of the records.
CutInto(o, batch, records, shards) ==
  /\ shards \in Seq(ShardObjects)
  /\ \A n \in 1..Len(shards) :
       /\ Puts(o, E!ShardKey(batch, n), shards[n].bytes)
       /\ Piece(records, (n - 1) * ShardRecords, shards[n].bytes)

\* A record set: the shards are all of the records, and these all of the pages.
SetOK(l, o, batch, set) ==
  \E records \in Seq(Envelopes) :
    /\ batch.raw \in Seq(RawRefs) /\ Lists(l, batch.raw, records) /\ batch.records = Len(records)
    /\ CutInto(o, batch, records, set.objects)
    /\ Len(records) <= Len(set.objects) * ShardRecords

RawStored(o, capture, raw) ==
  \A n \in 1..Len(raw) : Puts(o, <<"page", capture, n, raw[n].bytes>>, raw[n].bytes)

\* Committed(c), of the capture at hand.
Mark(h) ==
  E!Watermark(h.set, h.token,
    IF h.records = <<>> THEN E!Last(h.raw).bytes[2]
    ELSE E!Max({record.datestamp : record \in E!ToSet(h.records)}))

\* What a capture has stored, by the place where it is.
BackedCapture(h, l, o) ==
  /\ h.pc \in {"fetch", "batch", "records", "watermark", "receipt"} =>
       RawStored(o, <<h.at, h.set, h.from>>, h.raw) /\ Lists(l, h.raw, h.records)
  /\ h.pc = "batch" => h.shards = <<>>
  /\ h.pc = "fetch" => h.shards = <<>>
  /\ h.pc \in {"records", "watermark", "receipt"} =>
       LET b == h.batch.bytes[1]
       IN  /\ h.batch.bytes = <<b>> /\ Puts(o, E!BatchKey(b), <<b>>)
           /\ b.capture = <<h.at, h.set, h.from>>
           /\ h.pc = "records" => CutInto(o, b, h.records, h.shards)
           /\ h.pc # "records" => E!RecordSetKey(b) \in DOMAIN o
  /\ h.pc = "receipt" => Puts(o, E!WatermarkKey(Mark(h)), <<Mark(h)>>)

BackedReceipt(r, o) ==
  LET b == r.batch.bytes[1]
  IN  /\ Puts(o, E!BatchKey(b), <<b>>) /\ Puts(o, E!WatermarkKey(r.watermark), <<r.watermark>>)
      /\ RawStored(o, b.capture, b.raw) /\ E!RecordSetKey(b) \in DOMAIN o
      /\ r.status = IF b.records = 0 THEN "EMPTY" ELSE "COMMITTED"

BackedInv ==
  /\ \A c \in E!Captures : BackedCapture(harvest[c], listing, oaiObjects)
  /\ \A key \in DOMAIN oaiObjects : key[1] = "record set" =>
       SetOK(listing, oaiObjects, key[2], oaiObjects[key].bytes[1])
  /\ \A key \in DOMAIN oaiObjects : key[1] = "receipt" =>
       BackedReceipt(oaiObjects[key].bytes[1], oaiObjects)

LEMMA BackedStays ==
  ASSUME NEW o, NEW after, Keeps(o, after)
  PROVE  /\ \A key, bytes : Puts(o, key, bytes) => Puts(after, key, bytes)
         /\ \A l, batch, set : SetOK(l, o, batch, set) => SetOK(l, after, batch, set)
         /\ \A h, l : BackedCapture(h, l, o) => BackedCapture(h, l, after)
         /\ \A r : BackedReceipt(r, o) => BackedReceipt(r, after)
<1>1. \A key, bytes : Puts(o, key, bytes) => Puts(after, key, bytes)
  BY DEF Puts, Keeps
<1>2. \A batch, records, shards : CutInto(o, batch, records, shards) => CutInto(after, batch, records, shards)
  BY <1>1 DEF CutInto
<1>3. \A capture, raw : RawStored(o, capture, raw) => RawStored(after, capture, raw)
  BY <1>1 DEF RawStored
<1>4. \A key : key \in DOMAIN o => key \in DOMAIN after
  BY DEF Keeps
<1>5. ASSUME NEW l, NEW batch, NEW set, SetOK(l, o, batch, set) PROVE SetOK(l, after, batch, set)
  BY <1>2, <1>5 DEF SetOK
<1>6. ASSUME NEW h, NEW l, BackedCapture(h, l, o) PROVE BackedCapture(h, l, after)
  BY <1>1, <1>2, <1>3, <1>4, <1>6 DEF BackedCapture
<1>7. ASSUME NEW r, BackedReceipt(r, o) PROVE BackedReceipt(r, after)
  BY <1>1, <1>3, <1>4, <1>7 DEF BackedReceipt
<1> QED BY <1>1, <1>5, <1>6, <1>7

\* A capture moves and may store an object.
LEMMA BackedMoves ==
  ASSUME EuropeanaInv, BackedInv, NEW c \in E!Captures, NEW h, harvest' = [harvest EXCEPT ![c] = h],
         UNCHANGED listing, NEW key, NEW bytes, Stores(oaiObjects, oaiObjects', key, bytes),
         key[1] = "record set" => SetOK(listing, oaiObjects', key[2], bytes[1]),
         key[1] = "receipt" => BackedReceipt(bytes[1], oaiObjects'),
         BackedCapture(h, listing, oaiObjects')
  PROVE  BackedInv'
<1>1. Keeps(oaiObjects, oaiObjects')
  BY DEF Stores
<1>2. ASSUME NEW d \in E!Captures PROVE BackedCapture(harvest'[d], listing, oaiObjects')
  <2>1. CASE d = c
    BY <2>1 DEF EuropeanaInv
  <2>2. CASE d # c
    <3>1. harvest'[d] = harvest[d] /\ BackedCapture(harvest[d], listing, oaiObjects)
      BY <2>2 DEF EuropeanaInv, BackedInv
    <3> QED BY <1>1, <3>1, BackedStays
  <2> QED BY <2>1, <2>2
<1>3. ASSUME NEW k \in DOMAIN oaiObjects', k[1] = "record set"
      PROVE  SetOK(listing, oaiObjects', k[2], oaiObjects'[k].bytes[1])
  <2>1. CASE k \in DOMAIN oaiObjects
    <3>1. oaiObjects'[k] = oaiObjects[k] /\ SetOK(listing, oaiObjects, k[2], oaiObjects[k].bytes[1])
      BY <1>1, <1>3, <2>1 DEF BackedInv, Keeps
    <3>2. \A l, batch, set : SetOK(l, oaiObjects, batch, set) => SetOK(l, oaiObjects', batch, set)
      BY <1>1, BackedStays
    <3> QED BY <3>1, <3>2
  <2>2. CASE k = key /\ oaiObjects'[k].bytes = bytes
    BY <1>3, <2>2
  <2> QED BY <2>1, <2>2 DEF Stores
<1>4. ASSUME NEW k \in DOMAIN oaiObjects', k[1] = "receipt"
      PROVE  BackedReceipt(oaiObjects'[k].bytes[1], oaiObjects')
  <2>1. CASE k \in DOMAIN oaiObjects
    <3>1. oaiObjects'[k] = oaiObjects[k] /\ BackedReceipt(oaiObjects[k].bytes[1], oaiObjects)
      BY <1>1, <1>4, <2>1 DEF BackedInv, Keeps
    <3> QED BY <1>1, <3>1, BackedStays
  <2>2. CASE k = key /\ oaiObjects'[k].bytes = bytes
    BY <1>4, <2>2
  <2> QED BY <2>1, <2>2 DEF Stores
<1> QED BY <1>2, <1>3, <1>4 DEF BackedInv

LEMMA BackedEnds ==
  ASSUME NEW l, NEW o, NEW pc \in {"idle", "done", "failed"}
  PROVE  BackedCapture([E!IdleCapture EXCEPT !.pc = pc], l, o)
BY DEF BackedCapture, E!IdleCapture

\* FetchFails, Dies
LEMMA BackedFails ==
  ASSUME EuropeanaInv, BackedInv, NEW c \in E!Captures, UNCHANGED <<listing, oaiObjects>>,
         harvest' = [harvest EXCEPT ![c] = [E!IdleCapture EXCEPT !.pc = "failed"]]
  PROVE  BackedInv'
<1>1. Stores(oaiObjects, oaiObjects', <<"page">>, <<>>)
  BY NothingStored
<1> QED BY <1>1, BackedEnds, BackedMoves

\* A capture publishes what is no record set and no receipt, and goes on or fails.
LEMMA BackedPublishes ==
  ASSUME EuropeanaInv, BackedInv, NEW c \in E!Captures, NEW key, NEW bytes, UNCHANGED listing,
         key[1] = "record set" => SetOK(listing, oaiObjects, key[2], bytes[1]),
         key[1] = "receipt" => BackedReceipt(bytes[1], oaiObjects),
         NEW o \in E!PublishOutcomes(oaiObjects, key, bytes, c), oaiObjects' = o.objects,
         NEW g, E!Failed(o.ref) \/ BackedCapture(g, listing, oaiObjects'),
         harvest' = [harvest EXCEPT ![c] =
           IF E!Failed(o.ref) THEN [E!IdleCapture EXCEPT !.pc = "failed"] ELSE g]
  PROVE  BackedInv'
<1>1. Stores(oaiObjects, oaiObjects', key, bytes)
  BY HarvestPublishes
<1>2. Keeps(oaiObjects, oaiObjects')
  BY <1>1 DEF Stores
<1>3. /\ key[1] = "record set" => SetOK(listing, oaiObjects', key[2], bytes[1])
      /\ key[1] = "receipt" => BackedReceipt(bytes[1], oaiObjects')
  <2>1. /\ \A l, batch, set : SetOK(l, oaiObjects, batch, set) => SetOK(l, oaiObjects', batch, set)
        /\ \A r : BackedReceipt(r, oaiObjects) => BackedReceipt(r, oaiObjects')
    BY <1>2, BackedStays
  <2> QED BY <2>1
<1>4. CASE E!Failed(o.ref)
  BY <1>1, <1>3, <1>4, BackedEnds, BackedMoves
<1>5. CASE ~E!Failed(o.ref)
  BY <1>1, <1>3, <1>5, BackedMoves
<1> QED BY <1>4, <1>5

LEMMA MinIs ==
  ASSUME NEW a \in Nat, NEW b \in Nat
  PROVE  E!Min({a, b}) = IF a <= b THEN a ELSE b
<1>1. CASE a <= b
  <2>1. \A x : (x \in {a, b} /\ \A y \in {a, b} : x <= y) <=> x = a
    BY <1>1
  <2> QED BY <1>1, <2>1 DEF E!Min
<1>2. CASE ~(a <= b)
  <2>1. \A x : (x \in {a, b} /\ \A y \in {a, b} : x <= y) <=> x = b
    BY <1>2
  <2> QED BY <1>2, <2>1 DEF E!Min
<1> QED BY <1>1, <1>2

\* The shard after n of them: none when they have all envelopes.
LEMMA CutIs ==
  ASSUME NEW s \in Seq(Envelopes), NEW n \in Nat
  PROVE  /\ E!Shard(s, n + 1) \in Seq(Envelopes)
         /\ E!Shard(s, n + 1) = <<>> => Len(s) <= n * ShardRecords
         /\ E!Shard(s, n + 1) # <<>> => Piece(s, n * ShardRecords, E!Shard(s, n + 1))
<1>1. PICK from \in Nat : from = n * ShardRecords
  BY CaptureConstants
<1>2. ((n + 1) - 1) * ShardRecords + 1 = from + 1
  BY <1>1
<1>3. ShardRecords \in Nat \ {0} /\ Len(s) \in Nat
  BY CaptureConstants
<1>4. PICK last \in Nat : last = IF from + ShardRecords <= Len(s) THEN from + ShardRecords ELSE Len(s)
  BY <1>3
<1>5. E!Min({from + 1 + ShardRecords - 1, Len(s)}) = last
  BY <1>3, <1>4, MinIs
<1>6. PICK piece : piece = SubSeq(s, from + 1, last)
  OBVIOUS
<1>7. E!Shard(s, n + 1) = piece
  BY <1>2, <1>5, <1>6 DEF E!Shard, E!Cut
<1>8. last <= Len(s)
  BY <1>4
<1>9. /\ piece \in Seq(Envelopes) /\ Len(piece) = IF from + 1 <= last THEN last - from ELSE 0
      /\ \A i \in 1..Len(piece) : piece[i] = s[from + i]
  BY <1>3, <1>6, <1>8
<1>10. CASE from < Len(s)
  <2>1. Len(piece) = (IF from + ShardRecords <= Len(s) THEN ShardRecords ELSE Len(s) - from) /\ Len(piece) # 0
    BY <1>3, <1>4, <1>9, <1>10
  <2> QED BY <1>1, <1>7, <1>9, <1>10, <2>1 DEF Piece
<1>11. CASE ~(from < Len(s))
  <2>1. Len(piece) = 0
    BY <1>3, <1>4, <1>9, <1>11
  <2>2. piece = <<>>
    BY <1>9, <2>1
  <2>3. Len(s) <= from
    BY <1>3, <1>11
  <2>4. E!Shard(s, n + 1) = <<>> /\ <<>> \in Seq(Envelopes)
    BY <1>7, <2>2
  <2> QED BY <1>1, <2>3, <2>4
<1> QED BY <1>10, <1>11

LEMMA MarkIs ==
  ASSUME NEW c, NEW h, h = harvest[c]
  PROVE  E!Committed(c) = Mark(h)
BY DEF E!Committed, E!Position, Mark

\* A capture that goes on with what it has read.
LEMMA SameMark ==
  ASSUME NEW h, NEW g, g.set = h.set, g.token = h.token, g.raw = h.raw, g.records = h.records
  PROVE  Mark(g) = Mark(h)
BY DEF Mark

LEMMA BackedBegins ==
  ASSUME EuropeanaInv, BackedInv, NEW c \in E!Captures, NEW set, NEW at, E!Begin(c, set, at)
  PROVE  BackedInv'
<1>1. PICK from :
        harvest' = [harvest EXCEPT ![c] = [E!IdleCapture EXCEPT !.pc = "fetch", !.set = set, !.at = at,
                                                           !.from = from, !.token = from]]
  BY DEF E!Begin
<1> DEFINE h == [E!IdleCapture EXCEPT !.pc = "fetch", !.set = set, !.at = at, !.from = from, !.token = from]
<1>2. h.pc = "fetch" /\ h.raw = <<>> /\ h.records = <<>> /\ h.shards = <<>>
  BY DEF E!IdleCapture
<1>3. UNCHANGED <<listing, oaiObjects>>
  BY DEF E!Begin
<1> HIDE DEF h
<1>4. BackedCapture(h, listing, oaiObjects')
  BY <1>2 DEF BackedCapture, RawStored, Lists
<1>5. Stores(oaiObjects, oaiObjects', <<"page">>, <<>>)
  BY <1>3, NothingStored
<1> QED BY <1>1, <1>3, <1>4, <1>5, BackedMoves DEF h

LEMMA BackedIs ==
  ASSUME BackedInv, NEW c \in E!Captures
  PROVE  BackedCapture(harvest[c], listing, oaiObjects)
BY DEF BackedInv

LEMMA BackedBatch ==
  ASSUME EuropeanaInv, BackedInv, NEW c \in E!Captures, E!PublishBatch(c)
  PROVE  BackedInv'
<1> DEFINE b == E!Batch(c)
           key == E!BatchKey(b)
<1>1. PICK o \in E!PublishOutcomes(oaiObjects, key, <<b>>, c) :
        /\ oaiObjects' = o.objects
        /\ harvest' = [harvest EXCEPT ![c] =
             IF E!Failed(o.ref) THEN [E!IdleCapture EXCEPT !.pc = "failed"]
             ELSE [harvest[c] EXCEPT !.pc = "records", !.batch = o.ref]]
  BY DEF E!PublishBatch, E!Publishing
<1>2. UNCHANGED listing /\ harvest[c].pc = "batch"
  BY DEF E!PublishBatch, E!Publishing
<1> DEFINE g == [harvest[c] EXCEPT !.pc = "records", !.batch = o.ref]
<1>3. /\ g.pc = "records" /\ g.batch = o.ref
      /\ \A field \in {"set", "at", "from", "token", "raw", "records", "shards"} : g[field] = harvest[c][field]
  BY HarvestIs DEF HarvestShape
<1>4. b.capture = <<harvest[c].at, harvest[c].set, harvest[c].from>>
  BY DEF E!Batch, E!CaptureId
<1>5. key[1] = "batch"
  BY DEF E!BatchKey
<1>6. ASSUME ~E!Failed(o.ref) PROVE BackedCapture(g, listing, oaiObjects')
  <2>1. Puts(oaiObjects', key, <<b>>) /\ o.ref.bytes = <<b>>
    BY <1>1, <1>6, HarvestPublishes DEF Succeeds, Puts
  <2>2. Keeps(oaiObjects, oaiObjects')
    BY <1>1, HarvestPublishes DEF Stores
  <2>3. BackedCapture(harvest[c], listing, oaiObjects')
    BY <2>2, BackedIs, BackedStays
  <2>4. RawStored(oaiObjects', b.capture, harvest[c].raw) /\ Lists(listing, harvest[c].raw, harvest[c].records)
        /\ harvest[c].shards = <<>>
    BY <1>2, <1>4, <2>3 DEF BackedCapture
  <2>5. CutInto(oaiObjects', b, g.records, <<>>)
    BY DEF CutInto
  <2>6. o.ref.bytes[1] = b
    BY <2>1
  <2> HIDE DEF g, b
  <2>7. g.raw = harvest[c].raw /\ g.records = harvest[c].records /\ g.shards = <<>>
        /\ b.capture = <<g.at, g.set, g.from>>
    BY <1>3, <1>4, <2>4
  <2> QED BY <1>3, <2>1, <2>4, <2>5, <2>6, <2>7 DEF BackedCapture
<1> HIDE DEF g, key, b
<1> QED BY <1>1, <1>2, <1>5, <1>6, BackedPublishes DEF g

\* What a capture that has its batch has stored.
LEMMA BackedHas ==
  ASSUME EuropeanaInv, BackedInv, NEW c \in E!Captures, NEW h, h = harvest[c],
         h.pc \in {"records", "watermark", "receipt"}, NEW b, b = h.batch.bytes[1]
  PROVE  /\ h.batch.bytes = <<b>> /\ Puts(oaiObjects, E!BatchKey(b), <<b>>)
         /\ b.capture = <<h.at, h.set, h.from>> /\ b.raw = h.raw /\ b.records = Len(h.records)
         /\ h.records \in Seq(Envelopes) /\ h.raw \in Seq(RawRefs)
         /\ RawStored(oaiObjects, b.capture, h.raw) /\ Lists(listing, h.raw, h.records)
         /\ h.pc = "records" => CutInto(oaiObjects, b, h.records, h.shards)
         /\ h.pc # "records" => E!RecordSetKey(b) \in DOMAIN oaiObjects
         /\ h.pc = "receipt" => Puts(oaiObjects, E!WatermarkKey(Mark(h)), <<Mark(h)>>)
<1>1. BackedCapture(h, listing, oaiObjects)
  BY BackedIs
<1>2. b.raw = h.raw /\ b.records = Len(h.records) /\ h.records \in Seq(Envelopes) /\ h.raw \in Seq(RawRefs)
  BY HarvestIs DEF HarvestOK, Walk, Follows
<1> QED BY <1>1, <1>2 DEF BackedCapture

LEMMA BackedShard ==
  ASSUME EuropeanaInv, BackedInv, NEW c \in E!Captures, E!PublishShard(c)
  PROVE  BackedInv'
<1>0. PICK h : h = harvest[c]
  OBVIOUS
<1>1. PICK b : b = h.batch.bytes[1]
  OBVIOUS
<1>2. PICK piece : piece = E!Shard(h.records, Len(h.shards) + 1)
  OBVIOUS
<1> DEFINE key == E!ShardKey(b, Len(h.shards) + 1)
<1>3. PICK o \in E!PublishOutcomes(oaiObjects, key, piece, c) :
        /\ oaiObjects' = o.objects
        /\ harvest' = [harvest EXCEPT ![c] =
             IF E!Failed(o.ref) THEN [E!IdleCapture EXCEPT !.pc = "failed"]
             ELSE [h EXCEPT !.shards = Append(h.shards, o.ref)]]
  BY <1>0, <1>1, <1>2 DEF E!PublishShard, E!Publishing, E!NextShard
<1>4. UNCHANGED listing /\ h.pc = "records" /\ piece # <<>>
  BY <1>0, <1>2 DEF E!PublishShard, E!Publishing, E!NextShard
<1>5. PICK shards : shards = Append(h.shards, o.ref)
  OBVIOUS
<1> DEFINE g == [h EXCEPT !.shards = shards]
<1>6. /\ g.pc = "records" /\ g.shards = shards
      /\ \A field \in {"set", "at", "from", "token", "raw", "records", "batch"} : g[field] = h[field]
  BY <1>0, <1>4, HarvestIs DEF HarvestShape
<1>7. key[1] = "records"
  BY DEF E!ShardKey
<1>8. ASSUME ~E!Failed(o.ref) PROVE BackedCapture(g, listing, oaiObjects')
  <2>1. Puts(oaiObjects', key, piece) /\ o.ref.bytes = piece /\ IsObject(o.ref)
    BY <1>3, <1>8, HarvestPublishes DEF Succeeds, Puts
  <2>2. Keeps(oaiObjects, oaiObjects')
    BY <1>3, HarvestPublishes DEF Stores
  <2>3. BackedCapture(h, listing, oaiObjects')
    BY <1>0, <2>2, BackedIs, BackedStays
  <2>4. /\ RawStored(oaiObjects', <<h.at, h.set, h.from>>, h.raw) /\ Lists(listing, h.raw, h.records)
        /\ h.batch.bytes = <<b>> /\ Puts(oaiObjects', E!BatchKey(b), <<b>>)
        /\ b.capture = <<h.at, h.set, h.from>> /\ CutInto(oaiObjects', b, h.records, h.shards)
    BY <1>1, <1>4, <2>3 DEF BackedCapture
  <2>5. h.records \in Seq(Envelopes) /\ h.shards \in Seq(ShardObjects) /\ Len(h.shards) \in Nat
    <3>1. h.records \in Seq(Envelopes)
      BY <1>0, <1>1, <1>4, BackedHas
    <3>2. h.shards \in Seq(ShardObjects)
      BY <2>4 DEF CutInto
    <3> QED BY <3>1, <3>2
  <2>6. piece \in Seq(Envelopes) /\ Piece(h.records, Len(h.shards) * ShardRecords, piece)
    BY <1>2, <1>4, <2>5, CutIs
  <2>7. o.ref \in ShardObjects
    BY <2>1, <2>6 DEF IsObject, ShardObjects
  <2>8. /\ shards \in Seq(ShardObjects) /\ Len(shards) = Len(h.shards) + 1
        /\ shards[Len(h.shards) + 1] = o.ref /\ \A n \in 1..Len(h.shards) : shards[n] = h.shards[n]
    BY <1>5, <2>5, <2>7
  <2>9. CutInto(oaiObjects', b, h.records, shards)
    <3> SUFFICES ASSUME NEW n \in 1..Len(shards)
                 PROVE  /\ Puts(oaiObjects', E!ShardKey(b, n), shards[n].bytes)
                        /\ Piece(h.records, (n - 1) * ShardRecords, shards[n].bytes)
      BY <2>8 DEF CutInto
    <3>1. CASE n = Len(h.shards) + 1
      <4>1. n - 1 = Len(h.shards) /\ shards[n].bytes = piece
        BY <2>1, <2>5, <2>8, <3>1
      <4> QED BY <2>1, <2>6, <3>1, <4>1
    <3>2. CASE n # Len(h.shards) + 1
      <4>1. n \in 1..Len(h.shards) /\ shards[n] = h.shards[n]
        BY <2>5, <2>8, <3>2
      <4> QED BY <2>4, <4>1 DEF CutInto
    <3> QED BY <3>1, <3>2
  <2> HIDE DEF g
  <2>10. /\ g.raw = h.raw /\ g.records = h.records /\ g.at = h.at /\ g.set = h.set /\ g.from = h.from
         /\ g.batch = h.batch
    BY <1>6
  <2> QED BY <1>1, <1>6, <2>4, <2>9, <2>10 DEF BackedCapture
<1>9. harvest' = [harvest EXCEPT ![c] = IF E!Failed(o.ref) THEN [E!IdleCapture EXCEPT !.pc = "failed"] ELSE g]
  BY <1>3, <1>5
<1> HIDE DEF g, key
<1> QED BY <1>3, <1>4, <1>7, <1>8, <1>9, BackedPublishes

\* The record set: no shard is left, so the shards have all of the records.
LEMMA BackedSet ==
  ASSUME EuropeanaInv, BackedInv, NEW c \in E!Captures, E!PublishRecordSet(c)
  PROVE  BackedInv'
<1>0. PICK h : h = harvest[c]
  OBVIOUS
<1>1. PICK b : b = h.batch.bytes[1]
  OBVIOUS
<1>2. PICK set : set = E!RecordSet(c)
  OBVIOUS
<1> DEFINE key == E!RecordSetKey(b)
           g == [h EXCEPT !.pc = "watermark"]
<1>3. PICK o \in E!PublishOutcomes(oaiObjects, key, <<set>>, c) :
        /\ oaiObjects' = o.objects
        /\ harvest' = [harvest EXCEPT ![c] =
             IF E!Failed(o.ref) THEN [E!IdleCapture EXCEPT !.pc = "failed"] ELSE g]
  BY <1>0, <1>1, <1>2 DEF E!PublishRecordSet, E!Publishing
<1>4. UNCHANGED listing /\ h.pc = "records" /\ E!Shard(h.records, Len(h.shards) + 1) = <<>>
  BY <1>0 DEF E!PublishRecordSet, E!Publishing, E!NextShard
<1>5. set.objects = h.shards
  BY <1>0, <1>2 DEF E!RecordSet
<1>6. /\ g.pc = "watermark"
      /\ \A field \in {"set", "at", "from", "token", "raw", "records", "batch", "shards"} : g[field] = h[field]
  BY <1>0, HarvestIs DEF HarvestShape
<1>7. /\ h.batch.bytes = <<b>> /\ Puts(oaiObjects, E!BatchKey(b), <<b>>)
      /\ b.capture = <<h.at, h.set, h.from>> /\ b.raw = h.raw /\ b.records = Len(h.records)
      /\ h.records \in Seq(Envelopes) /\ h.raw \in Seq(RawRefs)
      /\ RawStored(oaiObjects, b.capture, h.raw) /\ Lists(listing, h.raw, h.records)
      /\ CutInto(oaiObjects, b, h.records, h.shards)
  BY <1>0, <1>1, <1>4, BackedHas
<1>8. key[1] = "record set" /\ key[2] = b
  BY DEF E!RecordSetKey
<1>9. SetOK(listing, oaiObjects, b, set)
  <2>1. h.shards \in Seq(ShardObjects)
    BY <1>7 DEF CutInto
  <2>2. Len(h.records) <= Len(h.shards) * ShardRecords
    BY <1>4, <1>7, <2>1, CutIs
  <2> QED BY <1>5, <1>7, <2>2 DEF SetOK
<1>10. ASSUME ~E!Failed(o.ref) PROVE BackedCapture(g, listing, oaiObjects')
  <2>1. key \in DOMAIN oaiObjects' /\ Keeps(oaiObjects, oaiObjects')
    BY <1>3, <1>10, HarvestPublishes DEF Succeeds, Stores
  <2>2. BackedCapture(h, listing, oaiObjects')
    BY <1>0, <2>1, BackedIs, BackedStays
  <2>3. /\ g.raw = h.raw /\ g.records = h.records /\ g.at = h.at /\ g.set = h.set /\ g.from = h.from
        /\ g.batch = h.batch
    BY <1>6
  <2> HIDE DEF g
  <2> QED BY <1>1, <1>4, <1>6, <2>1, <2>2, <2>3 DEF BackedCapture
<1> HIDE DEF g, key
<1> QED BY <1>3, <1>4, <1>8, <1>9, <1>10, BackedPublishes

LEMMA BackedWatermark ==
  ASSUME EuropeanaInv, BackedInv, NEW c \in E!Captures, E!PublishWatermark(c)
  PROVE  BackedInv'
<1>0. PICK h : h = harvest[c]
  OBVIOUS
<1>1. PICK b : b = h.batch.bytes[1]
  OBVIOUS
<1>2. PICK mark : mark = E!Committed(c) /\ mark = Mark(h)
  BY <1>0, MarkIs
<1> DEFINE key == E!WatermarkKey(mark)
           g == [h EXCEPT !.pc = "receipt"]
<1>3. PICK o \in E!PublishOutcomes(oaiObjects, key, <<mark>>, c) :
        /\ oaiObjects' = o.objects
        /\ harvest' = [harvest EXCEPT ![c] =
             IF E!Failed(o.ref) THEN [E!IdleCapture EXCEPT !.pc = "failed"] ELSE g]
  BY <1>0, <1>2 DEF E!PublishWatermark, E!Publishing
<1>4. UNCHANGED listing /\ h.pc = "watermark"
  BY <1>0 DEF E!PublishWatermark, E!Publishing
<1>5. /\ g.pc = "receipt"
      /\ \A field \in {"set", "at", "from", "token", "raw", "records", "batch", "shards"} : g[field] = h[field]
  BY <1>0, HarvestIs DEF HarvestShape
<1>6. key[1] = "watermark"
  BY DEF E!WatermarkKey
<1>7. ASSUME ~E!Failed(o.ref) PROVE BackedCapture(g, listing, oaiObjects')
  <2>1. Puts(oaiObjects', key, <<mark>>) /\ Keeps(oaiObjects, oaiObjects')
    BY <1>3, <1>7, HarvestPublishes DEF Succeeds, Stores, Puts
  <2>2. BackedCapture(h, listing, oaiObjects')
    BY <1>0, <2>1, BackedIs, BackedStays
  <2>3. /\ g.raw = h.raw /\ g.records = h.records /\ g.at = h.at /\ g.set = h.set /\ g.from = h.from
        /\ g.batch = h.batch /\ g.token = h.token
    BY <1>5
  <2> HIDE DEF g
  <2>4. Mark(g) = mark
    BY <1>2, <2>3, SameMark
  <2> QED BY <1>1, <1>4, <1>5, <2>1, <2>2, <2>3, <2>4 DEF BackedCapture
<1> HIDE DEF g, key
<1> QED BY <1>3, <1>4, <1>6, <1>7, BackedPublishes

LEMMA BackedCommit ==
  ASSUME EuropeanaInv, BackedInv, NEW c \in E!Captures, E!PublishReceipt(c)
  PROVE  BackedInv'
<1>0. PICK h : h = harvest[c]
  OBVIOUS
<1>1. PICK b : b = h.batch.bytes[1]
  OBVIOUS
<1>2. PICK r : r = E!Receipt(c)
  OBVIOUS
<1> DEFINE key == E!ReceiptKey(h.batch, h.token)
           g == [E!IdleCapture EXCEPT !.pc = "done"]
<1>3. PICK o \in E!PublishOutcomes(oaiObjects, key, <<r>>, c) :
        /\ oaiObjects' = o.objects
        /\ harvest' = [harvest EXCEPT ![c] =
             IF E!Failed(o.ref) THEN [E!IdleCapture EXCEPT !.pc = "failed"] ELSE g]
  BY <1>0, <1>2 DEF E!PublishReceipt, E!Publishing
<1>4. UNCHANGED listing /\ h.pc = "receipt"
  BY <1>0 DEF E!PublishReceipt, E!Publishing
<1>5. /\ r.batch = h.batch /\ r.watermark = Mark(h)
      /\ r.status = IF b.records = 0 THEN "EMPTY" ELSE "COMMITTED"
  BY <1>0, <1>1, <1>2, MarkIs DEF E!Receipt
<1>6. BackedReceipt(r, oaiObjects)
  <2>1. /\ Puts(oaiObjects, E!BatchKey(b), <<b>>) /\ b.raw = h.raw
        /\ RawStored(oaiObjects, b.capture, h.raw) /\ E!RecordSetKey(b) \in DOMAIN oaiObjects
        /\ Puts(oaiObjects, E!WatermarkKey(Mark(h)), <<Mark(h)>>)
    BY <1>0, <1>1, <1>4, BackedHas
  <2> QED BY <1>1, <1>5, <2>1 DEF BackedReceipt
<1>7. key[1] = "receipt"
  BY DEF E!ReceiptKey
<1>8. BackedCapture(g, listing, oaiObjects')
  BY BackedEnds
<1> HIDE DEF g, key
<1> QED BY <1>3, <1>4, <1>6, <1>7, <1>8, BackedPublishes

\* Envelopes of the records of a page; envelopes of different records.
OfPage(l, page, envelopes) ==
  \A i \in 1..Len(l.records[page]) :
    envelopes[i].id = l.records[page][i].id /\ envelopes[i].raw[1] = page

OncePerRecord(envelopes) ==
  \A m, n \in 1..Len(envelopes) : envelopes[m].id = envelopes[n].id => m = n

LEMMA DistinctIs ==
  ASSUME NEW all \in Seq(Envelopes), E!Distinct(all)
  PROVE  OncePerRecord(all)
<1> DEFINE f == [n \in DOMAIN all |-> all[n].id]
<1>1. E!IsInjective(f)
  BY DEF E!Distinct
<1>2. DOMAIN f = 1..Len(all) /\ \A n \in 1..Len(all) : f[n] = all[n].id
  OBVIOUS
<1> HIDE DEF f
<1> QED BY <1>1, <1>2 DEF E!IsInjective, OncePerRecord

\* st is s, and then t.
IsJoined(s, t, st) ==
  /\ st \in Seq(Envelopes) /\ Len(st) = Len(s) + Len(t)
  /\ \A m \in 1..Len(s) : st[m] = s[m]
  /\ \A i \in 1..Len(t) : st[Len(s) + i] = t[i]

LEMMA JoinedAt ==
  ASSUME NEW s \in Seq(Envelopes), NEW t \in Seq(Envelopes)
  PROVE  IsJoined(s, t, s \o t)
<1>1. s \o t \in Seq(Envelopes) /\ Len(s \o t) = Len(s) + Len(t)
  OBVIOUS
<1>2. ASSUME NEW m \in 1..Len(s) PROVE (s \o t)[m] = s[m]
  OBVIOUS
<1>3. ASSUME NEW i \in 1..Len(t) PROVE (s \o t)[Len(s) + i] = t[i]
  OBVIOUS
<1> QED BY <1>1, <1>2, <1>3 DEF IsJoined

\* The envelopes of one more page.
LEMMA ListsGrow ==
  ASSUME NEW l, NEW raw \in Seq(RawRefs), NEW records \in Seq(Envelopes), Lists(l, raw, records),
         NEW ref \in RawRefs, NEW page, page = ref.bytes[1],
         NEW more \in Seq(Envelopes), Len(more) = Len(l.records[page]),
         OfPage(l, page, more), NEW all, all = records \o more, OncePerRecord(all)
  PROVE  Lists(l, Append(raw, ref), all)
<1>2. PICK next : next = Append(raw, ref)
  OBVIOUS
<1>3. Len(raw) \in Nat /\ Len(records) \in Nat /\ Len(more) \in Nat
  OBVIOUS
<1>4. /\ Len(next) = Len(raw) + 1 /\ next[Len(raw) + 1] = ref
      /\ \A n \in 1..Len(raw) : next[n] = raw[n]
  BY <1>2
<1>5. Page(next, Len(raw) + 1) = page /\ \A n \in 1..Len(raw) : Page(next, n) = Page(raw, n)
  BY <1>4 DEF Page
<1>6. /\ Len(all) = Len(records) + Len(more)
      /\ \A m \in 1..Len(records) : all[m] = records[m]
      /\ \A i \in 1..Len(more) : all[Len(records) + i] = more[i]
  <2>1. IsJoined(records, more, all)
    BY JoinedAt
  <2> QED BY <2>1 DEF IsJoined
<1>7. ASSUME NEW m \in 1..Len(all)
      PROVE  \E n \in 1..Len(next) :
               /\ all[m].raw[1] = Page(next, n)
               /\ \E i \in 1..Len(l.records[Page(next, n)]) : l.records[Page(next, n)][i].id = all[m].id
  <2>1. CASE m \in 1..Len(records)
    <3>1. PICK n \in 1..Len(raw) :
            /\ records[m].raw[1] = Page(raw, n)
            /\ \E i \in 1..Len(l.records[Page(raw, n)]) : l.records[Page(raw, n)][i].id = records[m].id
      BY <2>1 DEF Lists
    <3>2. n \in 1..Len(next) /\ Page(next, n) = Page(raw, n) /\ all[m] = records[m]
      BY <1>3, <1>4, <1>5, <1>6, <2>1
    <3> QED BY <3>1, <3>2
  <2>2. CASE m \notin 1..Len(records)
    <3>1. PICK i \in 1..Len(more) : m = Len(records) + i
      <4>1. m - Len(records) \in 1..Len(more) /\ m = Len(records) + (m - Len(records))
        BY <1>3, <1>6, <2>2
      <4> QED BY <4>1
    <3>2. all[m] = more[i] /\ Len(raw) + 1 \in 1..Len(next)
      BY <1>3, <1>4, <1>6, <3>1
    <3>3. all[m].raw[1] = Page(next, Len(raw) + 1) /\ l.records[Page(next, Len(raw) + 1)][i].id = all[m].id
      BY <1>5, <3>1, <3>2 DEF OfPage
    <3>4. i \in 1..Len(l.records[Page(next, Len(raw) + 1)])
      BY <1>5
    <3> QED BY <3>2, <3>3, <3>4
  <2> QED BY <2>1, <2>2
<1>8. ASSUME NEW n \in 1..Len(next), NEW i \in 1..Len(l.records[Page(next, n)])
      PROVE  \E m \in 1..Len(all) :
               all[m].raw[1] = Page(next, n) /\ all[m].id = l.records[Page(next, n)][i].id
  <2>1. CASE n \in 1..Len(raw)
    <3>1. Page(next, n) = Page(raw, n)
      BY <1>5, <2>1
    <3>2. PICK m \in 1..Len(records) :
            records[m].raw[1] = Page(raw, n) /\ records[m].id = l.records[Page(raw, n)][i].id
      BY <1>8, <2>1, <3>1 DEF Lists
    <3>3. m \in 1..Len(all) /\ all[m] = records[m]
      BY <1>3, <1>6
    <3> QED BY <3>1, <3>2, <3>3
  <2>2. CASE n \notin 1..Len(raw)
    <3>1. n = Len(raw) + 1
      BY <1>3, <1>4, <2>2
    <3>2. Page(next, n) = page /\ i \in 1..Len(more)
      BY <1>5, <1>8, <3>1
    <3>3. Len(records) + i \in 1..Len(all) /\ all[Len(records) + i] = more[i]
      BY <1>3, <1>6, <3>2
    <3> QED BY <3>2, <3>3 DEF OfPage
  <2> QED BY <2>1, <2>2
<1>9. Lists(l, next, all)
  BY <1>7, <1>8 DEF Lists, OncePerRecord
<1> QED BY <1>2, <1>9

\* The envelopes of a page are of its records.
LEMMA PageEnvelopes ==
  ASSUME EuropeanaInv, NEW page \in 1..Pages, NEW bytes, bytes[1] = page,
         NEW records \in E!ParsedPage(page, bytes)
  PROVE  OfPage(listing, page, records)
<1>1. PICK rs : rs = listing.records[page]
  OBVIOUS
<1>2. rs \in Seq([id : Nat, deleted : BOOLEAN])
  BY <1>1 DEF EuropeanaInv, IsListing
<1>3. records = [n \in DOMAIN rs |-> E!Envelope(rs[n].id, bytes)]
  BY <1>1 DEF E!ParsedPage
<1>4. DOMAIN rs = 1..Len(rs)
  BY <1>2
<1>5. ASSUME NEW i \in 1..Len(rs) PROVE records[i].id = rs[i].id /\ records[i].raw[1] = page
  <2>1. records[i] = E!Envelope(rs[i].id, bytes)
    BY <1>3, <1>4
  <2> QED BY <2>1 DEF E!Envelope
<1> QED BY <1>1, <1>5 DEF OfPage

LEMMA BackedPage ==
  ASSUME EuropeanaInv, BackedInv, NEW c \in E!Captures, E!FetchPage(c)
  PROVE  BackedInv'
<1>1. PICK h : h = harvest[c]
  OBVIOUS
<1>2. PICK page : page = h.token
  OBVIOUS
<1>3. PICK bytes : bytes = <<page, revision>>
  OBVIOUS
<1> DEFINE key == E!RawKey(c, Len(h.raw) + 1, bytes)
           token == harvest[c].token
           said == <<token, revision>>
           uploaded == E!RawKey(c, Len(harvest[c].raw) + 1, said)
<1>4. PICK more \in E!ParsedPage(token, said) :
        E!Publishing(c, uploaded, said, LAMBDA ref : E!Follow(c, token, ref, harvest[c].records \o more))
  BY DEF E!FetchPage
<1>5. PICK all : all = harvest[c].records \o more
  OBVIOUS
<1>6. PICK o \in E!PublishOutcomes(oaiObjects, uploaded, said, c) :
        /\ oaiObjects' = o.objects
        /\ harvest' = [harvest EXCEPT ![c] = IF E!Failed(o.ref) THEN [E!IdleCapture EXCEPT !.pc = "failed"]
                                             ELSE E!Follow(c, token, o.ref, all)]
  BY <1>4, <1>5 DEF E!Publishing
<1>7. key = uploaded /\ bytes = said /\ page = token
  BY <1>1, <1>2, <1>3
<1>8. more \in E!ParsedPage(page, bytes) /\ all = h.records \o more
  BY <1>1, <1>4, <1>5, <1>7
<1>9. bytes[1] = page
  BY <1>3
<1>10. /\ o \in E!PublishOutcomes(oaiObjects, key, bytes, c) /\ oaiObjects' = o.objects
       /\ harvest' = [harvest EXCEPT ![c] = IF E!Failed(o.ref) THEN [E!IdleCapture EXCEPT !.pc = "failed"]
                                            ELSE E!Follow(c, page, o.ref, all)]
  BY <1>6, <1>7
<1>11. UNCHANGED listing /\ h.pc = "fetch"
  BY <1>1, <1>4 DEF E!FetchPage, E!Publishing
<1>12. key = <<"page", <<h.at, h.set, h.from>>, Len(h.raw) + 1, bytes>>
  BY <1>1 DEF E!RawKey, E!CaptureId
<1>13. key[1] = "page"
  BY <1>12
<1> HIDE DEF key, token, said, uploaded
<1>14. PICK g : g = E!Follow(c, page, o.ref, all)
  OBVIOUS
<1>15. ASSUME ~E!Failed(o.ref) PROVE BackedCapture(g, listing, oaiObjects')
  <2>1. Puts(oaiObjects', key, bytes) /\ o.ref.bytes = bytes /\ IsObject(o.ref)
    BY <1>10, <1>15, HarvestPublishes DEF Succeeds, Puts
  <2>2. Keeps(oaiObjects, oaiObjects')
    BY <1>10, HarvestPublishes DEF Stores
  <2>3. CASE g = [E!IdleCapture EXCEPT !.pc = "failed"]
    BY <2>3, BackedEnds
  <2>4. CASE g # [E!IdleCapture EXCEPT !.pc = "failed"]
    <3>1. PICK pc, leads, raw :
            /\ pc \in {"fetch", "batch"} /\ g = [h EXCEPT !.raw = raw, !.records = all, !.token = leads, !.pc = pc]
            /\ raw = Append(h.raw, o.ref) /\ E!Distinct(all)
      BY <1>1, <1>14, <2>4 DEF E!Follow
    <3>2. /\ g.pc \in {"fetch", "batch"} /\ g.raw = raw /\ g.records = all /\ g.shards = h.shards
          /\ g.at = h.at /\ g.set = h.set /\ g.from = h.from
      BY <1>1, <3>1, HarvestIs DEF HarvestShape
    <3>3. /\ h.records \in Seq(Envelopes) /\ h.raw \in Seq(RawRefs) /\ page \in 1..Pages
          /\ bytes \in (1..Pages) \X Nat
      BY <1>1, <1>2, <1>3, <1>11, HarvestIs, HarvestNumbers DEF HarvestOK, Walk, Follows, GoingOn, EuropeanaInv
    <3>4. BackedCapture(h, listing, oaiObjects')
      BY <1>1, <2>2, BackedIs, BackedStays
    <3>5. /\ RawStored(oaiObjects', <<h.at, h.set, h.from>>, h.raw) /\ Lists(listing, h.raw, h.records)
          /\ h.shards = <<>>
      BY <1>11, <3>4 DEF BackedCapture
    <3>6. o.ref \in RawRefs /\ o.ref.bytes[1] = page
      BY <1>3, <2>1, <3>3 DEF IsObject, RawRefs
    <3>7. more \in Seq(Envelopes) /\ Len(more) = Len(listing.records[page])
      BY <1>8, <3>3, PageParsed DEF EuropeanaInv
    <3>8. OfPage(listing, page, more)
      BY <1>8, <1>9, <3>3, PageEnvelopes
    <3>9. all \in Seq(Envelopes)
      BY <1>8, <3>3, <3>7, Joined
    <3>10. OncePerRecord(all)
      BY <3>1, <3>9, DistinctIs
    <3>11. Lists(listing, raw, all)
      BY <1>8, <3>1, <3>3, <3>5, <3>6, <3>7, <3>8, <3>10, ListsGrow
    <3>12. RawStored(oaiObjects', <<h.at, h.set, h.from>>, raw)
      <4>1. /\ Len(raw) = Len(h.raw) + 1 /\ raw[Len(h.raw) + 1] = o.ref
            /\ Len(h.raw) \in Nat /\ \A n \in 1..Len(h.raw) : raw[n] = h.raw[n]
        BY <3>1, <3>3, <3>6
      <4> SUFFICES ASSUME NEW n \in 1..Len(raw)
                   PROVE  Puts(oaiObjects', <<"page", <<h.at, h.set, h.from>>, n, raw[n].bytes>>, raw[n].bytes)
        BY DEF RawStored
      <4>2. CASE n = Len(h.raw) + 1
        BY <1>12, <2>1, <4>1, <4>2
      <4>3. CASE n # Len(h.raw) + 1
        <5>1. n \in 1..Len(h.raw) /\ raw[n] = h.raw[n]
          BY <3>3, <4>1, <4>3
        <5> QED BY <3>5, <5>1 DEF RawStored
      <4> QED BY <4>2, <4>3
    <3> QED BY <3>2, <3>5, <3>11, <3>12 DEF BackedCapture
  <2> QED BY <2>3, <2>4
<1>16. harvest' = [harvest EXCEPT ![c] = IF E!Failed(o.ref) THEN [E!IdleCapture EXCEPT !.pc = "failed"] ELSE g]
  BY <1>10, <1>14
<1> QED BY <1>10, <1>11, <1>13, <1>15, <1>16, BackedPublishes

LEMMA BackedInit == E!Init => BackedInv
<1> SUFFICES ASSUME E!Init PROVE BackedInv
  OBVIOUS
<1>1. DOMAIN oaiObjects = {} /\ \A c \in E!Captures : harvest[c] = E!IdleCapture
  BY DEF E!Init
<1>2. \A c \in E!Captures : BackedCapture(harvest[c], listing, oaiObjects)
  BY <1>1 DEF BackedCapture, E!IdleCapture
<1> QED BY <1>1, <1>2 DEF BackedInv

LEMMA BackedNext == EuropeanaInv /\ BackedInv /\ [E!Next]_europeana => BackedInv'
<1> SUFFICES ASSUME EuropeanaInv, BackedInv, [E!Next]_europeana PROVE BackedInv'
  OBVIOUS
<1>1. CASE UNCHANGED europeana
  BY <1>1 DEF europeana, BackedInv
<1>2. CASE E!Revise
  BY <1>2 DEF E!Revise, BackedInv
<1>3. ASSUME NEW c \in E!Captures,
             (\E set \in 1..LastSet, at \in 1..c : E!Begin(c, set, at)) \/ E!Works(c) \/ E!Dies(c)
      PROVE  BackedInv'
  <2>1. CASE \E set \in 1..LastSet, at \in 1..c : E!Begin(c, set, at)
    BY <2>1, BackedBegins
  <2>2. CASE E!FetchFails(c) \/ E!Dies(c)
    BY <2>2, BackedFails DEF E!FetchFails, E!Dies
  <2>3. CASE E!Works(c) /\ ~E!FetchFails(c)
    BY <2>3, BackedPage, BackedBatch, BackedShard, BackedSet, BackedWatermark, BackedCommit DEF E!Works
  <2> QED BY <1>3, <2>1, <2>2, <2>3
<1> QED BY <1>1, <1>2, <1>3 DEF E!Next

\* s is the first n of the envelopes.
Begins(envelopes, n, s) ==
  s \in Seq(Envelopes) /\ Len(s) = n /\ \A i \in 1..n : s[i] = envelopes[i]

LEMMA BeginsNext ==
  ASSUME NEW all \in Seq(Envelopes), NEW from \in Nat, NEW s, Begins(all, from, s), NEW piece, Piece(all, from, piece)
  PROVE  Begins(all, IF from + ShardRecords <= Len(all) THEN from + ShardRecords ELSE Len(all), s \o piece)
<1>1. /\ s \in Seq(Envelopes) /\ Len(s) = from /\ piece \in Seq(Envelopes)
      /\ from < Len(all) /\ Len(all) \in Nat /\ ShardRecords \in Nat
      /\ Len(piece) = IF from + ShardRecords <= Len(all) THEN ShardRecords ELSE Len(all) - from
  BY CaptureConstants DEF Begins, Piece
<1>2. PICK both : both = s \o piece
  OBVIOUS
<1>3. IsJoined(s, piece, both)
  BY <1>1, <1>2, JoinedAt
<1>4. both \in Seq(Envelopes) /\ Len(both) = from + Len(piece)
  BY <1>1, <1>3 DEF IsJoined
<1>5. Len(both) = IF from + ShardRecords <= Len(all) THEN from + ShardRecords ELSE Len(all)
  BY <1>1, <1>4
<1>6. ASSUME NEW i \in 1..Len(both) PROVE both[i] = all[i]
  <2>1. CASE i <= from
    BY <1>1, <1>3, <2>1 DEF IsJoined, Begins
  <2>2. CASE ~(i <= from)
    <3>1. PICK k \in 1..Len(piece) : i = from + k
      <4>1. i - from \in 1..Len(piece) /\ i = from + (i - from)
        BY <1>1, <1>4, <2>2
      <4> QED BY <4>1
    <3>2. both[i] = piece[k]
      BY <1>1, <1>3, <3>1 DEF IsJoined
    <3> QED BY <3>1, <3>2 DEF Piece
  <2> QED BY <2>1, <2>2
<1> QED BY <1>2, <1>4, <1>5, <1>6 DEF Begins

\* The pieces of a sequence that reach its end are the sequence.
LEMMA PiecesFlatten ==
  ASSUME NEW all \in Seq(Envelopes), NEW N \in Nat, NEW pieces, pieces = [n \in 1..N |-> pieces[n]],
         \A n \in 1..N : Piece(all, (n - 1) * ShardRecords, pieces[n]), Len(all) <= N * ShardRecords
  PROVE  E!FlattenSeq(pieces) = all
<1>1. Len(pieces) = N /\ ShardRecords \in Nat /\ Len(all) \in Nat
  BY CaptureConstants
<1>2. CASE N = 0
  <2>1. E!FlattenSeq(pieces) = pieces /\ pieces = <<>>
    BY <1>1, <1>2 DEF E!FlattenSeq
  <2>2. Len(all) = 0
    BY <1>1, <1>2
  <2> QED BY <2>1, <2>2
<1>3. CASE N # 0
  <2> DEFINE F == CHOOSE f : Concats(f, pieces, N)
             upto(n) == IF n * ShardRecords <= Len(all) THEN n * ShardRecords ELSE Len(all)
             bad == {n \in 1..N : ~Begins(all, upto(n), F[n])}
  <2>1. Concats(F, pieces, N)
    BY ConcatsExist
  <2>2. E!FlattenSeq(pieces) = F[N]
    BY <1>1, <1>3 DEF E!FlattenSeq, Concats
  <2>3. \A i \in 1..N : F[i] = IF i = 1 THEN pieces[i] ELSE F[i - 1] \o pieces[i]
    BY <2>1, Zenon DEF Concats
  <2> HIDE DEF F
  <2>4. bad = {}
    <3> SUFFICES ASSUME bad # {} PROVE FALSE
      OBVIOUS
    <3>1. bad \in SUBSET Nat
      OBVIOUS
    <3>2. PICK n \in bad : \A m \in bad : n <= m
      <4> HIDE DEF bad
      <4> QED BY <3>1, Least
    <3>3. n \in 1..N /\ n \in Nat \ {0} /\ ~Begins(all, upto(n), F[n])
      BY <3>2
    <3>4. PICK from \in Nat : from = (n - 1) * ShardRecords /\ n * ShardRecords = from + ShardRecords
      BY <1>1, <3>3, Places
    <3>5. /\ Piece(all, from, pieces[n])
          /\ upto(n) = IF from + ShardRecords <= Len(all) THEN from + ShardRecords ELSE Len(all)
      BY <3>3, <3>4
    <3>6. CASE n = 1
      <4>1. F[n] = pieces[n]
        BY <2>3, <3>3, <3>6
      <4>2. from = 0
        BY <1>1, <3>4, <3>6
      <4>3. /\ pieces[n] \in Seq(Envelopes) /\ Len(pieces[n]) = upto(n)
            /\ \A i \in 1..Len(pieces[n]) : pieces[n][i] = all[i]
        <5> HIDE DEF upto
        <5>1. /\ pieces[n] \in Seq(Envelopes)
              /\ Len(pieces[n]) = (IF 0 + ShardRecords <= Len(all) THEN ShardRecords ELSE Len(all) - 0)
              /\ \A i \in 1..Len(pieces[n]) : pieces[n][i] = all[0 + i]
          BY <3>5, <4>2 DEF Piece
        <5> QED BY <1>1, <3>5, <4>2, <5>1
      <4> HIDE DEF upto
      <4>4. Begins(all, upto(n), pieces[n])
        BY <4>3 DEF Begins
      <4> QED BY <3>3, <4>1, <4>4
    <3>7. CASE n # 1
      <4>1. n - 1 \in 1..N /\ n - 1 \notin bad
        <5>1. n - 1 \in Nat /\ n - 1 \in 1..N /\ ~(n <= n - 1)
          BY <3>3, <3>7
        <5> HIDE DEF bad
        <5> QED BY <3>2, <5>1
      <4>2. Begins(all, upto(n - 1), F[n - 1])
        BY <4>1
      <4>3. upto(n - 1) = from
        <5>1. from < Len(all)
          BY <3>5 DEF Piece
        <5> QED BY <1>1, <3>4, <5>1
      <4>4. F[n] = F[n - 1] \o pieces[n]
        BY <2>3, <3>3, <3>7
      <4> HIDE DEF upto
      <4>5. Begins(all, upto(n), F[n - 1] \o pieces[n])
        BY <3>5, <4>2, <4>3, BeginsNext
      <4> QED BY <3>3, <4>4, <4>5
    <3> QED BY <3>6, <3>7
  <2>5. N \in 1..N /\ N \notin bad
    BY <1>3, <2>4
  <2>6. upto(N) = Len(all)
    <3>1. PICK length \in Nat : length = N * ShardRecords
      BY <1>1
    <3> QED BY <1>1, <3>1
  <2>7. Begins(all, upto(N), F[N])
    BY <2>5
  <2> HIDE DEF upto
  <2>8. F[N] = all
    BY <2>6, <2>7 DEF Begins
  <2> QED BY <2>2, <2>8
<1> QED BY <1>2, <1>3

\* The records of the pages, and that they are as many as the envelopes.
LEMMA RecordsCounted ==
  ASSUME IsListing(listing), NEW raw \in Seq(RawRefs), NEW records \in Seq(Envelopes),
         Lists(listing, raw, records), \A n \in 1..Len(raw) : Page(raw, n) \in 1..Pages,
         NEW pages, pages = {ref.bytes[1] : ref \in E!ToSet(raw)}, NEW listed,
         listed = UNION {{<<record.id, page>> : record \in E!ToSet(listing.records[page])} : page \in pages}
  PROVE  /\ {<<envelope.id, envelope.raw[1]>> : envelope \in E!ToSet(records)} = listed
         /\ Len(records) = E!Cardinality(listed)
         /\ listed = {} <=> Len(records) = 0
<1>1. /\ Len(raw) \in Nat /\ DOMAIN raw = 1..Len(raw)
      /\ Len(records) \in Nat /\ DOMAIN records = 1..Len(records)
  OBVIOUS
<1> DEFINE f == [m \in 1..Len(records) |-> <<records[m].id, records[m].raw[1]>>]
<1>2. \A n \in 1..Len(raw) : Page(raw, n) \in pages
  BY <1>1 DEF E!ToSet, Page
<1>3. \A page \in pages : \E n \in 1..Len(raw) : page = Page(raw, n)
  BY <1>1 DEF E!ToSet, Page
<1>4. ASSUME NEW page \in 1..Pages
      PROVE  E!ToSet(listing.records[page]) = {listing.records[page][i] : i \in 1..Len(listing.records[page])}
  <2>1. listing.records[page] \in Seq([id : Nat, deleted : BOOLEAN])
    BY DEF IsListing
  <2> QED BY <2>1 DEF E!ToSet
<1>5. ASSUME NEW m \in 1..Len(records) PROVE <<records[m].id, records[m].raw[1]>> \in listed
  <2>1. PICK n \in 1..Len(raw) :
          /\ records[m].raw[1] = Page(raw, n)
          /\ \E i \in 1..Len(listing.records[Page(raw, n)]) : listing.records[Page(raw, n)][i].id = records[m].id
    BY <1>5 DEF Lists
  <2>2. PICK page \in 1..Pages : page = Page(raw, n)
    OBVIOUS
  <2>3. PICK i \in 1..Len(listing.records[page]) : listing.records[page][i].id = records[m].id
    BY <2>1, <2>2
  <2>4. listing.records[page][i] \in E!ToSet(listing.records[page])
    BY <1>4
  <2>5. <<records[m].id, page>> \in {<<record.id, page>> : record \in E!ToSet(listing.records[page])}
    BY <2>3, <2>4
  <2> QED BY <1>2, <2>1, <2>2, <2>5
<1>6. ASSUME NEW pair \in listed
      PROVE  \E m \in 1..Len(records) : pair = <<records[m].id, records[m].raw[1]>>
  <2>1. PICK page \in pages : pair \in {<<record.id, page>> : record \in E!ToSet(listing.records[page])}
    BY <1>6
  <2>2. PICK n \in 1..Len(raw) : page = Page(raw, n)
    BY <1>3
  <2>3. PICK record \in E!ToSet(listing.records[page]) : pair = <<record.id, page>>
    BY <2>1
  <2>4. PICK i \in 1..Len(listing.records[page]) : record = listing.records[page][i]
    BY <1>4, <2>2
  <2>5. PICK m \in 1..Len(records) :
          records[m].raw[1] = Page(raw, n) /\ records[m].id = listing.records[Page(raw, n)][i].id
    BY <2>2, <2>4 DEF Lists
  <2> QED BY <2>2, <2>3, <2>4, <2>5
<1>7. ASSUME NEW m \in 1..Len(records), NEW n \in 1..Len(records),
             <<records[m].id, records[m].raw[1]>> = <<records[n].id, records[n].raw[1]>>
      PROVE  m = n
  <2>1. records[m].id = records[n].id
    BY <1>7
  <2> QED BY <2>1 DEF Lists
<1>8. f \in [1..Len(records) -> listed] /\ \A m, n \in 1..Len(records) : f[m] = f[n] => m = n
  BY <1>5, <1>7
<1>9. \A pair \in listed : \E m \in 1..Len(records) : f[m] = pair
  BY <1>6
<1> HIDE DEF f
<1>10. f \in Bijection(1..Len(records), listed)
  BY <1>8, <1>9 DEF Bijection, Injection, Surjection, IsInjective
<1>11. Cardinality(listed) = Len(records)
  BY <1>1, <1>10, FS_CountingElements DEF ExistsBijection
<1>12. E!ToSet(records) = {records[m] : m \in 1..Len(records)}
  BY <1>1 DEF E!ToSet
<1>13. {<<envelope.id, envelope.raw[1]>> : envelope \in E!ToSet(records)} = listed
  <2>1. ASSUME NEW pair \in {<<envelope.id, envelope.raw[1]>> : envelope \in E!ToSet(records)} PROVE pair \in listed
    BY <1>5, <1>12, <2>1
  <2>2. ASSUME NEW pair \in listed PROVE pair \in {<<envelope.id, envelope.raw[1]>> : envelope \in E!ToSet(records)}
    BY <1>6, <1>12, <2>2
  <2> QED BY <2>1, <2>2
<1>14. listed = {} <=> Len(records) = 0
  <2>1. ASSUME Len(records) # 0 PROVE listed # {}
    <3>1. 1 \in 1..Len(records)
      BY <1>1, <2>1
    <3> QED BY <1>5, <3>1
  <2>2. ASSUME Len(records) = 0 PROVE listed = {}
    <3>1. 1..Len(records) = {}
      BY <2>2
    <3> QED BY <1>6, <3>1
  <2> QED BY <2>1, <2>2
<1> QED BY <1>11, <1>13, <1>14, CardinalityIs

\* ReceiptsAreBacked, of one receipt.
Backed(r) ==
  LET batch == E!BatchOf(r)
  IN  /\ E!Has(E!BatchKey(batch), <<batch>>)
      /\ E!Has(E!WatermarkKey(r.watermark), <<r.watermark>>)
      /\ \A n \in DOMAIN batch.raw :
           E!Has(<<"page", batch.capture, n, batch.raw[n].bytes>>, batch.raw[n].bytes)
      /\ E!RecordSetKey(batch) \in DOMAIN oaiObjects
      /\ LET shards == oaiObjects[E!RecordSetKey(batch)].bytes[1].objects
             envelopes == E!FlattenSeq([n \in DOMAIN shards |-> shards[n].bytes])
             listed == UNION {{<<record.id, page>> : record \in E!ToSet(listing.records[page])} :
                              page \in E!PagesOf(r)}
         IN  /\ \A n \in DOMAIN shards : E!Has(E!ShardKey(batch, n), shards[n].bytes)
             /\ {<<envelope.id, envelope.raw[1]>> : envelope \in E!ToSet(envelopes)} = listed
             /\ Len(envelopes) = E!Cardinality(listed)
             /\ r.status = "EMPTY" <=> listed = {}

LEMMA ReceiptBacked ==
  ASSUME EuropeanaInv, BackedInv, NEW r \in ReceiptsOf(oaiObjects)
  PROVE  Backed(r)
<1>1. PICK b : b = r.batch.bytes[1]
  OBVIOUS
<1>2. PICK key \in DOMAIN oaiObjects : key[1] = "receipt" /\ r = oaiObjects[key].bytes[1]
  BY DEF ReceiptsOf
<1>3. BackedReceipt(r, oaiObjects)
  BY <1>2 DEF BackedInv
<1>4. /\ Puts(oaiObjects, E!BatchKey(b), <<b>>) /\ Puts(oaiObjects, E!WatermarkKey(r.watermark), <<r.watermark>>)
      /\ RawStored(oaiObjects, b.capture, b.raw) /\ E!RecordSetKey(b) \in DOMAIN oaiObjects
      /\ r.status = IF b.records = 0 THEN "EMPTY" ELSE "COMMITTED"
  BY <1>1, <1>3 DEF BackedReceipt
<1>5. PICK set : set = oaiObjects[E!RecordSetKey(b)].bytes[1]
  OBVIOUS
<1>6. SetOK(listing, oaiObjects, b, set)
  <2>1. E!RecordSetKey(b)[1] = "record set" /\ E!RecordSetKey(b)[2] = b
    BY DEF E!RecordSetKey
  <2> QED BY <1>4, <1>5, <2>1 DEF BackedInv
<1>7. PICK records \in Seq(Envelopes) :
        /\ b.raw \in Seq(RawRefs) /\ Lists(listing, b.raw, records) /\ b.records = Len(records)
        /\ CutInto(oaiObjects, b, records, set.objects)
        /\ Len(records) <= Len(set.objects) * ShardRecords
  BY <1>6 DEF SetOK
<1>8. PICK shards : shards = set.objects
  OBVIOUS
<1>9. shards \in Seq(ShardObjects) /\ DOMAIN shards = 1..Len(shards) /\ Len(shards) \in Nat
  BY <1>7, <1>8 DEF CutInto
<1> DEFINE pieces == [n \in DOMAIN shards |-> shards[n].bytes]
<1>10. E!FlattenSeq(pieces) = records
  <2>1. pieces = [n \in 1..Len(shards) |-> pieces[n]]
    BY <1>9
  <2>2. \A n \in 1..Len(shards) : Piece(records, (n - 1) * ShardRecords, pieces[n])
    BY <1>7, <1>8, <1>9 DEF CutInto
  <2> HIDE DEF pieces
  <2> QED BY <1>7, <1>8, <1>9, <2>1, <2>2, PiecesFlatten
<1>11. \A n \in 1..Len(b.raw) : Page(b.raw, n) \in 1..Pages
  BY <1>7, PageIs
<1>12. PICK listed :
         listed = UNION {{<<record.id, page>> : record \in E!ToSet(listing.records[page])} : page \in E!PagesOf(r)}
  OBVIOUS
<1>13. /\ {<<envelope.id, envelope.raw[1]>> : envelope \in E!ToSet(records)} = listed
       /\ Len(records) = E!Cardinality(listed)
       /\ listed = {} <=> Len(records) = 0
  <2>1. IsListing(listing) /\ E!PagesOf(r) = {ref.bytes[1] : ref \in E!ToSet(b.raw)}
    BY <1>1 DEF EuropeanaInv, E!PagesOf, E!BatchOf
  <2> QED BY <1>7, <1>11, <1>12, <2>1, RecordsCounted
<1>14. E!BatchOf(r) = b /\ DOMAIN b.raw = 1..Len(b.raw)
  BY <1>1, <1>7 DEF E!BatchOf
<1>15. \A n \in DOMAIN b.raw : E!Has(<<"page", b.capture, n, b.raw[n].bytes>>, b.raw[n].bytes)
  BY <1>4, <1>14 DEF RawStored, Puts, E!Has
<1>16. \A n \in DOMAIN shards : E!Has(E!ShardKey(b, n), shards[n].bytes)
  BY <1>7, <1>8, <1>9 DEF CutInto, Puts, E!Has
<1>17. E!Has(E!BatchKey(b), <<b>>) /\ E!Has(E!WatermarkKey(r.watermark), <<r.watermark>>)
  BY <1>4 DEF Puts, E!Has
<1>18. r.status = "EMPTY" <=> listed = {}
  BY <1>4, <1>7, <1>13
<1> HIDE DEF pieces
<1> QED BY <1>4, <1>5, <1>8, <1>10, <1>12, <1>13, <1>14, <1>15, <1>16, <1>17, <1>18 DEF Backed, pieces

LEMMA ReceiptsBacked == EuropeanaInv /\ BackedInv => E!ReceiptsAreBacked
<1> SUFFICES ASSUME EuropeanaInv, BackedInv PROVE \A r \in E!Receipts : Backed(r)
  BY DEF E!ReceiptsAreBacked, Backed
<1>1. E!Receipts = ReceiptsOf(oaiObjects)
  BY DEF E!Receipts, ReceiptsOf
<1> QED BY <1>1, ReceiptBacked

\* ------------------------------------------------- the shows of a TVmaze snapshot

LEMMA TvCardinalityIs == ASSUME NEW S PROVE T!Cardinality(S) = Cardinality(S)
  BY DEF T!Cardinality, Cardinality

\* A sequence of a finite set has its members.
LEMMA SequenceOfSet ==
  ASSUME NEW S, IsFiniteSet(S)
  PROVE  T!SetToSeq(S) \in Seq(S) /\ T!ToSet(T!SetToSeq(S)) = S
<1>1. PICK n \in Nat : n = Cardinality(S) /\ ExistsBijection(1..n, S)
  BY FS_CardinalityType
<1>2. T!Cardinality(S) = n
  BY <1>1, TvCardinalityIs
<1>3. \E f \in [1..n -> S] : T!IsInjective(f)
  BY <1>1 DEF ExistsBijection, Bijection, Injection, IsInjective, T!IsInjective
<1>4. T!SetToSeq(S) \in [1..n -> S] /\ T!IsInjective(T!SetToSeq(S))
  BY <1>2, <1>3 DEF T!SetToSeq
<1>5. PICK f : f = T!SetToSeq(S)
  OBVIOUS
<1>6. f \in Injection(1..n, S)
  BY <1>4, <1>5 DEF T!IsInjective, Injection, IsInjective
<1>7. Cardinality(1..n) = n
  BY FS_Interval
<1>8. f \in Surjection(1..n, S)
  BY <1>1, <1>6, <1>7, FS_Injection
<1>9. T!ToSet(f) = S
  BY <1>4, <1>5, <1>8 DEF T!ToSet, Surjection
<1> QED BY <1>4, <1>5, <1>9

\* The greatest member of a set of numbers with a bound.
LEMMA Greatest ==
  ASSUME NEW S, NEW n \in Nat, S \subseteq 1..n, S # {}
  PROVE  \E t \in S : \A u \in S : u <= t
<1> DEFINE bounds == {b \in Nat : \A u \in S : u <= b}
<1>1. n \in bounds /\ bounds \in SUBSET Nat
  OBVIOUS
<1>2. PICK b \in bounds : \A c \in bounds : b <= c
  <2> HIDE DEF bounds
  <2> QED BY <1>1, Least
<1>3. b \in Nat /\ \A u \in S : u <= b
  BY <1>2
<1>4. CASE b \in S
  BY <1>3, <1>4
<1>5. CASE b \notin S
  <2>1. b - 1 \in Nat /\ ~(b <= b - 1)
    <3>1. PICK u \in S : u <= b
      BY <1>3
    <3> QED BY <1>3, <3>1
  <2>2. \A u \in S : u <= b - 1
    BY <1>3, <1>5
  <2>3. b - 1 \in bounds
    BY <2>1, <2>2
  <2> HIDE DEF bounds
  <2> QED BY <1>2, <2>1, <2>3
<1> QED BY <1>4, <1>5

LEMMA DivisionIs ==
  ASSUME NEW a \in Nat, NEW k \in Nat \ {0}
  PROVE  a \div k \in Nat /\ (a \div k) * k <= a /\ a < (a \div k) * k + k
OBVIOUS

LEMMA DivisionGrows ==
  ASSUME NEW a \in Nat, NEW b \in Nat, a <= b, NEW k \in Nat \ {0}
  PROVE  a \div k <= b \div k
<1>1. PICK p \in Nat, q \in Nat : p = a \div k /\ q = b \div k
  BY DivisionIs
<1>2. p * k <= a /\ b < q * k + k
  BY <1>1, DivisionIs
<1>3. ASSUME ~(p <= q) PROVE FALSE
  <2>1. PICK d \in Nat : p = q + 1 + d
    <3>1. p - q - 1 \in Nat /\ p = q + 1 + (p - q - 1)
      BY <1>3
    <3> QED BY <3>1
  <2>2. p * k = q * k + k + d * k /\ d * k \in Nat /\ p * k \in Nat /\ q * k \in Nat
    BY <2>1
  <2> QED BY <1>2, <2>2
<1> QED BY <1>1, <1>3

\* No show is on a page after the last one.
LEMMA LastPageIs ==
  ASSUME CaptureConstants, NEW s \in T!There
  PROVE  T!PageOf(s) \in Nat /\ T!LastPage \in Nat /\ T!PageOf(s) <= T!LastPage
<1>1. T!There \subseteq 1..Shows /\ Shows \in Nat /\ ShowsOnPage \in Nat \ {0}
  BY DEF T!There, CaptureConstants
<1>2. \E t \in T!There : \A u \in T!There : u <= t
  BY <1>1, Greatest
<1>3. PICK last : last = CHOOSE t \in T!There : \A u \in T!There : u <= t
  OBVIOUS
<1>4. last \in T!There /\ s <= last
  BY <1>2, <1>3
<1>5. T!LastPage = (last - 1) \div ShowsOnPage
  BY <1>3 DEF T!LastPage, T!PageOf
<1>6. s - 1 \in Nat /\ last - 1 \in Nat /\ s - 1 <= last - 1
  BY <1>1, <1>4
<1>7. (s - 1) \div ShowsOnPage <= (last - 1) \div ShowsOnPage
  BY <1>1, <1>6, DivisionGrows
<1>8. (s - 1) \div ShowsOnPage \in Nat /\ (last - 1) \div ShowsOnPage \in Nat
  BY <1>1, <1>6, DivisionIs
<1> QED BY <1>5, <1>7, <1>8 DEF T!PageOf

LEMMA ShowsFinite ==
  ASSUME CaptureConstants, NEW S, S \subseteq T!There
  PROVE  IsFiniteSet(S)
<1>1. S \subseteq 1..Shows /\ IsFiniteSet(1..Shows)
  BY FS_Interval DEF T!There, CaptureConstants
<1> QED BY <1>1, FS_Subset

\* ------------------------------------------------- the windows of a TVmaze inventory

\* Updates by time, then by identifier.
Earlier(a, b) == a[2] < b[2] \/ (a[2] = b[2] /\ a[1] < b[1])
InTime(items, S, n) ==
  /\ items \in [1..n -> S]
  /\ \A i, j \in 1..n : i # j => items[i] # items[j]
  /\ \A i, j \in 1..n : i < j => Earlier(items[i], items[j])

LEMMA Earliest ==
  ASSUME NEW S, S \subseteq Nat \X Nat, S # {}
  PROVE  \E e \in S : \A u \in S : u # e => Earlier(e, u)
<1> DEFINE times == {u[2] : u \in S}
<1>1. times \in SUBSET Nat /\ times # {}
  OBVIOUS
<1>2. PICK t \in times : \A u \in times : t <= u
  <2> HIDE DEF times
  <2> QED BY <1>1, Least
<1> DEFINE ids == {i \in Nat : <<i, t>> \in S}
<1>3. ids \in SUBSET Nat /\ ids # {}
  <2>1. PICK u \in S : u[2] = t
    OBVIOUS
  <2>2. u[1] \in Nat /\ u = <<u[1], t>>
    BY <2>1
  <2> QED BY <2>2
<1>4. PICK i \in ids : \A j \in ids : i <= j
  <2> HIDE DEF ids
  <2> QED BY <1>3, Least
<1>5. <<i, t>> \in S /\ i \in Nat /\ t \in Nat
  BY <1>1, <1>2
<1>6. ASSUME NEW u \in S, u # <<i, t>> PROVE Earlier(<<i, t>>, u)
  <2>1. PICK a \in Nat, b \in Nat : u = <<a, b>>
    OBVIOUS
  <2>2. t <= b
    <3>1. b \in times
      BY <2>1
    <3> HIDE DEF times
    <3> QED BY <1>2, <3>1
  <2>3. b = t => i <= a /\ a # i
    BY <1>4, <1>6, <2>1
  <2>4. t < b \/ (t = b /\ i < a)
    BY <1>5, <2>2, <2>3
  <2> QED BY <2>1, <2>4 DEF Earlier
<1> QED BY <1>5, <1>6

\* The earliest one, and then the others.
LEMMA InTimeNext ==
  ASSUME NEW S, NEW e \in S, \A u \in S : u # e => Earlier(e, u), NEW n \in Nat \ {0},
         NEW rest, InTime(rest, S \ {e}, n - 1)
  PROVE  \E items : InTime(items, S, n)
<1> DEFINE items == [i \in 1..n |-> IF i = 1 THEN e ELSE rest[i - 1]]
<1>1. rest \in [1..(n - 1) -> S \ {e}]
  BY DEF InTime
<1>2. \A i \in 1..n : i # 1 => i - 1 \in 1..(n - 1) /\ items[i] = rest[i - 1]
  OBVIOUS
<1>3. n >= 1 /\ items[1] = e
  OBVIOUS
<1>4. \A i \in 1..n : items[i] \in S /\ (i # 1 => items[i] # e)
  BY <1>1, <1>2, <1>3
<1>5. items = [i \in 1..n |-> items[i]]
  OBVIOUS
<1> HIDE DEF items
<1>6. items \in [1..n -> S]
  BY <1>4, <1>5
<1>7. ASSUME NEW i \in 1..n, NEW j \in 1..n, i < j
      PROVE  items[i] # items[j] /\ Earlier(items[i], items[j])
  <2>1. j # 1 /\ j - 1 \in 1..(n - 1) /\ items[j] = rest[j - 1]
    BY <1>2, <1>7
  <2>2. CASE i = 1
    BY <1>3, <1>4, <1>7, <2>1, <2>2
  <2>3. CASE i # 1
    <3>1. i - 1 \in 1..(n - 1) /\ items[i] = rest[i - 1] /\ i - 1 < j - 1 /\ i - 1 # j - 1
      BY <1>2, <1>7, <2>3
    <3> QED BY <2>1, <3>1 DEF InTime
  <2> QED BY <2>2, <2>3
<1>8. \A i, j \in 1..n : i # j => items[i] # items[j]
  <2>1. \A i, j \in 1..n : i # j => i < j \/ j < i
    OBVIOUS
  <2> QED BY <1>7, <2>1
<1>9. InTime(items, S, n)
  BY <1>6, <1>7, <1>8 DEF InTime
<1> QED BY <1>9

LEMMA InTimeExists ==
  ASSUME NEW S, IsFiniteSet(S), S \subseteq Nat \X Nat
  PROVE  \E items : InTime(items, S, Cardinality(S))
<1> DEFINE bad == {n \in Nat : \E R \in SUBSET (Nat \X Nat) :
                     IsFiniteSet(R) /\ Cardinality(R) = n /\ ~\E items : InTime(items, R, n)}
<1>1. bad = {}
  <2> SUFFICES ASSUME bad # {} PROVE FALSE
    OBVIOUS
  <2>1. bad \in SUBSET Nat
    OBVIOUS
  <2>2. PICK n \in bad : \A m \in bad : n <= m
    <3> HIDE DEF bad
    <3> QED BY <2>1, Least
  <2>3. PICK R \in SUBSET (Nat \X Nat) :
          IsFiniteSet(R) /\ Cardinality(R) = n /\ ~\E items : InTime(items, R, n)
    BY <2>2
  <2>4. n \in Nat
    BY <2>2
  <2>5. CASE R = {}
    <3>1. n = 0
      BY <2>3, <2>5, FS_EmptySet
    <3>2. InTime(<<>>, R, 0)
      BY DEF InTime
    <3> QED BY <2>3, <3>1, <3>2
  <2>6. CASE R # {}
    <3>1. PICK e \in R : \A u \in R : u # e => Earlier(e, u)
      BY <2>6, Earliest
    <3>2. IsFiniteSet(R \ {e}) /\ Cardinality(R \ {e}) = n - 1
      BY <2>3, FS_RemoveElement
    <3>3. n \in Nat \ {0}
      BY <2>3, <2>4, <2>6, FS_EmptySet
    <3>4. n - 1 \in Nat /\ ~(n <= n - 1)
      BY <3>3
    <3>5. n - 1 \notin bad
      <4> HIDE DEF bad
      <4> QED BY <2>2, <3>4
    <3>6. PICK rest : InTime(rest, R \ {e}, n - 1)
      BY <3>2, <3>4, <3>5
    <3>7. \E items : InTime(items, R, n)
      BY <3>1, <3>3, <3>6, InTimeNext
    <3> QED BY <2>3, <3>7
  <2> QED BY <2>5, <2>6
<1>2. Cardinality(S) \in Nat
  BY FS_CardinalityType
<1> QED BY <1>1, <1>2

\* The inventory of an update index.
Inventory(items) ==
  /\ items \in Seq(Nat \X Nat)
  /\ \A m, n \in 1..Len(items) : m < n => items[m][2] <= items[n][2]

LEMMA UpdatesAre ==
  ASSUME CaptureConstants, updated \in [1..Shows -> Nat]
  PROVE  Inventory(T!Updates)
<1>1. T!There \subseteq 1..Shows /\ Shows \in Nat
  BY DEF T!There, CaptureConstants
<1>2. T!Items = {<<s, updated[s]>> : s \in T!There}
  BY DEF T!Items
<1>3. T!Items \subseteq Nat \X Nat
  BY <1>1, <1>2
<1>4. IsFiniteSet(T!Items)
  <2> DEFINE f == [s \in T!There |-> <<s, updated[s]>>]
  <2>1. f \in Surjection(T!There, T!Items)
    BY <1>2 DEF Surjection
  <2> HIDE DEF f
  <2> QED BY <2>1, ShowsFinite, FS_Surjection
<1>5. PICK n \in Nat : n = Cardinality(T!Items) /\ n = T!Cardinality(T!Items)
  BY <1>4, FS_CardinalityType, TvCardinalityIs
<1>6. PICK S : S = T!Items
  OBVIOUS
<1>7. \E items : InTime(items, S, n)
  BY <1>3, <1>4, <1>5, <1>6, InTimeExists
<1>8. T!SetToSeqs(S) = {f \in [1..n -> S] : \A i, j \in 1..n : i # j => f[i] # f[j]}
  BY <1>5, <1>6 DEF T!SetToSeqs
<1>9. \E items \in T!SetToSeqs(S) : \A i, j \in DOMAIN items : i < j => Earlier(items[i], items[j])
  BY <1>7, <1>8 DEF InTime
<1>10. T!Updates = CHOOSE items \in T!SetToSeqs(S) : \A i, j \in DOMAIN items : i < j => Earlier(items[i], items[j])
  BY <1>6 DEF T!Updates, Earlier
<1>11. PICK items : items = T!Updates
  OBVIOUS
<1>12. items \in T!SetToSeqs(S) /\ \A i, j \in DOMAIN items : i < j => Earlier(items[i], items[j])
  BY <1>9, <1>10, <1>11
<1>13. items \in [1..n -> S] /\ S \subseteq Nat \X Nat
  BY <1>3, <1>6, <1>8, <1>12
<1>14. items \in Seq(Nat \X Nat) /\ Len(items) = n /\ DOMAIN items = 1..n
  BY <1>13
<1>15. ASSUME NEW i \in 1..n, NEW j \in 1..n, i < j PROVE items[i][2] <= items[j][2]
  <2>1. Earlier(items[i], items[j]) /\ items[i] \in Nat \X Nat /\ items[j] \in Nat \X Nat
    BY <1>12, <1>13, <1>14, <1>15
  <2> QED BY <2>1 DEF Earlier
<1> QED BY <1>11, <1>14, <1>15 DEF Inventory

\* A window of an inventory: it begins where the ones before it end, and is full
\* unless the inventory ends in it.
IsWindow(plan) ==
  LET total == Len(plan.items)
  IN  /\ plan # <<>> /\ Inventory(plan.items)
      /\ plan.index \in Nat /\ plan.offset = plan.index * MaxUpdates /\ plan.offset \in Nat
      /\ plan.offset <= total /\ (plan.index # 0 => plan.offset < total)
      /\ plan.count = IF total - plan.offset < MaxUpdates THEN total - plan.offset ELSE MaxUpdates

LEMMA PlanIs ==
  ASSUME NEW items, NEW offset, NEW count, NEW index, NEW shards, NEW plan,
         plan = T!CaptureWindowPlan(items, offset, count, index, shards)
  PROVE  plan # <<>> /\ plan.items = items /\ plan.offset = offset /\ plan.count = count /\ plan.index = index
<1>1. plan.items = items /\ plan.offset = offset /\ plan.count = count /\ plan.index = index
  BY DEF T!CaptureWindowPlan
<1>2. plan # <<>>
  <2>1. "items" \in DOMAIN plan /\ DOMAIN <<>> = {}
    BY DEF T!CaptureWindowPlan
  <2> QED BY <2>1
<1> QED BY <1>1, <1>2

LEMMA WindowIs ==
  ASSUME CaptureConstants, NEW items, Inventory(items),
         NEW k \in 1..T!WindowCount(Len(items), MaxUpdates)
  PROVE  IsWindow(T!Windows(items, MaxUpdates)[k])
<1>1. PICK total \in Nat : total = Len(items)
  BY DEF Inventory
<1>2. MaxUpdates \in Nat \ {0}
  BY DEF CaptureConstants
<1>3. PICK windows \in Nat : windows = T!WindowCount(total, MaxUpdates) /\
        windows = IF total = 0 THEN 1 ELSE (total + MaxUpdates - 1) \div MaxUpdates
  <2>1. total + MaxUpdates - 1 \in Nat
    BY <1>2
  <2>2. (total + MaxUpdates - 1) \div MaxUpdates \in Nat
    BY <1>2, <2>1, DivisionIs
  <2> QED BY <2>2 DEF T!WindowCount
<1>4. k \in 1..windows /\ k - 1 \in Nat
  BY <1>1, <1>3
<1>5. PICK offset \in Nat : offset = (k - 1) * MaxUpdates
  BY <1>2, <1>4
<1>6. offset <= total /\ (k - 1 # 0 => offset < total)
  <2>1. CASE total = 0
    <3>1. k - 1 = 0
      BY <1>3, <1>4, <2>1
    <3>2. offset = 0
      BY <1>2, <1>5, <3>1
    <3> QED BY <2>1, <3>1, <3>2
  <2>2. CASE total # 0
    <3>1. total + MaxUpdates - 1 \in Nat /\ windows = (total + MaxUpdates - 1) \div MaxUpdates
      BY <1>2, <1>3, <2>2
    <3>2. windows * MaxUpdates <= total + MaxUpdates - 1
      BY <1>2, <3>1, DivisionIs
    <3>3. PICK d \in Nat : windows = k + d
      <4>1. windows - k \in Nat /\ windows = k + (windows - k)
        BY <1>4
      <4> QED BY <4>1
    <3>4. windows * MaxUpdates = offset + MaxUpdates + d * MaxUpdates /\ d * MaxUpdates \in Nat
      <4>1. k \in Nat
        BY <1>4
      <4> QED BY <1>2, <1>5, <3>3, <4>1
    <3>5. windows * MaxUpdates \in Nat
      BY <1>2
    <3> QED BY <1>2, <3>2, <3>4, <3>5
  <2> QED BY <2>1, <2>2
<1>7. PICK rest \in Nat : rest = IF total > offset THEN total - offset ELSE 0
  <2>1. total > offset => total - offset \in Nat
    OBVIOUS
  <2>2. (IF total > offset THEN total - offset ELSE 0) \in Nat
    BY <2>1
  <2> QED BY <2>2
<1>8. PICK count : count = IF rest < MaxUpdates THEN rest ELSE MaxUpdates
  OBVIOUS
<1>9. T!Windows(items, MaxUpdates)[k] = T!CaptureWindowPlan(items, offset, count, k - 1, windows)
  BY <1>1, <1>3, <1>4, <1>5, <1>7, <1>8 DEF T!Windows
<1>10. PICK plan : plan = T!Windows(items, MaxUpdates)[k]
  OBVIOUS
<1>11. plan # <<>> /\ plan.items = items /\ plan.offset = offset /\ plan.count = count /\ plan.index = k - 1
  BY <1>9, <1>10, PlanIs
<1>12. count = IF total - offset < MaxUpdates THEN total - offset ELSE MaxUpdates
  BY <1>2, <1>6, <1>7, <1>8
<1>13. IsWindow(plan)
  BY <1>1, <1>4, <1>5, <1>6, <1>11, <1>12 DEF IsWindow
<1> QED BY <1>10, <1>13

\* What a command selects is a window, whatever its cursor.
LEMMA SelectedIs ==
  ASSUME CaptureConstants, NEW items, Inventory(items), NEW cursor,
         NEW plan \in T!Selected(T!DeltaWindows(items), cursor)
  PROVE  IsWindow(plan)
<1>1. PICK plans : plans = T!Windows(items, MaxUpdates)
  OBVIOUS
<1>2. PICK windows : windows = T!WindowCount(Len(items), MaxUpdates)
  OBVIOUS
<1>3. plan \in T!Selected(plans, cursor)
  BY <1>1 DEF T!DeltaWindows
<1>4. DOMAIN plans = 1..windows
  BY <1>1, <1>2 DEF T!Windows
<1>5. PICK k \in 1..windows : plan = plans[k]
  <2>1. CASE cursor = T!NoCursor
    <3>1. plan = plans[1] /\ Len(plans) = 1
      BY <1>3, <2>1 DEF T!Selected
    <3>2. 1 \in 1..windows
      <4>1. Len(items) \in Nat /\ MaxUpdates \in Nat \ {0}
        BY DEF Inventory, CaptureConstants
      <4>2. PICK total \in Nat : total = Len(items)
        BY <4>1
      <4>3. total # 0 => (total + MaxUpdates - 1) \div MaxUpdates >= 1 /\ (total + MaxUpdates - 1) \div MaxUpdates \in Nat
        <5>1. MaxUpdates \div MaxUpdates = 1
          BY <4>1
        <5>2. total # 0 => MaxUpdates <= total + MaxUpdates - 1 /\ total + MaxUpdates - 1 \in Nat
          BY <4>1
        <5>3. total # 0 => MaxUpdates \div MaxUpdates <= (total + MaxUpdates - 1) \div MaxUpdates
          BY <4>1, <5>2, DivisionGrows
        <5>4. total # 0 => (total + MaxUpdates - 1) \div MaxUpdates \in Nat
          BY <4>1, <5>2, DivisionIs
        <5> QED BY <5>1, <5>3, <5>4
      <4>4. windows = IF total = 0 THEN 1 ELSE (total + MaxUpdates - 1) \div MaxUpdates
        BY <1>2, <4>2 DEF T!WindowCount
      <4> QED BY <4>3, <4>4
    <3> QED BY <3>1, <3>2
  <2>2. CASE cursor # T!NoCursor
    BY <1>3, <1>4, <2>2 DEF T!Selected
  <2> QED BY <2>1, <2>2
<1> QED BY <1>1, <1>2, <1>5, WindowIs

\* ----------------------------------------------------------- the TVmaze commands

ShowRecords == [item : Nat \X Nat, op : {"upsert", "delete"}]

\* Records of a window from its first update on.
Taken(recs, plan) ==
  /\ recs \in Seq(ShowRecords) /\ Len(recs) <= plan.count
  /\ \A n \in 1..Len(recs) : recs[n].item = plan.items[plan.offset + n]

CmdShape(c) ==
  c = [pc |-> c.pc, tries |-> c.tries, cursor |-> c.cursor, plan |-> c.plan,
       pages |-> c.pages, recs |-> c.recs, steady |-> c.steady]

\* A command that reads the show index has the shows that have been there all the time
\* and are on the pages before; one that reads a window has the first updates of it.
CmdOK(c, there) ==
  /\ c.pc = "page" =>
       /\ c.pages \in 0..MaxIndexPages /\ c.recs \in Seq(1..Shows) /\ c.steady \subseteq there
       /\ \A s \in c.steady : T!PageOf(s) < c.pages => s \in T!ToSet(c.recs)
  /\ c.pc \in {"batch", "records"} => c.steady \subseteq T!ToSet(c.recs)
  /\ c.pc = "updates" => c.recs = <<>>
  /\ c.pc = "show" => IsWindow(c.plan) /\ Taken(c.recs, c.plan)

FeedOK(f) ==
  \/ f.plan = <<>> /\ f.steady \subseteq T!ToSet(f.recs)
  \/ /\ IsWindow(f.plan) /\ Taken(f.recs, f.plan) /\ Len(f.recs) = f.plan.count
     /\ f.before = T!Before(f.plan) /\ f.after = T!After(f.plan)

TvmazeInv ==
  /\ updated \in [1..Shows -> Nat] /\ changes \in Nat
  /\ CmdShape(cmd) /\ CmdOK(cmd, T!There)
  /\ \A f \in feeds : FeedOK(f)

LEMMA TvmazeStarts == T!TvmazeInit => TvmazeInv
<1> SUFFICES ASSUME T!TvmazeInit PROVE TvmazeInv
  OBVIOUS
<1>1. updated \in [1..Shows -> Nat] /\ changes \in Nat /\ feeds = {}
  BY DEF T!TvmazeInit
<1>2. CmdShape(cmd) /\ CmdOK(cmd, T!There)
  BY DEF T!TvmazeInit, T!NoCommand, CmdShape, CmdOK
<1> QED BY <1>1, <1>2 DEF TvmazeInv

\* The command that runs goes on, and may publish.
LEMMA TvmazeMoves ==
  ASSUME TvmazeInv, NEW c, cmd' = c, UNCHANGED <<updated, changes>>, NEW new, feeds' = feeds \cup new,
         CmdShape(c), CmdOK(c, T!There), \A f \in new : FeedOK(f)
  PROVE  TvmazeInv'
<1>1. T!There' = T!There
  BY DEF T!There
<1> QED BY <1>1 DEF TvmazeInv

LEMMA TvmazeFails ==
  ASSUME TvmazeInv, T!CommandFails
  PROVE  TvmazeInv'
<1>1. CmdShape(T!NoCommand) /\ CmdOK(T!NoCommand, T!There)
  BY DEF T!NoCommand, CmdShape, CmdOK
<1>2. PICK c, new : c = T!NoCommand /\ new = {}
  OBVIOUS
<1>3. cmd' = c /\ feeds' = feeds \cup new /\ UNCHANGED <<updated, changes>>
  BY <1>2 DEF T!CommandFails
<1>4. CmdShape(c) /\ CmdOK(c, T!There) /\ \A f \in new : FeedOK(f)
  BY <1>1, <1>2
<1> QED BY <1>3, <1>4, TvmazeMoves

LEMMA TvmazeCalls ==
  ASSUME TvmazeInv, T!ApiFails \/ T!Dies
  PROVE  TvmazeInv'
<1>1. CASE T!CommandFails
  BY <1>1, TvmazeFails
<1>2. CASE cmd' = [cmd EXCEPT !.tries = cmd.tries + 1] /\ UNCHANGED <<updated, changes, ran, told, feeds>>
  <2>0. PICK c, new : c = [cmd EXCEPT !.tries = cmd.tries + 1] /\ new = {}
    OBVIOUS
  <2>1. /\ c.pc = cmd.pc /\ c.cursor = cmd.cursor /\ c.plan = cmd.plan /\ c.pages = cmd.pages
        /\ c.recs = cmd.recs /\ c.steady = cmd.steady /\ CmdShape(c)
    BY <2>0 DEF TvmazeInv, CmdShape
  <2>2. cmd' = c /\ feeds' = feeds \cup new /\ UNCHANGED <<updated, changes>>
    BY <1>2, <2>0
  <2>3. CmdOK(c, T!There)
    BY <2>1 DEF CmdOK, TvmazeInv
  <2>4. \A f \in new : FeedOK(f)
    BY <2>0
  <2> QED BY <2>1, <2>2, <2>3, <2>4, TvmazeMoves
<1> QED BY <1>1, <1>2 DEF T!ApiFails, T!Dies

LEMMA TvmazeChanges ==
  ASSUME TvmazeInv, CaptureConstants, T!ShowChange
  PROVE  TvmazeInv'
<1>1. changes' = changes + 1 /\ changes \in Nat /\ changes' \in Nat /\ UNCHANGED feeds
  <2>1. changes' = changes + 1 /\ UNCHANGED feeds
    BY DEF T!ShowChange
  <2>2. changes \in Nat
    BY DEF TvmazeInv
  <2> QED BY <2>1, <2>2
<1>2. PICK s \in 1..Shows :
        \/ updated' = [updated EXCEPT ![s] = 2 + changes'] /\ UNCHANGED cmd
        \/ updated' = [updated EXCEPT ![s] = 0] /\ cmd' = [cmd EXCEPT !.steady = cmd.steady \ {s}]
  BY DEF T!ShowChange
<1>3. updated \in [1..Shows -> Nat]
  BY DEF TvmazeInv
<1>4. CASE updated' = [updated EXCEPT ![s] = 2 + changes'] /\ UNCHANGED cmd
  <2>1. updated' \in [1..Shows -> Nat]
    BY <1>1, <1>3, <1>4
  <2>2. T!There \subseteq T!There'
    BY <1>1, <1>3, <1>4 DEF T!There
  <2>3. CmdOK(cmd, T!There')
    BY <2>2 DEF CmdOK, TvmazeInv
  <2> QED BY <1>1, <1>4, <2>1, <2>3 DEF TvmazeInv
<1>5. CASE updated' = [updated EXCEPT ![s] = 0] /\ cmd' = [cmd EXCEPT !.steady = cmd.steady \ {s}]
  <2>1. updated' \in [1..Shows -> Nat]
    BY <1>1, <1>3, <1>5
  <2>2. T!There \ {s} \subseteq T!There'
    BY <1>3, <1>5 DEF T!There
  <2> PICK c : c = [cmd EXCEPT !.steady = cmd.steady \ {s}]
    OBVIOUS
  <2>0. CmdShape(cmd)
    BY DEF TvmazeInv
  <2>3. /\ c.pc = cmd.pc /\ c.cursor = cmd.cursor /\ c.plan = cmd.plan /\ c.pages = cmd.pages
        /\ c.recs = cmd.recs /\ c.steady = cmd.steady \ {s} /\ CmdShape(c)
    BY <2>0 DEF CmdShape
  <2>4. cmd' = c
    BY <1>5
  <2>5. CmdOK(c, T!There')
    BY <2>2, <2>3 DEF CmdOK, TvmazeInv
  <2> QED BY <1>1, <2>1, <2>3, <2>4, <2>5 DEF TvmazeInv
<1> QED BY <1>2, <1>4, <1>5

LEMMA TvmazeStartsSnapshot ==
  ASSUME TvmazeInv, CaptureConstants, T!StartSnapshot
  PROVE  TvmazeInv'
<1>1. PICK c, new : c = [T!NoCommand EXCEPT !.pc = "page", !.steady = T!There] /\ new = {}
  OBVIOUS
<1>2. cmd' = c /\ feeds' = feeds \cup new /\ UNCHANGED <<updated, changes>>
  BY <1>1 DEF T!StartSnapshot, T!Starts
<1>3. /\ c.pc = "page" /\ c.pages = 0 /\ c.recs = <<>> /\ c.steady = T!There /\ CmdShape(c)
  BY <1>1 DEF T!NoCommand, CmdShape
<1>4. \A s \in c.steady : ~(T!PageOf(s) < c.pages)
  <2>1. \A s \in T!There : T!PageOf(s) \in Nat
    BY LastPageIs
  <2> QED BY <1>3, <2>1
<1>5. CmdOK(c, T!There)
  <2>1. 0 \in 0..MaxIndexPages
    BY DEF CaptureConstants
  <2> QED BY <1>3, <1>4, <2>1 DEF CmdOK
<1>6. \A f \in new : FeedOK(f)
  BY <1>1
<1> QED BY <1>2, <1>3, <1>5, <1>6, TvmazeMoves

LEMMA TvmazeStartsDelta ==
  ASSUME TvmazeInv, T!StartDelta
  PROVE  TvmazeInv'
<1>1. PICK cursor : T!Starts([T!NoCommand EXCEPT !.pc = "updates", !.cursor = cursor])
  BY DEF T!StartDelta
<1>2. PICK c, new : c = [T!NoCommand EXCEPT !.pc = "updates", !.cursor = cursor] /\ new = {}
  OBVIOUS
<1>3. cmd' = c /\ feeds' = feeds \cup new /\ UNCHANGED <<updated, changes>>
  BY <1>1, <1>2 DEF T!Starts
<1>4. c.pc = "updates" /\ c.recs = <<>> /\ CmdShape(c)
  BY <1>2 DEF T!NoCommand, CmdShape
<1>5. CmdOK(c, T!There)
  BY <1>4 DEF CmdOK
<1>6. \A f \in new : FeedOK(f)
  BY <1>2
<1> QED BY <1>3, <1>4, <1>5, <1>6, TvmazeMoves

\* The shows of a page of the index.
LEMMA OnIndexPageIs ==
  ASSUME CaptureConstants, NEW page
  PROVE  /\ T!OnIndexPage(page) \in Seq(1..Shows)
         /\ T!ToSet(T!OnIndexPage(page)) = {s \in T!There : T!PageOf(s) = page}
<1>1. PICK S : S = {s \in T!There : T!PageOf(s) = page}
  OBVIOUS
<1>2. IsFiniteSet(S) /\ S \subseteq 1..Shows
  BY <1>1, ShowsFinite DEF T!There
<1>3. PICK shows : shows = T!SetToSeq(S)
  OBVIOUS
<1>4. shows \in Seq(S) /\ T!ToSet(shows) = S
  BY <1>2, <1>3, SequenceOfSet
<1>5. shows \in Seq(1..Shows)
  BY <1>2, <1>4
<1> QED BY <1>1, <1>3, <1>4, <1>5 DEF T!OnIndexPage

LEMMA MembersOfBoth ==
  ASSUME NEW S, NEW s \in Seq(S), NEW t \in Seq(S)
  PROVE  s \o t \in Seq(S) /\ T!ToSet(s \o t) = T!ToSet(s) \cup T!ToSet(t)
<1>1. PICK m \in Nat, n \in Nat : m = Len(s) /\ n = Len(t)
  OBVIOUS
<1>2. /\ s \o t \in Seq(S) /\ Len(s \o t) = m + n
      /\ \A i \in 1..m : (s \o t)[i] = s[i]
      /\ \A i \in 1..n : (s \o t)[m + i] = t[i]
  BY <1>1
<1>3. DOMAIN s = 1..m /\ DOMAIN t = 1..n /\ DOMAIN (s \o t) = 1..(m + n)
  BY <1>1, <1>2
<1>4. PICK both : both = s \o t
  OBVIOUS
<1>5. ASSUME NEW i \in 1..(m + n) PROVE both[i] \in T!ToSet(s) \cup T!ToSet(t)
  <2>1. CASE i <= m
    <3>1. i \in 1..m
      BY <2>1
    <3>2. both[i] = s[i]
      BY <1>2, <1>4, <3>1
    <3> QED BY <1>3, <3>1, <3>2 DEF T!ToSet
  <2>2. CASE ~(i <= m)
    <3>1. i - m \in 1..n /\ i = m + (i - m)
      BY <2>2
    <3>2. both[i] = t[i - m]
      BY <1>2, <1>4, <3>1
    <3> QED BY <1>3, <3>1, <3>2 DEF T!ToSet
  <2> QED BY <2>1, <2>2
<1>6. \A i \in 1..m : i \in 1..(m + n) /\ both[i] = s[i]
  BY <1>2, <1>4
<1>7. \A i \in 1..n : m + i \in 1..(m + n) /\ both[m + i] = t[i]
  BY <1>2, <1>4
<1>8. T!ToSet(both) = T!ToSet(s) \cup T!ToSet(t)
  <2>1. T!ToSet(both) = {both[i] : i \in 1..(m + n)}
    BY <1>3, <1>4 DEF T!ToSet
  <2>2. T!ToSet(s) = {s[i] : i \in 1..m} /\ T!ToSet(t) = {t[i] : i \in 1..n}
    BY <1>3 DEF T!ToSet
  <2>3. T!ToSet(both) \subseteq T!ToSet(s) \cup T!ToSet(t)
    BY <1>5, <2>1
  <2>4. T!ToSet(s) \subseteq T!ToSet(both)
    BY <1>6, <2>1, <2>2
  <2>5. T!ToSet(t) \subseteq T!ToSet(both)
    BY <1>7, <2>1, <2>2
  <2> QED BY <2>3, <2>4, <2>5
<1> QED BY <1>2, <1>4, <1>8

LEMMA TvmazeFetchesIndexPage ==
  ASSUME TvmazeInv, CaptureConstants, T!FetchIndexPage
  PROVE  TvmazeInv'
<1>1. /\ cmd.pc = "page" /\ cmd.pages \in 0..MaxIndexPages /\ cmd.recs \in Seq(1..Shows)
      /\ cmd.steady \subseteq T!There /\ CmdShape(cmd)
      /\ \A s \in cmd.steady : T!PageOf(s) < cmd.pages => s \in T!ToSet(cmd.recs)
  BY DEF TvmazeInv, CmdOK, T!FetchIndexPage
<1>2. MaxIndexPages \in Nat
  BY DEF CaptureConstants
<1>3. \A s \in T!There : T!PageOf(s) \in Nat /\ T!LastPage \in Nat /\ T!PageOf(s) <= T!LastPage
  BY LastPageIs
<1>4. CASE /\ cmd.pages <= T!LastPage /\ cmd.pages < MaxIndexPages
           /\ cmd' = [cmd EXCEPT !.pages = cmd.pages + 1, !.tries = 1,
                                 !.recs = cmd.recs \o T!OnIndexPage(cmd.pages)]
           /\ UNCHANGED <<updated, changes, ran, told, feeds>>
  <2>1. PICK shows : shows = T!OnIndexPage(cmd.pages)
    OBVIOUS
  <2>2. shows \in Seq(1..Shows) /\ T!ToSet(shows) = {s \in T!There : T!PageOf(s) = cmd.pages}
    BY <2>1, OnIndexPageIs
  <2>3. PICK recs : recs = cmd.recs \o shows
    OBVIOUS
  <2>4. recs \in Seq(1..Shows) /\ T!ToSet(recs) = T!ToSet(cmd.recs) \cup T!ToSet(shows)
    BY <1>1, <2>2, <2>3, MembersOfBoth
  <2>5. PICK c, new : c = [cmd EXCEPT !.pages = cmd.pages + 1, !.tries = 1, !.recs = recs] /\ new = {}
    OBVIOUS
  <2>6. cmd' = c /\ feeds' = feeds \cup new /\ UNCHANGED <<updated, changes>>
    BY <1>4, <2>1, <2>3, <2>5
  <2>7. c.pc = "page" /\ c.pages = cmd.pages + 1 /\ c.recs = recs /\ c.steady = cmd.steady /\ CmdShape(c)
    BY <1>1, <2>5 DEF CmdShape
  <2>8. c.pages \in 0..MaxIndexPages
    <3>1. cmd.pages \in 0..MaxIndexPages
      BY <1>1
    <3>2. cmd.pages < MaxIndexPages
      BY <1>4
    <3>3. c.pages = cmd.pages + 1
      BY <2>7
    <3> QED BY <1>2, <3>1, <3>2, <3>3
  <2>9. ASSUME NEW s \in cmd.steady, T!PageOf(s) < cmd.pages + 1 PROVE s \in T!ToSet(recs)
    <3>1. T!PageOf(s) \in Nat /\ cmd.pages \in Nat /\ s \in T!There
      BY <1>1, <1>2, <1>3
    <3>2. T!PageOf(s) < cmd.pages \/ T!PageOf(s) = cmd.pages
      BY <2>9, <3>1
    <3> QED BY <1>1, <2>2, <2>4, <3>1, <3>2
  <2>10. CmdOK(c, T!There)
    BY <1>1, <2>4, <2>7, <2>8, <2>9 DEF CmdOK
  <2>11. \A f \in new : FeedOK(f)
    BY <2>5
  <2> QED BY <2>6, <2>7, <2>10, <2>11, TvmazeMoves
<1>5. CASE T!CommandFails
  BY <1>5, TvmazeFails
<1>6. CASE /\ ~(cmd.pages <= T!LastPage /\ cmd.pages < MaxIndexPages) /\ cmd.pages # MaxIndexPages
           /\ cmd' = [cmd EXCEPT !.pc = "batch", !.tries = 1]
           /\ UNCHANGED <<updated, changes, ran, told, feeds>>
  <2>1. PICK c, new : c = [cmd EXCEPT !.pc = "batch", !.tries = 1] /\ new = {}
    OBVIOUS
  <2>2. cmd' = c /\ feeds' = feeds \cup new /\ UNCHANGED <<updated, changes>>
    BY <1>6, <2>1
  <2>3. c.pc = "batch" /\ c.recs = cmd.recs /\ c.steady = cmd.steady /\ CmdShape(c)
    BY <1>1, <2>1 DEF CmdShape
  <2>4. ~(cmd.pages <= T!LastPage)
    BY <1>1, <1>2, <1>6
  <2>5. ASSUME NEW s \in cmd.steady PROVE s \in T!ToSet(cmd.recs)
    <3>1. T!PageOf(s) \in Nat /\ T!LastPage \in Nat /\ T!PageOf(s) <= T!LastPage /\ cmd.pages \in Nat
      BY <1>1, <1>2, <1>3
    <3>2. T!PageOf(s) < cmd.pages
      BY <2>4, <3>1
    <3> QED BY <1>1, <3>2
  <2>6. CmdOK(c, T!There)
    BY <2>3, <2>5 DEF CmdOK
  <2>7. \A f \in new : FeedOK(f)
    BY <2>1
  <2> QED BY <2>2, <2>3, <2>6, <2>7, TvmazeMoves
<1> QED BY <1>4, <1>5, <1>6 DEF T!FetchIndexPage

LEMMA TvmazePublishesSnapshot ==
  ASSUME TvmazeInv, T!PublishShowBatch \/ T!PublishShowRecords
  PROVE  TvmazeInv'
<1>1. CASE T!PublishShowBatch
  <2>1. PICK c, new : c = [cmd EXCEPT !.pc = "records"] /\ new = {}
    OBVIOUS
  <2>2. cmd' = c /\ feeds' = feeds \cup new /\ UNCHANGED <<updated, changes>> /\ cmd.pc = "batch"
    BY <1>1, <2>1 DEF T!PublishShowBatch
  <2>3. CmdShape(cmd) /\ CmdOK(cmd, T!There)
    BY DEF TvmazeInv
  <2>4. c.pc = "records" /\ c.recs = cmd.recs /\ c.steady = cmd.steady /\ CmdShape(c)
    BY <2>1, <2>3 DEF CmdShape
  <2>5. CmdOK(c, T!There)
    BY <2>2, <2>3, <2>4 DEF CmdOK
  <2>6. \A f \in new : FeedOK(f)
    BY <2>1
  <2> QED BY <2>2, <2>4, <2>5, <2>6, TvmazeMoves
<1>2. CASE T!CommandFails
  BY <1>2, TvmazeFails
<1>3. CASE /\ cmd.pc = "records" /\ cmd' = T!NoCommand /\ UNCHANGED <<updated, changes>>
           /\ feeds' = feeds \cup {[plan |-> <<>>, recs |-> cmd.recs, steady |-> cmd.steady]}
  <2>1. PICK c, f, new : /\ c = T!NoCommand /\ new = {f}
                         /\ f = [plan |-> <<>>, recs |-> cmd.recs, steady |-> cmd.steady]
    OBVIOUS
  <2>2. cmd' = c /\ feeds' = feeds \cup new /\ UNCHANGED <<updated, changes>>
    BY <1>3, <2>1
  <2>3. CmdShape(c) /\ CmdOK(c, T!There)
    BY <2>1 DEF T!NoCommand, CmdShape, CmdOK
  <2>4. f.plan = <<>> /\ f.recs = cmd.recs /\ f.steady = cmd.steady
    BY <2>1
  <2>5. cmd.steady \subseteq T!ToSet(cmd.recs)
    BY <1>3 DEF TvmazeInv, CmdOK
  <2>6. \A g \in new : FeedOK(g)
    BY <2>1, <2>4, <2>5 DEF FeedOK
  <2> QED BY <2>2, <2>3, <2>6, TvmazeMoves
<1> QED BY <1>1, <1>2, <1>3 DEF T!PublishShowRecords

\* How much of its inventory a window has.
LEMMA CountIs ==
  ASSUME CaptureConstants, NEW plan, IsWindow(plan)
  PROVE  plan.offset \in Nat /\ plan.count \in Nat /\ plan.offset + plan.count <= Len(plan.items)
<1>1. PICK total \in Nat, offset \in Nat, max \in Nat :
        total = Len(plan.items) /\ offset = plan.offset /\ max = MaxUpdates
  BY DEF IsWindow, Inventory, CaptureConstants
<1>2. offset <= total /\ plan.count = IF total - offset < max THEN total - offset ELSE max
  BY <1>1 DEF IsWindow
<1>3. total - offset \in Nat
  BY <1>2
<1>4. CASE total - offset < max
  BY <1>1, <1>2, <1>3, <1>4
<1>5. CASE ~(total - offset < max)
  BY <1>1, <1>2, <1>3, <1>5
<1> QED BY <1>4, <1>5

\* The record of the next update of a window.
LEMMA TakesNext ==
  ASSUME CaptureConstants, NEW plan, IsWindow(plan), NEW recs, Taken(recs, plan), Len(recs) # plan.count,
         NEW item, item = plan.items[plan.offset + Len(recs) + 1], NEW op, op \in {"upsert", "delete"},
         NEW all, all = Append(recs, [item |-> item, op |-> op])
  PROVE  Taken(all, plan)
<1>1. PICK items : items = plan.items
  OBVIOUS
<1>2. /\ plan.offset \in Nat /\ plan.count \in Nat /\ plan.offset + plan.count <= Len(items)
       /\ items \in Seq(Nat \X Nat) /\ Len(items) \in Nat
  <2>1. items \in Seq(Nat \X Nat)
    BY <1>1 DEF IsWindow, Inventory
  <2> QED BY <1>1, <2>1, CountIs
<1>3. PICK total \in Nat, offset \in Nat, count \in Nat, length \in Nat :
        /\ total = Len(items) /\ offset = plan.offset /\ count = plan.count /\ length = Len(recs)
        /\ items = plan.items
  <2>1. Len(recs) \in Nat
    BY DEF Taken
  <2> QED BY <1>1, <1>2, <2>1
<1>4. offset + count <= total /\ length < count
  BY <1>2, <1>3 DEF Taken
<1>5. items \in Seq(Nat \X Nat) /\ offset + length + 1 \in 1..Len(items)
  <2>1. offset + length + 1 \in 1..total
    BY <1>4
  <2> QED BY <1>2, <1>3, <2>1
<1>6. item \in Nat \X Nat
  <2>1. PICK n \in 1..Len(items) : n = offset + length + 1
    BY <1>5
  <2>2. items[n] \in Nat \X Nat
    BY <1>5
  <2>3. item = items[n]
    BY <1>1, <1>3, <2>1
  <2> QED BY <2>2, <2>3
<1>7. PICK record \in ShowRecords : record = [item |-> item, op |-> op]
  BY <1>6 DEF ShowRecords
<1>8. recs \in Seq(ShowRecords)
  BY DEF Taken
<1>9. /\ all \in Seq(ShowRecords) /\ Len(all) = length + 1
      /\ \A n \in 1..length : all[n] = recs[n]
      /\ all[length + 1] = record
  BY <1>3, <1>7, <1>8
<1>10. ASSUME NEW n \in 1..(length + 1) PROVE all[n].item = items[offset + n]
  <2>1. CASE n \in 1..length
    BY <1>3, <1>9, <2>1 DEF Taken
  <2>2. CASE n \notin 1..length
    <3>1. n = length + 1
      BY <2>2
    <3>2. offset + n = offset + length + 1
      BY <3>1
    <3> QED BY <1>3, <1>7, <1>9, <3>1, <3>2
  <2> QED BY <2>1, <2>2
<1>11. length + 1 <= count
  BY <1>4
<1> QED BY <1>3, <1>9, <1>10, <1>11 DEF Taken

LEMMA TvmazeFetchesUpdates ==
  ASSUME TvmazeInv, CaptureConstants, T!FetchUpdates
  PROVE  TvmazeInv'
<1>1. PICK mine : mine = T!Selected(T!DeltaWindows(T!Updates), cmd.cursor)
  OBVIOUS
<1>2. cmd.pc = "updates" /\ cmd.recs = <<>> /\ CmdShape(cmd) /\ updated \in [1..Shows -> Nat]
  BY DEF TvmazeInv, CmdOK, T!FetchUpdates
<1>3. PICK items : items = T!Updates
  OBVIOUS
<1>4. Inventory(items)
  BY <1>2, <1>3, UpdatesAre
<1>5. CASE mine # {} /\ UNCHANGED <<updated, changes, ran, told, feeds>>
           /\ cmd' = [cmd EXCEPT !.pc = "show", !.tries = 1, !.cursor = T!NoCursor,
                                 !.plan = CHOOSE p \in mine : TRUE]
  <2>1. PICK plan : plan = CHOOSE p \in mine : TRUE
    OBVIOUS
  <2>2. plan \in mine
    BY <1>5, <2>1
  <2>3. IsWindow(plan)
    <3>1. plan \in T!Selected(T!DeltaWindows(items), cmd.cursor)
      BY <1>1, <1>3, <2>2
    <3> QED BY <1>4, <3>1, SelectedIs
  <2>4. PICK c, new : /\ c = [cmd EXCEPT !.pc = "show", !.tries = 1, !.cursor = T!NoCursor, !.plan = plan]
                      /\ new = {}
    OBVIOUS
  <2>5. cmd' = c /\ feeds' = feeds \cup new /\ UNCHANGED <<updated, changes>>
    BY <1>5, <2>1, <2>4
  <2>6. c.pc = "show" /\ c.recs = <<>> /\ c.plan = plan /\ CmdShape(c)
    BY <1>2, <2>4 DEF CmdShape
  <2>7. Taken(<<>>, plan)
    <3>1. plan.count \in Nat
      BY <2>3, CountIs
    <3>2. Len(<<>>) = 0 /\ <<>> \in Seq(ShowRecords)
      OBVIOUS
    <3> QED BY <3>1, <3>2 DEF Taken
  <2>8. CmdOK(c, T!There)
    BY <2>3, <2>6, <2>7 DEF CmdOK
  <2>9. \A f \in new : FeedOK(f)
    BY <2>4
  <2> QED BY <2>5, <2>6, <2>8, <2>9, TvmazeMoves
<1>6. CASE cmd' = T!NoCommand /\ UNCHANGED <<updated, changes, feeds>>
  <2>1. PICK c, new : c = T!NoCommand /\ new = {}
    OBVIOUS
  <2>2. cmd' = c /\ feeds' = feeds \cup new /\ UNCHANGED <<updated, changes>>
    BY <1>6, <2>1
  <2>3. CmdShape(c) /\ CmdOK(c, T!There)
    BY <2>1 DEF T!NoCommand, CmdShape, CmdOK
  <2>4. \A f \in new : FeedOK(f)
    BY <2>1
  <2> QED BY <2>2, <2>3, <2>4, TvmazeMoves
<1>7. CASE mine # {}
  BY <1>1, <1>5, <1>7 DEF T!FetchUpdates
<1>8. CASE mine = {}
  BY <1>1, <1>6, <1>8 DEF T!FetchUpdates
<1> QED BY <1>7, <1>8

LEMMA TvmazeFetchesShow ==
  ASSUME TvmazeInv, CaptureConstants, T!FetchShow
  PROVE  TvmazeInv'
<1>1. /\ cmd.pc = "show" /\ Len(cmd.recs) # cmd.plan.count /\ CmdShape(cmd)
      /\ IsWindow(cmd.plan) /\ Taken(cmd.recs, cmd.plan)
  BY DEF TvmazeInv, CmdOK, T!FetchShow, T!Fetched
<1>2. PICK plan, recs : plan = cmd.plan /\ recs = cmd.recs
  OBVIOUS
<1>3. IsWindow(plan) /\ Taken(recs, plan) /\ Len(recs) # plan.count
  BY <1>1, <1>2
<1>4. PICK item : item = plan.items[plan.offset + Len(recs) + 1]
  OBVIOUS
<1>5. PICK record : record = [item |-> item, op |-> IF item[1] \in T!There THEN "upsert" ELSE "delete"]
  OBVIOUS
<1>6. cmd' = [cmd EXCEPT !.tries = 1, !.recs = Append(recs, record)] /\ UNCHANGED <<updated, changes, feeds>>
  BY <1>2, <1>4, <1>5 DEF T!FetchShow
<1>7. PICK all : all = Append(recs, record)
  OBVIOUS
<1>8. Taken(all, plan)
  BY <1>3, <1>4, <1>5, <1>7, TakesNext
<1>9. PICK c, new : c = [cmd EXCEPT !.tries = 1, !.recs = all] /\ new = {}
  OBVIOUS
<1>10. cmd' = c /\ feeds' = feeds \cup new /\ UNCHANGED <<updated, changes>>
  BY <1>6, <1>7, <1>9
<1>11. c.pc = "show" /\ c.recs = all /\ c.plan = plan /\ CmdShape(c)
  BY <1>1, <1>2, <1>9 DEF CmdShape
<1>12. CmdOK(c, T!There)
  BY <1>3, <1>8, <1>11 DEF CmdOK
<1>13. \A f \in new : FeedOK(f)
  BY <1>9
<1> QED BY <1>10, <1>11, <1>12, <1>13, TvmazeMoves

LEMMA TvmazePublishesDelta ==
  ASSUME TvmazeInv, T!PublishDelta
  PROVE  TvmazeInv'
<1>1. PICK c, f, new : /\ c = T!NoCommand /\ new = {f}
                       /\ f = [plan |-> cmd.plan, recs |-> cmd.recs,
                               before |-> T!Before(cmd.plan), after |-> T!After(cmd.plan)]
  OBVIOUS
<1>2. cmd' = c /\ feeds' = feeds \cup new /\ UNCHANGED <<updated, changes>>
  BY <1>1 DEF T!PublishDelta
<1>3. CmdShape(c) /\ CmdOK(c, T!There)
  BY <1>1 DEF T!NoCommand, CmdShape, CmdOK
<1>4. IsWindow(cmd.plan) /\ Taken(cmd.recs, cmd.plan) /\ Len(cmd.recs) = cmd.plan.count
  BY DEF T!PublishDelta, T!Fetched, TvmazeInv, CmdOK
<1>5. f.plan = cmd.plan /\ f.recs = cmd.recs /\ f.before = T!Before(cmd.plan) /\ f.after = T!After(cmd.plan)
  BY <1>1
<1>6. FeedOK(f)
  BY <1>4, <1>5 DEF FeedOK
<1> QED BY <1>1, <1>2, <1>3, <1>6, TvmazeMoves

LEMMA TvmazeNext ==
  ASSUME TvmazeInv, CaptureConstants, [T!TvmazeNext]_tvmaze
  PROVE  TvmazeInv'
<1>1. CASE T!ShowChange
  BY <1>1, TvmazeChanges
<1>2. CASE T!ApiFails \/ T!Dies
  BY <1>2, TvmazeCalls
<1>3. CASE T!StartSnapshot
  BY <1>3, TvmazeStartsSnapshot
<1>4. CASE T!StartDelta
  BY <1>4, TvmazeStartsDelta
<1>5. CASE T!FetchIndexPage
  BY <1>5, TvmazeFetchesIndexPage
<1>6. CASE T!PublishShowBatch \/ T!PublishShowRecords
  BY <1>6, TvmazePublishesSnapshot
<1>7. CASE T!FetchUpdates
  BY <1>7, TvmazeFetchesUpdates
<1>8. CASE T!FetchShow
  BY <1>8, TvmazeFetchesShow
<1>9. CASE T!PublishDelta
  BY <1>9, TvmazePublishesDelta
<1>10. CASE UNCHANGED tvmaze
  <2>1. T!There' = T!There /\ UNCHANGED <<updated, changes, cmd, feeds>>
    BY <1>10 DEF T!There, tvmaze
  <2> QED BY <2>1 DEF TvmazeInv
<1> QED BY <1>1, <1>2, <1>3, <1>4, <1>5, <1>6, <1>7, <1>8, <1>9, <1>10 DEF T!TvmazeNext, T!Running

\* No show that was there all the time is missing.
LEMMA SnapshotsWhole == TvmazeInv => T!SnapshotIsWhole
<1> SUFFICES ASSUME TvmazeInv, NEW f \in T!Snapshots PROVE f.steady \subseteq T!ToSet(f.recs)
  BY DEF T!SnapshotIsWhole
<1>1. f \in feeds /\ f.plan = <<>>
  BY DEF T!Snapshots
<1>2. FeedOK(f)
  BY <1>1 DEF TvmazeInv
<1> QED BY <1>1, <1>2 DEF FeedOK, IsWindow

\* The watermarks of a window.
LEMMA MarksAround ==
  ASSUME NEW plan, IsWindow(plan), CaptureConstants, NEW n \in 1..plan.count
  PROVE  plan.items[plan.offset + n][2] \in T!Before(plan)..T!After(plan)
<1>1. /\ plan.offset \in Nat /\ plan.count \in Nat /\ plan.offset + plan.count <= Len(plan.items)
      /\ Inventory(plan.items)
  BY CountIs DEF IsWindow
<1>2. PICK items, offset, count :
        items = plan.items /\ offset = plan.offset /\ count = plan.count
  OBVIOUS
<1>3. Inventory(items) /\ offset \in Nat /\ count \in Nat /\ offset + count <= Len(items) /\ Len(items) \in Nat
  BY <1>1, <1>2 DEF Inventory
<1>4. n \in 1..count /\ count > 0 /\ n \in Nat
  BY <1>2, <1>3
<1>5. \A k \in 1..Len(items) : items[k] \in Nat \X Nat /\ items[k][2] \in Nat
  BY <1>3 DEF Inventory
<1>6. offset + n \in 1..Len(items) /\ offset + count \in 1..Len(items) /\ offset + n <= offset + count
  BY <1>3, <1>4
<1>7. PICK at \in Nat, last \in Nat : at = items[offset + n][2] /\ last = items[offset + count][2]
  BY <1>5, <1>6
<1>8. at <= last
  <2>1. CASE offset + n = offset + count
    BY <1>7, <2>1
  <2>2. CASE offset + n # offset + count
    <3>1. offset + n < offset + count
      BY <1>6, <2>2
    <3> QED BY <1>3, <1>6, <1>7, <3>1 DEF Inventory
  <2> QED BY <2>1, <2>2
<1>9. T!After(plan) = last
  BY <1>2, <1>4, <1>7 DEF T!After
<1>10. T!Before(plan) \in Nat /\ T!Before(plan) <= at
  <2>1. CASE offset > 0
    <3>1. offset \in 1..Len(items) /\ offset < offset + n
      BY <1>3, <1>4, <2>1
    <3>2. items[offset][2] \in Nat /\ items[offset][2] <= at
      BY <1>3, <1>5, <1>6, <1>7, <3>1 DEF Inventory
    <3> QED BY <1>2, <2>1, <3>2 DEF T!Before
  <2>2. CASE ~(offset > 0)
    BY <1>2, <1>7, <2>2 DEF T!Before
  <2> QED BY <2>1, <2>2
<1> QED BY <1>2, <1>7, <1>8, <1>9, <1>10

\* The window after a window goes on from its last watermark.
LEMMA MarksMeet ==
  ASSUME CaptureConstants, NEW plan, NEW next, IsWindow(plan), IsWindow(next),
         next.items = plan.items, next.index = plan.index + 1
  PROVE  T!Before(next) = T!After(plan)
<1>1. PICK offset \in Nat, index \in Nat, total \in Nat :
        offset = plan.offset /\ index = plan.index /\ total = Len(plan.items)
  BY DEF IsWindow, Inventory
<1>2. PICK max \in Nat \ {0} : max = MaxUpdates
  BY DEF CaptureConstants
<1>3. offset = index * max /\ next.index = index + 1 /\ index + 1 # 0
  BY <1>1, <1>2 DEF IsWindow
<1>4. next.offset = (index + 1) * max /\ next.offset < total
  BY <1>1, <1>2, <1>3 DEF IsWindow
<1>5. (index + 1) * max = offset + max
  BY <1>3
<1>6. next.offset = offset + max /\ offset + max < total /\ offset + max > 0
  BY <1>2, <1>4, <1>5
<1>7. plan.count = max
  BY <1>1, <1>2, <1>6 DEF IsWindow
<1>8. T!Before(next) = plan.items[offset + max][2]
  BY <1>6 DEF T!Before
<1>9. T!After(plan) = plan.items[offset + max][2]
  BY <1>1, <1>2, <1>7 DEF T!After
<1> QED BY <1>8, <1>9

\* A part of a sequence.
LEMMA PartIs ==
  ASSUME NEW V, NEW s \in Seq(V), NEW from \in Nat, NEW last \in Nat, last <= Len(s),
         NEW part, part = SubSeq(s, from + 1, last)
  PROVE  /\ part \in Seq(V) /\ Len(part) = IF from + 1 <= last THEN last - from ELSE 0
         /\ \A i \in 1..Len(part) : part[i] = s[from + i]
  OBVIOUS

\* The records of a window are its updates.
LEMMA RecordsAreTheSlice ==
  ASSUME NEW plan, NEW recs, IsWindow(plan), CaptureConstants, Taken(recs, plan), Len(recs) = plan.count
  PROVE  [n \in DOMAIN recs |-> recs[n].item] = T!Slice(plan)
<1>1. plan.offset \in Nat /\ plan.count \in Nat /\ plan.offset + plan.count <= Len(plan.items)
  BY CountIs
<1>2. PICK items, offset, count :
        items = plan.items /\ offset = plan.offset /\ count = plan.count
  OBVIOUS
<1>3. items \in Seq(Nat \X Nat) /\ offset \in Nat /\ count \in Nat
  BY <1>1, <1>2 DEF IsWindow, Inventory
<1>4. DOMAIN recs = 1..count
  BY <1>2 DEF Taken
<1>5. PICK slice : slice = SubSeq(items, offset + 1, offset + count)
  OBVIOUS
<1>6. slice = [n \in 1..count |-> items[offset + n]]
  <2>1. offset + 1 \in Nat /\ offset + count \in Nat /\ offset + count <= Len(items) /\ Len(items) \in Nat
    BY <1>1, <1>2, <1>3
  <2>2. PICK from \in Nat, last \in Nat : from = offset /\ last = offset + count
    BY <1>3, <2>1
  <2>3. /\ slice \in Seq(Nat \X Nat) /\ Len(slice) = IF from + 1 <= last THEN last - from ELSE 0
        /\ \A n \in 1..Len(slice) : slice[n] = items[from + n]
    BY <1>3, <1>5, <2>1, <2>2, PartIs
  <2>4. Len(slice) = count
    BY <1>3, <2>2, <2>3
  <2>5. \A n \in 1..count : slice[n] = items[offset + n]
    BY <2>2, <2>3, <2>4
  <2>6. DOMAIN slice = 1..count /\ slice = [n \in DOMAIN slice |-> slice[n]]
    BY <2>3, <2>4
  <2> QED BY <2>5, <2>6
<1>7. \A n \in 1..count : recs[n].item = items[offset + n]
  BY <1>2, <1>4 DEF Taken
<1> QED BY <1>2, <1>4, <1>5, <1>6, <1>7 DEF T!Slice

\* The windows of an inventory are captured whole, and abut.
LEMMA WindowsMeet == ASSUME TvmazeInv, CaptureConstants PROVE T!WindowsAbut
<1>1. ASSUME NEW f \in T!Deltas
      PROVE  /\ IsWindow(f.plan) /\ Taken(f.recs, f.plan) /\ Len(f.recs) = f.plan.count
             /\ f.before = T!Before(f.plan) /\ f.after = T!After(f.plan)
  <2>1. f \in feeds /\ f.plan # <<>>
    BY DEF T!Deltas, T!Snapshots
  <2>2. FeedOK(f)
    BY <2>1 DEF TvmazeInv
  <2> QED BY <2>1, <2>2 DEF FeedOK
<1>2. ASSUME NEW f \in T!Deltas
      PROVE  [n \in DOMAIN f.recs |-> f.recs[n].item] = T!Slice(f.plan)
  BY <1>1, RecordsAreTheSlice
<1>3. ASSUME NEW f \in T!Deltas, NEW n \in DOMAIN f.recs
      PROVE  f.recs[n].item[2] \in f.before..f.after
  <2>1. n \in 1..f.plan.count /\ f.recs[n].item = f.plan.items[f.plan.offset + n]
    BY <1>1 DEF Taken
  <2> QED BY <1>1, <2>1, MarksAround
<1>4. ASSUME NEW f \in T!Deltas, NEW g \in T!Deltas,
             f.plan.items = g.plan.items, g.plan.index = f.plan.index + 1
      PROVE  g.before = f.after
  BY <1>1, <1>4, MarksMeet
<1> QED BY <1>2, <1>3, <1>4 DEF T!WindowsAbut

\* ------------------------------------------------------------- what is in order

\* The members of S, each once, as R has them.
Ordered(items, S, n, R) ==
  /\ items \in [1..n -> S]
  /\ \A i, j \in 1..n : i # j => items[i] # items[j]
  /\ \A i, j \in 1..n : i < j => <<items[i], items[j]>> \in R

\* Of any members one comes first.
HasFirsts(S, R) == \A U \in SUBSET S : U # {} => \E e \in U : \A u \in U : u # e => <<e, u>> \in R

\* The first one, and then the others.
LEMMA OrderedNext ==
  ASSUME NEW S, NEW R, NEW e \in S, \A u \in S : u # e => <<e, u>> \in R, NEW n \in Nat \ {0},
         NEW rest, Ordered(rest, S \ {e}, n - 1, R)
  PROVE  \E items : Ordered(items, S, n, R)
<1> DEFINE items == [i \in 1..n |-> IF i = 1 THEN e ELSE rest[i - 1]]
<1>1. rest \in [1..(n - 1) -> S \ {e}]
  BY DEF Ordered
<1>2. \A i \in 1..n : i # 1 => i - 1 \in 1..(n - 1) /\ items[i] = rest[i - 1]
  OBVIOUS
<1>3. n >= 1 /\ items[1] = e
  OBVIOUS
<1>4. \A i \in 1..n : items[i] \in S /\ (i # 1 => items[i] # e)
  BY <1>1, <1>2, <1>3
<1>5. items = [i \in 1..n |-> items[i]]
  OBVIOUS
<1> HIDE DEF items
<1>6. items \in [1..n -> S]
  BY <1>4, <1>5
<1>7. ASSUME NEW i \in 1..n, NEW j \in 1..n, i < j
      PROVE  items[i] # items[j] /\ <<items[i], items[j]>> \in R
  <2>1. j # 1 /\ j - 1 \in 1..(n - 1) /\ items[j] = rest[j - 1]
    BY <1>2, <1>7
  <2>2. CASE i = 1
    BY <1>3, <1>4, <1>7, <2>1, <2>2
  <2>3. CASE i # 1
    <3>1. i - 1 \in 1..(n - 1) /\ items[i] = rest[i - 1] /\ i - 1 < j - 1 /\ i - 1 # j - 1
      BY <1>2, <1>7, <2>3
    <3> QED BY <2>1, <3>1 DEF Ordered
  <2> QED BY <2>2, <2>3
<1>8. \A i, j \in 1..n : i # j => items[i] # items[j]
  <2>1. \A i, j \in 1..n : i # j => i < j \/ j < i
    OBVIOUS
  <2> QED BY <1>7, <2>1
<1>9. Ordered(items, S, n, R)
  BY <1>6, <1>7, <1>8 DEF Ordered
<1> QED BY <1>9

LEMMA OrderedExists ==
  ASSUME NEW S, IsFiniteSet(S), NEW R, HasFirsts(S, R)
  PROVE  \E items : Ordered(items, S, Cardinality(S), R)
<1> DEFINE bad == {n \in Nat : \E U \in SUBSET S :
                     IsFiniteSet(U) /\ Cardinality(U) = n /\ ~\E items : Ordered(items, U, n, R)}
<1>1. bad = {}
  <2> SUFFICES ASSUME bad # {} PROVE FALSE
    OBVIOUS
  <2>1. bad \in SUBSET Nat
    OBVIOUS
  <2>2. PICK n \in bad : \A m \in bad : n <= m
    <3> HIDE DEF bad
    <3> QED BY <2>1, Least
  <2>3. PICK U \in SUBSET S :
          IsFiniteSet(U) /\ Cardinality(U) = n /\ ~\E items : Ordered(items, U, n, R)
    BY <2>2
  <2>4. n \in Nat
    BY <2>2
  <2>5. CASE U = {}
    <3>1. n = 0
      BY <2>3, <2>5, FS_EmptySet
    <3>2. Ordered(<<>>, U, 0, R)
      BY DEF Ordered
    <3> QED BY <2>3, <3>1, <3>2
  <2>6. CASE U # {}
    <3>1. PICK e \in U : \A u \in U : u # e => <<e, u>> \in R
      BY <2>6 DEF HasFirsts
    <3>2. IsFiniteSet(U \ {e}) /\ Cardinality(U \ {e}) = n - 1
      BY <2>3, FS_RemoveElement
    <3>3. n \in Nat \ {0}
      BY <2>3, <2>4, <2>6, FS_EmptySet
    <3>4. n - 1 \in Nat /\ ~(n <= n - 1)
      BY <3>3
    <3>5. n - 1 \notin bad
      <4> HIDE DEF bad
      <4> QED BY <2>2, <3>4
    <3>6. PICK rest : Ordered(rest, U \ {e}, n - 1, R)
      BY <3>2, <3>4, <3>5
    <3>7. \E items : Ordered(items, U, n, R)
      BY <3>1, <3>3, <3>6, OrderedNext
    <3> QED BY <2>3, <3>7
  <2> QED BY <2>5, <2>6
<1>2. Cardinality(S) \in Nat
  BY FS_CardinalityType
<1> QED BY <1>1, <1>2

\* It has all of them.
LEMMA OrderedHasAll ==
  ASSUME NEW S, IsFiniteSet(S), NEW R, NEW items, NEW n \in Nat, n = Cardinality(S), Ordered(items, S, n, R)
  PROVE  S = {items[i] : i \in 1..n}
<1>1. items \in Injection(1..n, S)
  BY DEF Ordered, Injection, IsInjective
<1>2. Cardinality(1..n) = n
  BY FS_Interval
<1>3. items \in Surjection(1..n, S)
  BY <1>1, <1>2, FS_Injection
<1> QED BY <1>1, <1>3 DEF Surjection, Injection

\* ---------------------------------------------- places of a sequence of EIDR lookups

LEMMA EidrCardinalityIs == ASSUME NEW S PROVE X!Cardinality(S) = Cardinality(S)
  BY DEF X!Cardinality, Cardinality

\* The sequences of a set, and those that are in an order.
LEMMA SequencesAre ==
  ASSUME NEW S, IsFiniteSet(S), NEW R, HasFirsts(S, R), NEW some,
         some = CHOOSE s \in X!SetToSeqs(S) : \A i, j \in DOMAIN s : i < j => <<s[i], s[j]>> \in R
  PROVE  Ordered(some, S, Cardinality(S), R)
<1>1. PICK n \in Nat : n = Cardinality(S) /\ n = X!Cardinality(S)
  BY FS_CardinalityType, EidrCardinalityIs
<1>2. X!SetToSeqs(S) = {f \in [1..n -> S] : \A i, j \in 1..n : i # j => f[i] # f[j]}
  BY <1>1 DEF X!SetToSeqs
<1>3. PICK items : Ordered(items, S, n, R)
  BY <1>1, OrderedExists
<1>4. \E s \in X!SetToSeqs(S) : \A i, j \in DOMAIN s : i < j => <<s[i], s[j]>> \in R
  BY <1>2, <1>3 DEF Ordered
<1>5. some \in X!SetToSeqs(S) /\ \A i, j \in DOMAIN some : i < j => <<some[i], some[j]>> \in R
  BY <1>4
<1> QED BY <1>1, <1>2, <1>5 DEF Ordered

Rising(n) == {p \in (1..n) \X (1..n) : p[1] < p[2]}

\* at has the c places in order.
PlacesAt(at, c, places) ==
  /\ c \in Nat /\ at \in [1..c -> places] /\ DOMAIN at = 1..c
  /\ \A i, j \in 1..c : i < j => at[i] < at[j]
  /\ places = {at[i] : i \in 1..c}

LEMMA InOrderIs ==
  ASSUME NEW n \in Nat, NEW places \in SUBSET (1..n), NEW at, at = X!InOrder(places),
         NEW c, c = Cardinality(places)
  PROVE  PlacesAt(at, c, places)
<1>1. IsFiniteSet(places)
  <2>1. IsFiniteSet(1..n)
    BY FS_Interval
  <2> QED BY <2>1, FS_Subset
<1>2. c \in Nat
  BY <1>1, FS_CardinalityType
<1>3. HasFirsts(places, Rising(n))
  <2> SUFFICES ASSUME NEW U \in SUBSET places, U # {}
               PROVE  \E e \in U : \A u \in U : u # e => <<e, u>> \in Rising(n)
    BY DEF HasFirsts
  <2>1. PICK e \in U : \A u \in U : e <= u
    BY Least
  <2>2. ASSUME NEW u \in U, u # e PROVE <<e, u>> \in Rising(n)
    BY <2>1, <2>2 DEF Rising
  <2> QED BY <2>2
<1>4. at = CHOOSE s \in X!SetToSeqs(places) : \A i, j \in DOMAIN s : i < j => s[i] < s[j]
  BY DEF X!InOrder
<1>5. \A s \in X!SetToSeqs(places) :
        (\A i, j \in DOMAIN s : i < j => s[i] < s[j]) <=> (\A i, j \in DOMAIN s : i < j => <<s[i], s[j]>> \in Rising(n))
  <2> SUFFICES ASSUME NEW s \in X!SetToSeqs(places), NEW i \in DOMAIN s, NEW j \in DOMAIN s
               PROVE  s[i] < s[j] <=> <<s[i], s[j]>> \in Rising(n)
    OBVIOUS
  <2>1. s[i] \in 1..n /\ s[j] \in 1..n
    BY DEF X!SetToSeqs
  <2> QED BY <2>1 DEF Rising
<1>6. at = CHOOSE s \in X!SetToSeqs(places) : \A i, j \in DOMAIN s : i < j => <<s[i], s[j]>> \in Rising(n)
  BY <1>4, <1>5
<1>7. Ordered(at, places, c, Rising(n))
  BY <1>1, <1>3, <1>6, SequencesAre
<1>8. places = {at[i] : i \in 1..c}
  BY <1>1, <1>2, <1>7, OrderedHasAll
<1> QED BY <1>2, <1>7, <1>8 DEF Ordered, Rising, PlacesAt

\* What is at some places.
LEMMA AtIs ==
  ASSUME NEW V, NEW s \in Seq(V), NEW places \in SUBSET (1..Len(s)), NEW some, some = X!At(s, places)
  PROVE  some \in Seq(V) /\ Len(some) = Cardinality(places) /\ Len(some) \in Nat
<1>1. PICK n \in Nat : n = Len(s)
  OBVIOUS
<1>2. PICK at, c : at = X!InOrder(places) /\ c = Cardinality(places)
  OBVIOUS
<1>3. c \in Nat /\ at \in [1..c -> places] /\ DOMAIN at = 1..c
  <2>1. PlacesAt(at, c, places)
    BY <1>1, <1>2, InOrderIs
  <2> QED BY <2>1 DEF PlacesAt
<1>4. some = [k \in 1..c |-> s[at[k]]]
  BY <1>2, <1>3 DEF X!At
<1>5. ASSUME NEW k \in 1..c PROVE s[at[k]] \in V
  <2>1. at[k] \in 1..Len(s)
    BY <1>3
  <2> QED BY <2>1, ElementIs
<1> QED BY <1>2, <1>3, <1>4, <1>5

\* ------------------------------------------------------------ what EIDR discovers

\* Shards, and within one the identifiers.
BeforePairs == {p \in X!Discovered \X X!Discovered : X!Before(p[1], p[2])}

LEMMA DiscoveredAre ==
  ASSUME CaptureConstants
  PROVE  /\ IsFiniteSet(X!Discovered) /\ X!Discovered \subseteq Nat
         /\ \A i \in X!Discovered : ShardOf[i] \in Nat
<1>1. PICK A : A = {x \in Assertions : x.scoped /\ x.active}
  OBVIOUS
<1>2. IsFiniteSet(A) /\ \A a \in A : a.id \in Nat /\ ShardOf[a.id] \in Nat
  BY <1>1, FS_Subset DEF CaptureConstants
<1>3. X!Discovered = {a.id : a \in A}
  BY <1>1 DEF X!Discovered
<1> DEFINE f == [a \in A |-> a.id]
<1>4. f \in Surjection(A, X!Discovered)
  BY <1>3 DEF Surjection
<1> HIDE DEF f
<1>5. IsFiniteSet(X!Discovered)
  BY <1>2, <1>4, FS_Surjection
<1> QED BY <1>2, <1>3, <1>5

LEMMA DiscoveredInOrder == ASSUME CaptureConstants PROVE HasFirsts(X!Discovered, BeforePairs)
<1> SUFFICES ASSUME NEW U \in SUBSET X!Discovered, U # {}
             PROVE  \E e \in U : \A u \in U : u # e => <<e, u>> \in BeforePairs
  BY DEF HasFirsts
<1>1. \A i \in U : i \in Nat /\ ShardOf[i] \in Nat
  BY DiscoveredAre
<1> DEFINE shards == {ShardOf[i] : i \in U}
<1>2. shards \in SUBSET Nat /\ shards # {}
  BY <1>1
<1>3. PICK t \in shards : \A u \in shards : t <= u
  <2> HIDE DEF shards
  <2> QED BY <1>2, Least
<1> DEFINE ids == {i \in U : ShardOf[i] = t}
<1>4. ids \in SUBSET Nat /\ ids # {}
  BY <1>1
<1>5. PICK e \in ids : \A j \in ids : e <= j
  <2> HIDE DEF ids
  <2> QED BY <1>4, Least
<1>6. e \in U /\ ShardOf[e] = t /\ e \in Nat /\ t \in Nat
  BY <1>1, <1>5
<1>7. ASSUME NEW u \in U, u # e PROVE <<e, u>> \in BeforePairs
  <2>1. u \in Nat /\ ShardOf[u] \in Nat
    BY <1>1
  <2>2. t <= ShardOf[u]
    <3>1. ShardOf[u] \in shards
      OBVIOUS
    <3> HIDE DEF shards
    <3> QED BY <1>3, <3>1
  <2>3. ShardOf[u] = t => e <= u
    BY <1>5
  <2>4. X!Before(e, u)
    BY <1>6, <1>7, <2>1, <2>2, <2>3 DEF X!Before
  <2> QED BY <1>6, <2>4 DEF BeforePairs
<1> QED BY <1>6, <1>7

\* The rows have each identifier once, in order.
LEMMA RowsAre ==
  ASSUME CaptureConstants, NEW rows, rows = X!Rows
  PROVE  /\ rows \in Seq(X!Discovered) /\ Len(rows) \in Nat
         /\ Ordered(rows, X!Discovered, Len(rows), BeforePairs)
         /\ X!Discovered = {rows[i] : i \in 1..Len(rows)}
<1>1. PICK n, D : D = X!Discovered /\ n = Cardinality(D)
  OBVIOUS
<1>2. n \in Nat /\ IsFiniteSet(D) /\ HasFirsts(D, BeforePairs)
  BY <1>1, DiscoveredAre, DiscoveredInOrder, FS_CardinalityType
<1>3. \A s \in X!SetToSeqs(D) :
        (\A i, j \in DOMAIN s : i < j => X!Before(s[i], s[j])) <=> (\A i, j \in DOMAIN s : i < j => <<s[i], s[j]>> \in BeforePairs)
  <2> SUFFICES ASSUME NEW s \in X!SetToSeqs(D), NEW i \in DOMAIN s, NEW j \in DOMAIN s
               PROVE  X!Before(s[i], s[j]) <=> <<s[i], s[j]>> \in BeforePairs
    OBVIOUS
  <2>1. s[i] \in D /\ s[j] \in D
    BY DEF X!SetToSeqs
  <2> QED BY <1>1, <2>1 DEF BeforePairs
<1>4. rows = CHOOSE s \in X!SetToSeqs(D) : \A i, j \in DOMAIN s : i < j => X!Before(s[i], s[j])
  BY <1>1 DEF X!Rows
<1>5. rows = CHOOSE s \in X!SetToSeqs(D) : \A i, j \in DOMAIN s : i < j => <<s[i], s[j]>> \in BeforePairs
  BY <1>3, <1>4
<1>6. Ordered(rows, D, n, BeforePairs)
  BY <1>1, <1>2, <1>5, SequencesAre
<1>7. D = {rows[i] : i \in 1..n}
  BY <1>1, <1>2, <1>6, OrderedHasAll
<1>8. rows \in Seq(D) /\ Len(rows) = n
  BY <1>2, <1>6 DEF Ordered
<1> QED BY <1>1, <1>2, <1>6, <1>7, <1>8, Zenon

\* The rank of an identifier is where it is.
LEMMA RankIs ==
  ASSUME CaptureConstants, DOMAIN registry = X!Discovered, NEW k \in 1..Len(X!Rows)
  PROVE  X!Rank(X!Rows[k]) = k
<1>1. PICK rows, D : rows = X!Rows /\ D = X!Discovered
  OBVIOUS
<1>2. PICK n \in Nat : n = Len(rows)
  BY <1>1, RowsAre
<1>3. Ordered(rows, D, n, BeforePairs) /\ D = {rows[i] : i \in 1..n}
  BY <1>1, <1>2, RowsAre
<1>4. k \in 1..n /\ k \in Nat
  BY <1>1, <1>2
<1>5. \A i \in D : i \in Nat /\ ShardOf[i] \in Nat
  BY <1>1, DiscoveredAre
<1>6. ASSUME NEW i \in 1..n, NEW j \in 1..n, i < j PROVE X!Before(rows[i], rows[j])
  BY <1>3, <1>6 DEF Ordered, BeforePairs
<1>7. ASSUME NEW i \in D, NEW j \in D, X!Before(i, j) PROVE i # j /\ ~X!Before(j, i)
  BY <1>5, <1>7 DEF X!Before
<1> DEFINE these == {i \in D : i = rows[k] \/ X!Before(i, rows[k])}
           f == [j \in 1..k |-> rows[j]]
<1>8. \A j \in 1..k : j \in 1..n /\ rows[j] \in D
  BY <1>3, <1>4
<1>9. ASSUME NEW j \in 1..k PROVE rows[j] \in these
  <2>1. j = k \/ j < k
    BY <1>4
  <2> QED BY <1>4, <1>6, <1>8, <2>1
<1>10. ASSUME NEW i \in these PROVE \E j \in 1..k : rows[j] = i
  <2>1. PICK j \in 1..n : rows[j] = i
    BY <1>3
  <2>2. ~(k < j)
    <3>1. ASSUME k < j PROVE FALSE
      <4>1. X!Before(rows[k], rows[j])
        BY <1>4, <1>6, <3>1
      <4> QED BY <1>3, <1>4, <1>7, <2>1, <4>1
    <3> QED BY <3>1
  <2> QED BY <1>4, <2>1, <2>2
<1>11. \A i, j \in 1..k : f[i] = f[j] => i = j
  BY <1>3, <1>8 DEF Ordered
<1>12. f \in Bijection(1..k, these)
  <2>1. f \in [1..k -> these]
    BY <1>9
  <2> HIDE DEF these
  <2>2. \A i \in these : \E j \in 1..k : f[j] = i
    BY <1>10
  <2> HIDE DEF f
  <2> QED BY <1>11, <2>1, <2>2 DEF Bijection, Injection, Surjection, IsInjective
<1>13. ExistsBijection(1..k, these)
  <2> HIDE DEF these, f
  <2> QED BY <1>12 DEF ExistsBijection
<1>14. IsFiniteSet(1..k) /\ Cardinality(1..k) = k
  BY <1>4, FS_Interval
<1>15. Cardinality(these) = k
  <2> HIDE DEF these
  <2> QED BY <1>13, <1>14, FS_Bijection
<1>16. X!Cardinality(these) = k
  <2> HIDE DEF these
  <2> QED BY <1>15, EidrCardinalityIs
<1> QED BY <1>1, <1>16 DEF X!Rank

\* f is n rows from the one after lo on.
RunsFrom(rows, lo, n, f, V) ==
  f \in Seq(V) /\ Len(f) = n /\ \A i \in 1..n : f[i] = rows[lo + i]

LEMMA RunsOn ==
  ASSUME NEW V, NEW rows, NEW lo \in Nat, NEW a \in Nat, NEW b \in Nat, NEW f, NEW g,
         RunsFrom(rows, lo, a, f, V), RunsFrom(rows, lo + a, b, g, V)
  PROVE  RunsFrom(rows, lo, a + b, f \o g, V)
<1>1. f \in Seq(V) /\ g \in Seq(V) /\ Len(f) = a /\ Len(g) = b
  BY DEF RunsFrom
<1>2. PICK both : both = f \o g
  OBVIOUS
<1>3. both \in Seq(V) /\ Len(both) = a + b
  <2>1. both \in Seq(V) /\ Len(both) = Len(f) + Len(g)
    BY <1>1, <1>2, Joined
  <2> QED BY <1>1, <2>1
<1>4. ASSUME NEW i \in 1..(a + b) PROVE both[i] = rows[lo + i]
  <2>1. CASE i <= a
    <3>1. i \in 1..a
      BY <2>1
    <3>2. both[i] = f[i]
      BY <1>1, <1>2, <3>1
    <3> QED BY <3>1, <3>2 DEF RunsFrom
  <2>2. CASE ~(i <= a)
    <3>1. PICK k \in 1..b : i = a + k
      <4>1. i - a \in 1..b /\ i = a + (i - a)
        BY <2>2
      <4> QED BY <4>1
    <3>2. both[i] = g[k]
      <4>1. k \in 1..Len(g) /\ i = Len(f) + k
        BY <1>1, <3>1
      <4>2. (f \o g)[Len(f) + k] = g[k]
        BY <1>1, <4>1
      <4> QED BY <1>2, <4>1, <4>2
    <3>3. lo + i = (lo + a) + k
      BY <3>1
    <3> QED BY <3>2, <3>3 DEF RunsFrom
  <2> QED BY <2>1, <2>2
<1> QED BY <1>2, <1>3, <1>4 DEF RunsFrom

\* The pages have all rows, each goes on where the one before it ends.
PagesOf(pages, c, rows, V) ==
  /\ c \in Nat /\ pages = [n \in 1..c |-> pages[n]]
  /\ \A n \in 1..c : /\ pages[n].start \in Nat /\ Len(pages[n].items) \in Nat
                     /\ pages[n].start + Len(pages[n].items) <= Len(rows)
                     /\ RunsFrom(rows, pages[n].start, Len(pages[n].items), pages[n].items, V)
                     /\ pages[n].start = IF n = 1 THEN 0 ELSE pages[n - 1].start + Len(pages[n - 1].items)
  /\ Len(rows) = IF c = 0 THEN 0 ELSE pages[c].start + Len(pages[c].items)

LEMMA PagesAre ==
  ASSUME CaptureConstants
  PROVE  \E c \in Nat : PagesOf(X!IdPages, c, X!Rows, X!Discovered)
<1>1. PICK rows, V : rows = X!Rows /\ V = X!Discovered
  OBVIOUS
<1>2. rows \in Seq(V) /\ Len(rows) \in Nat
  BY <1>1, RowsAre
<1>3. PICK N \in Nat : N = Len(rows)
  BY <1>2
<1>4. PICK places : places = {o \in DOMAIN rows : o = 1 \/ X!PageOf(rows[o]) # X!PageOf(rows[o - 1])}
  OBVIOUS
<1>5. places \in SUBSET (1..N) /\ (N # 0 => 1 \in places)
  BY <1>2, <1>3, <1>4
<1>6. PICK first, c : first = X!InOrder(places) /\ c = Cardinality(places)
  OBVIOUS
<1>7. /\ c \in Nat /\ first \in [1..c -> places] /\ DOMAIN first = 1..c /\ Len(first) = c
      /\ \A i, j \in 1..c : i < j => first[i] < first[j]
      /\ places = {first[i] : i \in 1..c}
  <2>1. /\ c \in Nat /\ first \in [1..c -> places] /\ DOMAIN first = 1..c
        /\ \A i, j \in 1..c : i < j => first[i] < first[j]
        /\ places = {first[i] : i \in 1..c}
    <3>1. places \in SUBSET (1..N) /\ first = X!InOrder(places) /\ c = Cardinality(places)
      BY <1>5, <1>6
    <3>2. PlacesAt(first, c, places)
      BY <3>1, InOrderIs
    <3> QED BY <3>2 DEF PlacesAt
  <2> QED BY <2>1
<1> DEFINE last(n) == IF n = c THEN N ELSE first[n + 1] - 1
           pages == [n \in 1..c |-> [key |-> X!PageOf(rows[first[n]]), start |-> first[n] - 1,
                                     items |-> SubSeq(rows, first[n], last(n))]]
<1>8. X!IdPages = pages
  BY <1>1, <1>3, <1>4, <1>6, <1>7 DEF X!IdPages
<1>9. c # 0 => first[1] = 1
  <2> SUFFICES ASSUME c # 0 PROVE first[1] = 1
    OBVIOUS
  <2>0. c \in Nat /\ c # 0
    BY <1>7
  <2>1. 1 \in 1..c /\ first[1] \in 1..N /\ N # 0
    <3>1. 1 \in 1..c
      BY <2>0
    <3>2. first[1] \in 1..N
      BY <1>5, <1>7, <3>1
    <3> QED BY <1>3, <3>1, <3>2
  <2>2. PICK i \in 1..c : first[i] = 1
    BY <1>5, <1>7, <2>1
  <2>3. ASSUME i # 1 PROVE FALSE
    <3>1. 1 < i
      BY <1>7, <2>2, <2>3
    <3>2. first[1] < first[i]
      BY <1>7, <2>1, <2>2, <3>1
    <3> QED BY <1>3, <2>1, <2>2, <3>2
  <2> QED BY <2>2, <2>3
<1>10. c = 0 => N = 0
  BY <1>5, <1>7
<1>11. ASSUME NEW n \in 1..c
       PROVE  /\ pages[n].start = first[n] - 1 /\ pages[n].start \in Nat
              /\ Len(pages[n].items) = last(n) - (first[n] - 1) /\ last(n) \in 1..N
              /\ Len(pages[n].items) \in Nat
              /\ RunsFrom(rows, pages[n].start, Len(pages[n].items), pages[n].items, V)
  <2>1. first[n] \in 1..N
    BY <1>5, <1>7
  <2>2. last(n) \in 1..N /\ first[n] <= last(n)
    <3>1. CASE n = c
      BY <2>1, <3>1
    <3>2. CASE n # c
      <4>1. n + 1 \in 1..c /\ n < n + 1
        <5>1. c \in Nat
          BY <1>7
        <5> QED BY <3>2, <5>1
      <4>2. first[n + 1] \in 1..N /\ first[n] < first[n + 1]
        BY <1>5, <1>7, <4>1
      <4> QED BY <2>1, <3>2, <4>2
    <3> QED BY <3>1, <3>2
  <2>3. PICK from \in Nat, upto \in Nat : from = first[n] - 1 /\ upto = last(n) /\ first[n] = from + 1
    BY <2>1, <2>2
  <2>4. PICK part : part = SubSeq(rows, from + 1, upto)
    OBVIOUS
  <2>5. pages[n].start = from /\ pages[n].items = part
    BY <2>3, <2>4
  <2>6. upto <= Len(rows) /\ from + 1 <= upto
    BY <1>3, <2>2, <2>3
  <2> HIDE DEF pages, last
  <2>7. /\ part \in Seq(V) /\ Len(part) = upto - from
        /\ \A i \in 1..Len(part) : part[i] = rows[from + i]
    BY <1>2, <2>4, <2>6, PartIs
  <2>8. RunsFrom(rows, from, Len(part), part, V)
    BY <2>7 DEF RunsFrom
  <2>9. pages[n].start = first[n] - 1 /\ pages[n].start \in Nat /\ last(n) \in 1..N
    BY <2>2, <2>3, <2>5
  <2>10. Len(pages[n].items) = last(n) - (first[n] - 1) /\ Len(pages[n].items) \in Nat
    <3>1. Len(part) = upto - from /\ upto - from \in Nat
      <4>1. from \in Nat /\ upto \in Nat /\ from + 1 <= upto
        BY <2>3, <2>6
      <4>2. upto - from \in Nat
        BY <4>1
      <4> QED BY <2>7, <4>2
    <3> QED BY <2>3, <2>5, <3>1
  <2>11. RunsFrom(rows, pages[n].start, Len(pages[n].items), pages[n].items, V)
    BY <2>5, <2>8
  <2> QED BY <2>9, <2>10, <2>11
<1>12. ASSUME NEW n \in 1..c
       PROVE  /\ pages[n].start + Len(pages[n].items) = last(n) /\ last(n) <= N
              /\ pages[n].start = IF n = 1 THEN 0 ELSE pages[n - 1].start + Len(pages[n - 1].items)
  <2>1. pages[n].start + Len(pages[n].items) = last(n) /\ last(n) <= N
    <3>1. first[n] \in 1..N
      BY <1>5, <1>7
    <3> HIDE DEF pages, last
    <3> QED BY <1>11, <3>1
  <2>2. CASE n = 1
    <3> HIDE DEF pages
    <3> QED BY <1>9, <1>11, <2>1, <2>2
  <2>3. CASE n # 1
    <3>1. n - 1 \in 1..c /\ n - 1 # c /\ n - 1 + 1 = n
      <4>1. c \in Nat
        BY <1>7
      <4> QED BY <2>3, <4>1
    <3>2. last(n - 1) = first[n] - 1
      BY <3>1
    <3>3. first[n] \in 1..N /\ first[n - 1] \in 1..N
      BY <1>5, <1>7, <3>1
    <3> HIDE DEF pages, last
    <3>4. pages[n - 1].start + Len(pages[n - 1].items) = last(n - 1)
      BY <1>11, <3>1, <3>3
    <3> QED BY <1>11, <2>1, <2>3, <3>2, <3>4
  <2> QED BY <2>1, <2>2, <2>3
<1>13. N = IF c = 0 THEN 0 ELSE pages[c].start + Len(pages[c].items)
  <2>1. CASE c = 0
    BY <1>10, <2>1
  <2>2. CASE c # 0
    <3>1. c \in 1..c /\ last(c) = N
      BY <1>7, <2>2
    <3> HIDE DEF pages, last
    <3> QED BY <1>12, <2>2, <3>1
  <2> QED BY <2>1, <2>2
<1>14. pages = [n \in 1..c |-> pages[n]]
  OBVIOUS
<1>15. PagesOf(pages, c, rows, V)
  <2> HIDE DEF pages, last
  <2>1. \A n \in 1..c : pages[n].start + Len(pages[n].items) <= Len(rows)
    BY <1>3, <1>12
  <2> QED BY <1>3, <1>7, <1>11, <1>12, <1>13, <1>14, <2>1 DEF PagesOf
<1> QED BY <1>1, <1>7, <1>8, <1>15

\* How many of the rows after lo, and no later than hi, are among the first e.
Upto(lo, hi, e) == IF e <= lo THEN 0 ELSE IF e <= hi THEN e - lo ELSE hi - lo

LEMMA UptoIs ==
  ASSUME NEW lo \in Nat, NEW hi \in Nat, lo <= hi, NEW s \in Nat, NEW e \in Nat, s <= e
  PROVE  /\ Upto(lo, hi, s) \in Nat /\ Upto(lo, hi, e) - Upto(lo, hi, s) \in Nat
         /\ Upto(lo, hi, 0) = 0 /\ (hi <= e => Upto(lo, hi, e) = hi - lo)
         /\ Upto(lo, hi, e) = Upto(lo, hi, s) + (Upto(lo, hi, e) - Upto(lo, hi, s))
BY DEF Upto

\* What one page has of them.
LEMMA SliceIs ==
  ASSUME NEW V, NEW rows, NEW lo \in Nat, NEW hi \in Nat, lo <= hi,
         NEW s \in Nat, NEW m \in Nat, NEW items, RunsFrom(rows, s, m, items, V),
         NEW first, first = IF lo > s THEN lo - s ELSE 0,
         NEW last, last = IF hi < s + m THEN (IF hi > s THEN hi - s ELSE 0) ELSE m,
         NEW piece, piece = SubSeq(items, first + 1, last)
  PROVE  RunsFrom(rows, lo + Upto(lo, hi, s), Upto(lo, hi, s + m) - Upto(lo, hi, s), piece, V)
<1>1. items \in Seq(V) /\ Len(items) = m /\ \A i \in 1..m : items[i] = rows[s + i]
  BY DEF RunsFrom
<1>2. first \in Nat /\ last \in Nat /\ last <= m
  OBVIOUS
<1>3. /\ piece \in Seq(V) /\ Len(piece) = IF first + 1 <= last THEN last - first ELSE 0
      /\ \A i \in 1..Len(piece) : piece[i] = items[first + i]
  BY <1>1, <1>2, PartIs
<1>4. Len(piece) = Upto(lo, hi, s + m) - Upto(lo, hi, s)
  <2>1. (IF first + 1 <= last THEN last - first ELSE 0) = Upto(lo, hi, s + m) - Upto(lo, hi, s)
    BY DEF Upto
  <2> QED BY <1>3, <2>1
<1>5. ASSUME NEW i \in 1..Len(piece) PROVE piece[i] = rows[(lo + Upto(lo, hi, s)) + i]
  <2>1. first + 1 <= last /\ i \in 1..(last - first)
    BY <1>2, <1>3
  <2>2. first + i \in 1..m /\ s + (first + i) = (lo + Upto(lo, hi, s)) + i
    BY <1>2, <2>1 DEF Upto
  <2> QED BY <1>1, <1>3, <2>2
<1> QED BY <1>3, <1>4, <1>5 DEF RunsFrom

\* The pages of a manifest, each by its reference.
IsManifest(pages) ==
  /\ pages = [n \in DOMAIN pages |-> pages[n]] /\ DOMAIN pages = DOMAIN X!IdPages
  /\ \A n \in DOMAIN pages : pages[n].bytes[2] = X!IdPages[n]

LEMMA SlicesFlatten ==
  ASSUME NEW V, NEW rows \in Seq(V), NEW c \in Nat, NEW ids, PagesOf(ids, c, rows, V),
         NEW lo \in Nat, NEW hi \in Nat, lo <= hi, hi <= Len(rows),
         NEW pieces, pieces = [n \in 1..c |-> pieces[n]],
         \A n \in 1..c : RunsFrom(rows, lo + Upto(lo, hi, ids[n].start),
                                  Upto(lo, hi, ids[n].start + Len(ids[n].items)) - Upto(lo, hi, ids[n].start), pieces[n], V)
  PROVE  RunsFrom(rows, lo, hi - lo, X!FlattenSeq(pieces), V)
<1>1. Len(pieces) = c /\ Len(rows) \in Nat
  OBVIOUS
<1>2. CASE c = 0
  <2>1. X!FlattenSeq(pieces) = pieces /\ pieces = <<>>
    BY <1>1, <1>2 DEF X!FlattenSeq
  <2>2. Len(rows) = 0
    BY <1>2 DEF PagesOf
  <2>3. lo = 0 /\ hi = 0
    BY <2>2
  <2>4. RunsFrom(rows, lo, 0, <<>>, V)
    BY DEF RunsFrom
  <2>5. X!FlattenSeq(pieces) = <<>> /\ hi - lo = 0
    BY <2>1, <2>3
  <2> QED BY <2>4, <2>5
<1>3. CASE c # 0
  <2> DEFINE F == CHOOSE f : Concats(f, pieces, c)
             end(n) == ids[n].start + Len(ids[n].items)
             bad == {n \in 1..c : ~RunsFrom(rows, lo, Upto(lo, hi, end(n)), F[n], V)}
  <2>1. Concats(F, pieces, c)
    BY ConcatsExist, Zenon
  <2>2. X!FlattenSeq(pieces) = F[c]
    BY <1>1, <1>3 DEF X!FlattenSeq, Concats
  <2>3. \A i \in 1..c : F[i] = IF i = 1 THEN pieces[i] ELSE F[i - 1] \o pieces[i]
    BY <2>1, Zenon DEF Concats
  <2> HIDE DEF F
  <2>4. bad = {}
    <3> SUFFICES ASSUME bad # {} PROVE FALSE
      OBVIOUS
    <3>1. bad \in SUBSET Nat
      OBVIOUS
    <3>2. PICK n \in bad : \A m \in bad : n <= m
      <4> HIDE DEF bad
      <4> QED BY <3>1, Least
    <3>3. n \in 1..c /\ n \in Nat \ {0} /\ ~RunsFrom(rows, lo, Upto(lo, hi, end(n)), F[n], V)
      BY <3>2
    <3>4. PICK s \in Nat, e \in Nat : s = ids[n].start /\ e = end(n) /\ s <= e
      <4>1. ids[n].start \in Nat /\ Len(ids[n].items) \in Nat
        BY <3>3 DEF PagesOf
      <4>2. end(n) \in Nat /\ ids[n].start <= end(n)
        <5>1. \A a, b \in Nat : a + b \in Nat /\ a <= a + b
          OBVIOUS
        <5> QED BY <4>1, <5>1
      <4> HIDE DEF end, bad
      <4> QED BY <4>1, <4>2
    <3>5. RunsFrom(rows, lo + Upto(lo, hi, s), Upto(lo, hi, e) - Upto(lo, hi, s), pieces[n], V)
      BY <3>3, <3>4
    <3>6. PICK u \in Nat, w \in Nat : u = Upto(lo, hi, s) /\ w = Upto(lo, hi, e) - u /\ Upto(lo, hi, e) = u + w
      BY <3>4, UptoIs
    <3>7. CASE n = 1
      <4>1. F[n] = pieces[n] /\ s = 0
        BY <2>3, <3>3, <3>4, <3>7 DEF PagesOf
      <4>2. u = 0 /\ lo + u = lo /\ u + w = w
        BY <3>4, <3>6, <4>1, UptoIs
      <4>3. RunsFrom(rows, lo, w, F[n], V)
        BY <3>5, <3>6, <4>1, <4>2
      <4> QED BY <3>3, <3>4, <3>6, <4>2, <4>3
    <3>8. CASE n # 1
      <4>1. n - 1 \in 1..c /\ n - 1 \notin bad
        <5>1. n - 1 \in Nat /\ n - 1 \in 1..c /\ ~(n <= n - 1)
          BY <3>3, <3>8
        <5> HIDE DEF bad
        <5> QED BY <3>2, <5>1
      <4>2. end(n - 1) = s
        BY <3>3, <3>4, <3>8, <4>1 DEF PagesOf
      <4>3. RunsFrom(rows, lo, u, F[n - 1], V)
        BY <3>6, <4>1, <4>2
      <4>4. F[n] = F[n - 1] \o pieces[n]
        BY <2>3, <3>3, <3>8
      <4>5. RunsFrom(rows, lo, u + w, F[n - 1] \o pieces[n], V)
        <5>1. RunsFrom(rows, lo + u, w, pieces[n], V)
          BY <3>5, <3>6
        <5> HIDE DEF bad
        <5> QED BY <4>3, <5>1, RunsOn
      <4> QED BY <3>3, <3>4, <3>6, <4>4, <4>5
    <3> QED BY <3>7, <3>8
  <2>5. c \in 1..c /\ c \notin bad
    BY <1>3, <2>4
  <2>6. end(c) = Len(rows)
    BY <1>3 DEF PagesOf
  <2>7. Upto(lo, hi, end(c)) = hi - lo
    BY <1>1, <2>6, UptoIs
  <2>8. RunsFrom(rows, lo, hi - lo, F[c], V)
    BY <2>5, <2>7
  <2> QED BY <2>2, <2>8
<1> QED BY <1>2, <1>3

\* _select_lookup_items gives the identifiers of the epoch, in their order.
LEMMA SelectedItems ==
  ASSUME CaptureConstants, NEW pages, IsManifest(pages), NEW lo \in Nat, NEW hi \in Nat, lo <= hi,
         hi <= Len(X!Rows)
  PROVE  RunsFrom(X!Rows, lo, hi - lo, X!SelectItems(pages, lo, hi), X!Discovered)
<1>1. PICK ids, rows, V : ids = X!IdPages /\ rows = X!Rows /\ V = X!Discovered
  OBVIOUS
<1>2. PICK c \in Nat : PagesOf(ids, c, rows, V)
  BY <1>1, PagesAre
<1>3. rows \in Seq(V) /\ Len(rows) \in Nat
  BY <1>1, RowsAre
<1>4. DOMAIN pages = 1..c
  BY <1>1, <1>2 DEF IsManifest, PagesOf
<1>5. \A n \in 1..c : X!Says(pages[n]) = ids[n]
  BY <1>1, <1>4 DEF IsManifest, X!Says
<1> DEFINE first(n) == IF lo > ids[n].start THEN lo - ids[n].start ELSE 0
           last(n) == IF hi < ids[n].start + Len(ids[n].items)
                      THEN (IF hi > ids[n].start THEN hi - ids[n].start ELSE 0) ELSE Len(ids[n].items)
           pieces == [n \in 1..c |-> SubSeq(ids[n].items, first(n) + 1, last(n))]
<1>6. X!SelectItems(pages, lo, hi) = X!FlattenSeq(pieces)
  BY <1>4, <1>5 DEF X!SelectItems
<1>7. ASSUME NEW n \in 1..c
      PROVE  RunsFrom(rows, lo + Upto(lo, hi, ids[n].start),
                      Upto(lo, hi, ids[n].start + Len(ids[n].items)) - Upto(lo, hi, ids[n].start), pieces[n], V)
  <2>1. PICK s, m, items, f, g, piece :
          /\ s = ids[n].start /\ m = Len(items) /\ items = ids[n].items
          /\ f = first(n) /\ g = last(n) /\ piece = SubSeq(items, f + 1, g)
    OBVIOUS
  <2>2. s \in Nat /\ m \in Nat /\ RunsFrom(rows, s, m, items, V)
    BY <1>2, <2>1 DEF PagesOf
  <2>3. f = IF lo > s THEN lo - s ELSE 0
    BY <2>1
  <2>4. g = IF hi < s + m THEN (IF hi > s THEN hi - s ELSE 0) ELSE m
    BY <2>1
  <2>5. pieces[n] = piece
    BY <2>1
  <2> HIDE DEF pieces, first, last
  <2>6. RunsFrom(rows, lo + Upto(lo, hi, s), Upto(lo, hi, s + m) - Upto(lo, hi, s), piece, V)
    BY <2>1, <2>2, <2>3, <2>4, SliceIs
  <2> QED BY <2>1, <2>5, <2>6
<1>8. pieces = [n \in 1..c |-> pieces[n]]
  OBVIOUS
<1> HIDE DEF pieces, first, last
<1>9. RunsFrom(rows, lo, hi - lo, X!FlattenSeq(pieces), V)
  BY <1>1, <1>2, <1>3, <1>7, <1>8, SlicesFlatten
<1> QED BY <1>1, <1>6, <1>9

\* What the pages of a manifest add up to.
LEMMA TotalIs ==
  ASSUME CaptureConstants, NEW ref, IsManifest(X!Says(ref))
  PROVE  X!Total(ref) = Len(X!Rows) /\ Len(X!Rows) \in Nat
<1>1. PICK ids, rows, V, pages : ids = X!IdPages /\ rows = X!Rows /\ V = X!Discovered /\ pages = X!Says(ref)
  OBVIOUS
<1>2. PICK c \in Nat : PagesOf(ids, c, rows, V)
  BY <1>1, PagesAre
<1>3. Len(rows) \in Nat
  BY <1>1, RowsAre
<1>4. DOMAIN pages = 1..c /\ pages = [n \in 1..c |-> pages[n]] /\ Len(pages) = c
  BY <1>1, <1>2 DEF IsManifest, PagesOf
<1>5. CASE c = 0
  <2>1. pages = <<>>
    BY <1>4, <1>5
  <2>2. Len(rows) = 0
    BY <1>2, <1>5 DEF PagesOf
  <2> QED BY <1>1, <2>1, <2>2 DEF X!Total
<1>6. CASE c # 0
  <2>1. pages # <<>> /\ c \in 1..c
    BY <1>4, <1>6
  <2>2. X!Last(pages) = pages[c]
    BY <1>4 DEF X!Last
  <2>3. X!Says(pages[c]) = ids[c]
    BY <1>1, <1>4, <2>1 DEF IsManifest, X!Says
  <2>4. Len(rows) = ids[c].start + Len(ids[c].items)
    BY <1>2, <1>6 DEF PagesOf
  <2> QED BY <1>1, <1>3, <2>1, <2>2, <2>3, <2>4 DEF X!Total
<1> QED BY <1>5, <1>6

\* ------------------------------------------------------------- the EIDR commands

\* A sequence of whatever it has.
Listed(s) == Len(s) \in Nat /\ s = [n \in 1..Len(s) |-> s[n]]

LEMMA ListedIs ==
  ASSUME NEW s, NEW n \in Nat, s = [i \in 1..n |-> s[i]]
  PROVE  Listed(s) /\ Len(s) = n /\ s \in Seq({s[i] : i \in 1..n}) /\ DOMAIN s = 1..n
BY DEF Listed

LEMMA SequenceListed == ASSUME NEW V, NEW s \in Seq(V) PROVE Listed(s)
  BY DEF Listed

\* t is s with one more.
OneMore(t, s, e) ==
  /\ Listed(t) /\ Len(t) = Len(s) + 1 /\ t[Len(s) + 1] = e /\ t # <<>>
  /\ \A i \in 1..Len(s) : t[i] = s[i]

LEMMA AppendedIs == ASSUME NEW s, Listed(s), NEW e, NEW t, t = Append(s, e) PROVE OneMore(t, s, e)
<1>1. PICK n \in Nat : n = Len(s) /\ s = [i \in 1..n |-> s[i]]
  BY DEF Listed
<1>2. PICK V : V = {s[i] : i \in 1..n} \cup {e}
  OBVIOUS
<1>3. s \in Seq(V) /\ e \in V
  <2>1. \A i \in 1..n : s[i] \in V
    BY <1>2
  <2> QED BY <1>1, <1>2, <2>1
<1>4. /\ t \in Seq(V) /\ Len(t) = n + 1 /\ t[n + 1] = e
      /\ \A i \in 1..n : t[i] = s[i]
  BY <1>1, <1>3
<1>5. Listed(t) /\ Len(t) = n + 1
  BY <1>4, SequenceListed
<1>6. t # <<>>
  <2>1. Len(<<>>) = 0 /\ n + 1 # 0
    OBVIOUS
  <2> QED BY <1>5, <2>1
<1> QED BY <1>1, <1>4, <1>5, <1>6 DEF OneMore

LEMMA NoneListed == Listed(<<>>) /\ Len(<<>>) = 0
  BY DEF Listed

Stands(st, kind, ref) == ref.bytes \in DOMAIN st /\ st[ref.bytes] = ref /\ ref.bytes[1] = kind
IsWatermark(st, ref) == ref = X!NoRef \/ Stands(st, "watermark", ref)

BatchIs(st, b) ==
  /\ IsWatermark(st, b.before) /\ b.lo = X!Next(b.before)
  /\ b.lo \in Nat /\ b.hi \in Nat /\ b.lo <= b.hi /\ b.hi <= Len(X!Rows)
  /\ RunsFrom(X!Rows, b.lo, b.hi - b.lo, b.items, X!Discovered)

\* Results for the first identifiers of a batch.
Answers(res, items) ==
  /\ Listed(res) /\ Len(res) <= Len(items)
  /\ \A n \in 1..Len(res) : res[n].id = items[n]

RawOf(capture) == IF X!Failed(capture) THEN <<>> ELSE X!Says(capture).raw

\* The capture has the records that were found.
CaptureIs(st, batch, res, capture) ==
  /\ X!FoundIn(res) # <<>> => Stands(st, "capture", capture) /\ X!Says(capture).batch = batch
  /\ [n \in DOMAIN RawOf(capture) |-> X!Says(RawOf(capture)[n])] = X!FoundIn(res)
  /\ \A n \in DOMAIN RawOf(capture) : Stands(st, "raw", RawOf(capture)[n])

LookupReceiptIs(st, r) ==
  /\ Stands(st, "batch", r.batch)
  /\ Answers(r.res, X!Says(r.batch).items) /\ Len(r.res) = Len(X!Says(r.batch).items)
  /\ CaptureIs(st, r.batch, r.res, r.cap)

WatermarkIs(st, w) == Stands(st, "receipt", w.rcpt) /\ w.next = X!Says(X!Says(w.rcpt).batch).hi

\* The watermarks of a command lead from where it started to where it is.
MarkAt(from, entries, k) == IF k = 0 THEN from ELSE entries[k].after
Leads(st, from, at, entries) ==
  /\ Listed(entries) /\ Len(entries) <= MaxBatches /\ at = MarkAt(from, entries, Len(entries))
  /\ \A k \in 1..Len(entries) :
       /\ Stands(st, "watermark", MarkAt(from, entries, k))
       /\ X!BatchOf(MarkAt(from, entries, k)).before = MarkAt(from, entries, k - 1)
       /\ X!Receipt(MarkAt(from, entries, k)).cap = entries[k].cap
  /\ X!Next(at) - X!Next(from) <= MaxIds

LookupRunIs(st, r) ==
  /\ Leads(st, r.from, r.at, r.entries)
  /\ (r.why = "MANIFEST_EXHAUSTED") = (X!Next(r.at) = X!Total(r.manifest))

SummaryOf(st, s) == Stands(st, "run", s.run) /\ s.silver = X!Captures(s.run)

\* What is at a key, by its kind.
KeyIs(st, kind, says) ==
  /\ kind = "manifest" => IsManifest(says)
  /\ kind = "batch" => BatchIs(st, says)
  /\ kind = "receipt" => LookupReceiptIs(st, says)
  /\ kind = "watermark" => WatermarkIs(st, says)
  /\ kind = "run" => LookupRunIs(st, says)
  /\ kind = "summary" => SummaryOf(st, says)
EidrObjects(st) ==
  \A k \in DOMAIN st : st[k] = [bytes |-> k, version |-> 1] /\ KeyIs(st, k[1], k[2])

LookupShape(c) ==
  c = [pc |-> c.pc, manifest |-> c.manifest, from |-> c.from, at |-> c.at, batch |-> c.batch,
       res |-> c.res, tried |-> c.tried, raw |-> c.raw, cap |-> c.cap, rcpt |-> c.rcpt,
       entries |-> c.entries, run |-> c.run]

\* What a command knows between its batches, in one, and once it has ended.
Underway(st, c) ==
  /\ Stands(st, "manifest", c.manifest) /\ IsWatermark(st, c.from) /\ IsWatermark(st, c.at)
  /\ Leads(st, c.from, c.at, c.entries)
InsideBatch(st, c) ==
  /\ Underway(st, c) /\ Len(c.entries) < MaxBatches
  /\ Stands(st, "batch", c.batch) /\ X!Says(c.batch).before = c.at
  /\ X!Says(c.batch).hi - X!Next(c.from) <= MaxIds
Asking(st, c) ==
  /\ Answers(c.res, X!Says(c.batch).items) /\ c.cap = X!NoRef /\ Listed(c.raw)
  /\ c.raw # <<>> => Len(c.res) = Len(X!Says(c.batch).items)
  /\ Len(c.raw) <= Len(X!FoundIn(c.res))
  /\ \A n \in 1..Len(c.raw) : Stands(st, "raw", c.raw[n]) /\ X!Says(c.raw[n]) = X!FoundIn(c.res)[n]
LookupIs(st, c) ==
  /\ c.pc \in {"idle", "bounds"} => c.res = <<>> /\ c.raw = <<>> /\ c.cap = X!NoRef
  /\ c.pc = "idle" => c.entries = <<>>
  /\ c.pc = "bounds" => Underway(st, c)
  /\ c.pc \in {"ask", "receipt", "watermark"} => InsideBatch(st, c)
  /\ c.pc = "ask" => Asking(st, c)
  /\ c.pc = "receipt" => LookupReceiptIs(st, [batch |-> c.batch, res |-> c.res, cap |-> c.cap])
  /\ c.pc = "watermark" => /\ Stands(st, "receipt", c.rcpt)
                           /\ X!Says(c.rcpt).batch = c.batch /\ X!Says(c.rcpt).cap = c.cap
  /\ c.pc = "done" => Stands(st, "run", c.run)

\* s is where t begins.
StartsOf(s, t) == Listed(s) /\ Len(s) <= Len(t) /\ \A n \in 1..Len(s) : s[n] = t[n]

DiscoveryIs(d) ==
  /\ d = [pc |-> d.pc, frame |-> X!IdPages, pages |-> d.pages]
  /\ Listed(d.pages) /\ Len(d.pages) <= Len(X!IdPages)
  /\ \A n \in 1..Len(d.pages) : X!Says(d.pages[n]) = X!IdPages[n]

WorkflowIs(w, c) ==
  /\ w = [pc |-> w.pc, silver |-> w.silver, tried |-> w.tried]
  /\ w.pc = "lookup" => w.silver = <<>>
  /\ w.pc = "silver" => c.pc = "done" /\ StartsOf(w.silver, X!Captures(c.run))

EidrInv ==
  /\ EidrObjects(store) /\ DiscoveryIs(disc) /\ registry \in [X!Discovered -> BOOLEAN]
  /\ look = [l \in Lookups |-> look[l]]
  /\ \A l \in Lookups : LookupShape(look[l]) /\ LookupIs(store, look[l])
  /\ WorkflowIs(wf, look[Research])

\* What holds of objects still holds when there is one more.
LEMMA ObjectsStand ==
  ASSUME NEW st, NEW st2, Keeps(st, st2)
  PROVE  /\ \A kind, ref : Stands(st, kind, ref) => Stands(st2, kind, ref)
         /\ \A ref : IsWatermark(st, ref) => IsWatermark(st2, ref)
<1>1. \A kind, ref : Stands(st, kind, ref) => Stands(st2, kind, ref)
  BY DEF Keeps, Stands
<1> QED BY <1>1 DEF IsWatermark

LEMMA FactsStand ==
  ASSUME NEW st, NEW st2, Keeps(st, st2)
  PROVE  /\ \A batch, res, capture : CaptureIs(st, batch, res, capture) => CaptureIs(st2, batch, res, capture)
         /\ \A r : LookupReceiptIs(st, r) => LookupReceiptIs(st2, r)
         /\ \A from, at, entries : Leads(st, from, at, entries) => Leads(st2, from, at, entries)
<1>1. \A batch, res, capture : CaptureIs(st, batch, res, capture) => CaptureIs(st2, batch, res, capture)
  BY ObjectsStand DEF CaptureIs
<1>2. \A r : LookupReceiptIs(st, r) => LookupReceiptIs(st2, r)
  BY <1>1, ObjectsStand DEF LookupReceiptIs
<1>3. \A from, at, entries : Leads(st, from, at, entries) => Leads(st2, from, at, entries)
  BY ObjectsStand DEF Leads
<1> QED BY <1>1, <1>2, <1>3

LEMMA KeysStand ==
  ASSUME NEW st, NEW st2, Keeps(st, st2), NEW kind, NEW says, KeyIs(st, kind, says)
  PROVE  KeyIs(st2, kind, says)
<1>1. kind = "batch" => BatchIs(st2, says)
  BY ObjectsStand DEF KeyIs, BatchIs
<1>2. kind = "receipt" => LookupReceiptIs(st2, says)
  BY FactsStand DEF KeyIs
<1>3. kind = "watermark" => WatermarkIs(st2, says)
  BY ObjectsStand DEF KeyIs, WatermarkIs
<1>4. kind = "run" => LookupRunIs(st2, says)
  BY FactsStand DEF KeyIs, LookupRunIs
<1>5. kind = "summary" => SummaryOf(st2, says)
  BY ObjectsStand DEF KeyIs, SummaryOf
<1> QED BY <1>1, <1>2, <1>3, <1>4, <1>5 DEF KeyIs

LEMMA LookupStands ==
  ASSUME NEW st, NEW st2, Keeps(st, st2), NEW c, LookupIs(st, c)
  PROVE  LookupIs(st2, c)
<1>1. Underway(st, c) => Underway(st2, c)
  BY ObjectsStand, FactsStand DEF Underway
<1>2. InsideBatch(st, c) => InsideBatch(st2, c)
  BY <1>1, ObjectsStand DEF InsideBatch
<1>3. Asking(st, c) => Asking(st2, c)
  BY ObjectsStand DEF Asking
<1>4. \A r : LookupReceiptIs(st, r) => LookupReceiptIs(st2, r)
  BY FactsStand
<1>5. \A kind, ref : Stands(st, kind, ref) => Stands(st2, kind, ref)
  BY ObjectsStand
<1> QED BY <1>1, <1>2, <1>3, <1>4, <1>5 DEF LookupIs

\* What a publication leaves and returns.
LEMMA EidrPublishes ==
  ASSUME NEW st, EidrObjects(st), NEW kind, NEW says, KeyIs(st, kind, says),
         NEW o \in X!PublishOutcomes(st, <<kind, says>>, <<kind, says>>, 1)
  PROVE  /\ EidrObjects(o.objects) /\ Keeps(st, o.objects)
         /\ ~X!Failed(o.ref) => Stands(o.objects, kind, o.ref) /\ o.ref.bytes = <<kind, says>>
<1>1. PICK key : key = <<kind, says>> /\ key[1] = kind /\ key[2] = says
  OBVIOUS
<1>2. PICK mine, stored : mine = [bytes |-> key, version |-> 1] /\ stored = X!Put(st, key, mine)
  OBVIOUS
<1>3. X!Version(key, 1) = mine /\ X!Failed(X!NoRef)
  BY <1>2 DEF X!Version, X!Failed, X!NoRef
<1>4. CASE key \in DOMAIN st
  <2>1. st[key] = mine
    BY <1>2, <1>4 DEF EidrObjects
  <2>2. o = X!Outcome(st, X!NoRef) \/ o = X!Outcome(st, mine)
    BY <1>1, <1>4, <2>1 DEF X!PublishOutcomes
  <2>3. o.objects = st /\ (o.ref = X!NoRef \/ o.ref = mine)
    BY <2>2 DEF X!Outcome
  <2>4. Stands(st, kind, mine) /\ mine.bytes = key
    BY <1>1, <1>2, <1>4, <2>1 DEF Stands
  <2> QED BY <1>1, <1>3, <2>3, <2>4, KeepsAll
<1>5. CASE key \notin DOMAIN st
  <2>1. /\ DOMAIN stored = DOMAIN st \cup {key} /\ stored[key] = mine
        /\ \A k \in DOMAIN st : stored[k] = st[k]
    BY <1>2, <1>5 DEF X!Put
  <2>2. Keeps(st, stored)
    BY <2>1 DEF Keeps
  <2>3. \A k \in DOMAIN stored : stored[k] = [bytes |-> k, version |-> 1]
    BY <1>2, <2>1 DEF EidrObjects
  <2>4. \A k \in DOMAIN stored : KeyIs(st, k[1], k[2])
    BY <1>1, <2>1 DEF EidrObjects
  <2>5. EidrObjects(stored)
    BY <2>2, <2>3, <2>4, KeysStand DEF EidrObjects
  <2>6. o = X!Outcome(st, X!NoRef) \/ o = X!Outcome(stored, X!NoRef) \/ o = X!Outcome(stored, mine)
    BY <1>1, <1>2, <1>3, <1>5 DEF X!PublishOutcomes
  <2>7. /\ o.objects = st \/ o.objects = stored
        /\ o.ref = X!NoRef \/ (o.ref = mine /\ o.objects = stored)
    BY <2>6 DEF X!Outcome
  <2>8. Stands(stored, kind, mine) /\ mine.bytes = key
    BY <1>1, <1>2, <2>1 DEF Stands
  <2> QED BY <1>1, <1>3, <2>2, <2>5, <2>7, <2>8, KeepsAll
<1> QED BY <1>4, <1>5

\* What is at a reference.
LEMMA StandsIs ==
  ASSUME NEW st, EidrObjects(st), NEW kind, NEW ref, Stands(st, kind, ref)
  PROVE  /\ KeyIs(st, kind, X!Says(ref)) /\ ~X!Failed(ref) /\ ref.version = 1
<1>1. ref = [bytes |-> ref.bytes, version |-> 1] /\ KeyIs(st, kind, ref.bytes[2])
  BY DEF Stands, EidrObjects
<1> QED BY <1>1 DEF X!Says, X!Failed, X!NoRef

LEMMA BatchSaid ==
  ASSUME NEW st, EidrObjects(st), NEW ref, Stands(st, "batch", ref)
  PROVE  BatchIs(st, X!Says(ref))
BY StandsIs DEF KeyIs

LEMMA ReceiptSaid ==
  ASSUME NEW st, EidrObjects(st), NEW ref, Stands(st, "receipt", ref)
  PROVE  LookupReceiptIs(st, X!Says(ref)) /\ BatchIs(st, X!Says(X!Says(ref).batch))
<1>1. LookupReceiptIs(st, X!Says(ref))
  BY StandsIs DEF KeyIs
<1> QED BY <1>1, BatchSaid DEF LookupReceiptIs

LEMMA WatermarkSaid ==
  ASSUME NEW st, EidrObjects(st), NEW ref, Stands(st, "watermark", ref)
  PROVE  /\ Stands(st, "receipt", X!Says(ref).rcpt)
         /\ LookupReceiptIs(st, X!Receipt(ref)) /\ BatchIs(st, X!BatchOf(ref))
         /\ X!Next(ref) = X!BatchOf(ref).hi
<1>1. WatermarkIs(st, X!Says(ref)) /\ ~X!Failed(ref)
  BY StandsIs DEF KeyIs
<1>2. Stands(st, "receipt", X!Says(ref).rcpt)
  BY <1>1 DEF WatermarkIs
<1> QED BY <1>1, <1>2, ReceiptSaid DEF WatermarkIs, X!Receipt, X!BatchOf, X!Next

LEMMA NextIs ==
  ASSUME NEW st, EidrObjects(st), NEW ref, IsWatermark(st, ref), CaptureConstants
  PROVE  X!Next(ref) \in Nat /\ X!Next(ref) <= Len(X!Rows) /\ Len(X!Rows) \in Nat
<1>1. Len(X!Rows) \in Nat
  BY RowsAre
<1>2. CASE ref = X!NoRef
  <2>1. X!Next(ref) = 0
    BY <1>2 DEF X!Next, X!Failed
  <2> QED BY <1>1, <2>1
<1>3. CASE Stands(st, "watermark", ref)
  BY <1>1, <1>3, WatermarkSaid DEF BatchIs
<1> QED BY <1>2, <1>3 DEF IsWatermark

\* A step of one command, which has not ended.
LEMMA EidrMoves ==
  ASSUME EidrInv, NEW l \in Lookups, NEW c, look' = [look EXCEPT ![l] = c], look[l].pc # "done",
         EidrObjects(store)', Keeps(store, store'), UNCHANGED <<disc, apart, registry, wf>>,
         LookupShape(c), LookupIs(store', c)
  PROVE  EidrInv'
<1>1. look = [m \in Lookups |-> look[m]]
  BY DEF EidrInv
<1>2. look'[l] = c /\ look' = [m \in Lookups |-> look'[m]] /\ \A m \in Lookups : m # l => look'[m] = look[m]
  BY <1>1
<1>3. ASSUME NEW m \in Lookups PROVE LookupShape(look'[m]) /\ LookupIs(store', look'[m])
  <2>1. CASE m = l
    BY <1>2, <2>1
  <2>2. CASE m # l
    <3>1. LookupShape(look[m]) /\ LookupIs(store, look[m]) /\ look'[m] = look[m]
      BY <1>2, <2>2 DEF EidrInv
    <3> QED BY <3>1, LookupStands
  <2> QED BY <2>1, <2>2
<1>4. WorkflowIs(wf, look'[Research])
  <2>1. WorkflowIs(wf, look[Research]) /\ Research \in Lookups
    BY CaptureConstants DEF EidrInv
  <2>2. wf.pc = "silver" => look'[Research] = look[Research]
    BY <1>2, <2>1 DEF WorkflowIs
  <2> QED BY <2>1, <2>2 DEF WorkflowIs
<1>5. UNCHANGED <<disc, registry, wf>>
  OBVIOUS
<1> QED BY <1>2, <1>3, <1>4, <1>5 DEF EidrInv

\* A step that publishes nothing.
LEMMA EidrQuiet ==
  ASSUME EidrInv, NEW l \in Lookups, NEW c, look' = [look EXCEPT ![l] = c], look[l].pc # "done",
         UNCHANGED <<store, disc, apart, registry, wf>>, LookupShape(c), LookupIs(store, c)
  PROVE  EidrInv'
<1>1. EidrObjects(store)' /\ Keeps(store, store') /\ LookupIs(store', c) /\ UNCHANGED <<disc, apart, registry, wf>>
  BY KeepsAll DEF EidrInv
<1> QED BY <1>1, EidrMoves

LEMMA GoneIs ==
  ASSUME NEW st
  PROVE  LookupShape(X!Gone) /\ LookupIs(st, X!Gone) /\ LookupShape(X!Fresh) /\ LookupIs(st, X!Fresh)
BY DEF X!Gone, X!Fresh, LookupShape, LookupIs

\* The command goes on as c once the object is there.
GoesOnAs(base, kind, says, ref, c) ==
  \A st : EidrObjects(st) /\ Keeps(base, st) /\ Stands(st, kind, ref) /\ ref.bytes = <<kind, says>> => LookupIs(st, c)

\* A step that publishes: the command goes on as c, or is gone.
LEMMA EidrWrites ==
  ASSUME EidrInv, NEW l \in Lookups, look[l].pc # "done", UNCHANGED <<disc, apart, registry, wf>>,
         NEW kind, NEW says, KeyIs(store, kind, says), NEW o \in X!Publish(kind, says), store' = o.objects,
         NEW c, look' = [look EXCEPT ![l] = IF X!Failed(o.ref) THEN X!Gone ELSE c],
         LookupShape(c), GoesOnAs(store, kind, says, o.ref, c)
  PROVE  EidrInv'
<1>1. PICK st : st = store'
  OBVIOUS
<1>2. /\ EidrObjects(st) /\ Keeps(store, st)
      /\ ~X!Failed(o.ref) => Stands(st, kind, o.ref) /\ o.ref.bytes = <<kind, says>>
  <2>1. EidrObjects(store) /\ o \in X!PublishOutcomes(store, <<kind, says>>, <<kind, says>>, 1) /\ st = o.objects
    BY <1>1 DEF EidrInv, X!Publish
  <2> QED BY <2>1, EidrPublishes
<1>3. PICK d : d = IF X!Failed(o.ref) THEN X!Gone ELSE c
  OBVIOUS
<1>4. LookupShape(d) /\ LookupIs(st, d)
  <2>1. CASE X!Failed(o.ref)
    BY <1>3, <2>1, GoneIs
  <2>2. CASE ~X!Failed(o.ref)
    BY <1>2, <1>3, <2>2 DEF GoesOnAs
  <2> QED BY <2>1, <2>2
<1>5. look' = [look EXCEPT ![l] = d]
  BY <1>3
<1>6. EidrObjects(store)'
  BY <1>1, <1>2 DEF EidrObjects, KeyIs
<1> QED BY <1>1, <1>2, <1>4, <1>5, <1>6, EidrMoves

\* What the other side of the guards needs.
LEMMA CommandIs ==
  ASSUME EidrInv, NEW l \in Lookups
  PROVE  LookupShape(look[l]) /\ LookupIs(store, look[l]) /\ EidrObjects(store)
BY DEF EidrInv

LEMMA StartLookup == ASSUME EidrInv, NEW l \in Lookups, X!Start(l) PROVE EidrInv'
<1>1. PICK m \in X!Published("manifest"), w \in X!Published("watermark") \cup {X!NoRef} :
        look' = [look EXCEPT ![l].pc = "bounds", ![l].manifest = m, ![l].from = w, ![l].at = w]
  BY DEF X!Start
<1>2. look[l].pc = "idle" /\ UNCHANGED <<store, disc, apart, registry, wf>>
  BY DEF X!Start
<1>3. PICK c : c = [look[l] EXCEPT !.pc = "bounds", !.manifest = m, !.from = w, !.at = w]
  OBVIOUS
<1>4. look' = [look EXCEPT ![l] = c]
  BY <1>1, <1>3 DEF EidrInv
<1>5. LookupShape(look[l]) /\ LookupIs(store, look[l]) /\ EidrObjects(store)
  BY CommandIs
<1>6. /\ LookupShape(c) /\ c.pc = "bounds" /\ c.manifest = m /\ c.from = w /\ c.at = w
      /\ c.res = look[l].res /\ c.raw = look[l].raw /\ c.cap = look[l].cap /\ c.entries = look[l].entries
  BY <1>3, <1>5 DEF LookupShape
<1>7. \A kind : \A ref \in X!Published(kind) : Stands(store, kind, ref)
  BY <1>5 DEF X!Published, EidrObjects, Stands
<1>8. Stands(store, "manifest", m) /\ IsWatermark(store, w)
  BY <1>7 DEF IsWatermark
<1>9. Leads(store, w, w, <<>>)
  <2>1. X!Next(w) \in Nat
    BY <1>5, <1>8, NextIs, CaptureConstants
  <2>2. X!Next(w) - X!Next(w) <= MaxIds
    BY <2>1, CaptureConstants
  <2>3. Listed(<<>>) /\ Len(<<>>) = 0 /\ 0 <= MaxBatches
    BY NoneListed, CaptureConstants
  <2> QED BY <2>2, <2>3 DEF Leads, MarkAt
<1>10. LookupIs(store, c)
  BY <1>2, <1>5, <1>6, <1>8, <1>9 DEF LookupIs, Underway
<1> QED BY <1>2, <1>4, <1>6, <1>10, EidrQuiet

\* The batch has at least one identifier, and none too many.
LEMMA SmallestOf ==
  ASSUME NEW a \in Nat \ {0}, NEW b \in Nat \ {0}, NEW c \in Nat \ {0}
  PROVE  X!Min({a, b, c}) \in Nat \ {0} /\ X!Min({a, b, c}) <= b /\ X!Min({a, b, c}) <= c
<1>1. PICK e \in {a, b, c} : \A x \in {a, b, c} : e <= x
  <2>1. {a, b, c} \in SUBSET Nat /\ {a, b, c} # {}
    OBVIOUS
  <2> QED BY <2>1, Least
<1>2. X!Min({a, b, c}) \in {a, b, c} /\ \A x \in {a, b, c} : X!Min({a, b, c}) <= x
  BY <1>1 DEF X!Min
<1> QED BY <1>2

LEMMA BatchOfIs ==
  ASSUME EidrInv, CaptureConstants, NEW l \in Lookups, Underway(store, look[l]), "none" \in X!Reasons(l)
  PROVE  /\ BatchIs(store, X!Batch(l)) /\ X!Batch(l).before = look[l].at
         /\ X!Batch(l).hi - X!Next(look[l].from) <= MaxIds /\ Len(look[l].entries) < MaxBatches
<1>1. EidrObjects(store)
  BY DEF EidrInv
<1>2. PICK N, next, from, attempted, total :
        /\ N = Len(X!Rows) /\ next = X!Next(look[l].at) /\ from = X!Next(look[l].from)
        /\ attempted = X!Attempted(l) /\ total = X!Total(look[l].manifest)
  OBVIOUS
<1>3. N \in Nat /\ next \in Nat /\ next <= N /\ from \in Nat
  BY <1>1, <1>2, NextIs DEF Underway
<1>4. total = N
  <2>1. IsManifest(X!Says(look[l].manifest))
    BY <1>1, StandsIs DEF Underway, KeyIs
  <2> QED BY <1>2, <2>1, TotalIs
<1>5. attempted = next - from
  BY <1>2 DEF X!Attempted
<1>6. "none" \notin {"MANIFEST_EXHAUSTED"} /\ "none" \notin {"MAX_IDS"} /\ "none" \notin {"MAX_BATCHES"}
  OBVIOUS
<1>7. next # N /\ ~(attempted >= MaxIds) /\ ~(Len(look[l].entries) >= MaxBatches)
  <2>1. CASE next = N
    <3>1. X!Reasons(l) = {"MANIFEST_EXHAUSTED"}
      BY <1>2, <1>4, <2>1 DEF X!Reasons
    <3> QED BY <1>6, <3>1
  <2>2. CASE next # N /\ attempted >= MaxIds
    <3>1. X!Reasons(l) = {"MAX_IDS"}
      BY <1>2, <1>4, <2>2 DEF X!Reasons
    <3> QED BY <1>6, <3>1
  <2>3. CASE next # N /\ ~(attempted >= MaxIds) /\ Len(look[l].entries) >= MaxBatches
    <3>1. X!Reasons(l) = {"MAX_BATCHES"}
      BY <1>2, <1>4, <2>3 DEF X!Reasons
    <3> QED BY <1>6, <3>1
  <2> QED BY <2>1, <2>2, <2>3
<1>8. Len(look[l].entries) < MaxBatches
  <2>1. Len(look[l].entries) \in Nat /\ MaxBatches \in Nat
    BY CaptureConstants DEF Underway, Leads, Listed
  <2> QED BY <1>7, <2>1
<1>9. PICK room, left : room = MaxIds - attempted /\ left = N - next
  OBVIOUS
<1>10. room \in Nat \ {0} /\ left \in Nat \ {0} /\ BatchSize \in Nat \ {0}
  BY <1>3, <1>5, <1>7, <1>9, CaptureConstants
<1>11. PICK size : size = X!Min({BatchSize, room, left})
  OBVIOUS
<1>12. size \in Nat \ {0} /\ size <= room /\ size <= left
  BY <1>10, <1>11, SmallestOf
<1>13. PICK hi \in Nat : hi = next + size
  BY <1>3, <1>12
<1>14. next <= hi /\ hi <= N /\ hi - from <= MaxIds
  BY <1>3, <1>5, <1>9, <1>12, <1>13, CaptureConstants
<1>15. PICK items : items = X!SelectItems(X!Says(look[l].manifest), next, hi)
  OBVIOUS
<1>16. X!Batch(l) = [before |-> look[l].at, lo |-> next, hi |-> hi, items |-> items]
  BY <1>2, <1>4, <1>9, <1>11, <1>13, <1>15 DEF X!Batch
<1>17. RunsFrom(X!Rows, next, hi - next, items, X!Discovered)
  <2>1. IsManifest(X!Says(look[l].manifest))
    BY <1>1, StandsIs DEF Underway, KeyIs
  <2> QED BY <1>2, <1>3, <1>14, <1>15, <2>1, SelectedItems
<1>18. IsWatermark(store, look[l].at)
  BY DEF Underway
<1>19. BatchIs(store, X!Batch(l))
  BY <1>2, <1>3, <1>13, <1>14, <1>16, <1>17, <1>18 DEF BatchIs
<1> QED BY <1>2, <1>8, <1>14, <1>16, <1>19

LEMMA BeginLookupBatch ==
  ASSUME EidrInv, CaptureConstants, NEW l \in Lookups, X!BeginBatch(l) PROVE EidrInv'
<1>1. /\ look[l].pc = "bounds" /\ "none" \in X!Reasons(l)
      /\ LookupShape(look[l]) /\ LookupIs(store, look[l]) /\ EidrObjects(store)
  BY CommandIs DEF X!BeginBatch
<1>2. PICK says : says = X!Batch(l)
  OBVIOUS
<1>3. PICK o \in X!Publish("batch", says) :
        /\ store' = o.objects
        /\ look' = [look EXCEPT ![l] = IF X!Failed(o.ref) THEN X!Gone
                                       ELSE [look[l] EXCEPT !.pc = "ask", !.batch = o.ref]]
  BY <1>2 DEF X!BeginBatch, X!PublishStep
<1>4. UNCHANGED <<disc, apart, registry, wf>>
  BY DEF X!BeginBatch, X!PublishStep
<1>5. PICK c : c = [look[l] EXCEPT !.pc = "ask", !.batch = o.ref]
  OBVIOUS
<1>6. /\ LookupShape(c) /\ c.pc = "ask" /\ c.batch = o.ref /\ c.manifest = look[l].manifest
      /\ c.from = look[l].from /\ c.at = look[l].at /\ c.entries = look[l].entries
      /\ c.res = look[l].res /\ c.raw = look[l].raw /\ c.cap = look[l].cap
  BY <1>1, <1>5 DEF LookupShape
<1>7. Underway(store, look[l]) /\ look[l].res = <<>> /\ look[l].raw = <<>> /\ look[l].cap = X!NoRef
  BY <1>1 DEF LookupIs
<1>8. /\ BatchIs(store, says) /\ says.before = look[l].at
      /\ says.hi - X!Next(look[l].from) <= MaxIds /\ Len(look[l].entries) < MaxBatches
  BY <1>1, <1>2, <1>7, BatchOfIs
<1>9. KeyIs(store, "batch", says)
  BY <1>8 DEF KeyIs
<1>10. ASSUME NEW st, EidrObjects(st), Keeps(store, st), Stands(st, "batch", o.ref), o.ref.bytes = <<"batch", says>>
       PROVE  LookupIs(st, c)
  <2>1. X!Says(o.ref) = says
    BY <1>10 DEF X!Says
  <2>2. Underway(st, c)
    BY <1>6, <1>7, <1>10, ObjectsStand, FactsStand DEF Underway
  <2>3. InsideBatch(st, c)
    BY <1>6, <1>8, <1>10, <2>1, <2>2 DEF InsideBatch
  <2>4. Len(says.items) \in Nat
    BY <1>8 DEF BatchIs, RunsFrom
  <2>5. Len(X!FoundIn(<<>>)) \in Nat
    <3>1. PICK places : places = {n \in DOMAIN <<>> : <<>>[n].found}
      OBVIOUS
    <3>2. <<>> \in Seq({}) /\ places \in SUBSET (1..Len(<<>>))
      BY <3>1
    <3>3. Len(X!At(<<>>, places)) \in Nat
      BY <3>2, AtIs
    <3> QED BY <3>1, <3>3 DEF X!FoundIn
  <2>6. Asking(st, c)
    BY <1>6, <1>7, <2>1, <2>4, <2>5, NoneListed DEF Asking, Answers
  <2> QED BY <1>6, <2>3, <2>6 DEF LookupIs
<1>11. look' = [look EXCEPT ![l] = IF X!Failed(o.ref) THEN X!Gone ELSE c]
  BY <1>3, <1>5
<1>12. GoesOnAs(store, "batch", says, o.ref, c)
  BY <1>10 DEF GoesOnAs
<1>13. look[l].pc # "done"
  BY <1>1
<1> QED BY <1>3, <1>4, <1>6, <1>9, <1>11, <1>12, <1>13, EidrWrites

\* A command that is gone.
LEMMA GoneStep ==
  ASSUME EidrInv, NEW l \in Lookups, look[l].pc # "done", look' = [look EXCEPT ![l] = X!Gone],
         UNCHANGED <<store, disc, apart, registry, wf>>
  PROVE  EidrInv'
BY GoneIs, EidrQuiet

LEMMA CollideLookup == ASSUME EidrInv, NEW l \in Lookups, X!Collide(l) PROVE EidrInv'
<1>1. look[l].pc # "done" /\ look' = [look EXCEPT ![l] = X!Gone] /\ UNCHANGED <<store, disc, apart, registry, wf>>
  BY DEF X!Collide
<1> QED BY <1>1, GoneStep

\* Every command of a process is gone.
LEMMA CrashLookups == ASSUME EidrInv, NEW l \in Lookups, X!Crash(l) PROVE EidrInv'
<1>1. /\ look' = [m \in Lookups |-> IF (m = l \/ ~apart) /\ look[m].pc \notin X!Stopped THEN X!Gone ELSE look[m]]
      /\ UNCHANGED <<store, disc, apart, registry, wf>>
  BY DEF X!Crash
<1>2. look' = [m \in Lookups |-> look'[m]]
  BY <1>1
<1>3. ASSUME NEW m \in Lookups PROVE LookupShape(look'[m]) /\ LookupIs(store, look'[m])
  <2>1. look'[m] = X!Gone \/ look'[m] = look[m]
    BY <1>1
  <2> QED BY <2>1, GoneIs, CommandIs
<1>4. WorkflowIs(wf, look'[Research])
  <2>1. WorkflowIs(wf, look[Research]) /\ Research \in Lookups
    BY CaptureConstants DEF EidrInv
  <2>2. wf.pc = "silver" => look'[Research] = look[Research]
    BY <1>1, <2>1 DEF WorkflowIs, X!Stopped
  <2> QED BY <2>1, <2>2 DEF WorkflowIs
<1> QED BY <1>1, <1>2, <1>3, <1>4 DEF EidrInv

\* The records found are in the results.
LEMMA FoundIs ==
  ASSUME NEW res, Listed(res)
  PROVE  Listed(X!FoundIn(res))
<1>1. PICK places : places = {n \in DOMAIN res : res[n].found}
  OBVIOUS
<1>2. PICK n \in Nat : n = Len(res) /\ res = [i \in 1..n |-> res[i]]
  BY DEF Listed
<1>3. PICK V : V = {res[i] : i \in 1..n}
  OBVIOUS
<1>4. res \in Seq(V) /\ places \in SUBSET (1..Len(res))
  BY <1>1, <1>2, <1>3, ListedIs
<1>5. X!At(res, places) \in Seq(V)
  BY <1>4, AtIs
<1> QED BY <1>1, <1>5, SequenceListed DEF X!FoundIn

LEMMA AskOne == ASSUME EidrInv, NEW l \in Lookups, X!Ask(l) PROVE EidrInv'
<1>1. /\ look[l].pc = "ask" /\ Len(look[l].res) < Len(X!Items(l)) /\ UNCHANGED <<store, disc, apart, registry, wf>>
      /\ LookupShape(look[l]) /\ LookupIs(store, look[l]) /\ look = [m \in Lookups |-> look[m]]
  BY CommandIs DEF X!Ask, EidrInv
<1>2. PICK items, res : items = X!Says(look[l].batch).items /\ res = look[l].res
  OBVIOUS
<1>3. PICK result : result = [id |-> items[Len(res) + 1], found |-> registry[items[Len(res) + 1]]]
  OBVIOUS
<1>4. \/ look' = [look EXCEPT ![l].res = Append(res, result), ![l].tried = 0]
      \/ look' = [look EXCEPT ![l].tried = look[l].tried + 1]
      \/ look' = [look EXCEPT ![l] = X!Gone]
  BY <1>2, <1>3 DEF X!Ask, X!Items
<1>5. InsideBatch(store, look[l]) /\ Asking(store, look[l])
  BY <1>1 DEF LookupIs
<1>6. CASE look' = [look EXCEPT ![l].res = Append(res, result), ![l].tried = 0]
  <2>1. PICK more : more = Append(res, result)
    OBVIOUS
  <2>2. PICK c : c = [look[l] EXCEPT !.res = more, !.tried = 0]
    OBVIOUS
  <2>3. look' = [look EXCEPT ![l] = c]
    BY <1>1, <1>6, <2>1, <2>2
  <2>4. /\ LookupShape(c) /\ c.pc = "ask" /\ c.batch = look[l].batch /\ c.manifest = look[l].manifest
        /\ c.from = look[l].from /\ c.at = look[l].at /\ c.entries = look[l].entries
        /\ c.res = more /\ c.raw = look[l].raw /\ c.cap = look[l].cap
    BY <1>1, <2>2 DEF LookupShape
  <2>5. Len(res) < Len(items) /\ Listed(res) /\ look[l].raw = <<>>
    <3>1. Len(res) < Len(items)
      BY <1>1, <1>2 DEF X!Items
    <3>2. Listed(res) /\ (look[l].raw # <<>> => Len(res) = Len(items))
      BY <1>2, <1>5 DEF Asking, Answers
    <3>3. Len(res) \in Nat
      BY <3>2 DEF Listed
    <3> QED BY <3>1, <3>2, <3>3
  <2>6. Listed(more) /\ Len(more) = Len(res) + 1 /\ more[Len(res) + 1] = result /\ \A n \in 1..Len(res) : more[n] = res[n]
    <3>1. OneMore(more, res, result)
      BY <2>1, <2>5, AppendedIs
    <3> QED BY <3>1 DEF OneMore
  <2>7. Answers(more, items)
    <3>1. PICK k \in Nat : k = Len(res)
      BY <2>5 DEF Listed
    <3>2. Len(items) \in Nat
      <4>1. BatchIs(store, X!Says(look[l].batch))
        BY <1>5, BatchSaid DEF InsideBatch, EidrInv
      <4> QED BY <1>2, <4>1 DEF BatchIs, RunsFrom
    <3>3. Len(more) = k + 1 /\ k + 1 <= Len(items)
      BY <2>5, <2>6, <3>1, <3>2
    <3>4. ASSUME NEW n \in 1..(k + 1) PROVE more[n].id = items[n]
      <4>1. CASE n = k + 1
        BY <1>3, <2>6, <3>1, <4>1
      <4>2. CASE n # k + 1
        <5>1. n \in 1..k
          BY <4>2
        <5> QED BY <1>2, <1>5, <2>6, <3>1, <5>1 DEF Asking, Answers
      <4> QED BY <4>1, <4>2
    <3> QED BY <2>6, <3>3, <3>4 DEF Answers
  <2>8. Len(X!FoundIn(more)) \in Nat
    BY <2>6, FoundIs DEF Listed
  <2>9. Asking(store, c)
    BY <1>2, <1>5, <2>4, <2>5, <2>7, <2>8, NoneListed DEF Asking
  <2>10. InsideBatch(store, c)
    BY <1>5, <2>4 DEF InsideBatch, Underway
  <2>11. LookupIs(store, c)
    BY <2>4, <2>9, <2>10 DEF LookupIs
  <2> QED BY <1>1, <2>3, <2>4, <2>11, EidrQuiet
<1>7. CASE look' = [look EXCEPT ![l].tried = look[l].tried + 1]
  <2>2. PICK c : c = [look[l] EXCEPT !.tried = look[l].tried + 1]
    OBVIOUS
  <2>3. look' = [look EXCEPT ![l] = c]
    BY <1>1, <1>7, <2>2
  <2>4. /\ LookupShape(c) /\ c.pc = "ask" /\ c.batch = look[l].batch /\ c.manifest = look[l].manifest
        /\ c.from = look[l].from /\ c.at = look[l].at /\ c.entries = look[l].entries
        /\ c.res = look[l].res /\ c.raw = look[l].raw /\ c.cap = look[l].cap
    BY <1>1, <2>2 DEF LookupShape
  <2>5. InsideBatch(store, c) /\ Asking(store, c)
    BY <1>5, <2>4 DEF InsideBatch, Underway, Asking
  <2>6. LookupIs(store, c)
    BY <2>4, <2>5 DEF LookupIs
  <2> QED BY <1>1, <2>3, <2>4, <2>6, EidrQuiet
<1>8. CASE look' = [look EXCEPT ![l] = X!Gone]
  BY <1>1, <1>8, GoneStep
<1> QED BY <1>4, <1>6, <1>7, <1>8

LEMMA PublishLookupRaw == ASSUME EidrInv, NEW l \in Lookups, X!PublishRaw(l) PROVE EidrInv'
<1>1. /\ look[l].pc = "ask" /\ Len(look[l].res) = Len(X!Items(l)) /\ Len(look[l].raw) < Len(X!Found(l))
      /\ LookupShape(look[l]) /\ LookupIs(store, look[l])
  BY CommandIs DEF X!PublishRaw
<1>2. PICK raw, found, says : raw = look[l].raw /\ found = X!FoundIn(look[l].res) /\ says = found[Len(raw) + 1]
  OBVIOUS
<1>3. PICK o \in X!Publish("raw", says) :
        /\ store' = o.objects
        /\ look' = [look EXCEPT ![l] = IF X!Failed(o.ref) THEN X!Gone
                                       ELSE [look[l] EXCEPT !.raw = Append(look[l].raw, o.ref)]]
  BY <1>2 DEF X!PublishRaw, X!PublishStep, X!Found
<1>4. UNCHANGED <<disc, apart, registry, wf>>
  BY DEF X!PublishRaw, X!PublishStep
<1>5. PICK more : more = Append(raw, o.ref)
  OBVIOUS
<1>6. PICK c : c = [look[l] EXCEPT !.raw = more]
  OBVIOUS
<1>7. /\ LookupShape(c) /\ c.pc = "ask" /\ c.batch = look[l].batch /\ c.manifest = look[l].manifest
      /\ c.from = look[l].from /\ c.at = look[l].at /\ c.entries = look[l].entries
      /\ c.res = look[l].res /\ c.raw = more /\ c.cap = look[l].cap
  BY <1>1, <1>6 DEF LookupShape
<1>8. InsideBatch(store, look[l]) /\ Asking(store, look[l])
  BY <1>1 DEF LookupIs
<1>9. Listed(raw) /\ Listed(found)
  BY <1>2, <1>8, FoundIs DEF Asking, Answers
<1>10. /\ Listed(more) /\ Len(more) = Len(raw) + 1 /\ more[Len(raw) + 1] = o.ref
       /\ \A n \in 1..Len(raw) : more[n] = raw[n]
  <2>1. OneMore(more, raw, o.ref)
    BY <1>5, <1>9, AppendedIs
  <2> QED BY <2>1 DEF OneMore
<1>11. PICK k \in Nat : k = Len(raw) /\ Len(more) = k + 1 /\ k + 1 <= Len(found)
  <2>1. Len(raw) \in Nat /\ Len(found) \in Nat /\ Len(raw) < Len(found)
    BY <1>1, <1>2, <1>9 DEF Listed, X!Found
  <2> QED BY <1>10, <2>1
<1>12. ASSUME NEW st, EidrObjects(st), Keeps(store, st), Stands(st, "raw", o.ref), o.ref.bytes = <<"raw", says>>
       PROVE  LookupIs(st, c)
  <2>1. X!Says(o.ref) = says
    BY <1>12 DEF X!Says
  <2>2. InsideBatch(st, c)
    BY <1>7, <1>8, <1>12, ObjectsStand, FactsStand DEF InsideBatch, Underway
  <2>3. ASSUME NEW n \in 1..(k + 1) PROVE Stands(st, "raw", more[n]) /\ X!Says(more[n]) = found[n]
    <3>1. CASE n = k + 1
      BY <1>2, <1>10, <1>11, <1>12, <2>1, <3>1
    <3>2. CASE n # k + 1
      <4>1. n \in 1..k
        BY <3>2
      <4>2. Stands(store, "raw", raw[n]) /\ X!Says(raw[n]) = found[n] /\ more[n] = raw[n]
        BY <1>2, <1>8, <1>10, <1>11, <4>1 DEF Asking
      <4> QED BY <1>12, <4>2, ObjectsStand
    <3> QED BY <3>1, <3>2
  <2>4. Len(c.res) = Len(X!Says(c.batch).items)
    BY <1>1, <1>7 DEF X!Items
  <2>5. Asking(st, c)
    BY <1>2, <1>7, <1>8, <1>10, <1>11, <2>3, <2>4 DEF Asking
  <2> QED BY <1>7, <2>2, <2>5 DEF LookupIs
<1>13. look' = [look EXCEPT ![l] = IF X!Failed(o.ref) THEN X!Gone ELSE c]
  BY <1>2, <1>3, <1>5, <1>6
<1>14. KeyIs(store, "raw", says)
  BY DEF KeyIs
<1>15. GoesOnAs(store, "raw", says, o.ref, c)
  BY <1>12 DEF GoesOnAs
<1>16. look[l].pc # "done"
  BY <1>1
<1> QED BY <1>3, <1>4, <1>7, <1>13, <1>14, <1>15, <1>16, EidrWrites

LEMMA PublishLookupCapture == ASSUME EidrInv, NEW l \in Lookups, X!PublishCapture(l) PROVE EidrInv'
<1>1. /\ look[l].pc = "ask" /\ Len(look[l].res) = Len(X!Items(l)) /\ Len(look[l].raw) = Len(X!Found(l))
      /\ LookupShape(look[l]) /\ LookupIs(store, look[l])
  BY CommandIs DEF X!PublishCapture
<1>2. PICK batch, res, raw, found : batch = look[l].batch /\ res = look[l].res /\ raw = look[l].raw /\ found = X!FoundIn(res)
  OBVIOUS
<1>3. PICK says : says = [batch |-> batch, raw |-> raw]
  OBVIOUS
<1>4. PICK o \in X!Publish("capture", says) :
        /\ store' = o.objects
        /\ look' = [look EXCEPT ![l] = IF X!Failed(o.ref) THEN X!Gone
                                       ELSE [look[l] EXCEPT !.pc = "receipt", !.cap = o.ref]]
  BY <1>2, <1>3 DEF X!PublishCapture, X!PublishStep
<1>5. UNCHANGED <<disc, apart, registry, wf>>
  BY DEF X!PublishCapture, X!PublishStep
<1>6. PICK c : c = [look[l] EXCEPT !.pc = "receipt", !.cap = o.ref]
  OBVIOUS
<1>7. /\ LookupShape(c) /\ c.pc = "receipt" /\ c.batch = batch /\ c.manifest = look[l].manifest
      /\ c.from = look[l].from /\ c.at = look[l].at /\ c.entries = look[l].entries
      /\ c.res = res /\ c.cap = o.ref
  BY <1>1, <1>2, <1>6 DEF LookupShape
<1>8. InsideBatch(store, look[l]) /\ Asking(store, look[l])
  BY <1>1 DEF LookupIs
<1>9. Listed(raw) /\ Listed(found) /\ Len(raw) = Len(found)
  <2>1. Listed(raw) /\ Listed(found)
    BY <1>2, <1>8, FoundIs DEF Asking, Answers
  <2> QED BY <1>1, <1>2, <2>1 DEF X!Found
<1>10. \A n \in 1..Len(raw) : Stands(store, "raw", raw[n]) /\ X!Says(raw[n]) = found[n]
  BY <1>2, <1>8 DEF Asking
<1>11. DOMAIN raw = 1..Len(raw) /\ [n \in DOMAIN raw |-> X!Says(raw[n])] = found
  <2>1. DOMAIN raw = 1..Len(raw) /\ found = [n \in 1..Len(raw) |-> found[n]]
    BY <1>9 DEF Listed
  <2> QED BY <1>10, <2>1
<1>12. ASSUME NEW st, EidrObjects(st), Keeps(store, st), Stands(st, "capture", o.ref), o.ref.bytes = <<"capture", says>>
       PROVE  LookupIs(st, c)
  <2>1. X!Says(o.ref) = says /\ ~X!Failed(o.ref)
    BY <1>12, StandsIs DEF X!Says
  <2>2. InsideBatch(st, c)
    BY <1>2, <1>7, <1>8, <1>12, ObjectsStand, FactsStand DEF InsideBatch, Underway
  <2>3. RawOf(o.ref) = raw
    BY <1>3, <2>1 DEF RawOf
  <2>4. CaptureIs(st, batch, res, o.ref)
    <3>1. \A n \in DOMAIN raw : Stands(st, "raw", raw[n])
      BY <1>10, <1>11, <1>12, ObjectsStand
    <3> QED BY <1>2, <1>3, <1>11, <1>12, <2>1, <2>3, <3>1 DEF CaptureIs
  <2>5. Stands(st, "batch", batch)
    BY <1>7, <2>2 DEF InsideBatch
  <2>6. Answers(res, X!Says(batch).items) /\ Len(res) = Len(X!Says(batch).items)
    BY <1>1, <1>2, <1>8 DEF Asking, X!Items
  <2>7. LookupReceiptIs(st, [batch |-> batch, res |-> res, cap |-> o.ref])
    BY <2>4, <2>5, <2>6 DEF LookupReceiptIs
  <2> QED BY <1>7, <2>2, <2>7 DEF LookupIs
<1>13. look' = [look EXCEPT ![l] = IF X!Failed(o.ref) THEN X!Gone ELSE c]
  BY <1>4, <1>6
<1>14. KeyIs(store, "capture", says)
  BY DEF KeyIs
<1>15. GoesOnAs(store, "capture", says, o.ref, c)
  BY <1>12 DEF GoesOnAs
<1>16. look[l].pc # "done"
  BY <1>1
<1> QED BY <1>4, <1>5, <1>7, <1>13, <1>14, <1>15, <1>16, EidrWrites

LEMMA NothingWasFound == ASSUME EidrInv, NEW l \in Lookups, X!NothingFound(l) PROVE EidrInv'
<1>1. /\ look[l].pc = "ask" /\ Len(look[l].res) = Len(X!Items(l)) /\ X!FoundIn(look[l].res) = <<>>
      /\ UNCHANGED <<store, disc, apart, registry, wf>>
      /\ LookupShape(look[l]) /\ LookupIs(store, look[l]) /\ look = [m \in Lookups |-> look[m]]
  BY CommandIs DEF X!NothingFound, X!Found, EidrInv
<1>2. PICK c : c = [look[l] EXCEPT !.pc = "receipt"]
  OBVIOUS
<1>3. look' = [look EXCEPT ![l] = c]
  BY <1>1, <1>2 DEF X!NothingFound
<1>4. /\ LookupShape(c) /\ c.pc = "receipt" /\ c.batch = look[l].batch /\ c.manifest = look[l].manifest
      /\ c.from = look[l].from /\ c.at = look[l].at /\ c.entries = look[l].entries
      /\ c.res = look[l].res /\ c.cap = look[l].cap
  BY <1>1, <1>2 DEF LookupShape
<1>5. InsideBatch(store, look[l]) /\ Asking(store, look[l])
  BY <1>1 DEF LookupIs
<1>6. RawOf(X!NoRef) = <<>>
  BY DEF RawOf, X!Failed
<1>7. CaptureIs(store, c.batch, c.res, c.cap)
  <2>1. DOMAIN <<>> = {} /\ [n \in DOMAIN <<>> |-> X!Says(<<>>[n])] = <<>>
    OBVIOUS
  <2>2. c.cap = X!NoRef
    BY <1>4, <1>5 DEF Asking
  <2> QED BY <1>1, <1>4, <1>6, <2>1, <2>2 DEF CaptureIs
<1>8. InsideBatch(store, c)
  BY <1>4, <1>5 DEF InsideBatch, Underway
<1>9. Answers(c.res, X!Says(c.batch).items) /\ Len(c.res) = Len(X!Says(c.batch).items) /\ Stands(store, "batch", c.batch)
  BY <1>1, <1>4, <1>5 DEF Asking, X!Items, InsideBatch
<1>10. LookupReceiptIs(store, [batch |-> c.batch, res |-> c.res, cap |-> c.cap])
  BY <1>7, <1>9 DEF LookupReceiptIs
<1>11. LookupIs(store, c)
  BY <1>4, <1>8, <1>10 DEF LookupIs
<1> QED BY <1>1, <1>3, <1>4, <1>11, EidrQuiet

LEMMA PublishLookupReceipt == ASSUME EidrInv, NEW l \in Lookups, X!PublishReceipt(l) PROVE EidrInv'
<1>1. look[l].pc = "receipt" /\ LookupShape(look[l]) /\ LookupIs(store, look[l])
  BY CommandIs DEF X!PublishReceipt
<1>2. PICK says : says = [batch |-> look[l].batch, res |-> look[l].res, cap |-> look[l].cap]
  OBVIOUS
<1>3. PICK o \in X!Publish("receipt", says) :
        /\ store' = o.objects
        /\ look' = [look EXCEPT ![l] = IF X!Failed(o.ref) THEN X!Gone
                                       ELSE [look[l] EXCEPT !.pc = "watermark", !.rcpt = o.ref]]
  BY <1>2 DEF X!PublishReceipt, X!PublishStep, X!ReceiptOf
<1>4. UNCHANGED <<disc, apart, registry, wf>>
  BY DEF X!PublishReceipt, X!PublishStep
<1>5. PICK c : c = [look[l] EXCEPT !.pc = "watermark", !.rcpt = o.ref]
  OBVIOUS
<1>6. /\ LookupShape(c) /\ c.pc = "watermark" /\ c.batch = look[l].batch /\ c.manifest = look[l].manifest
      /\ c.from = look[l].from /\ c.at = look[l].at /\ c.entries = look[l].entries
      /\ c.cap = look[l].cap /\ c.rcpt = o.ref
  BY <1>1, <1>5 DEF LookupShape
<1>7. InsideBatch(store, look[l]) /\ LookupReceiptIs(store, says)
  BY <1>1, <1>2 DEF LookupIs
<1>8. ASSUME NEW st, EidrObjects(st), Keeps(store, st), Stands(st, "receipt", o.ref), o.ref.bytes = <<"receipt", says>>
      PROVE  LookupIs(st, c)
  <2>1. X!Says(o.ref) = says
    BY <1>8 DEF X!Says
  <2>2. InsideBatch(st, c)
    BY <1>6, <1>7, <1>8, ObjectsStand, FactsStand DEF InsideBatch, Underway
  <2> QED BY <1>2, <1>6, <1>8, <2>1, <2>2 DEF LookupIs
<1>9. look' = [look EXCEPT ![l] = IF X!Failed(o.ref) THEN X!Gone ELSE c]
  BY <1>3, <1>5
<1>10. KeyIs(store, "receipt", says)
  BY <1>7 DEF KeyIs
<1>11. GoesOnAs(store, "receipt", says, o.ref, c)
  BY <1>8 DEF GoesOnAs
<1>12. look[l].pc # "done"
  BY <1>1
<1> QED BY <1>3, <1>4, <1>6, <1>9, <1>10, <1>11, <1>12, EidrWrites

\* The watermarks lead on to the one of this batch.
LEMMA LeadsOn ==
  ASSUME CaptureConstants, NEW st, EidrObjects(st), NEW from, NEW at, NEW entries, Leads(st, from, at, entries), Len(entries) < MaxBatches,
         NEW mark, Stands(st, "watermark", mark), X!BatchOf(mark).before = at,
         X!Next(mark) - X!Next(from) <= MaxIds,
         NEW more, OneMore(more, entries, [cap |-> X!Receipt(mark).cap, after |-> mark])
  PROVE  Leads(st, from, mark, more)
<1>1. PICK k \in Nat : k = Len(entries) /\ Len(more) = k + 1
  BY DEF Leads, Listed, OneMore
<1>2. Listed(more) /\ more[k + 1].cap = X!Receipt(mark).cap /\ more[k + 1].after = mark /\ \A n \in 1..k : more[n] = entries[n]
  BY <1>1 DEF OneMore
<1>3. k + 1 <= MaxBatches
  BY <1>1, CaptureConstants
<1>4. MarkAt(from, more, k + 1) = mark
  BY <1>1, <1>2 DEF MarkAt
<1>5. \A n \in 0..k : MarkAt(from, more, n) = MarkAt(from, entries, n)
  BY <1>1, <1>2 DEF MarkAt
<1>6. ASSUME NEW n \in 1..(k + 1)
      PROVE  /\ Stands(st, "watermark", MarkAt(from, more, n))
             /\ X!BatchOf(MarkAt(from, more, n)).before = MarkAt(from, more, n - 1)
             /\ X!Receipt(MarkAt(from, more, n)).cap = more[n].cap
  <2>1. CASE n = k + 1
    <3>1. n - 1 = k /\ k \in 0..k
      BY <2>1
    <3>2. at = MarkAt(from, entries, k)
      BY <1>1 DEF Leads
    <3>3. MarkAt(from, more, n - 1) = at
      BY <1>5, <3>1, <3>2
    <3> QED BY <1>2, <1>4, <2>1, <3>3
  <2>2. CASE n # k + 1
    <3>1. n \in 1..k /\ n \in 0..k /\ n - 1 \in 0..k
      BY <2>2
    <3>2. MarkAt(from, more, n) = MarkAt(from, entries, n) /\ MarkAt(from, more, n - 1) = MarkAt(from, entries, n - 1)
      BY <1>5, <3>1
    <3>3. more[n] = entries[n]
      BY <1>2, <3>1
    <3>4. /\ Stands(st, "watermark", MarkAt(from, entries, n))
          /\ X!BatchOf(MarkAt(from, entries, n)).before = MarkAt(from, entries, n - 1)
          /\ X!Receipt(MarkAt(from, entries, n)).cap = entries[n].cap
      BY <1>1, <3>1 DEF Leads
    <3> QED BY <3>2, <3>3, <3>4
  <2> QED BY <2>1, <2>2
<1> QED BY <1>1, <1>2, <1>3, <1>4, <1>6 DEF Leads

LEMMA PublishLookupWatermark ==
  ASSUME EidrInv, CaptureConstants, NEW l \in Lookups, X!PublishWatermark(l) PROVE EidrInv'
<1>1. look[l].pc = "watermark" /\ LookupShape(look[l]) /\ LookupIs(store, look[l])
  BY CommandIs DEF X!PublishWatermark
<1>2. PICK says, entries : says = [next |-> X!Says(look[l].batch).hi, rcpt |-> look[l].rcpt] /\ entries = look[l].entries
  OBVIOUS
<1>3. PICK o \in X!Publish("watermark", says) :
        /\ store' = o.objects
        /\ look' = [look EXCEPT ![l] = IF X!Failed(o.ref) THEN X!Gone
                      ELSE [X!Fresh EXCEPT !.pc = "bounds", !.manifest = look[l].manifest,
                              !.from = look[l].from, !.at = o.ref,
                              !.entries = Append(entries, [cap |-> look[l].cap, after |-> o.ref])]]
  BY <1>2 DEF X!PublishWatermark, X!PublishStep, X!Watermark, X!Entry
<1>4. UNCHANGED <<disc, apart, registry, wf>>
  BY DEF X!PublishWatermark, X!PublishStep
<1>5. PICK entry, more : entry = [cap |-> look[l].cap, after |-> o.ref] /\ more = Append(entries, entry)
  OBVIOUS
<1>6. PICK c : c = [X!Fresh EXCEPT !.pc = "bounds", !.manifest = look[l].manifest,
                      !.from = look[l].from, !.at = o.ref, !.entries = more]
  OBVIOUS
<1>7. /\ LookupShape(c) /\ c.pc = "bounds" /\ c.manifest = look[l].manifest
      /\ c.from = look[l].from /\ c.at = o.ref /\ c.entries = more
      /\ c.res = <<>> /\ c.raw = <<>> /\ c.cap = X!NoRef
  BY <1>6 DEF LookupShape, X!Fresh
<1>8. /\ InsideBatch(store, look[l]) /\ Stands(store, "receipt", look[l].rcpt)
      /\ X!Says(look[l].rcpt).batch = look[l].batch /\ X!Says(look[l].rcpt).cap = look[l].cap
  BY <1>1 DEF LookupIs
<1>9. KeyIs(store, "watermark", says)
  BY <1>2, <1>8 DEF KeyIs, WatermarkIs
<1>10. OneMore(more, entries, entry)
  <2>1. Listed(entries)
    BY <1>2, <1>8 DEF InsideBatch, Underway, Leads
  <2> QED BY <1>5, <2>1, AppendedIs
<1>11. ASSUME NEW st, EidrObjects(st), Keeps(store, st), Stands(st, "watermark", o.ref), o.ref.bytes = <<"watermark", says>>
       PROVE  LookupIs(st, c)
  <2>1. X!Says(o.ref) = says /\ ~X!Failed(o.ref)
    BY <1>11, StandsIs DEF X!Says
  <2>2. /\ X!Receipt(o.ref).cap = look[l].cap /\ X!BatchOf(o.ref).before = look[l].at
        /\ X!Next(o.ref) = X!Says(look[l].batch).hi
    BY <1>2, <1>8, <2>1 DEF X!Receipt, X!BatchOf, X!Next, InsideBatch
  <2>3. Underway(st, look[l]) /\ Len(entries) < MaxBatches
    BY <1>2, <1>8, <1>11, ObjectsStand, FactsStand DEF InsideBatch, Underway
  <2>4. X!Next(o.ref) - X!Next(look[l].from) <= MaxIds
    BY <1>8, <2>2 DEF InsideBatch
  <2>5. Leads(st, look[l].from, o.ref, more)
    <3>1. OneMore(more, entries, [cap |-> X!Receipt(o.ref).cap, after |-> o.ref])
      BY <1>5, <1>10, <2>2
    <3>2. Leads(st, look[l].from, look[l].at, entries)
      BY <1>2, <2>3 DEF Underway
    <3> QED BY <1>11, <2>2, <2>3, <2>4, <3>1, <3>2, LeadsOn
  <2>6. Underway(st, c)
    BY <1>7, <1>11, <2>3, <2>5 DEF Underway, IsWatermark
  <2> QED BY <1>7, <2>6 DEF LookupIs
<1>12. look' = [look EXCEPT ![l] = IF X!Failed(o.ref) THEN X!Gone ELSE c]
  BY <1>3, <1>5, <1>6
<1>13. GoesOnAs(store, "watermark", says, o.ref, c)
  BY <1>11 DEF GoesOnAs
<1>14. look[l].pc # "done"
  BY <1>1
<1> QED BY <1>3, <1>4, <1>7, <1>9, <1>12, <1>13, <1>14, EidrWrites

LEMMA PublishLookupRun == ASSUME EidrInv, NEW l \in Lookups, X!PublishRun(l) PROVE EidrInv'
<1>1. look[l].pc = "bounds" /\ LookupShape(look[l]) /\ LookupIs(store, look[l])
  BY CommandIs DEF X!PublishRun
<1>2. PICK why \in X!Reasons(l) \ {"none"} :
        X!PublishStep(l, "run", X!Run(l, why), LAMBDA ref : [X!Fresh EXCEPT !.pc = "done", !.run = ref])
  BY DEF X!PublishRun
<1>3. PICK says : says = [manifest |-> look[l].manifest, from |-> look[l].from, at |-> look[l].at,
                          entries |-> look[l].entries, why |-> why]
  OBVIOUS
<1>4. PICK o \in X!Publish("run", says) :
        /\ store' = o.objects
        /\ look' = [look EXCEPT ![l] = IF X!Failed(o.ref) THEN X!Gone
                                       ELSE [X!Fresh EXCEPT !.pc = "done", !.run = o.ref]]
  BY <1>2, <1>3 DEF X!PublishStep, X!Run
<1>5. UNCHANGED <<disc, apart, registry, wf>>
  BY DEF X!PublishRun, X!PublishStep
<1>6. PICK c : c = [X!Fresh EXCEPT !.pc = "done", !.run = o.ref]
  OBVIOUS
<1>7. LookupShape(c) /\ c.pc = "done" /\ c.run = o.ref
  BY <1>6 DEF LookupShape, X!Fresh
<1>8. Underway(store, look[l])
  BY <1>1 DEF LookupIs
<1>9. (why = "MANIFEST_EXHAUSTED") = (X!Next(look[l].at) = X!Total(look[l].manifest))
  <2>1. CASE X!Next(look[l].at) = X!Total(look[l].manifest)
    <3>1. X!Reasons(l) = {"MANIFEST_EXHAUSTED"}
      BY <2>1 DEF X!Reasons
    <3> QED BY <2>1, <3>1
  <2>2. CASE X!Next(look[l].at) # X!Total(look[l].manifest)
    <3>1. X!Reasons(l) = {"MAX_IDS"} \/ X!Reasons(l) = {"MAX_BATCHES"} \/ X!Reasons(l) = {"MAX_DURATION", "none"}
      <4>1. CASE X!Attempted(l) >= MaxIds
        BY <2>2, <4>1 DEF X!Reasons
      <4>2. CASE ~(X!Attempted(l) >= MaxIds) /\ Len(look[l].entries) >= MaxBatches
        BY <2>2, <4>2 DEF X!Reasons
      <4>3. CASE ~(X!Attempted(l) >= MaxIds) /\ ~(Len(look[l].entries) >= MaxBatches)
        BY <2>2, <4>3 DEF X!Reasons
      <4> QED BY <4>1, <4>2, <4>3
    <3>2. why # "MANIFEST_EXHAUSTED"
      BY <3>1
    <3> QED BY <2>2, <3>2
  <2> QED BY <2>1, <2>2
<1>10. KeyIs(store, "run", says)
  <2>1. LookupRunIs(store, says)
    BY <1>3, <1>8, <1>9 DEF LookupRunIs, Underway
  <2> QED BY <2>1 DEF KeyIs
<1>11. GoesOnAs(store, "run", says, o.ref, c)
  BY <1>7 DEF GoesOnAs, LookupIs
<1>12. look' = [look EXCEPT ![l] = IF X!Failed(o.ref) THEN X!Gone ELSE c]
  BY <1>4, <1>6
<1>13. look[l].pc # "done"
  BY <1>1
<1> QED BY <1>4, <1>5, <1>7, <1>10, <1>11, <1>12, <1>13, EidrWrites

\* A step of the discovery: the objects may be one more.
LEMMA DiscoveryMoves ==
  ASSUME EidrInv, UNCHANGED <<look, registry, wf>>, NEW d, disc' = d, DiscoveryIs(d),
         NEW st, store' = st, EidrObjects(st), Keeps(store, st)
  PROVE  EidrInv'
<1>1. \A l \in Lookups : LookupShape(look'[l]) /\ LookupIs(st, look'[l])
  BY LookupStands DEF EidrInv
<1>2. UNCHANGED <<look, registry, wf>>
  OBVIOUS
<1> QED BY <1>1, <1>2 DEF EidrInv

LEMMA DiscoverOne == ASSUME EidrInv, X!DiscoverPage PROVE EidrInv'
<1>1. DiscoveryIs(disc) /\ EidrObjects(store) /\ Len(disc.pages) < Len(disc.frame) /\ UNCHANGED <<look, registry, wf>>
  BY DEF EidrInv, X!DiscoverPage
<1>2. PICK pages, says : pages = disc.pages /\ says = disc.frame[Len(pages) + 1]
  OBVIOUS
<1>3. PICK o \in X!Publish("page", says) :
        /\ store' = o.objects
        /\ disc' = IF X!Failed(o.ref) THEN [disc EXCEPT !.pc = "failed"]
                   ELSE [disc EXCEPT !.pages = Append(disc.pages, o.ref)]
  BY <1>2 DEF X!DiscoverPage
<1>4. PICK st : st = o.objects
  OBVIOUS
<1>5. /\ EidrObjects(st) /\ Keeps(store, st)
      /\ ~X!Failed(o.ref) => Stands(st, "page", o.ref) /\ o.ref.bytes = <<"page", says>>
  <2>1. KeyIs(store, "page", says)
    BY DEF KeyIs
  <2> QED BY <1>1, <1>3, <1>4, <2>1, EidrPublishes DEF X!Publish
<1>6. PICK d : d = disc'
  OBVIOUS
<1>7. CASE X!Failed(o.ref)
  <2>1. d = [disc EXCEPT !.pc = "failed"]
    BY <1>3, <1>6, <1>7
  <2>2. DiscoveryIs(d)
    BY <1>1, <2>1 DEF DiscoveryIs
  <2> QED BY <1>1, <1>3, <1>4, <1>5, <1>6, <2>2, DiscoveryMoves
<1>8. CASE ~X!Failed(o.ref)
  <2>1. PICK more : more = Append(pages, o.ref)
    OBVIOUS
  <2>2. d = [disc EXCEPT !.pages = more]
    BY <1>2, <1>3, <1>6, <1>8, <2>1
  <2>3. OneMore(more, pages, o.ref)
    <3>1. Listed(pages)
      BY <1>1, <1>2 DEF DiscoveryIs
    <3> QED BY <2>1, <3>1, AppendedIs
  <2>4. PICK k \in Nat : k = Len(pages) /\ Len(more) = k + 1
    BY <1>1, <1>2, <2>3 DEF DiscoveryIs, Listed, OneMore
  <2>5. disc.frame = X!IdPages /\ k < Len(X!IdPages)
    BY <1>1, <1>2, <2>4 DEF DiscoveryIs
  <2>6. Len(X!IdPages) \in Nat
    <3>1. PICK c \in Nat : PagesOf(X!IdPages, c, X!Rows, X!Discovered)
      BY CaptureConstants, PagesAre
    <3>2. Len(X!IdPages) = c
      BY <3>1 DEF PagesOf
    <3> QED BY <3>2
  <2>7. ASSUME NEW n \in 1..(k + 1) PROVE X!Says(more[n]) = X!IdPages[n]
    <3>1. CASE n = k + 1
      <4>1. X!Says(o.ref) = says
        BY <1>5, <1>8 DEF X!Says
      <4> QED BY <1>2, <2>3, <2>4, <2>5, <3>1, <4>1 DEF OneMore
    <3>2. CASE n # k + 1
      <4>1. n \in 1..k
        BY <3>2
      <4> QED BY <1>1, <1>2, <2>3, <2>4, <4>1 DEF OneMore, DiscoveryIs
    <3> QED BY <3>1, <3>2
  <2>8. k + 1 <= Len(X!IdPages)
    BY <2>5, <2>6
  <2>9. d = [pc |-> d.pc, frame |-> X!IdPages, pages |-> d.pages] /\ d.pages = more
    BY <1>1, <2>2 DEF DiscoveryIs
  <2>10. DiscoveryIs(d)
    BY <2>3, <2>4, <2>7, <2>8, <2>9 DEF DiscoveryIs, OneMore
  <2> QED BY <1>1, <1>3, <1>4, <1>5, <1>6, <2>10, DiscoveryMoves
<1> QED BY <1>7, <1>8

LEMMA DiscoverAll == ASSUME EidrInv, X!DiscoverManifest PROVE EidrInv'
<1>1. DiscoveryIs(disc) /\ EidrObjects(store) /\ Len(disc.pages) = Len(disc.frame) /\ UNCHANGED <<look, registry, wf>>
  BY DEF EidrInv, X!DiscoverManifest
<1>2. PICK pages : pages = disc.pages
  OBVIOUS
<1>3. PICK o \in X!Publish("manifest", pages) :
        store' = o.objects /\ disc' = [disc EXCEPT !.pc = IF X!Failed(o.ref) THEN "failed" ELSE "done"]
  BY <1>2 DEF X!DiscoverManifest
<1>4. PICK st, d : st = o.objects /\ d = disc'
  OBVIOUS
<1>5. KeyIs(store, "manifest", pages)
  <2>1. PICK c \in Nat : PagesOf(X!IdPages, c, X!Rows, X!Discovered)
    BY CaptureConstants, PagesAre
  <2>2. DOMAIN X!IdPages = 1..c /\ Len(X!IdPages) = c
    BY <2>1 DEF PagesOf
  <2>3. Listed(pages) /\ Len(pages) = c /\ \A n \in 1..c : X!Says(pages[n]) = X!IdPages[n]
    BY <1>1, <1>2, <2>2 DEF DiscoveryIs
  <2>4. DOMAIN pages = 1..c /\ pages = [n \in 1..c |-> pages[n]]
    BY <2>3 DEF Listed
  <2>5. IsManifest(pages)
    BY <2>2, <2>3, <2>4 DEF IsManifest, X!Says
  <2> QED BY <2>5 DEF KeyIs
<1>6. EidrObjects(st) /\ Keeps(store, st)
  BY <1>1, <1>3, <1>4, <1>5, EidrPublishes DEF X!Publish
<1>7. DiscoveryIs(d)
  BY <1>1, <1>3, <1>4 DEF DiscoveryIs
<1> QED BY <1>1, <1>3, <1>4, <1>6, <1>7, DiscoveryMoves

LEMMA DiscoverAgain == ASSUME EidrInv, X!Rediscover PROVE EidrInv'
<1>1. DiscoveryIs(disc) /\ EidrObjects(store) /\ UNCHANGED <<store, look, registry, wf>>
  BY DEF EidrInv, X!Rediscover
<1>2. PICK d : d = [disc EXCEPT !.pc = "pages", !.pages = <<>>]
  OBVIOUS
<1>3. Len(X!IdPages) \in Nat
  <2>1. PICK c \in Nat : PagesOf(X!IdPages, c, X!Rows, X!Discovered)
    BY CaptureConstants, PagesAre
  <2>2. Len(X!IdPages) = c
    BY <2>1 DEF PagesOf
  <2> QED BY <2>2
<1>4. d = [pc |-> d.pc, frame |-> X!IdPages, pages |-> d.pages] /\ d.pages = <<>>
  <2>1. disc = [pc |-> disc.pc, frame |-> X!IdPages, pages |-> disc.pages]
    BY <1>1 DEF DiscoveryIs
  <2>2. PICK frame, none : frame = X!IdPages /\ none = <<>>
    OBVIOUS
  <2>3. PICK pc, pages : disc = [pc |-> pc, frame |-> frame, pages |-> pages]
    BY <2>1, <2>2
  <2>4. d = [[disc EXCEPT !.pc = "pages"] EXCEPT !.pages = none]
    BY <1>2, <2>2
  <2>5. [disc EXCEPT !.pc = "pages"] = [pc |-> "pages", frame |-> frame, pages |-> pages]
    BY <2>3
  <2>6. d = [pc |-> "pages", frame |-> frame, pages |-> none]
    BY <2>4, <2>5
  <2>7. d.pc = "pages" /\ d.pages = none
    BY <2>6
  <2> QED BY <2>2, <2>6, <2>7
<1>5. DiscoveryIs(d)
  <2>1. 1..Len(<<>>) = {} /\ Len(<<>>) <= Len(X!IdPages)
    BY <1>3, NoneListed
  <2> QED BY <1>4, <2>1, NoneListed DEF DiscoveryIs
<1>6. disc' = d
  BY <1>2 DEF X!Rediscover
<1>7. PICK st : st = store
  OBVIOUS
<1>8. store' = st /\ EidrObjects(st) /\ Keeps(store, st)
  BY <1>1, <1>7, KeepsAll
<1> QED BY <1>1, <1>5, <1>6, <1>8, DiscoveryMoves

LEMMA RegisterOne == ASSUME EidrInv, NEW i, X!Register(i) PROVE EidrInv'
<1>1. registry' \in [X!Discovered -> BOOLEAN]
  BY DEF EidrInv, X!Register
<1>2. UNCHANGED <<store, disc, look, wf>>
  BY DEF X!Register
<1> QED BY <1>1, <1>2 DEF EidrInv

\* ------------------------------------------------------------- the EIDR workflow

LEMMA WorkflowMoves ==
  ASSUME EidrInv, UNCHANGED <<disc, look, registry>>, NEW w, wf' = w, WorkflowIs(w, look[Research]),
         NEW st, store' = st, EidrObjects(st), Keeps(store, st)
  PROVE  EidrInv'
<1>1. \A l \in Lookups : LookupShape(look'[l]) /\ LookupIs(st, look'[l])
  BY LookupStands DEF EidrInv
<1>2. UNCHANGED <<disc, look, registry>>
  OBVIOUS
<1> QED BY <1>1, <1>2 DEF EidrInv

\* The captures of a run are those of its batches.
LEMMA CapturesListed ==
  ASSUME NEW st, EidrObjects(st), NEW ref, Stands(st, "run", ref)
  PROVE  Listed(X!Captures(ref))
<1>1. PICK entries : entries = X!Says(ref).entries
  OBVIOUS
<1>2. Listed(entries)
  BY <1>1, StandsIs DEF KeyIs, LookupRunIs, Leads
<1>3. PICK caps : caps = [n \in DOMAIN entries |-> entries[n].cap]
  OBVIOUS
<1>4. PICK k \in Nat : caps = [n \in 1..k |-> caps[n]]
  <2>1. DOMAIN entries = 1..Len(entries) /\ Len(entries) \in Nat
    BY <1>2 DEF Listed
  <2> QED BY <1>3, <2>1
<1>5. PICK V : V = {caps[n] : n \in 1..k}
  OBVIOUS
<1>6. PICK places : places = {n \in DOMAIN caps : ~X!Failed(caps[n])}
  OBVIOUS
<1>7. caps \in Seq(V) /\ places \in SUBSET (1..Len(caps))
  BY <1>4, <1>5, <1>6, ListedIs
<1>8. X!At(caps, places) \in Seq(V)
  BY <1>7, AtIs
<1>9. X!Captures(ref) = X!At(caps, places)
  BY <1>1, <1>3, <1>6 DEF X!Captures
<1> QED BY <1>8, <1>9, SequenceListed

LEMMA LookupEnds == ASSUME EidrInv, X!EndLookup PROVE EidrInv'
<1>1. /\ wf.pc = "lookup" /\ WorkflowIs(wf, look[Research]) /\ EidrObjects(store) /\ UNCHANGED <<store, disc, look, registry>>
      /\ Research \in Lookups
  BY CaptureConstants DEF EidrInv, X!EndLookup
<1>2. PICK ok \in {look[Research].pc = "done", FALSE} : wf' = [wf EXCEPT !.pc = IF ok THEN "silver" ELSE "failed"]
  BY DEF X!EndLookup
<1>3. PICK w : w = [wf EXCEPT !.pc = IF ok THEN "silver" ELSE "failed"]
  OBVIOUS
<1>4. wf.silver = <<>> /\ w.silver = <<>> /\ w = [pc |-> w.pc, silver |-> w.silver, tried |-> w.tried] /\ w.pc # "lookup"
  BY <1>1, <1>3 DEF WorkflowIs
<1>5. ASSUME w.pc = "silver" PROVE look[Research].pc = "done" /\ StartsOf(w.silver, X!Captures(look[Research].run))
  <2>1. look[Research].pc = "done"
    <3>1. CASE ok
      BY <1>2, <3>1
    <3>2. CASE ~ok
      BY <1>1, <1>3, <1>5, <3>2 DEF WorkflowIs
    <3> QED BY <3>1, <3>2
  <2>2. Stands(store, "run", look[Research].run)
    BY <1>1, <2>1, CommandIs DEF LookupIs
  <2>3. Len(X!Captures(look[Research].run)) \in Nat
    BY <1>1, <2>2, CapturesListed DEF Listed
  <2> QED BY <1>4, <2>1, <2>3, NoneListed DEF StartsOf
<1>6. WorkflowIs(w, look[Research])
  BY <1>4, <1>5 DEF WorkflowIs
<1>7. PICK st : st = store
  OBVIOUS
<1>8. store' = st /\ EidrObjects(st) /\ Keeps(store, st) /\ wf' = w
  BY <1>1, <1>2, <1>3, <1>7, KeepsAll
<1> QED BY <1>1, <1>6, <1>8, WorkflowMoves

\* An attempt that failed.
LEMMA AgainIs ==
  ASSUME NEW c, WorkflowIs(wf, c), wf.pc = "silver"
  PROVE  WorkflowIs(X!Again, c)
<1>1. wf = [pc |-> wf.pc, silver |-> wf.silver, tried |-> wf.tried] /\ c.pc = "done" /\ StartsOf(wf.silver, X!Captures(c.run))
  BY DEF WorkflowIs
<1>2. PICK w : w = X!Again
  OBVIOUS
<1>3. w = [wf EXCEPT !.tried = wf.tried + 1] \/ w = [wf EXCEPT !.pc = "failed", !.silver = <<>>]
  BY <1>2 DEF X!Again
<1>4. w = [pc |-> w.pc, silver |-> w.silver, tried |-> w.tried] /\ (w.pc = "failed" \/ (w.pc = "silver" /\ w.silver = wf.silver))
  BY <1>1, <1>3
<1>5. WorkflowIs(w, c)
  BY <1>1, <1>4 DEF WorkflowIs
<1> QED BY <1>2, <1>5

LEMMA SilverSubmitted == ASSUME EidrInv, X!SubmitSilver PROVE EidrInv'
<1>1. /\ wf.pc = "silver" /\ WorkflowIs(wf, look[Research]) /\ EidrObjects(store) /\ UNCHANGED <<store, disc, look, registry>>
      /\ Len(wf.silver) < Len(X!Captures(look[Research].run)) /\ Research \in Lookups
  BY CaptureConstants DEF EidrInv, X!SubmitSilver
<1>2. PICK silver, caps : silver = wf.silver /\ caps = X!Captures(look[Research].run)
  OBVIOUS
<1>3. \/ wf' = [wf EXCEPT !.tried = 0, !.silver = Append(silver, caps[Len(silver) + 1])]
      \/ wf' = X!Again
  BY <1>2 DEF X!SubmitSilver
<1>4. look[Research].pc = "done" /\ StartsOf(silver, caps)
  BY <1>1, <1>2 DEF WorkflowIs
<1>5. PICK w, more, next : w = wf' /\ next = caps[Len(silver) + 1] /\ more = Append(silver, next)
  OBVIOUS
<1>6. WorkflowIs(w, look[Research])
  <2>1. CASE w = X!Again
    BY <1>1, <2>1, AgainIs
  <2>2. CASE w # X!Again
    <3>1. w = [wf EXCEPT !.tried = 0, !.silver = more]
      BY <1>3, <1>5, <2>2
    <3>2. w = [pc |-> w.pc, silver |-> w.silver, tried |-> w.tried] /\ w.pc = "silver" /\ w.silver = more
      BY <1>1, <3>1 DEF WorkflowIs
    <3>3. OneMore(more, silver, next)
      <4>1. Listed(silver)
        BY <1>4 DEF StartsOf
      <4> QED BY <1>5, <4>1, AppendedIs
    <3>4. Len(caps) \in Nat
      <4>1. Stands(store, "run", look[Research].run)
        BY <1>1, <1>4, CommandIs DEF LookupIs
      <4> QED BY <1>1, <1>2, <4>1, CapturesListed DEF Listed
    <3>5. PICK k \in Nat : k = Len(silver) /\ Len(more) = k + 1 /\ k + 1 <= Len(caps)
      <4>1. Len(silver) \in Nat /\ Len(silver) < Len(caps) /\ Len(more) = Len(silver) + 1
        BY <1>1, <1>2, <1>4, <3>3 DEF StartsOf, Listed, OneMore
      <4> QED BY <3>4, <4>1
    <3>6. ASSUME NEW n \in 1..(k + 1) PROVE more[n] = caps[n]
      <4>1. CASE n = k + 1
        BY <1>5, <3>3, <3>5, <4>1 DEF OneMore
      <4>2. CASE n # k + 1
        <5>1. n \in 1..k
          BY <4>2
        <5> QED BY <1>4, <3>3, <3>5, <5>1 DEF OneMore, StartsOf
      <4> QED BY <4>1, <4>2
    <3>7. StartsOf(more, caps)
      BY <3>3, <3>5, <3>6 DEF StartsOf, OneMore
    <3> QED BY <1>2, <1>4, <3>2, <3>7 DEF WorkflowIs
  <2> QED BY <2>1, <2>2
<1>7. PICK st : st = store
  OBVIOUS
<1>8. store' = st /\ EidrObjects(st) /\ Keeps(store, st) /\ wf' = w
  BY <1>1, <1>5, <1>7, KeepsAll
<1> QED BY <1>1, <1>6, <1>8, WorkflowMoves

LEMMA SummaryWritten == ASSUME EidrInv, X!WriteSummary PROVE EidrInv'
<1>1. /\ wf.pc = "silver" /\ WorkflowIs(wf, look[Research]) /\ EidrObjects(store) /\ UNCHANGED <<disc, look, registry>>
      /\ Len(wf.silver) = Len(X!Captures(look[Research].run)) /\ Research \in Lookups
  BY CaptureConstants DEF EidrInv, X!WriteSummary
<1>2. PICK silver, caps, ref : ref = look[Research].run /\ silver = wf.silver /\ caps = X!Captures(ref)
  OBVIOUS
<1>3. PICK says : says = [run |-> ref, silver |-> silver]
  OBVIOUS
<1>4. PICK o \in X!Publish("summary", says) :
        store' = o.objects /\ wf' = IF X!Failed(o.ref) THEN X!Again ELSE [wf EXCEPT !.pc = "done"]
  BY <1>2, <1>3 DEF X!WriteSummary
<1>5. look[Research].pc = "done" /\ StartsOf(silver, caps) /\ Len(silver) = Len(caps)
  BY <1>1, <1>2 DEF WorkflowIs
<1>6. Stands(store, "run", ref)
  BY <1>1, <1>2, <1>5, CommandIs DEF LookupIs
<1>7. silver = caps
  <2>1. Listed(caps) /\ Listed(silver)
    BY <1>1, <1>2, <1>5, <1>6, CapturesListed DEF StartsOf
  <2> QED BY <1>5, <2>1 DEF StartsOf, Listed
<1>8. KeyIs(store, "summary", says)
  BY <1>2, <1>3, <1>6, <1>7 DEF KeyIs, SummaryOf
<1>9. PICK st, w : st = o.objects /\ w = wf'
  OBVIOUS
<1>10. EidrObjects(st) /\ Keeps(store, st)
  BY <1>1, <1>4, <1>8, <1>9, EidrPublishes DEF X!Publish
<1>11. WorkflowIs(w, look[Research])
  <2>1. CASE w = X!Again
    BY <1>1, <2>1, AgainIs
  <2>2. CASE w # X!Again
    <3>1. w = [wf EXCEPT !.pc = "done"]
      BY <1>4, <1>9, <2>2
    <3> QED BY <1>1, <3>1 DEF WorkflowIs
  <2> QED BY <2>1, <2>2
<1> QED BY <1>1, <1>4, <1>9, <1>10, <1>11, WorkflowMoves

LEMMA EidrStarts == X!EidrInit => EidrInv
<1> SUFFICES ASSUME X!EidrInit PROVE EidrInv
  OBVIOUS
<1>1. store = <<>> /\ look = [l \in Lookups |-> X!Fresh] /\ wf = [pc |-> "lookup", silver |-> <<>>, tried |-> 0]
  BY DEF X!EidrInit
<1>2. EidrObjects(store)
  <2>1. DOMAIN store = {}
    BY <1>1
  <2> QED BY <2>1 DEF EidrObjects
<1>3. \A l \in Lookups : LookupShape(look[l]) /\ LookupIs(store, look[l])
  BY <1>1, GoneIs
<1>4. registry \in [X!Discovered -> BOOLEAN]
  BY DEF X!EidrInit
<1>5. disc = [pc |-> "pages", frame |-> X!IdPages, pages |-> <<>>]
  BY DEF X!EidrInit
<1>6. Len(X!IdPages) \in Nat
  <2>1. PICK c \in Nat : PagesOf(X!IdPages, c, X!Rows, X!Discovered)
    BY CaptureConstants, PagesAre
  <2>2. Len(X!IdPages) = c
    BY <2>1 DEF PagesOf
  <2> QED BY <2>2
<1>7. DiscoveryIs(disc)
  <2>1. 1..Len(<<>>) = {} /\ Len(<<>>) <= Len(X!IdPages)
    BY <1>6, NoneListed
  <2> QED BY <1>5, <2>1, NoneListed DEF DiscoveryIs
<1>8. WorkflowIs(wf, look[Research])
  BY <1>1 DEF WorkflowIs
<1>9. look = [l \in Lookups |-> look[l]]
  BY <1>1
<1> QED BY <1>2, <1>3, <1>4, <1>7, <1>8, <1>9 DEF EidrInv

LEMMA EidrNext == EidrInv /\ [X!EidrNext]_eidr => EidrInv'
<1> SUFFICES ASSUME EidrInv, [X!EidrNext]_eidr PROVE EidrInv'
  OBVIOUS
<1>1. CASE UNCHANGED eidr
  <2>1. UNCHANGED <<store, disc, look, registry, wf>>
    BY <1>1 DEF eidr
  <2> QED BY <2>1 DEF EidrInv
<1>2. CASE X!DiscoverPage \/ X!DiscoverManifest \/ X!Rediscover
  BY <1>2, DiscoverOne, DiscoverAll, DiscoverAgain
<1>3. ASSUME NEW l \in Lookups, X!Start(l) \/ X!Proceed(l) \/ X!Crash(l) PROVE EidrInv'
  <2>1. CASE X!Start(l) \/ X!Crash(l)
    BY <2>1, StartLookup, CrashLookups
  <2>2. CASE X!BeginBatch(l) \/ X!Collide(l) \/ X!Ask(l)
    BY <2>2, BeginLookupBatch, CollideLookup, AskOne, CaptureConstants
  <2>3. CASE X!PublishRaw(l) \/ X!PublishCapture(l) \/ X!NothingFound(l)
    BY <2>3, PublishLookupRaw, PublishLookupCapture, NothingWasFound
  <2>4. CASE X!PublishReceipt(l) \/ X!PublishWatermark(l) \/ X!PublishRun(l)
    BY <2>4, PublishLookupReceipt, PublishLookupWatermark, PublishLookupRun, CaptureConstants
  <2> QED BY <1>3, <2>1, <2>2, <2>3, <2>4 DEF X!Proceed
<1>4. ASSUME NEW i, X!Register(i) PROVE EidrInv'
  BY <1>4, RegisterOne
<1>5. CASE X!Conclude
  BY <1>5, LookupEnds, SilverSubmitted, SummaryWritten DEF X!Conclude
<1> QED BY <1>1, <1>2, <1>3, <1>4, <1>5 DEF X!EidrNext

LEMMA LinksWhole ==
  ASSUME EidrInv, CaptureConstants, NEW mark, Stands(store, "watermark", mark)
  PROVE  X!LinkIsWhole(mark)
<1>1. PICK rcpt, batch : rcpt = X!Receipt(mark) /\ batch = X!BatchOf(mark)
  OBVIOUS
<1>2. EidrObjects(store) /\ DOMAIN registry = X!Discovered
  BY DEF EidrInv
<1>3. /\ Stands(store, "receipt", X!Says(mark).rcpt) /\ LookupReceiptIs(store, rcpt) /\ BatchIs(store, batch)
      /\ X!Next(mark) = batch.hi
  BY <1>1, <1>2, WatermarkSaid
<1>4. \A kind, ref : Stands(store, kind, ref) => X!Stored(ref)
  BY DEF Stands, X!Stored
<1>5. X!Stored(X!Says(mark).rcpt) /\ X!Stored(rcpt.batch)
  BY <1>3, <1>4 DEF LookupReceiptIs
<1>6. X!Failed(batch.before) \/ X!Stored(batch.before)
  <2>1. X!Failed(X!NoRef)
    BY DEF X!Failed
  <2> QED BY <1>3, <1>4, <2>1 DEF BatchIs, IsWatermark
<1>7. batch.lo = X!Next(batch.before) /\ batch.hi = X!Next(mark)
  BY <1>3 DEF BatchIs
<1>8. batch = X!Says(rcpt.batch)
  BY <1>1 DEF X!BatchOf
<1>9. PICK lo \in Nat, hi \in Nat : lo = batch.lo /\ hi = batch.hi /\ lo <= hi /\ hi <= Len(X!Rows)
  BY <1>3 DEF BatchIs
<1>10. Len(rcpt.res) = hi - lo /\ Len(batch.items) = hi - lo
  BY <1>3, <1>8, <1>9 DEF LookupReceiptIs, BatchIs, RunsFrom
<1>11. DOMAIN rcpt.res = 1..(hi - lo)
  <2>1. DOMAIN rcpt.res = 1..Len(rcpt.res)
    BY <1>3 DEF LookupReceiptIs, Answers, Listed
  <2> QED BY <1>10, <2>1
<1>12. ASSUME NEW n \in DOMAIN rcpt.res PROVE X!Rank(rcpt.res[n].id) = lo + n
  <2>1. n \in 1..(hi - lo)
    BY <1>11
  <2>2. rcpt.res[n].id = batch.items[n]
    BY <1>3, <1>8, <1>10, <2>1 DEF LookupReceiptIs, Answers
  <2>3. batch.items[n] = X!Rows[lo + n]
    BY <1>3, <1>9, <2>1 DEF BatchIs, RunsFrom
  <2>4. PICK k \in 1..Len(X!Rows) : k = lo + n
    <3>1. Len(X!Rows) \in Nat
      BY RowsAre
    <3>2. lo + n \in 1..Len(X!Rows)
      BY <1>9, <2>1, <3>1
    <3> QED BY <3>2
  <2>5. X!Rank(X!Rows[k]) = k
    BY <1>2, RankIs
  <2> QED BY <2>2, <2>3, <2>4, <2>5
<1>13. CaptureIs(store, rcpt.batch, rcpt.res, rcpt.cap)
  BY <1>3 DEF LookupReceiptIs
<1>14. PICK found, raw : found = X!FoundIn(rcpt.res) /\ raw = RawOf(rcpt.cap)
  OBVIOUS
<1>15. /\ found # <<>> => X!Stored(rcpt.cap) /\ X!Says(rcpt.cap).batch = rcpt.batch
       /\ [n \in DOMAIN raw |-> X!Says(raw[n])] = found
       /\ \A n \in DOMAIN raw : X!Stored(raw[n])
  BY <1>4, <1>13, <1>14 DEF CaptureIs
<1>16. raw = IF X!Failed(rcpt.cap) THEN <<>> ELSE X!Says(rcpt.cap).raw
  BY <1>14 DEF RawOf
<1>17. Len(rcpt.res) = batch.hi - batch.lo /\ \A n \in DOMAIN rcpt.res : X!Rank(rcpt.res[n].id) = batch.lo + n
  BY <1>9, <1>10, <1>12
<1> QED BY <1>1, <1>5, <1>6, <1>7, <1>14, <1>15, <1>16, <1>17 DEF X!LinkIsWhole

LEMMA RunsWhole ==
  ASSUME EidrInv, NEW run0, LookupRunIs(store, run0)
  PROVE  X!RunIsWhole(run0)
<1>1. \A kind, ref : Stands(store, kind, ref) => X!Stored(ref)
  BY DEF Stands, X!Stored
<1>2. PICK n, from, entries : n = Len(run0.entries) /\ from = run0.from /\ entries = run0.entries
  OBVIOUS
<1>3. /\ n <= MaxBatches /\ X!Next(run0.at) - X!Next(run0.from) <= MaxIds
      /\ run0.at = MarkAt(from, entries, n)
      /\ \A k \in 1..n : /\ X!Stored(MarkAt(from, entries, k)) /\ X!BatchOf(MarkAt(from, entries, k)).before = MarkAt(from, entries, k - 1)
                         /\ X!Receipt(MarkAt(from, entries, k)).cap = entries[k].cap
      /\ (run0.why = "MANIFEST_EXHAUSTED") = (X!Next(run0.at) = X!Total(run0.manifest))
  BY <1>1, <1>2 DEF LookupRunIs, Leads
<1> QED BY <1>2, <1>3 DEF X!RunIsWhole, MarkAt

LEMMA EidrPublished ==
  ASSUME EidrInv, NEW kind, NEW ref \in X!Published(kind)
  PROVE  Stands(store, kind, ref)
BY DEF X!Published, EidrInv, EidrObjects, Stands

LEMMA LookupsWhole == ASSUME EidrInv, CaptureConstants PROVE X!LookupsAreWhole
<1>1. \A ref \in X!Published("watermark") : X!LinkIsWhole(ref)
  BY EidrPublished, LinksWhole
<1>2. ASSUME NEW ref \in X!Published("run") PROVE X!RunIsWhole(X!Says(ref))
  <2>1. Stands(store, "run", ref) /\ EidrObjects(store)
    BY EidrPublished DEF EidrInv
  <2>2. LookupRunIs(store, X!Says(ref))
    BY <2>1, StandsIs DEF KeyIs
  <2> QED BY <2>2, RunsWhole
<1> QED BY <1>1, <1>2 DEF X!LookupsAreWhole

LEMMA SummariesWhole == EidrInv => X!SummaryIsWhole
<1> SUFFICES ASSUME EidrInv, NEW ref \in X!Published("summary")
             PROVE  X!Stored(X!Says(ref).run) /\ X!Says(ref).silver = X!Captures(X!Says(ref).run)
  BY DEF X!SummaryIsWhole
<1>1. Stands(store, "summary", ref) /\ EidrObjects(store)
  BY EidrPublished DEF EidrInv
<1>2. SummaryOf(store, X!Says(ref))
  BY <1>1, StandsIs DEF KeyIs
<1> QED BY <1>2 DEF SummaryOf, Stands, X!Stored

\* ------------------------------------------------------------------- MCCapture

\* Of each connector that the theorems are about.
CaptureInv ==
  /\ SyncInv /\ PartitionsInv /\ PiecesInv /\ BackfillInv /\ MarkedInv /\ EuropeanaInv /\ BackedInv
  /\ TvmazeInv /\ EidrInv

LEMMA CaptureInit == MCInit => CaptureInv
  BY SyncInit, PartitionsInit, PiecesInit, BackfillInit, MarkedInit, EuropeanaInit, BackedInit,
     TvmazeStarts, EidrStarts
  DEF MCInit, CaptureInv

LEMMA CaptureIdle ==
  /\ SyncInv /\ UNCHANGED wikidata => SyncInv'
  /\ PartitionsInv /\ UNCHANGED imdb => PartitionsInv'
  /\ PartitionsInv /\ PiecesInv /\ UNCHANGED imdb => PiecesInv'
  /\ BackfillInv /\ UNCHANGED backfill => BackfillInv'
  /\ BackfillInv /\ MarkedInv /\ UNCHANGED backfill => MarkedInv'
  /\ EuropeanaInv /\ UNCHANGED europeana => EuropeanaInv'
  /\ EuropeanaInv /\ BackedInv /\ UNCHANGED europeana => BackedInv'
  /\ TvmazeInv /\ UNCHANGED tvmaze => TvmazeInv'
  /\ EidrInv /\ UNCHANGED eidr => EidrInv'
BY SyncNext, PartitionsNext, PiecesNext, BackfillNext, MarkedNext, EuropeanaNext, BackedNext, TvmazeNext,
   EidrNext, CaptureConstants

LEMMA CaptureNext ==
  CaptureInv /\ [MCNext]_<<connector, wikidata, imdb, europeana, eidr, tvmaze, backfill>> => CaptureInv'
<1> SUFFICES ASSUME CaptureInv, [MCNext]_<<connector, wikidata, imdb, europeana, eidr, tvmaze, backfill>>
             PROVE  CaptureInv'
  OBVIOUS
<1>1. CASE Wikidata
  BY <1>1, SyncNext, CaptureIdle DEF Wikidata, CaptureInv
<1>2. CASE Imdb
  BY <1>2, PartitionsNext, PiecesNext, CaptureIdle DEF Imdb, CaptureInv
<1>3. CASE Europeana
  BY <1>3, EuropeanaNext, BackedNext, CaptureIdle DEF Europeana, CaptureInv
<1>4. CASE Eidr
  BY <1>4, EidrNext, CaptureIdle DEF Eidr, CaptureInv
<1>5. CASE Tvmaze
  <2>1. TvmazeInv'
    BY <1>5, TvmazeNext, CaptureConstants DEF Tvmaze, CaptureInv
  <2> QED BY <1>5, <2>1, CaptureIdle DEF Tvmaze, CaptureInv
<1>6. CASE Backfill
  BY <1>6, BackfillNext, MarkedNext, CaptureIdle DEF Backfill, CaptureInv
<1>7. CASE UNCHANGED <<connector, wikidata, imdb, europeana, eidr, tvmaze, backfill>>
  BY <1>7, CaptureIdle DEF CaptureInv
<1> QED BY <1>1, <1>2, <1>3, <1>4, <1>5, <1>6, <1>7 DEF MCNext

\* What holds of every capture at every time.
THEOREM CaptureInvariant == MCSpec => []CaptureInv
<1>1. MCInit => CaptureInv
  BY CaptureInit
<1>2. CaptureInv /\ [MCNext]_<<connector, wikidata, imdb, europeana, eidr, tvmaze, backfill>> => CaptureInv'
  BY CaptureNext
<1> QED BY <1>1, <1>2, PTL DEF MCSpec

\* sync_official_dump puts at the official key only what one upstream dump has in all
\* of its ranges and what the checksum file has named: whatever upstream republishes
\* between the HEAD, the ranges and the copy, however many syncs run and die, and when
\* ranges are answered by another edition.
THEOREM OfficialIsPublished == MCSpec => []PublishedIsOfficial
<1>1. CaptureInv => PublishedIsOfficial
  BY DEF CaptureInv, SyncInv, PublishedIsOfficial
<1> QED BY <1>1, CaptureInvariant, PTL

\* A sync that has ended and was not killed has aborted its upload and deleted its
\* staging object, on every path out of sync_official_dump.
THEOREM SyncsLeaveNothing == MCSpec => []SyncsCleanUp
<1>1. CaptureInv => SyncsCleanUp
  BY SyncsClean DEF CaptureInv, SyncsCleanUp
<1> QED BY <1>1, CaptureInvariant, PTL

\* Whoever wins the conditional publication: the syncs of a dump return one version of
\* one object, the captures of one IMDb edition one record set, and the backfills of
\* one build one commit, however often they are repeated or run beside each other.
THEOREM CapturesReturnAlike == MCSpec => []ResultsAgree
<1>1. CaptureInv => ResultsAgree
  BY SyncsAgree, PartitionsAgree, BackfillRunsAgree DEF CaptureInv, ResultsAgree
<1> QED BY <1>1, CaptureInvariant, PTL

\* capture_europeana_oai: the captures of one set commit no page of a listing that goes
\* forward twice, whatever they resume from and however they are repeated; and no
\* capture commits a page twice, although a listing hands out its tokens again.
THEOREM PagesOnce == MCSpec => []PagesCommittedOnce
<1>1. CaptureInv => PagesCommittedOnce
  BY PagesOnceOnly DEF CaptureInv, PagesCommittedOnce
<1> QED BY <1>1, CaptureInvariant, PTL

\* publish_connector_partition and finalize_connector_partitions of IMDb: a checkpoint
\* names every shard of its dataset as it is stored, so that a capture that resumes
\* from it and does not read the dataset again loses no record; and a record set is
\* every shard of every dataset in order, of the raw files that its batch declares:
\* whichever workers were left behind by captures that died, and whoever of them and
\* of the later captures won each publication.
THEOREM PartitionsStayWhole == MCSpec => [](P!CheckpointsCover /\ P!RecordSetIsWhole)
<1>1. CaptureInv => P!CheckpointsCover /\ P!RecordSetIsWhole
  BY PiecesCover, PiecesWhole DEF CaptureInv
<1> QED BY <1>1, CaptureInvariant, PTL

\* capture_europeana_oai: what a receipt resumed from was committed by another of its
\* set, back to the start of the window: a watermark that an operator hands over rests
\* on a receipt, although captures die between the watermark and the receipt.
THEOREM ChainsLeadBack == MCSpec => []E!ChainHasNoGap
<1>1. CaptureInv => E!ChainHasNoGap
  BY ChainHolds DEF CaptureInv
<1> QED BY <1>1, CaptureInvariant, PTL

\* load_or_build_normalized_staging: the marker of the staging is there only when a
\* run has written the normalized dump whole, whichever runs write at once, fail in
\* the middle of it or die before the marker.
THEOREM MarkersAreHonest == MCSpec => []B!MarkerIsHonest
<1>1. CaptureInv => B!MarkerIsHonest
  BY DEF CaptureInv, MarkedInv
<1> QED BY <1>1, CaptureInvariant, PTL

\* capture_europeana_oai, commit last: a receipt is there only when the batch, its raw
\* pages, the watermark and the record set are stored, and the shards of that hold each
\* record of these pages exactly once, in the envelope of the page it was read from,
\* however the records fall into shards; and it says EMPTY only of a window without
\* records.  Captures die between any two publications, are repeated with another
\* acquired_at while upstream changes, and lose publications to each other.
THEOREM ReceiptsStayBacked == MCSpec => []E!ReceiptsAreBacked
<1>1. CaptureInv => E!ReceiptsAreBacked
  BY ReceiptsBacked DEF CaptureInv
<1> QED BY <1>1, CaptureInvariant, PTL

\* capture_tvmaze_show_index: the record set of a snapshot, whose gaps the lifecycle
\* turns into deletions, has every show that was there from the first page to the last,
\* although shows come, change and go between the pages, a page in the middle may have
\* none, and max_pages ends some snapshots early.
THEOREM SnapshotsStayWhole == MCSpec => []T!SnapshotIsWhole
<1>1. CaptureInv => T!SnapshotIsWhole
  BY SnapshotsWhole DEF CaptureInv
<1> QED BY <1>1, CaptureInvariant, PTL

\* capture_tvmaze_show_delta and plan_tvmaze_delta_windows: commands that each read the
\* update index again and take one window of an inventory have its updates in one
\* record each, between the two watermarks of the window, and each goes on from the
\* watermark at which the window before it stopped, for every inventory and max_updates.
THEOREM WindowsStayAbut == MCSpec => []T!WindowsAbut
<1>1. CaptureInv => T!WindowsAbut
  BY WindowsMeet, CaptureConstants DEF CaptureInv
<1> QED BY <1>1, CaptureInvariant, PTL

\* run_eidr_exact_lookup_manifest: commands that die, that end at any of their limits,
\* and that go on from a watermark of an earlier one have looked up every identifier
\* before their watermark, in the order of the epoch and with one result each; the
\* capture of a batch has the records that were found and no other, all of them stored;
\* and the manifest of a run leads over its own batches, within its limits, from the
\* watermark it was given to its last one.
THEOREM LookupsStayWhole == MCSpec => []X!LookupsAreWhole
<1>1. CaptureInv => X!LookupsAreWhole
  BY LookupsWhole, CaptureConstants DEF CaptureInv
<1> QED BY <1>1, CaptureInvariant, PTL

\* EidrPublicResearchWorkflow: a summary has a Source Silver run for each capture of the
\* stored manifest of its lookup, in order, although attempts fail and are repeated.
THEOREM SummariesStayWhole == MCSpec => []X!SummaryIsWhole
<1>1. CaptureInv => X!SummaryIsWhole
  BY SummariesWhole DEF CaptureInv
<1> QED BY <1>1, CaptureInvariant, PTL

\* What is resumed leaves nothing out, of all connectors that resume: the receipts of
\* an Europeana window, the watermarks of the EIDR lookups and the windows of a TVmaze
\* update index follow each other from the start on.
THEOREM NothingIsSkipped == MCSpec => []ChainHasNoGap
<1>1. CaptureInv => ChainHasNoGap
  BY ChainHolds, LookupsWhole, WindowsMeet, CaptureConstants DEF CaptureInv, ChainHasNoGap
<1> QED BY <1>1, CaptureInvariant, PTL
=============================================================================
