---------------------------- MODULE WikidataSync ----------------------------
(* sync_official_dump: one dated Wikidata dump is downloaded range by range  *)
(* into a staging object of a versioned bucket, compared with the official   *)
(* SHA-1, and copied to a final object whose key holds that SHA-1.  Several  *)
(* syncs of one dump may run at the same time, each may die or be refused by *)
(* S3 at any call, and the dump may be published anew beneath them.          *)
EXTENDS Integers, Sequences, FiniteSets

CONSTANTS
  Syncs,          \* invocations of the command
  Editions,       \* bound: 1..Editions are the contents published upstream
  Ranges,         \* number of byte ranges of a dump
  RangeAttempts,  \* range_attempts
  WeakValidator   \* the validator is a Last-Modified that editions of one size share

VARIABLES
  up,     \* the edition at the dump's URL
  sums,   \* the edition its SHA-1 sidecar is about
  dest,   \* final objects by SHA-1: their bytes and who wrote them
  stage,  \* staging objects, one key for each sync
  open,   \* multipart uploads that are neither completed nor aborted
  sy,     \* the syncs
  lost    \* syncs to which S3 refused an abort or a delete, or lost a reply

vars == <<up, sums, dest, stage, open, sy, lost>>

Absent == [bytes |-> <<>>, by |-> "none"]
Idle == [pc |-> "idle", sha1 |-> 0, seen |-> 0, try |-> 1, parts |-> <<>>,
         res |-> Absent, out |-> "none"]

Init ==
  /\ up = 1 /\ sums = 1
  /\ dest = [e \in 1..Editions |-> Absent]
  /\ stage = [s \in Syncs |-> <<>>]
  /\ open = {}
  /\ sy = [s \in Syncs |-> Idle]
  /\ lost = {}

\* A SHA-1 stands for the edition it was computed from: bytes have it when
\* every range comes from that edition.
HasSha1(bytes, e) == Len(bytes) = Ranges /\ \A n \in 1..Ranges : bytes[n] = e

-----------------------------------------------------------------------------
(* dumps.wikimedia.org                                                       *)

Republish == up < Editions /\ up' = up + 1 /\ UNCHANGED <<sums, dest, stage, open, sy, lost>>
PublishSums == sums # up /\ sums' = up /\ UNCHANGED <<up, dest, stage, open, sy, lost>>

-----------------------------------------------------------------------------
(* The command                                                               *)

Goto(s, pc) == sy' = [sy EXCEPT ![s].pc = pc]
Local == UNCHANGED <<up, sums, dest, stage, open, lost>>

\* Where an exception leads: to the innermost finally of the call it breaks.
Unwound(pc) ==
  CASE pc \in {"range", "verify"}      -> "abort"
    [] pc \in {"copy", "publish"}      -> "abort final"
    [] pc \in {"create final", "existing", "check"} -> "cleanup"
    [] OTHER                           -> "failed"

Raised(s) == [sy[s] EXCEPT !.pc = Unwound(@), !.out = "failed"]
Raise(s) == sy' = [sy EXCEPT ![s] = Raised(s)]

\* Any request may be refused upstream or by S3, without effect.
Refused(s) ==
  /\ sy[s].pc \in {"idle", "lookup", "head", "create", "range", "verify", "create final",
                   "copy", "publish", "existing", "check"}
  /\ Raise(s) /\ Local

\* fetch_official_sha1: it names the destination.
FetchSha1(s) ==
  /\ sy[s].pc = "idle"
  /\ sy' = [sy EXCEPT ![s].pc = "lookup", ![s].sha1 = sums]
  /\ Local

\* What _head_existing makes of the destination: its bytes are read again.
Existing(s, next) ==
  LET object == dest[sy[s].sha1]
  IN  IF HasSha1(object.bytes, sy[s].sha1)
      THEN sy' = [sy EXCEPT ![s].pc = next, ![s].res = object, ![s].out = "done"]
      ELSE Raise(s)

Lookup(s) ==
  /\ sy[s].pc = "lookup"
  /\ IF dest[sy[s].sha1] = Absent THEN Goto(s, "head") ELSE Existing(s, "done")
  /\ Local

\* _head_official_dump: size and validator of what is upstream now.
HeadDump(s) ==
  /\ sy[s].pc = "head"
  /\ sy' = [sy EXCEPT ![s].pc = "create", ![s].seen = up]
  /\ Local

Replied(s) == UNCHANGED lost
ReplyLost(s) == lost' = lost \cup {s}

\* create_multipart_upload of the staging object or of the final one.
CreateUpload(s, object, next) ==
  /\ open' = open \cup {<<s, object>>}
  /\ \/ Replied(s) /\ Goto(s, next)
     \/ ReplyLost(s) /\ Raise(s)
  /\ UNCHANGED <<up, sums, dest, stage>>

CreateStaging(s) == sy[s].pc = "create" /\ CreateUpload(s, "staging", "range")

\* A range under If-Range: the validator of the response is compared again.
SameValidator(s) == up = sy[s].seen \/ WeakValidator

ReadRange(s) ==
  /\ sy[s].pc = "range"
  /\ IF SameValidator(s)
     THEN LET parts == Append(sy[s].parts, up)
          IN  sy' = [sy EXCEPT ![s].parts = parts, ![s].try = 1,
                               ![s].pc = IF Len(parts) = Ranges THEN "verify" ELSE "range"]
     ELSE Raise(s)
  /\ Local

\* Mutant: the count of the attempts starts anew.
RetryForEver(s) ==
  /\ sy[s].pc = "range"
  /\ sy' = [sy EXCEPT ![s].try = (@ % RangeAttempts) + 1]
  /\ Local

\* _RetryableRangeError: the range is read again from its first byte.
RangeFails(s) ==
  /\ sy[s].pc = "range"
  /\ IF sy[s].try < RangeAttempts THEN sy' = [sy EXCEPT ![s].try = @ + 1] ELSE Raise(s)
  /\ Local

\* Mutant: the SHA-1 is not compared.
StageUnverified(s) ==
  /\ sy[s].pc = "verify"
  /\ stage' = [stage EXCEPT ![s] = sy[s].parts]
  /\ open' = open \ {<<s, "staging">>}
  /\ Goto(s, "create final")
  /\ UNCHANGED <<up, sums, dest, lost>>

\* The comparison and complete_multipart_upload of the staging object.
StageVerified(s) ==
  /\ sy[s].pc = "verify"
  /\ UNCHANGED <<up, sums, dest>>
  /\ IF ~HasSha1(sy[s].parts, sy[s].sha1)
     THEN Raise(s) /\ UNCHANGED <<stage, open, lost>>
     ELSE /\ stage' = [stage EXCEPT ![s] = sy[s].parts]
          /\ open' = open \ {<<s, "staging">>}
          /\ \/ Replied(s) /\ Goto(s, "create final")
             \/ ReplyLost(s) /\ Raise(s)

CreateFinal(s) == sy[s].pc = "create final" /\ CreateUpload(s, "final", "copy")

\* upload_part_copy of the staged version, part by part.
Copy(s) == sy[s].pc = "copy" /\ stage[s] # <<>> /\ Goto(s, "publish") /\ Local

Final(s) == [bytes |-> stage[s], by |-> s]

\* Mutant: complete_multipart_upload without IfNoneMatch.
PublishOver(s) ==
  /\ sy[s].pc = "publish"
  /\ dest' = [dest EXCEPT ![sy[s].sha1] = Final(s)]
  /\ open' = open \ {<<s, "final">>}
  /\ sy' = [sy EXCEPT ![s].pc = "check", ![s].res = Final(s), ![s].out = "done"]
  /\ UNCHANGED <<up, sums, stage, lost>>

\* S3 answers a conflict when the key exists (412) or when another upload to it
\* is being completed (409).
Conflicts(s) ==
  \/ dest[sy[s].sha1] # Absent
  \/ \E t \in Syncs \ {s} : sy[t].pc = "publish" /\ sy[t].sha1 = sy[s].sha1

\* complete_multipart_upload with IfNoneMatch; the loser of a race aborts its
\* upload and looks at the winner's object.  The client sends a call again when
\* the reply is lost, and then loses to itself.
Publish(s) ==
  /\ sy[s].pc = "publish"
  /\ UNCHANGED <<up, sums, stage>>
  /\ \/ /\ dest[sy[s].sha1] = Absent
        /\ dest' = [dest EXCEPT ![sy[s].sha1] = Final(s)]
        /\ open' = open \ {<<s, "final">>}
        /\ \/ /\ Replied(s)
              /\ sy' = [sy EXCEPT ![s].pc = "check", ![s].res = Final(s), ![s].out = "done"]
           \/ ReplyLost(s) /\ (Raise(s) \/ Goto(s, "existing"))
     \/ /\ Conflicts(s) /\ UNCHANGED dest
        /\ \/ Replied(s) /\ open' = open \ {<<s, "final">>}
           \/ ReplyLost(s) /\ UNCHANGED open
        /\ Goto(s, "existing")

CompareWinner(s) == sy[s].pc = "existing" /\ Existing(s, "cleanup") /\ Local

\* head_object of the version that was published.
CheckFinal(s) == sy[s].pc = "check" /\ Goto(s, "cleanup") /\ Local

\* Mutant: only the staging upload is aborted.
KeepFinalUpload(s) ==
  /\ sy[s].pc \in {"abort", "abort final"}
  /\ open' = open \ {<<s, "staging">>}
  /\ Goto(s, IF sy[s].pc = "abort" THEN "failed" ELSE "cleanup")
  /\ UNCHANGED <<up, sums, dest, stage, lost>>

\* _abort; what goes wrong in it is suppressed.
AbortUpload(s) ==
  /\ sy[s].pc \in {"abort", "abort final"}
  /\ \/ open' = open \ {<<s, IF sy[s].pc = "abort" THEN "staging" ELSE "final">>} /\ Replied(s)
     \/ UNCHANGED open /\ ReplyLost(s)
  /\ Goto(s, IF sy[s].pc = "abort" THEN "failed" ELSE "cleanup")
  /\ UNCHANGED <<up, sums, dest, stage>>

\* The finally of sync_official_dump, once the staging object was completed.
DeleteStaging(s) ==
  /\ sy[s].pc = "cleanup"
  /\ \/ stage' = [stage EXCEPT ![s] = <<>>] /\ Replied(s)
     \/ UNCHANGED stage /\ ReplyLost(s)
  /\ Goto(s, sy[s].out)
  /\ UNCHANGED <<up, sums, dest, open>>

Stopped == {"done", "failed", "dead"}

Dies(s) == sy[s].pc \notin Stopped \cup {"idle"} /\ Goto(s, "dead") /\ Local

Sync(s) ==
  \/ FetchSha1(s) \/ Lookup(s) \/ HeadDump(s) \/ CreateStaging(s) \/ ReadRange(s)
  \/ RangeFails(s) \/ StageVerified(s) \/ CreateFinal(s) \/ Copy(s) \/ Publish(s)
  \/ CompareWinner(s) \/ CheckFinal(s) \/ AbortUpload(s) \/ DeleteStaging(s) \/ Refused(s)

Next == Republish \/ PublishSums \/ \E s \in Syncs : Sync(s) \/ Dies(s)

Spec == Init /\ [][Next]_vars

\* A command that was started goes on until it returns or dies; upstream and S3
\* may refuse every request.
Syncing == \E s \in Syncs : sy[s].pc # "idle" /\ (Sync(s) \/ Dies(s))
Fair == WF_vars(Syncing)
FairSpec == Spec /\ Fair

-----------------------------------------------------------------------------
(* Properties                                                                *)

\* The object under a SHA-1 has that SHA-1: ranges of two editions are never
\* published, nor an edition under the sidecar of another
\* (UPSTREAM_SHA1_MISMATCH).
PublishedIsOfficial ==
  \A e \in 1..Editions : dest[e] # Absent => HasSha1(dest[e].bytes, e)

\* Syncs that return the same SHA-1 return the same object version, the one that
\* stays at the destination.
ResultsAgree ==
  \A s \in Syncs : sy[s].pc = "done" => sy[s].res = dest[sy[s].sha1] /\ sy[s].res # Absent

\* A sync that returns, with a result or an error, leaves no multipart upload
\* and no staging object, as long as S3 answers it.
SyncsCleanUp ==
  \A s \in Syncs \ lost :
    sy[s].pc \in {"done", "failed"} =>
      stage[s] = <<>> /\ <<s, "staging">> \notin open /\ <<s, "final">> \notin open

\* No sync is in the middle: every started sync has come to an end, although
\* ranges keep failing.
SyncsRest == \A s \in Syncs : sy[s].pc \in {"idle"} \cup Stopped
=============================================================================
