----------------------------- MODULE EidrBackfill -----------------------------
(* Exact EIDR lookups (eidr_backfill.py): the identifiers that a Silver epoch     *)
(* asserts are published in pages under a manifest; commands look them up one     *)
(* batch after the other, each of which ends in a watermark the next one, or a    *)
(* later command, starts from; and the research workflow hands the captures of    *)
(* its command to Source Silver.  Objects are addressed by their content, so an   *)
(* object's key is what it says; a reference has its bytes, and bytes are a kind  *)
(* with a record.                                                                *)
EXTENDS Integers, SequencesExt, ImmutableStore

CONSTANTS
  Assertions,  \* identifier assertions of the epoch: [id, scoped, active]
  ShardOf,     \* identifier -> the shard its digest begins with
  PageSize,
  Late,        \* identifiers the registry does not resolve yet
  Lookups,     \* lookup commands; one of them may be the workflow's
  Research,    \* the command of the workflow
  BatchSize, MaxIds, MaxBatches,   \* the limits of a command
  Attempts     \* requests for one identifier, and attempts of an activity

VARIABLES
  store,      \* key -> object
  disc,       \* the discovery: [pc, frame, pages], the pages of its frame and those published
  apart,      \* the commands run in processes of their own
  look,       \* command -> [pc, from, at, items, res, tried, raw, batch, cap, rcpt, entries, run]
  registry,   \* identifier -> whether the registry resolves it
  wf          \* [pc, silver, tried]

eidrVars == <<store, disc, apart, look, registry, wf>>

Publish(kind, says) == PublishOutcomes(store, <<kind, says>>, <<kind, says>>, 1)
Published(kind) == {store[k] : k \in {x \in DOMAIN store : x[1] = kind}}
Says(ref) == ref.bytes[2]

-----------------------------------------------------------------------------
(* Discovery.                                                                   *)
Before(i, j) == ShardOf[i] < ShardOf[j] \/ (ShardOf[i] = ShardOf[j] /\ i < j)

\* build_discovered_eidr_id_frame and the order it is read in
Discovered == {a.id : a \in {x \in Assertions : x.scoped /\ x.active}}
Rows ==
  CHOOSE rows \in SetToSeqs(Discovered) : \A m, n \in DOMAIN rows : m < n => Before(rows[m], rows[n])

PageOf(i) ==
  <<ShardOf[i],
    Cardinality({j \in Discovered : ShardOf[j] = ShardOf[i] /\ j < i}) \div PageSize>>

\* Places of a sequence from the first to the last, and what is at them.
InOrder(places) ==
  CHOOSE s \in SetToSeqs(places) : \A m, n \in DOMAIN s : m < n => s[m] < s[n]
At(seq, places) == [n \in DOMAIN InOrder(places) |-> seq[InOrder(places)[n]]]

\* A page is flushed where its key ends; ordinals count through all of them.
IdPages ==
  LET first == InOrder({o \in DOMAIN Rows : o = 1 \/ PageOf(Rows[o]) # PageOf(Rows[o - 1])})
      last(n) == IF n = Len(first) THEN Len(Rows) ELSE first[n + 1] - 1
  IN  [n \in DOMAIN first |->
         [key |-> PageOf(Rows[first[n]]), start |-> first[n] - 1,
          items |-> SubSeq(Rows, first[n], last(n))]]

\* publish_discovered_eidr_id_manifest: the pages one by one, the manifest last.
DiscoverPage ==
  /\ disc.pc = "pages" /\ Len(disc.pages) < Len(disc.frame)
  /\ \E o \in Publish("page", disc.frame[Len(disc.pages) + 1]) :
       /\ store' = o.objects
       /\ disc' = IF Failed(o.ref) THEN [disc EXCEPT !.pc = "failed"]
                  ELSE [disc EXCEPT !.pages = Append(@, o.ref)]
  /\ UNCHANGED <<apart, look, registry, wf>>

DiscoverManifest ==
  /\ disc.pc = "pages" /\ Len(disc.pages) = Len(disc.frame)
  /\ \E o \in Publish("manifest", disc.pages) :
       /\ store' = o.objects
       /\ disc' = [disc EXCEPT !.pc = IF Failed(o.ref) THEN "failed" ELSE "done"]
  /\ UNCHANGED <<apart, look, registry, wf>>

\* The operator runs a failed discovery again, over the same snapshot.
Rediscover ==
  /\ disc.pc = "failed"
  /\ disc' = [disc EXCEPT !.pc = "pages", !.pages = <<>>]
  /\ UNCHANGED <<store, apart, look, registry, wf>>

-----------------------------------------------------------------------------
(* A lookup command: run_eidr_exact_lookup_manifest.                            *)
Total(manifest) ==
  LET pages == Says(manifest)
  IN  IF pages = <<>> THEN 0 ELSE Says(Last(pages)).start + Len(Says(Last(pages)).items)
Next(ref) == IF Failed(ref) THEN 0 ELSE Says(ref).next
Attempted(l) == Next(look[l].at) - Next(look[l].from)

Fresh ==
  [pc |-> "idle", manifest |-> NoRef, from |-> NoRef, at |-> NoRef, batch |-> NoRef,
   res |-> <<>>, tried |-> 0, raw |-> <<>>, cap |-> NoRef, rcpt |-> NoRef,
   entries |-> <<>>, run |-> NoRef]
\* What a command knew is gone when it raises or its process dies.
Gone == [Fresh EXCEPT !.pc = "failed"]

Stopped == {"idle", "done", "failed"}
InBatch == {"ask", "receipt", "watermark"}

\* _select_lookup_items: what the pages of a manifest have from lo up to hi.
SelectItems(pages, lo, hi) ==
  LET first(p) == IF lo > p.start THEN lo - p.start ELSE 0
      last(p) == IF hi < p.start + Len(p.items) THEN (IF hi > p.start THEN hi - p.start ELSE 0)
                 ELSE Len(p.items)
      slice(p) == SubSeq(p.items, first(p) + 1, last(p))
  IN  FlattenSeq([n \in DOMAIN pages |-> slice(Says(pages[n]))])

\* The command reads the manifest and the watermark it is given, if any.
Start(l) ==
  /\ look[l].pc = "idle"
  /\ \E m \in Published("manifest"), w \in Published("watermark") \cup {NoRef} :
       look' = [look EXCEPT ![l].pc = "bounds", ![l].manifest = m,
                            ![l].from = w, ![l].at = w]
  /\ UNCHANGED <<store, disc, apart, registry, wf>>

\* Why the command stops before another batch; the clock may end it as well.
Reasons(l) ==
  IF Next(look[l].at) = Total(look[l].manifest) THEN {"MANIFEST_EXHAUSTED"}
  ELSE IF Attempted(l) >= MaxIds THEN {"MAX_IDS"}
  ELSE IF Len(look[l].entries) >= MaxBatches THEN {"MAX_BATCHES"}
  ELSE {"MAX_DURATION", "none"}

\* One batch at a time in a process (_SOURCE_SEMAPHORE).
Busy(l) == ~apart /\ \E m \in Lookups \ {l} : look[m].pc \in InBatch

\* The reference a step publishes, and what it makes of the command; an exception
\* ends the command.
PublishStep(l, kind, says, after(_)) ==
  /\ \E o \in Publish(kind, says) :
       /\ store' = o.objects
       /\ look' = [look EXCEPT ![l] = IF Failed(o.ref) THEN Gone ELSE after(o.ref)]
  /\ UNCHANGED <<disc, apart, registry, wf>>

\* The batch: the next identifiers, no more than the command may still attempt.
Batch(l) ==
  LET lo == Next(look[l].at)
      size == Min({BatchSize, MaxIds - Attempted(l), Total(look[l].manifest) - lo})
  IN  [before |-> look[l].at, lo |-> lo, hi |-> lo + size,
       items |-> SelectItems(Says(look[l].manifest), lo, lo + size)]

BeginBatch(l) ==
  /\ look[l].pc = "bounds" /\ "none" \in Reasons(l) /\ ~Busy(l)
  /\ PublishStep(l, "batch", Batch(l), LAMBDA ref :
       [look[l] EXCEPT !.pc = "ask", !.batch = ref])

Collide(l) ==
  /\ look[l].pc = "bounds" /\ "none" \in Reasons(l) /\ Busy(l)
  /\ look' = [look EXCEPT ![l] = Gone]
  /\ UNCHANGED <<store, disc, apart, registry, wf>>

Items(l) == Says(look[l].batch).items

\* _lookup_one: a record or none, for the next identifier; 429, 5xx and network
\* errors are tried again, anything else is an exception.
Ask(l) ==
  /\ look[l].pc = "ask" /\ Len(look[l].res) < Len(Items(l))
  /\ LET i == Items(l)[Len(look[l].res) + 1]
     IN  \/ look' = [look EXCEPT ![l].res = Append(@, [id |-> i, found |-> registry[i]]),
                                 ![l].tried = 0]
         \/ /\ look[l].tried < Attempts - 1
            /\ look' = [look EXCEPT ![l].tried = @ + 1]
         \/ look' = [look EXCEPT ![l] = Gone]
  /\ UNCHANGED <<store, disc, apart, registry, wf>>

\* The responses are published once every identifier has its result.
FoundIn(res) == At(res, {n \in DOMAIN res : res[n].found})
Found(l) == FoundIn(look[l].res)

PublishRaw(l) ==
  /\ look[l].pc = "ask" /\ Len(look[l].res) = Len(Items(l))
  /\ Len(look[l].raw) < Len(Found(l))
  /\ PublishStep(l, "raw", Found(l)[Len(look[l].raw) + 1], LAMBDA ref :
       [look[l] EXCEPT !.raw = Append(@, ref)])

PublishCapture(l) ==
  /\ look[l].pc = "ask" /\ Len(look[l].res) = Len(Items(l))
  /\ look[l].raw # <<>> /\ Len(look[l].raw) = Len(Found(l))
  /\ PublishStep(l, "capture", [batch |-> look[l].batch, raw |-> look[l].raw], LAMBDA ref :
       [look[l] EXCEPT !.pc = "receipt", !.cap = ref])

NothingFound(l) ==
  /\ look[l].pc = "ask" /\ Len(look[l].res) = Len(Items(l)) /\ Found(l) = <<>>
  /\ look' = [look EXCEPT ![l].pc = "receipt"]
  /\ UNCHANGED <<store, disc, apart, registry, wf>>

ReceiptOf(l) == [batch |-> look[l].batch, res |-> look[l].res, cap |-> look[l].cap]

PublishReceipt(l) ==
  /\ look[l].pc = "receipt"
  /\ PublishStep(l, "receipt", ReceiptOf(l), LAMBDA ref :
       [look[l] EXCEPT !.pc = "watermark", !.rcpt = ref])

Watermark(l) == [next |-> Says(look[l].batch).hi, rcpt |-> look[l].rcpt]
Entry(l, mark) == [cap |-> look[l].cap, after |-> mark]

\* The watermark is the last object of a batch, and what commits it.
PublishWatermark(l) ==
  /\ look[l].pc = "watermark"
  /\ PublishStep(l, "watermark", Watermark(l), LAMBDA ref :
       [Fresh EXCEPT !.pc = "bounds", !.manifest = look[l].manifest,
          !.from = look[l].from, !.at = ref,
          !.entries = Append(look[l].entries, Entry(l, ref))])

\* The manifest of the run lists the batches of this command, and only when it
\* stopped at one of its limits.
Run(l, why) ==
  [manifest |-> look[l].manifest, from |-> look[l].from, at |-> look[l].at,
   entries |-> look[l].entries, why |-> why]

PublishRun(l) ==
  /\ look[l].pc = "bounds"
  /\ \E why \in Reasons(l) \ {"none"} :
       PublishStep(l, "run", Run(l, why), LAMBDA ref :
         [Fresh EXCEPT !.pc = "done", !.run = ref])

\* A process dies with its commands.
Crash(l) ==
  /\ look[l].pc \notin Stopped
  /\ look' = [m \in Lookups |-> IF (m = l \/ ~apart) /\ look[m].pc \notin Stopped
                                THEN Gone ELSE look[m]]
  /\ UNCHANGED <<store, disc, apart, registry, wf>>

\* External: a record is registered while commands run.
Register(i) ==
  /\ ~registry[i]
  /\ registry' = [registry EXCEPT ![i] = TRUE]
  /\ UNCHANGED <<store, disc, apart, look, wf>>

-----------------------------------------------------------------------------
(* EidrPublicResearchWorkflow, from the end of its lookup activity on.          *)
Captures(run) ==
  LET caps == [n \in DOMAIN Says(run).entries |-> Says(run).entries[n].cap]
  IN  At(caps, {n \in DOMAIN caps : ~Failed(caps[n])})

\* _validate_lookup_payload reads every object of the run; the activity has one
\* attempt, and its exception is the workflow's.
EndLookup ==
  /\ wf.pc = "lookup" /\ look[Research].pc \in {"done", "failed"}
  /\ \E ok \in {look[Research].pc = "done", FALSE} :
       wf' = [wf EXCEPT !.pc = IF ok THEN "silver" ELSE "failed"]
  /\ UNCHANGED <<store, disc, apart, look, registry>>

\* An attempt fails: the last one fails the workflow.
Again == IF wf.tried + 1 < Attempts THEN [wf EXCEPT !.tried = @ + 1] ELSE [wf EXCEPT !.pc = "failed", !.silver = <<>>]

\* Source Silver, one capture after the other.
SubmitSilver ==
  /\ wf.pc = "silver" /\ Len(wf.silver) < Len(Captures(look[Research].run))
  /\ \/ wf' = [wf EXCEPT !.tried = 0,
                         !.silver = Append(@, Captures(look[Research].run)[Len(@) + 1])]
     \/ wf' = Again
  /\ UNCHANGED <<store, disc, apart, look, registry>>

WriteSummary ==
  /\ wf.pc = "silver" /\ Len(wf.silver) = Len(Captures(look[Research].run))
  /\ \E o \in Publish("summary", [run |-> look[Research].run, silver |-> wf.silver]) :
       /\ store' = o.objects
       /\ wf' = IF Failed(o.ref) THEN Again ELSE [wf EXCEPT !.pc = "done"]
  /\ UNCHANGED <<disc, apart, look, registry>>

-----------------------------------------------------------------------------
EidrInit ==
  /\ store = <<>> /\ disc = [pc |-> "pages", frame |-> IdPages, pages |-> <<>>]
  /\ apart \in BOOLEAN
  /\ look = [l \in Lookups |-> Fresh]
  /\ registry = [i \in Discovered |-> i \notin Late]
  /\ wf = [pc |-> "lookup", silver |-> <<>>, tried |-> 0]

\* What a command that has started does next.
Proceed(l) ==
  \/ BeginBatch(l) \/ Collide(l) \/ Ask(l)
  \/ PublishRaw(l) \/ PublishCapture(l) \/ NothingFound(l)
  \/ PublishReceipt(l) \/ PublishWatermark(l) \/ PublishRun(l)

Conclude == EndLookup \/ SubmitSilver \/ WriteSummary

EidrNext ==
  \/ DiscoverPage \/ DiscoverManifest \/ Rediscover
  \/ \E l \in Lookups : Start(l) \/ Proceed(l) \/ Crash(l)
  \/ \E i \in DOMAIN registry : Register(i)
  \/ Conclude

\* A command that has started goes on, and the workflow after it.
Looking == (\E l \in Lookups : Proceed(l)) \/ Conclude
EidrFair == WF_eidrVars(Looking)

-----------------------------------------------------------------------------
(* A watermark covers what is before it: it leads over receipts and watermarks  *)
(* back to the start of the manifest, each batch of the way has the next         *)
(* identifiers of the epoch in order and one result for each, and its capture    *)
(* has exactly the records that were found, all of them in the store             *)
(* (run_eidr_exact_lookup_batch).                                               *)
Stored(ref) == ref.bytes \in DOMAIN store /\ store[ref.bytes] = ref
Receipt(mark) == Says(Says(mark).rcpt)
BatchOf(mark) == Says(Receipt(mark).batch)

Rank(id) == Cardinality({i \in DOMAIN registry : i = id \/ Before(i, id)})

LinkIsWhole(mark) ==
  LET rcpt == Receipt(mark)
      batch == BatchOf(mark)
      found == FoundIn(rcpt.res)
      raw == IF Failed(rcpt.cap) THEN <<>> ELSE Says(rcpt.cap).raw
  IN  /\ Stored(Says(mark).rcpt) /\ Stored(rcpt.batch)
      /\ Failed(batch.before) \/ Stored(batch.before)
      /\ batch.lo = Next(batch.before) /\ batch.hi = Next(mark)
      /\ Len(rcpt.res) = batch.hi - batch.lo
      /\ \A n \in DOMAIN rcpt.res : Rank(rcpt.res[n].id) = batch.lo + n
      /\ found # <<>> => Stored(rcpt.cap) /\ Says(rcpt.cap).batch = rcpt.batch
      /\ [n \in DOMAIN raw |-> Says(raw[n])] = found
      /\ \A n \in DOMAIN raw : Stored(raw[n])

\* The manifest of a run goes from its first watermark to its last.
RunIsWhole(run) ==
  LET n == Len(run.entries)
      mark(k) == IF k = 0 THEN run.from ELSE run.entries[k].after
  IN  /\ n <= MaxBatches /\ Next(run.at) - Next(run.from) <= MaxIds
      /\ run.at = mark(n)
      /\ \A k \in 1..n : /\ Stored(mark(k)) /\ BatchOf(mark(k)).before = mark(k - 1)
                         /\ Receipt(mark(k)).cap = run.entries[k].cap
      /\ (run.why = "MANIFEST_EXHAUSTED") = (Next(run.at) = Total(run.manifest))

LookupsAreWhole ==
  /\ \A ref \in Published("watermark") : LinkIsWhole(ref)
  /\ \A ref \in Published("run") : RunIsWhole(Says(ref))

(* A summary names one Source Silver run for each capture of its lookup.        *)
SummaryIsWhole ==
  \A ref \in Published("summary") :
    Stored(Says(ref).run) /\ Says(ref).silver = Captures(Says(ref).run)

(* No command is in the middle, whatever the registry answered, and the workflow *)
(* has ended after its command.                                                 *)
LookupsRest ==
  /\ \A l \in Lookups : look[l].pc \in Stopped
  /\ look[Research].pc # "idle" => wf.pc \in {"done", "failed"}
=============================================================================
