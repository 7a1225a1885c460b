--------------------------- MODULE EuropeanaCapture ---------------------------
(* capture_europeana_oai: bounded captures of one OAI window.  A capture that *)
(* stops at its page bound leaves a watermark with the token to go on from,   *)
(* and the operator hands it to the next one.  The batch, its records, the    *)
(* record set, the watermark and last the receipt are published once each;    *)
(* captures may be repeated, run beside each other, fail at any call or die.  *)
EXTENDS Integers, FiniteSetsExt, SequencesExt, ImmutableStore

CONSTANTS
  LastCapture, \* bound: captures, numbered in the order in which they start
  LastSet,     \* bound: set_specs of the window, which the configuration digest
               \* covers, numbered in the order of their first captures
  Pages,       \* bound: 1..Pages are the pages of an upstream listing
  Listings,    \* listings [after, records]: the page to which the token of a page's
               \* response leads, never the first, and the records on the pages,
               \* [id, deleted]
  MaxPages, MaxRecords, \* max_pages, max_records
  ShardRecords,         \* record_shard_bytes, in records
  Revisions    \* bound: the responses may change so often

VARIABLES
  listing,  \* what upstream lists; Terminal: a response without a token
  revision, \* of the responses: their datestamps, or only the date of the response
  objects,  \* the object store
  cap,      \* the captures
  handed    \* watermarks that the operator has from the output of a capture

vars == <<listing, revision, objects, cap, handed>>

Captures == 1..LastCapture
Start == 1       \* the page of a request without a token
Terminal == 0

\* SourceWatermark; the configuration digest stands for the set, its position is
\* the greatest datestamp, or the date of the last response.
Watermark(set, cursor, position) == [set |-> set, cursor |-> cursor, position |-> position]

\* at: acquired_at; from: the token resumed from, or Start; raw: references of
\* the raw pages; records: envelopes of what they hold; token: of the next
\* request; shards: of the records.
IdleCapture == [pc |-> "idle", set |-> 0, at |-> 0, from |-> 0, token |-> 0,
                raw |-> <<>>, records |-> <<>>, batch |-> NoRef, shards |-> <<>>]

\* A listing goes forward, unless it hands out a token again.
after == listing.after
Forward == \A p \in 1..Pages : after[p] = Terminal \/ after[p] > p

Init ==
  /\ listing \in Listings
  /\ revision = 1
  /\ objects = <<>>
  /\ cap = [c \in Captures |-> IdleCapture]
  /\ handed = {}

\* Records change upstream; a response has its own date at any rate.
Revise ==
  /\ revision < Revisions
  /\ revision' = revision + 1
  /\ UNCHANGED <<listing, objects, cap, handed>>

-----------------------------------------------------------------------------
(* Records                                                                   *)

\* ConnectorRecordEnvelope: the record, and the raw object it was read from.
Envelope(id, bytes) == [id |-> id, datestamp |-> bytes[2], raw |-> bytes]

\* The envelope key holds batch, record and revision.
EnvelopeKey(envelope) == <<envelope.id, envelope.datestamp>>

\* _parse_edm_record: a deleted header is an exception.
Parsable(record) == ~record.deleted

Distinct(records) == IsInjective([n \in DOMAIN records |-> records[n].id])

\* parse_europeana_oai_page, {} is an exception: at most max_records, of different
\* identifiers.
ParsedPage(page, bytes) ==
  {[n \in DOMAIN records |-> Envelope(records[n].id, bytes)] :
     records \in {records \in {listing.records[page]} :
                   /\ Len(records) <= MaxRecords
                   /\ \A n \in DOMAIN records : Parsable(records[n])
                   /\ Distinct(records)}}

-----------------------------------------------------------------------------
(* Keys and bytes                                                            *)

CaptureId(c) == <<cap[c].at, cap[c].set, cap[c].from>>
RawKey(c, n, bytes) == <<"page", CaptureId(c), n, bytes>>

\* last_datestamp or last_response_date.
Position(c) ==
  IF cap[c].records = <<>> THEN Last(cap[c].raw).bytes[2]
  ELSE Max({record.datestamp : record \in ToSet(cap[c].records)})

\* ConnectorBatchManifest, of what differs between captures; its coverage scope
\* says how many pages and records were read and whether the listing ended.
Batch(c) ==
  [capture |-> CaptureId(c), before |-> cap[c].from, after |-> cap[c].token,
   position |-> Position(c), raw |-> cap[c].raw, records |-> Len(cap[c].records),
   terminal |-> cap[c].token = Terminal]

BatchKey(batch) == <<"batch", batch>>
ShardKey(batch, n) == <<"records", batch, n>>
RecordSetKey(batch) == <<"record set", batch>>
WatermarkKey(watermark) == <<"watermark", watermark>>

\* The envelopes from position `first` on that fit a shard.
Cut(envelopes, first) == SubSeq(envelopes, first, Min({first + ShardRecords - 1, Len(envelopes)}))

\* Mutant: the envelope that did not fit a shard is not in the next one.
ShardSkipping(envelopes, n) == Cut(envelopes, (n - 1) * (ShardRecords + 1) + 1)

\* _publish_envelope_shards: shard n.
Shard(envelopes, n) == Cut(envelopes, (n - 1) * ShardRecords + 1)

\* ConnectorRecordSetManifest
RecordSet(c) ==
  LET records == cap[c].records
  IN  [objects |-> cap[c].shards, records |-> Len(records),
       bounds |-> IF records = <<>> THEN <<>>
                  ELSE <<EnvelopeKey(Head(records)), EnvelopeKey(Last(records))>>]

\* Mutant: the receipt has a key of its own batch.
ReceiptOfBatch(batch, cursor) == <<"receipt", cursor, batch>>

\* capture_window_slot_id.
ReceiptKey(batch, cursor) == <<"receipt", cursor>>

Committed(c) == Watermark(cap[c].set, cap[c].token, Position(c))

\* One publication of capture c, after which it goes on as `next` says.
Publishing(c, key, bytes, Next(_)) ==
  /\ \E o \in PublishOutcomes(objects, key, bytes, c) :
       /\ objects' = o.objects
       /\ cap' = [cap EXCEPT ![c] = IF Failed(o.ref) THEN [IdleCapture EXCEPT !.pc = "failed"]
                                    ELSE Next(o.ref)]
  /\ UNCHANGED <<listing, revision>>

-----------------------------------------------------------------------------
(* The capture                                                               *)

\* Mutant: a watermark is resumed from whatever it was captured with.
ResumeUnbound(set, watermark) == watermark.cursor # Terminal

\* _validate_resume_watermark.
Resumable(set, watermark) == watermark.set = set /\ watermark.cursor # Terminal

Has(key, bytes) == key \in DOMAIN objects /\ objects[key].bytes = bytes

\* read_europeana_watermark: what was handed over is still what is stored.
Verified == {watermark \in handed : Has(WatermarkKey(watermark), <<watermark>>)}

\* acquired_at is given again for a replay; captures without one differ.
Begin(c, set, at) ==
  /\ cap[c].pc = "idle"
  /\ \A d \in 1..(c - 1) : cap[d].pc # "idle"
  /\ set <= c
  /\ \E from \in {Start} \cup {w.cursor : w \in {w \in Verified : Resumable(set, w)}} :
       cap' = [cap EXCEPT ![c] = [IdleCapture EXCEPT !.pc = "fetch", !.set = set, !.at = at,
                                                     !.from = from, !.token = from]]
  /\ UNCHANGED <<listing, revision, objects, handed>>

\* The tokens seen by a capture.
Read(c) == {cap[c].raw[n].bytes[1] : n \in DOMAIN cap[c].raw}
Seen(c) == {after[page] : page \in Read(c)} \cup ({cap[c].from} \ {Start})

\* A page that was uploaded: it may not repeat records, nor a token.
Follow(c, page, ref, records) ==
  LET done == \/ after[page] = Terminal
              \/ Len(cap[c].raw) + 1 = MaxPages
              \/ Len(records) >= MaxRecords
  IN  IF ~Distinct(records) \/ (after[page] # Terminal /\ after[page] \in Seen(c))
      THEN [IdleCapture EXCEPT !.pc = "failed"]
      ELSE [cap[c] EXCEPT !.raw = Append(@, ref), !.records = records, !.token = after[page],
                          !.pc = IF done THEN "batch" ELSE "fetch"]

\* A page that would cross max_records is not uploaded.
FetchPage(c) ==
  /\ cap[c].pc = "fetch"
  /\ LET page == cap[c].token
         bytes == <<page, revision>>
     IN  \E records \in ParsedPage(page, bytes) :
           /\ Len(cap[c].records) + Len(records) <= MaxRecords
           /\ Publishing(c, RawKey(c, Len(cap[c].raw) + 1, bytes), bytes,
                         LAMBDA ref : Follow(c, page, ref, cap[c].records \o records))
  /\ UNCHANGED handed

\* The request fails for good, the token is rejected, a page is over a bound.
FetchFails(c) ==
  /\ cap[c].pc = "fetch"
  /\ cap' = [cap EXCEPT ![c] = [IdleCapture EXCEPT !.pc = "failed"]]
  /\ UNCHANGED <<listing, revision, objects, handed>>

PublishBatch(c) ==
  /\ cap[c].pc = "batch"
  /\ Publishing(c, BatchKey(Batch(c)), <<Batch(c)>>,
                LAMBDA ref : [cap[c] EXCEPT !.pc = "records", !.batch = ref])
  /\ UNCHANGED handed

\* The index of keys refuses an envelope that was there before.
IsIndexed(c) == IsInjective([n \in DOMAIN cap[c].records |-> EnvelopeKey(cap[c].records[n])])

NextShard(c) == Shard(cap[c].records, Len(cap[c].shards) + 1)

PublishShard(c) ==
  /\ cap[c].pc = "records" /\ NextShard(c) # <<>> /\ IsIndexed(c)
  /\ Publishing(c, ShardKey(cap[c].batch.bytes[1], Len(cap[c].shards) + 1), NextShard(c),
                LAMBDA ref : [cap[c] EXCEPT !.shards = Append(@, ref)])
  /\ UNCHANGED handed

PublishRecordSet(c) ==
  /\ cap[c].pc = "records" /\ NextShard(c) = <<>>
  /\ Publishing(c, RecordSetKey(cap[c].batch.bytes[1]), <<RecordSet(c)>>,
                LAMBDA ref : [cap[c] EXCEPT !.pc = "watermark"])
  /\ UNCHANGED handed

\* publish_capture_window_commit.
PublishWatermark(c) ==
  /\ cap[c].pc = "watermark"
  /\ Publishing(c, WatermarkKey(Committed(c)), <<Committed(c)>>,
                LAMBDA ref : [cap[c] EXCEPT !.pc = "receipt"])
  /\ UNCHANGED handed

Receipt(c) ==
  [batch |-> cap[c].batch, watermark |-> Committed(c),
   status |-> IF cap[c].batch.bytes[1].records = 0 THEN "EMPTY" ELSE "COMMITTED"]

PublishReceipt(c) ==
  /\ cap[c].pc = "receipt"
  /\ Publishing(c, ReceiptKey(cap[c].batch, cap[c].token), <<Receipt(c)>>,
                LAMBDA ref : [IdleCapture EXCEPT !.pc = "done"])
  /\ handed' = handed \cup (IF cap'[c].pc = "done" THEN {Committed(c)} ELSE {})

Dies(c) ==
  /\ cap[c].pc \notin {"idle", "done", "failed"}
  /\ cap' = [cap EXCEPT ![c] = [IdleCapture EXCEPT !.pc = "failed"]]
  /\ UNCHANGED <<listing, revision, objects, handed>>

Works(c) ==
  \/ FetchPage(c) \/ FetchFails(c) \/ PublishBatch(c) \/ PublishShard(c)
  \/ PublishRecordSet(c) \/ PublishWatermark(c) \/ PublishReceipt(c)

Next ==
  \/ Revise
  \/ \E c \in Captures :
       \/ \E set \in 1..LastSet, at \in 1..c : Begin(c, set, at)
       \/ Works(c) \/ Dies(c)

Spec == Init /\ [][Next]_vars

\* The command that was started goes on; every request has a timeout and a
\* bounded number of attempts.
Harvesting == \E c \in Captures : Works(c)
Fair == WF_vars(Harvesting)

-----------------------------------------------------------------------------
(* Properties                                                                *)

Receipts == {objects[key].bytes[1] : key \in {k \in DOMAIN objects : k[1] = "receipt"}}

\* What a batch says: the token it started from and the pages it read.
BatchOf(receipt) == receipt.batch.bytes[1]
From(receipt) == BatchOf(receipt).before
PagesOf(receipt) == {raw.bytes[1] : raw \in ToSet(BatchOf(receipt).raw)}

\* A receipt is there only when what it commits is: the batch and its raw pages,
\* the watermark, and a record set with each record of these pages once, in the
\* envelope of the page that it was read from.  An empty window has none.
ReceiptsAreBacked ==
  \A receipt \in Receipts :
    LET batch == BatchOf(receipt)
    IN  /\ Has(BatchKey(batch), <<batch>>)
        /\ Has(WatermarkKey(receipt.watermark), <<receipt.watermark>>)
        /\ \A n \in DOMAIN batch.raw :
             Has(<<"page", batch.capture, n, batch.raw[n].bytes>>, batch.raw[n].bytes)
        /\ RecordSetKey(batch) \in DOMAIN objects
        /\ LET shards == objects[RecordSetKey(batch)].bytes[1].objects
               envelopes == FlattenSeq([n \in DOMAIN shards |-> shards[n].bytes])
               listed == UNION {{<<record.id, page>> : record \in ToSet(listing.records[page])} :
                                page \in PagesOf(receipt)}
           IN  /\ \A n \in DOMAIN shards : Has(ShardKey(batch, n), shards[n].bytes)
               /\ {<<envelope.id, envelope.raw[1]>> : envelope \in ToSet(envelopes)} = listed
               /\ Len(envelopes) = Cardinality(listed)
               /\ receipt.status = "EMPTY" <=> listed = {}

\* Receipts of one set lead back to the window's start without a gap: what one
\* resumed from was committed by another.
ChainHasNoGap ==
  \A receipt \in Receipts : From(receipt) # Start =>
    \E before \in Receipts :
      before.watermark.cursor = From(receipt) /\ before.watermark.set = receipt.watermark.set

\* No page is committed twice for a set: not by one capture when the listing
\* repeats tokens, and while it goes forward not by two, although captures are
\* repeated with another acquired_at and pages change upstream: the slot of a
\* receipt rejects the divergent replay.
PagesCommittedOnce ==
  /\ \A r \in Receipts :
       /\ Cardinality(PagesOf(r)) = Len(BatchOf(r).raw)
       /\ r.watermark.cursor \notin PagesOf(r)
  /\ Forward =>
       \A r, q \in Receipts :
         r # q /\ r.watermark.set = q.watermark.set => PagesOf(r) \cap PagesOf(q) = {}

CapturesRest == \A c \in Captures : cap[c].pc \in {"idle", "done", "failed"}
=============================================================================
