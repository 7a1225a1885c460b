---------------------------- MODULE ImmutableStore ----------------------------
(* publish_file_conditional of BoundedObjectStore: an object is put only when *)
(* its key is free; whoever finds it taken reads the object that is there and *)
(* succeeds when it has the same bytes.  An object is never put again, so a   *)
(* reference (its version stands for ETag, VersionId and LastModified) stays  *)
(* good.                                                                     *)

\* Bytes are a sequence of what the object says.
NoRef == [bytes |-> <<>>, version |-> 0]

Failed(ref) == ref.version = NoRef.version

\* Writers are numbered from 1.
Version(bytes, writer) == [bytes |-> bytes, version |-> writer]

Outcome(objects, ref) == [objects |-> objects, ref |-> ref]

\* The objects with one more, at a key that is free.
Put(objects, key, version) ==
  [k \in DOMAIN objects \cup {key} |-> IF k \in DOMAIN objects THEN objects[k] ELSE version]

\* Mutant: the put is unconditional.
OverwriteOutcomes(objects, key, bytes, writer) ==
  LET mine == Version(bytes, writer)
  IN  {Outcome(objects, NoRef),
       Outcome([Put(objects, key, mine) EXCEPT ![key] = mine], mine)}

\* What a call may leave behind and return; NoRef is an exception.  The put may
\* be lost, or its reply, or its bytes may differ from the object that is there.
PublishOutcomes(objects, key, bytes, writer) ==
  IF key \in DOMAIN objects
  THEN {Outcome(objects, NoRef)} \cup
       {Outcome(objects, object) : object \in {o \in {objects[key]} : o.bytes = bytes}}
  ELSE LET mine == Version(bytes, writer)
           stored == Put(objects, key, mine)
       IN  {Outcome(objects, NoRef), Outcome(stored, NoRef), Outcome(stored, mine)}
=============================================================================
