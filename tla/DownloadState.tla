---------------------------- MODULE DownloadState ----------------------------
(***************************************************************************)
(* The resume state of a download (src/src/state.rs): the contents of the  *)
(* .dlstate file and the pure operations on it.                            *)
(*                                                                         *)
(* A download state is a record.  Its url field is left out: nothing ever  *)
(* reads it back.  An ETag is a record [weak, tag] or None, Last-Modified  *)
(* is a value or None; the code compares both for equality only, apart     *)
(* from the test for the "W/" prefix of a weak ETag.                       *)
(* A sequence of ranges is a function on 1..n.                             *)
(***************************************************************************)
EXTENDS Integers

CONSTANT None   \* a model value: an absent validator, an absent file

STATE_FILE_VERSION == 2

(***************************************************************************)
(* DownloadState::new and with_resource_id.                                *)
(***************************************************************************)
NewState(size, etag, lastModified, workers) ==
  [ version      |-> STATE_FILE_VERSION,
    size         |-> size,
    etag         |-> etag,
    lastModified |-> lastModified,
    workers      |-> workers ]

(***************************************************************************)
(* matches_resource: FALSE only on positive evidence that the resource     *)
(* changed.  Equal strong tags settle it; a weak tag defers to the dates.  *)
(***************************************************************************)
\* Mutant: a matching weak tag settles it too.
MatchesResourceWeakly(s, etag, lastModified) ==
  IF s.etag # None /\ etag # None
    THEN s.etag = etag
    ELSE s.lastModified # None /\ lastModified # None => s.lastModified = lastModified

MatchesResource(s, etag, lastModified) ==
  LET bothTags  == s.etag # None /\ etag # None
      bothTimes == s.lastModified # None /\ lastModified # None
  IN  /\ bothTags => s.etag = etag
      /\ \/ bothTags /\ ~s.etag.weak
         \/ bothTimes => s.lastModified = lastModified

(***************************************************************************)
(* validate: the ranges are sorted and contiguous, cover [0, size) and     *)
(* hold their own position; a file of another format version is refused.   *)
(***************************************************************************)
Validate(s) ==
  LET W == DOMAIN s.workers
  IN  /\ s.version = STATE_FILE_VERSION
      /\ W # {}
      /\ \A w \in W :
           LET r == s.workers[w]
           IN  /\ r.start = IF w = 1 THEN 0 ELSE s.workers[w - 1].end
               /\ r.start <= r.current
               /\ r.current <= r.end
               /\ w + 1 \notin W => r.end = s.size

\* The bytes a list of ranges says were already fetched.
Claimed(workers) ==
  UNION { workers[w].start .. workers[w].current - 1 : w \in DOMAIN workers }

(***************************************************************************)
(* split_workers: the loop that lays the ranges out one after the other,   *)
(* in closed form (module SplitWorkers checks the loop against it).        *)
(***************************************************************************)
DivCeil(a, b) == (a + b - 1) \div b

AtLeast(a, b) == IF a < b THEN b ELSE a   \* a.max(b)
AtMost(a, b)  == IF a < b THEN a ELSE b   \* a.min(b)

\* A slip the properties must notice: the floor is ignored.
EffectiveWithoutFloor(size, threads, minChunk) == AtLeast(threads, 1)

Effective(size, threads, minChunk) ==
  LET wanted == AtLeast(threads, 1)
  IN  IF minChunk > 0
        THEN AtLeast(AtMost(wanted, DivCeil(size, minChunk)), 1)
        ELSE wanted

\* Mutant: a range's end is the last byte of it, as in a Range header.
SplitIntoInclusive(size, n) ==
  LET chunk == size \div n
  IN  [ w \in 1 .. n |->
          [ start   |-> (w - 1) * chunk,
            current |-> (w - 1) * chunk,
            end     |-> IF w = n THEN size ELSE w * chunk + 1 ] ]

SplitInto(size, n) ==
  LET chunk == size \div n
  IN  [ w \in 1 .. n |->
          [ start   |-> (w - 1) * chunk,
            current |-> (w - 1) * chunk,
            end     |-> IF w = n THEN size ELSE w * chunk ] ]

SplitWorkers(size, threads, minChunk) ==
  SplitInto(size, Effective(size, threads, minChunk))

(***************************************************************************)
(* FileInfo::if_range_validator (src/src/http.rs): what a client sends as  *)
(* If-Range: a strong ETag, else Last-Modified.                            *)
(***************************************************************************)
IfRangeValidator(etag, lastModified) ==
  IF etag # None /\ ~etag.weak THEN etag ELSE lastModified
=============================================================================
