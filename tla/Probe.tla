--------------------------------- MODULE Probe --------------------------------
(***************************************************************************)
(* http::probe (src/src/http.rs): a HEAD, and unless that told everything, *)
(* a GET for the first byte.  The server may publish another version in    *)
(* between, so what the two tell has to be put together with care.         *)
(***************************************************************************)
EXTENDS DownloadState, FiniteSets

Versions   == 1 .. 2                     \* bound: one replacement
Validators == {"length", "etag", "modified"}
Algorithms == {"md5", "sha-256", "sha-512"}

\* A server, and what it discloses.
Server ==
  [ len    : [Versions -> Nat],          \* the size of each version
    head   : SUBSET Validators,          \* the headers a HEAD is answered with
    get    : SUBSET Validators,          \* those of a GET
    weak   : BOOLEAN,                    \* its ETags are weak
    accept : {"bytes", "none", None},    \* Accept-Ranges
    ranges : BOOLEAN,                    \* it honours a Range
    total  : BOOLEAN,                    \* its Content-Range names the size
    repr   : SUBSET Algorithms,          \* the digests in Repr-Digest or Digest
    md5    : BOOLEAN ]                   \* it sends Content-MD5

VARIABLES
  server,
  srv,       \* the version it serves
  stage,     \* head, get, then probed or failed
  info       \* FileInfo, as far as it is known

probeVars == <<server, srv, stage, info>>

ProbeInit(servers) ==
  /\ server \in servers
  /\ srv = 1
  /\ stage = "head"
  /\ info = [size |-> None, ranged |-> None, etag |-> None, modified |-> None, digest |-> None]

-------------------------------------------------------------------------------
(***************************************************************************)
(* The server's answers.                                                   *)
(***************************************************************************)
Sent(shows, name, value) == IF name \in shows THEN value ELSE None

Tag(v)  == [weak |-> server.weak, tag |-> v]
Date(v) == [date |-> v]
Byte    == 0     \* in place of a version: the one byte of a 206

\* The headers of an answer, whose body is all of the version, or that byte.
Headers(shows, length, total, body) ==
  [ length   |-> Sent(shows, "length", length),
    etag     |-> Sent(shows, "etag", Tag(srv)),
    modified |-> Sent(shows, "modified", Date(srv)),
    total    |-> IF server.total THEN total ELSE None,
    repr     |-> [alg : server.repr, of : {srv}],
    md5      |-> IF server.md5 THEN [alg |-> "md5", of |-> body] ELSE None ]

Status ==
  IF ~server.ranges THEN 200 ELSE IF server.len[srv] = 0 THEN 416 ELSE 206

\* Content-MD5 describes the body.
HeadAnswer == Headers(server.head, server.len[srv], None, srv)
GetAnswer ==
  IF Status = 206 THEN Headers(server.get, 1, server.len[srv], Byte)
                  ELSE Headers(server.get, server.len[srv], None, srv)

-------------------------------------------------------------------------------
(***************************************************************************)
(* digest_from_parts (src/src/checksum.rs): the strongest digest offered.  *)
(***************************************************************************)
Rank(c) ==
  IF c = None THEN 0
  ELSE IF c.alg = "md5" THEN 1
  ELSE IF c.alg = "sha-256" THEN 2 ELSE 3

\* parse_digest_list: what it cannot read, it ignores.
StrongestOf(list) ==
  IF list = {} THEN None ELSE CHOOSE c \in list : \A d \in list : Rank(d) <= Rank(c)

DigestFromParts(h) ==
  IF Rank(h.md5) > Rank(StrongestOf(h.repr)) THEN h.md5 ELSE StrongestOf(h.repr)

-------------------------------------------------------------------------------
Or(first, second) == IF first # None THEN first ELSE second

Confirmed(accept) ==
  IF accept = "bytes" THEN TRUE ELSE IF accept = "none" THEN FALSE ELSE None

LearnHead ==
  LET h == HeadAnswer
  IN  info' = [ size     |-> h.length,
                ranged   |-> Confirmed(server.accept),
                etag     |-> h.etag,
                modified |-> h.modified,
                digest   |-> DigestFromParts(h) ]

\* A HEAD that fails, or is refused, teaches nothing.
AskHead ==
  /\ stage = "head"
  /\ \/ /\ LearnHead
        /\ stage' = IF info'.ranged = TRUE /\ info'.size # None THEN "probed" ELSE "get"
     \/ stage' = "get" /\ UNCHANGED info
  /\ UNCHANGED <<server, srv>>

\* Mutants: the later answer wins; a digest is taken from a 206 too.
LearnValidatorLast(old, new) == Or(new, old)
LearnDigestFromRange(old, h) == Or(old, DigestFromParts(h))

LearnValidator(old, new) == Or(old, new)
LearnDigest(old, h) == old

AskRange ==
  /\ stage = "get"
  /\ \/ /\ Status # 416
        /\ stage' = "probed"
        /\ LET h == GetAnswer
               partial == Status = 206
           IN  info' = [ size     |-> IF partial THEN Or(h.total, info.size) ELSE Or(info.size, h.length),
                         ranged   |-> partial \/ info.ranged = TRUE,
                         etag     |-> LearnValidator(info.etag, h.etag),
                         modified |-> LearnValidator(info.modified, h.modified),
                         digest   |-> LearnDigest(info.digest, h) ]
     \/ stage' = "failed" /\ UNCHANGED info   \* a 416, no answer, or cancelled
  /\ UNCHANGED <<server, srv>>

Publish ==
  /\ srv = 1
  /\ srv' = 2
  /\ UNCHANGED <<server, stage, info>>

ProbeNext == AskHead \/ AskRange \/ Publish

-------------------------------------------------------------------------------
\* The server would take the validator of info for that of what it serves now.
Honoured ==
  LET v == IfRangeValidator(info.etag, info.modified)
  IN  v \in {Tag(srv), Date(srv)}

Probed == stage \notin {"head", "get", "failed"}

\* "a digest from a 206 range probe could describe just the probed byte"
\* (http.rs:131): no file the validator lets through is checked against the
\* digest of another, and none weaker than the strongest that HEAD offered.
DigestFits ==
  Probed /\ Honoured /\ info.digest # None =>
    /\ info.digest.of = srv
    /\ \A alg \in server.repr : Rank([alg |-> alg, of |-> srv]) <= Rank(info.digest)
===============================================================================
