-------------------------------- MODULE Probe --------------------------------
(***************************************************************************)
(* probe_blob (src/diagnostics.rs): the network probe of `diagnose`.  DNS, *)
(* a TCP connect to the first address that answers, a HEAD that does not   *)
(* follow redirects, one ranged GET, and the same bytes again in parallel  *)
(* ranges.  An error before the parallel phase is the answer of the probe; *)
(* in it, it is a line of the report.                                      *)
(*                                                                         *)
(* Times are left out: a request is served, refused, or gets no answer for *)
(* the connect or the read timeout.                                        *)
(***************************************************************************)
EXTENDS Naturals, Sequences, FiniteSets, SequencesExt

CONSTANTS
  MaxAddrs,     \* bound: addresses of the host
  MaxSize,      \* bound: size of the blob
  MaxProbe,     \* bound: probe_bytes
  MaxConns,     \* bound: max_concurrent
  NoLength      \* a HEAD without Content-Length

ASSUME ProbeAssumption ==
  /\ {MaxAddrs, MaxSize, MaxProbe} \subseteq Nat
  /\ MaxConns \in Nat \ {0} /\ NoLength \notin Nat

VARIABLES
  dns,            \* what becomes of the lookup
  size, ranged,   \* the blob's size; does its server honour Range?
  want, conns,    \* probe_bytes, max_concurrent
  pc,             \* "dns", "tcp", "head", "single", "parallel", "done" or "failed"
  addrs, tried,   \* the resolved addresses, how many of them were tried
  probe,          \* the clamped probe size
  effective,      \* effective_bytes
  get,            \* per range: "queued", "served", "refused", "stalled", "ok" or "error"
  chunks,         \* parallel_chunks: indexes of the ranges that were read
  errors          \* notes in the report's errors

blob == <<dns, size, ranged, want, conns>>
probeVars == <<blob, pc, addrs, tried, probe, effective, get, chunks, errors>>

\* What becomes of a lookup, a connect or a request ("stalled": nothing comes).
Answers == {"served", "refused", "stalled"}

DivCeil(a, b) == (a + b - 1) \div b
Least(a, b) == IF a < b THEN a ELSE b

\* Inclusive ranges, from 0.
SplitRanges(total, n) ==
  IF total = 0 \/ n = 0 THEN <<>>
  ELSE LET chunk == DivCeil(total, n)
       IN  [i \in 1..DivCeil(total, chunk) |->
              [start |-> (i - 1) * chunk, end |-> Least(i * chunk, total) - 1]]

Ranges == SplitRanges(effective, conns)

(***************************************************************************)
(* timed_get_range: the totals a served request may read.  A range that    *)
(* starts past the end is an error status (no total); a server that        *)
(* ignores Range sends the whole blob, in pieces, and is cut off at the    *)
(* first piece that satisfies the range.                                   *)
(***************************************************************************)
TimedGetRange(start, end) ==
  IF ranged
  THEN IF start < size THEN {Least(end + 1, size) - start} ELSE {}
  ELSE Least(end - start + 1, size)..size

ProbeInit ==
  /\ dns \in Answers /\ size \in 0..MaxSize /\ ranged \in BOOLEAN
  /\ want \in 0..MaxProbe /\ conns \in 1..MaxConns
  /\ pc = "dns" /\ addrs = <<>> /\ tried = 0
  /\ probe = 0 /\ effective = 0 /\ get = <<>> /\ chunks = <<>> /\ errors = 0

-----------------------------------------------------------------------------

\* Mutant: the lookup is not bounded by the connect timeout.
LookupUnbounded ==
  /\ pc = "dns"
  /\ \E a \in SeqOf(Answers, MaxAddrs) :
       IF dns = "stalled" THEN UNCHANGED <<pc, addrs>>
       ELSE IF dns = "served" /\ a # <<>> THEN pc' = "tcp" /\ addrs' = a
       ELSE pc' = "failed" /\ UNCHANGED addrs
  /\ UNCHANGED <<blob, tried, probe, effective, get, chunks, errors>>

\* A failed, late or empty lookup fails the probe.
Lookup ==
  /\ pc = "dns"
  /\ \E a \in SeqOf(Answers, MaxAddrs) :
       IF dns = "served" /\ a # <<>> THEN pc' = "tcp" /\ addrs' = a
       ELSE pc' = "failed" /\ UNCHANGED addrs
  /\ UNCHANGED <<blob, tried, probe, effective, get, chunks, errors>>

\* The addresses are tried in turn.
Connect ==
  /\ pc = "tcp"
  /\ tried' = tried + 1
  /\ pc' = IF addrs[tried'] = "served" THEN "head"
           ELSE IF tried' = Len(addrs) THEN "failed" ELSE "tcp"
  /\ UNCHANGED <<blob, addrs, probe, effective, get, chunks, errors>>

\* The Content-Length is the blob's, or that of a redirect's body; zero counts
\* as unknown.  The status is only reported.
Clamp(length) == IF length \in Nat \ {0} THEN Least(want, length) ELSE want

\* An answered HEAD sets the probe size; nothing to probe ends the probe.
HeadRequest ==
  /\ pc = "head"
  /\ \/ \E length \in {NoLength} \cup 0..MaxSize :
          /\ probe' = Clamp(length) /\ effective' = probe'
          /\ pc' = IF probe' = 0 THEN "done" ELSE "single"
          /\ errors' = IF probe' = 0 THEN errors + 1 ELSE errors
     \/ \* refused, or nothing within the connect or the read timeout
        pc' = "failed" /\ UNCHANGED <<probe, effective, errors>>
  /\ UNCHANGED <<blob, addrs, tried, get, chunks>>

\* Mutant: the ranges are cut from the size asked for.
SingleUncorrected ==
  /\ pc = "single"
  /\ \/ \E total \in TimedGetRange(0, probe - 1) :
          /\ pc' = "parallel"
          /\ get' = [i \in DOMAIN Ranges |-> "queued"]
          /\ UNCHANGED effective
     \/ pc' = "failed" /\ UNCHANGED <<effective, get>>
  /\ UNCHANGED <<blob, addrs, tried, probe, chunks, errors>>

\* What the single stream read is what the parallel phase splits.
Single ==
  /\ pc = "single"
  /\ \/ \E total \in TimedGetRange(0, probe - 1) :
          /\ pc' = "parallel"
          /\ effective' = total
          /\ get' = [i \in DOMAIN SplitRanges(total, conns) |-> "queued"]
     \/ pc' = "failed" /\ UNCHANGED <<effective, get>>
  /\ UNCHANGED <<blob, addrs, tried, probe, chunks, errors>>

\* buffer_unordered starts the ranges in order, conns at a time.
StartGet(i) ==
  /\ pc = "parallel" /\ get[i] = "queued"
  /\ \A j \in 1..(i - 1) : get[j] # "queued"
  /\ Cardinality({j \in DOMAIN get : get[j] \in Answers}) < conns
  /\ \E r \in Answers :
       /\ r = "served" => TimedGetRange(Ranges[i].start, Ranges[i].end) # {}
       /\ get' = [get EXCEPT ![i] = r]
  /\ UNCHANGED <<blob, pc, addrs, tried, probe, effective, chunks, errors>>

EndGet(i) ==
  /\ pc = "parallel" /\ get[i] \in Answers
  /\ get' = [get EXCEPT ![i] = IF @ = "served" THEN "ok" ELSE "error"]
  /\ UNCHANGED <<blob, pc, addrs, tried, probe, effective, chunks, errors>>

Read == {i \in DOMAIN get : get[i] = "ok"}

\* sort_by_key(|c| c.index)
InOrder(S) ==
  CHOOSE s \in [1..Cardinality(S) -> S] : \A i, j \in DOMAIN s : i < j => s[i] < s[j]

\* Mutant: the first failed range fails the probe.
ReportAll ==
  /\ pc = "parallel" /\ \A i \in DOMAIN get : get[i] \in {"ok", "error"}
  /\ pc' = IF Read = DOMAIN get THEN "done" ELSE "failed"
  /\ chunks' = InOrder(Read) /\ UNCHANGED errors
  /\ UNCHANGED <<blob, addrs, tried, probe, effective, get>>

\* The survivors in order of their index, a note for every other range.
Report ==
  /\ pc = "parallel" /\ \A i \in DOMAIN get : get[i] \in {"ok", "error"}
  /\ pc' = "done"
  /\ chunks' = InOrder(Read)
  /\ errors' = errors + Cardinality(DOMAIN get \ Read)
  /\ UNCHANGED <<blob, addrs, tried, probe, effective, get>>

Step ==
  \/ Lookup \/ Connect \/ HeadRequest \/ Single \/ Report
  \/ \E i \in DOMAIN get : StartGet(i) \/ EndGet(i)

Ended == pc \in {"done", "failed"} /\ UNCHANGED probeVars

ProbeNext == Step \/ Ended

\* One future, driven by the calling thread; every wait in it has a timeout.
ProbeSpec == ProbeInit /\ [][ProbeNext]_probeVars /\ WF_probeVars(Step)

-----------------------------------------------------------------------------
(* Properties.                                                             *)

(***************************************************************************)
(* The parallel phase reads every byte the single stream read, once, in at *)
(* most max_concurrent ranges, and asks for no byte past the end of the    *)
(* blob, although a redirect hides the blob's size and its server may      *)
(* ignore Range (split_ranges, effective_bytes): the probe's own ranges    *)
(* never make a request fail.                                              *)
(***************************************************************************)
InsideBlob ==
  pc = "parallel" =>
    /\ effective <= size
    /\ Len(get) <= conns /\ DOMAIN get = DOMAIN Ranges
    /\ \A b \in 0..(effective - 1) :
         Cardinality({i \in DOMAIN Ranges : b \in Ranges[i].start..Ranges[i].end}) = 1
    /\ \A i \in DOMAIN Ranges : Ranges[i].start <= Ranges[i].end /\ Ranges[i].end < size

(***************************************************************************)
(* A probe that has got through its single stream reports, however many of *)
(* its parallel ranges fail, and accounts for each of them once: a timing, *)
(* in file order, or a note (M-DIAG-ABORT).                                *)
(***************************************************************************)
PartialReport ==
  get # <<>> =>
    /\ pc \in {"parallel", "done"}
    /\ pc = "done" =>
         /\ \A i, j \in DOMAIN chunks : i < j => chunks[i] < chunks[j]
         /\ Len(chunks) + errors = Len(Ranges)

(***************************************************************************)
(* Every probe ends, with a resolver, a host or a server that never        *)
(* answers too (the timeouts of the lookup, the connect and the reads).    *)
(***************************************************************************)
ProbeEnds == <>(pc \in {"done", "failed"})
=============================================================================
