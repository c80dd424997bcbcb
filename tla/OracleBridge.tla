---------------------------- MODULE OracleBridge ----------------------------
(***************************************************************************)
(* oracle-bridge: OracleBridge with its signer, provenance records, IPFS   *)
(* store and submission client, and the record verifier.  One process      *)
(* works on one call at a time; the calls it makes to the IPFS node and to *)
(* the chain may fail, or succeed and lose their answer, and the process   *)
(* may die between them.                                                   *)
(*                                                                         *)
(* A GEE result r is [script, params, value, ts, feed, tag].  A hash is    *)
(* injective and one-way: Hash(x) is a record holding x.  A call that      *)
(* raises before its first outside call changes nothing and has no action. *)
(***************************************************************************)
EXTENDS PriceAggregation

CONSTANTS
    Mode,        \* how the process may be started: [client, backend, jsonschema]
    Result,      \* the GEE results the bridge may be given
    Batch,       \* the calls of aggregate_and_submit: [cfg, results]
    Feed,        \* feed identifiers
    LongFeed,    \* those of more than 32 bytes
    Key,         \* the operator's public key
    BadCid,      \* an answer of the IPFS node that is empty or over MAX_CID_LEN
    MaxI64,      \* the largest i64
    ValueBound,  \* bound on the magnitude of the values in a batch
    MaxCalls,    \* bound: calls of process, aggregate_and_submit and commit
    MaxBatchAt,  \* bound: calls that may precede an aggregate_and_submit
    MaxCrashes   \* bound: deaths of the process

ASSUME BridgeAssumption ==
    /\ Mode \subseteq [client : {"cid", "plain", "dry"}, backend : {"local", "simulated"},
                       jsonschema : BOOLEAN]
    /\ LongFeed \subseteq Feed
    /\ MaxI64 \in Nat
    /\ MaxCalls \in Nat /\ MaxBatchAt \in Nat /\ MaxCrashes \in Nat
    /\ \A r \in Result : r.feed \in Feed /\ r.params # NULL
    /\ ValueBound \in Nat
    /\ \A b \in Batch :
          /\ IsFiniteSet(DOMAIN b.results)
          /\ b.results[1].feed \in Feed
          /\ \A s \in DOMAIN b.results : b.results[s].value \in -ValueBound .. ValueBound
          /\ b.cfg.method \in {"iqr", "mad", "none"} /\ b.cfg.iqr \in Int /\ b.cfg.mad \in Int
          /\ \A s \in DOMAIN b.cfg.weight : b.cfg.weight[s] \in Int
          /\ Weight(b.cfg.weight, DOMAIN b.cfg.weight) <= MaxExact

VARIABLES
    mode,      \* what the process was started with: client, backend, jsonschema
    job,       \* the call under way, or NULL
    pinned,    \* the records the IPFS store holds (each under its own CID)
    subs,      \* prices the oracle contract has accepted
    returned,  \* what process and aggregate_and_submit returned to the caller
    commits,   \* the open commitment of each feed, on chain, or NULL
    openers,   \* results and salts the caller holds to reveal with
    orphaned,  \* feeds whose opener was lost by a crash or a failed call
    calls,     \* calls so far, which also numbers the salts
    crashes

vars == <<mode, job, pinned, subs, returned, commits, openers, orphaned,
          calls, crashes>>

-----------------------------------------------------------------------------
GEEResult(script, params, value, ts, feed, tag) ==
    [script |-> script, params |-> params, value |-> value, ts |-> ts,
     feed |-> feed, tag |-> tag]

(***************************************************************************)
(* Attestation                                                             *)
(***************************************************************************)

Hash(x) == [hash |-> x]

ParamsHash(params) == Hash(params)

\* pad_feed_id: defined for feeds of at most 32 bytes.
Pad(feed) == [pad |-> feed]

ASSUME NullIsNoHash == \A f \in Feed : Pad(f) # NULL

\* struct.pack takes no other integer for an i64.
FitsI64(n) == n \in (-MaxI64 - 1) .. MaxI64

\* attest raises for anything else.
Attestable(r) == r.feed \notin LongFeed /\ FitsI64(r.value) /\ FitsI64(r.ts)

Payload(r) ==
    [version |-> 1, script |-> Hash(r.script), params |-> ParamsHash(r.params),
     value |-> r.value, ts |-> r.ts, feed |-> Pad(r.feed)]

Sign(payload) == [key |-> Key, msg |-> payload]

SignatureValid(pk, sig, payload) == sig = [key |-> pk, msg |-> payload]

Attest(r) == [payload |-> Payload(r), pk |-> Key, sig |-> Sign(Payload(r))]

-----------------------------------------------------------------------------
(***************************************************************************)
(* Provenance records                                                      *)
(***************************************************************************)

\* ProvenanceRecord.to_dict for r and its attestation.  agg is the aggregation
\* block of an aggregated record.
ToDict(type, r, att, agg) ==
    [type |-> type, script |-> Hash(r.script), tag |-> r.tag,
     params |-> r.params, phash |-> ParamsHash(r.params),
     value |-> r.value, feed |-> r.feed, ts |-> r.ts,
     pk |-> att.pk, sig |-> att.sig, payload |-> att.payload, agg |-> agg]

\* from_dict does not keep the stored params_hash; to_dict computes it again.
FromDict(d) == [d EXCEPT !.phash = ParamsHash(d.params)]

\* What the validators can still refuse in a record of to_dict's shape.
LightweightValidate(d) ==
    /\ d.type \in {"single", "aggregated"}
    /\ d.type = "aggregated" => d.agg # NULL

ProvenanceSchema(d) ==
    /\ d.type \in {"single", "aggregated"}
    /\ d.ts >= 0
    /\ d.tag # ""

\* validate_provenance_record; the schema only where jsonschema is installed.
SchemaOK(d, jsonschema) ==
    /\ LightweightValidate(d)
    /\ jsonschema => ProvenanceSchema(d)

\* ProvenanceRecord.verify_hashes.
VerifyHashes(d) ==
    /\ d.phash = ParamsHash(d.params)
    /\ d.payload.value = d.value
    /\ d.payload.ts = d.ts

VerifyParamsHash(d) == d.phash = ParamsHash(d.params)

\* Mutant: the timestamp in the payload is not compared.
VerifyPayloadValueOnly(d) == d.payload.value = d.value /\ d.payload.version = 1

VerifyPayloadFields(d) ==
    /\ d.payload.value = d.value
    /\ d.payload.ts = d.ts
    /\ d.payload.version = 1

\* verify --check-sig exits with 0.  The comparison of the script preview only
\* warns.
CmdVerify(d, jsonschema) ==
    /\ SchemaOK(d, jsonschema)
    /\ VerifyParamsHash(d)
    /\ VerifyPayloadFields(d)
    /\ SignatureValid(d.pk, d.sig, d.payload)

\* Every check on the demo server's verification page passes.
HandleVerify(d, jsonschema) ==
    /\ SchemaOK(d, jsonschema)
    /\ VerifyParamsHash(d)
    /\ d.payload.value = d.value /\ d.payload.ts = d.ts
    /\ SignatureValid(d.pk, d.sig, d.payload)

\* Both stores are content-addressed.
Cid(d) == [content |-> d]

\* _validate_cid does not raise.
ValidCid(cid) == cid # BadCid

-----------------------------------------------------------------------------
(***************************************************************************)
(* process and aggregate_and_submit                                        *)
(***************************************************************************)

Init ==
    /\ mode \in Mode
    /\ job = NULL
    /\ pinned = {} /\ subs = {} /\ returned = {}
    /\ commits = [f \in Feed |-> NULL]
    /\ openers = {} /\ orphaned = {}
    /\ calls = 0 /\ crashes = 0

\* job.batch keeps what was aggregated until the record is pinned.
\* Sign r, build its record and validate it: up to the call of pin.
StartJob(type, r, agg, batch) ==
    LET att == Attest(r)
        rec == ToDict(type, r, att, agg)
    IN  /\ job = NULL
        /\ calls < MaxCalls
        /\ Attestable(r)
        /\ SchemaOK(rec, mode.jsonschema)
        /\ job' = [stage |-> "pin", att |-> att, rec |-> rec, cid |-> NULL, batch |-> batch]
        /\ calls' = calls + 1
        /\ UNCHANGED <<mode, pinned, subs, returned, commits, openers, orphaned, crashes>>

Process(r) == StartJob("single", r, NULL, NULL)

\* The feed of the first source and the latest timestamp of all of them, the
\* rejected ones included; the aggregation block doubles as input parameters.
Synthetic(b, a) ==
    LET latest == CHOOSE t \in {b.results[s].ts : s \in DOMAIN b.results} :
                      \A s \in DOMAIN b.results : b.results[s].ts <= t
    IN  GEEResult("aggregated", a, a.value, latest, b.results[1].feed, "aggregated")

SourceValues(b) == [s \in DOMAIN b.results |-> b.results[s].value]

AggregateOf ==
    [b \in Batch |-> IF ValidConfig(b.cfg) THEN Aggregate(b.cfg, SourceValues(b)) ELSE NULL]

AggregateAndSubmit(b) ==
    /\ job = NULL /\ calls <= MaxBatchAt
    /\ AggregateOf[b] # NULL
    /\ StartJob("aggregated", Synthetic(b, AggregateOf[b]), AggregateOf[b],
                [cfg |-> b.cfg, values |-> SourceValues(b), result |-> AggregateOf[b]])

\* The submit command: every source of the file weighs the same, and only the
\* dry run is implemented.
CmdSubmit(b) ==
    /\ mode.client = "dry"
    /\ b.cfg = [sources |-> DOMAIN b.results, weight |-> [s \in DOMAIN b.results |-> 1],
                method |-> b.cfg.method, iqr |-> b.cfg.iqr, mad |-> DefaultMad, min |-> 1]
    /\ AggregateAndSubmit(b)

Ended == job' = NULL /\ UNCHANGED <<mode, commits, openers, orphaned, calls, crashes>>

At(stage) == job # NULL /\ job.stage = stage

Continue(stage, cid) ==
    /\ job' = [stage |-> stage, att |-> job.att, rec |-> job.rec, cid |-> cid, batch |-> NULL]
    /\ UNCHANGED <<mode, commits, openers, orphaned, calls, crashes>>

\* Only the Kubo node can answer with a CID the bridge refuses.
Pin ==
    /\ At("pin")
    /\ pinned' = pinned \cup {job.rec}
    /\ \E cid \in {Cid(job.rec)} \cup (IF mode.backend = "local" THEN {BadCid} ELSE {}) :
          Continue("submit", cid)
    /\ UNCHANGED <<subs, returned>>

\* Mutant: a price is submitted although its record could not be pinned.
PinFailureIgnored ==
    /\ At("pin") /\ mode.backend = "local"
    /\ Continue("submit", Cid(job.rec))
    /\ UNCHANGED <<pinned, subs, returned>>

\* The node cannot be reached, or its answer is lost: the call raises.
PinFails ==
    /\ At("pin") /\ mode.backend = "local"
    /\ pinned' \in {pinned, pinned \cup {job.rec}}
    /\ Ended
    /\ UNCHANGED <<subs, returned>>

CidRefused ==
    /\ At("submit")
    /\ ~ValidCid(job.cid)
    /\ Ended
    /\ UNCHANGED <<pinned, subs, returned>>

Sub(via, cid) == [via |-> via, att |-> job.att, cid |-> cid]

\* submit_price_with_cid returns.  The dry-run client touches no chain.
SubmitWithCid ==
    /\ At("submit") /\ ValidCid(job.cid)
    /\ mode.client \in {"cid", "dry"}
    /\ subs' = IF mode.client = "dry" THEN subs ELSE subs \cup {Sub("submit", job.cid)}
    /\ returned' = returned \cup {Sub("submit", job.cid)}
    /\ Ended
    /\ UNCHANGED pinned

\* Mutant: a failed submission is reported as done.
SubmitRaisesIgnored ==
    /\ At("submit") /\ ValidCid(job.cid) /\ mode.client = "cid"
    /\ subs' \in {subs, subs \cup {Sub("submit", job.cid)}}
    /\ returned' = returned \cup {Sub("submit", job.cid)}
    /\ Ended
    /\ UNCHANGED pinned

\* The contract refuses, or accepts and the answer is lost: process raises.
SubmitRaises ==
    /\ At("submit") /\ ValidCid(job.cid) /\ mode.client = "cid"
    /\ subs' \in {subs, subs \cup {Sub("submit", job.cid)}}
    /\ Ended
    /\ UNCHANGED <<pinned, returned>>

\* AttributeError: the client has no such method, or the method raised it
\* itself, before or after the contract accepted.
SubmitFallsBack ==
    /\ At("submit") /\ ValidCid(job.cid) /\ mode.client # "dry"
    /\ subs' \in {subs} \cup
          (IF mode.client = "cid" THEN {subs \cup {Sub("submit", job.cid)}} ELSE {})
    /\ Continue("plain", job.cid)
    /\ UNCHANGED <<pinned, returned>>

\* _submit_with_circuit_breaker_alert: returns, or logs and raises.
SubmitPlain ==
    /\ At("plain")
    /\ \/ /\ subs' = subs \cup {Sub("submit", NULL)}
          /\ returned' = returned \cup {Sub("submit", job.cid)}
       \/ /\ subs' \in {subs, subs \cup {Sub("submit", NULL)}}
          /\ UNCHANGED returned
    /\ Ended
    /\ UNCHANGED pinned

-----------------------------------------------------------------------------
(***************************************************************************)
(* commit and reveal                                                       *)
(***************************************************************************)

\* Mutant: the feed is hashed as given, without its zero padding.
CommitmentHashUnpadded(r, salt) ==
    Hash(<<Hash(r.script), ParamsHash(r.params), r.value, r.ts, r.feed, salt>>)

CommitmentHash(r, salt) ==
    Hash(<<Hash(r.script), ParamsHash(r.params), r.value, r.ts, Pad(r.feed), salt>>)

\* carbon_oracle's build_commitment_payload, from the fields of a payload.
OnChainHash(p, salt) == Hash(<<p.script, p.params, p.value, p.ts, p.feed, salt>>)

\* The contract keeps an open commitment until it is revealed, so a second
\* commit of the feed raises and changes nothing.  When the answer is lost the
\* caller never sees the salt.
Commit(r) ==
    /\ job = NULL
    /\ calls < MaxCalls
    /\ Attestable(r)
    /\ calls' = calls + 1
    /\ IF mode.client = "dry"
       THEN /\ openers' = openers \cup {[r |-> r, salt |-> calls]}
            /\ UNCHANGED <<commits, orphaned>>
       ELSE /\ commits[r.feed] = NULL
            /\ commits' = [commits EXCEPT ![r.feed] = CommitmentHash(r, calls)]
            /\ \/ /\ openers' = openers \cup {[r |-> r, salt |-> calls]}
                  /\ UNCHANGED orphaned
               \/ /\ orphaned' = orphaned \cup {r.feed}
                  /\ UNCHANGED openers
    /\ UNCHANGED <<mode, job, pinned, subs, returned, crashes>>

\* The contract accepts a reveal that hashes to the open commitment.  The
\* caller drops its opener when the call returns.
Reveal(o) ==
    LET att == Attest(o.r)
    IN  /\ job = NULL
        /\ IF mode.client = "dry"
           THEN UNCHANGED <<commits, subs>>
           ELSE /\ commits[o.r.feed] = OnChainHash(att.payload, o.salt)
                /\ commits' = [commits EXCEPT ![o.r.feed] = NULL]
                /\ subs' = subs \cup {[via |-> "reveal", att |-> att, cid |-> NULL]}
        /\ openers' \in {openers, openers \ {o}}
        /\ UNCHANGED <<mode, job, pinned, returned, orphaned, calls, crashes>>

\* The simulated store and the salts live in the process.
Crash ==
    /\ crashes < MaxCrashes
    /\ crashes' = crashes + 1
    /\ job' = NULL
    /\ openers' = {}
    /\ orphaned' = {f \in Feed : commits[f] # NULL}
    /\ pinned' = IF mode.backend = "simulated" THEN {} ELSE pinned
    /\ UNCHANGED <<mode, subs, returned, commits, calls>>

Next ==
    \/ \E r \in Result : Process(r)
    \/ \E b \in Batch : AggregateAndSubmit(b)
    \/ \E b \in Batch : CmdSubmit(b)
    \/ Pin
    \/ PinFails
    \/ CidRefused
    \/ SubmitWithCid
    \/ SubmitRaises
    \/ SubmitFallsBack
    \/ SubmitPlain
    \/ \E r \in Result : Commit(r)
    \/ \E o \in openers : Reveal(o)
    \/ Crash

Spec == Init /\ [][Next]_vars

-----------------------------------------------------------------------------
(***************************************************************************)
(* Properties                                                              *)
(***************************************************************************)

\* Type invariant of the bridge's state.
TypeOK ==
    /\ mode \in Mode
    /\ job # NULL => job.stage \in {"pin", "submit", "plain"} /\ job.att.sig.key = Key
    /\ \A s \in subs \cup returned : s.via \in {"submit", "reveal"} /\ s.att.pk = Key
    /\ DOMAIN commits = Feed
    /\ \A o \in openers : o.r \in Result /\ o.salt \in 0..(MaxCalls - 1)
    /\ orphaned \subseteq Feed
    /\ calls \in 0..MaxCalls /\ crashes \in 0..MaxCrashes

\* The record d tells how the price of the attestation att was computed.
Documents(d, att) ==
    /\ d.payload = att.payload /\ d.pk = att.pk /\ d.sig = att.sig
    /\ att.payload.script = d.script /\ att.payload.params = d.phash
    /\ att.payload.feed = Pad(d.feed)

\* Every price submitted on chain, with or without its CID, whatever call was
\* lost on the way, has a record in the IPFS store that describes it and that
\* "verify --check-sig" accepts; a CID on chain is that record's.  The
\* simulated store keeps this only until the process ends.
SubmittedIsDocumented ==
    mode.backend = "local" \/ crashes = 0 =>
        \A s \in subs : s.via = "submit" =>
            \E d \in pinned :
                /\ Documents(d, s.att)
                /\ CmdVerify(d, mode.jsonschema)
                /\ s.cid \in {NULL, Cid(d)}

\* What process and aggregate_and_submit return names a price the contract
\* has accepted (unless the client is the dry-run one).
ReturnedIsOnChain ==
    mode.client # "dry" =>
        \A x \in returned : \E s \in subs : s.via = "submit" /\ s.att = x.att

\* An open commitment can be revealed with a result and a salt that commit
\* has returned, unless a crash or a lost answer took them.  Only then is the
\* feed blocked.
CommitmentsOpenable ==
    \A f \in Feed \ orphaned :
        commits[f] # NULL =>
            \E o \in openers :
                o.r.feed = f /\ commits[f] = OnChainHash(Attest(o.r).payload, o.salt)

\* Records with one field damaged.
Damaged(d) ==
    {[d EXCEPT !.value = @ + 1], [d EXCEPT !.ts = @ + 1], [d EXCEPT !.params = NULL],
     [d EXCEPT !.payload.value = @ + 1], [d EXCEPT !.payload.feed = NULL]}

\* A pinned record whose value, timestamp, parameters or signed payload was
\* altered afterwards is refused by verify and fails a check on the demo
\* server's page, where it passed all of them before; verify_hashes on the
\* record read back refuses an altered value or timestamp.
DamageDetected ==
    \A d \in pinned :
        /\ HandleVerify(d, mode.jsonschema)
        /\ \A x \in Damaged(d) :
              ~CmdVerify(x, mode.jsonschema) /\ ~HandleVerify(x, mode.jsonschema)
        /\ VerifyHashes(FromDict(d))
        /\ ~VerifyHashes(FromDict([d EXCEPT !.value = @ + 1]))
        /\ ~VerifyHashes(FromDict([d EXCEPT !.ts = @ + 1]))

Aggregating == job # NULL /\ job.batch # NULL

\* Sources that agree, and are more than half by number and by weight, decide
\* the aggregate, whatever the others report and whichever rejection is used,
\* as long as no value is so large that the floats of the rules round it, and
\* with a multiplier that is not negative.  The code checks neither.
MajorityDecides ==
    Aggregating /\ job.batch.cfg.iqr >= 0 /\ job.batch.cfg.mad >= 0
                /\ Values(job.batch.values) \subseteq ExactRange =>
        LET v == job.batch.values
            w == job.batch.cfg.weight
            S == DOMAIN v
        IN  \A x \in Values(v) :
                LET M == {s \in S : v[s] = x}
                IN  2 * Cardinality(M) > Cardinality(S) /\ 2 * Weight(w, M) > Weight(w, S)
                        => job.batch.result.value = x

\* What the tests of the IQR rule expect of the default multiplier: when the
\* others, two or more, agree on a price, one that is 30% above it or more is
\* rejected.
OutlierRejected ==
    Aggregating /\ job.batch.cfg.method = "iqr" /\ job.batch.cfg.iqr = DefaultIqr =>
        LET v == job.batch.values
        IN  \A s \in DOMAIN v : \A x \in Values(v) :
                Cardinality(DOMAIN v) >= 3 /\ x > 0 /\ 10 * v[s] >= 13 * x
                /\ (\A t \in DOMAIN v \ {s} : v[t] = x)
                    => s \in job.batch.result.rejected

=============================================================================
