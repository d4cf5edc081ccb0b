----------------------------- MODULE Deployment -----------------------------
(***************************************************************************)
(* What is deployed, two machines: the manifest that the parts of a        *)
(* deployment attest, and the checks on the deployed contract.             *)
(***************************************************************************)
EXTENDS Integers, Sequences

(***************************************************************************)
(* The deployment manifest: written by scripts/generate-manifest.ts,       *)
(* compared with the environment by the backend when it starts             *)
(* (backend/src/server.ts), by the web application (core/env.ts of the     *)
(* wallet kit) and by scripts/check-config-drift.ts. Each of the three     *)
(* hosts has its own environment, which operators edit.                    *)
(***************************************************************************)
CONSTANTS
  EnvValues,   \* host -> variable -> the values operators give it
  FirstEnv,    \* the environment every host starts with
  MaxEdits,    \* bound on edits of environments
  MaxCommit    \* bound on commits

ASSUME DeployAssumption == MaxEdits \in Nat /\ MaxCommit \in Nat

Unset == "unset"
Hosts == {"build", "server", "web"}

VARIABLES
  hostEnv,     \* host -> its environment
  edits,
  headCommit,  \* what is checked out on the build host
  onDisk,      \* deployment-manifest.json
  backend,     \* the backend process: whether it runs, its environment and its manifest cache
  webPage,     \* the open page: environment, manifest cache, loader registered, manifest it is verified against
  driftReport  \* config-drift-report.json

deployVars == <<hostEnv, edits, headCommit, onDisk, backend, webPage, driftReport>>

NoManifest == [commit |-> 0]

\* The fields that are compared with the environment (ENV_FIELD_MAP).
ComparedFields == {"passphrase", "rpcUrl", "contractId"}

-----------------------------------------------------------------------------
(* Generating the manifest.                                                  *)

inferNetworkName(passphrase) ==
  CASE passphrase = "Public Network" -> "mainnet"
    [] passphrase = "Test Network" -> "testnet"
    [] OTHER -> "custom"

OrElse(value, fallback) == IF value = Unset THEN fallback ELSE value

Generated ==
  LET e == hostEnv["build"]
      passphrase == OrElse(e.passphrase, "Test Network") IN
  [commit |-> headCommit,
   passphrase |-> passphrase,
   network |-> inferNetworkName(passphrase),
   rpcUrl |-> OrElse(e.rpcUrl, "testnet rpc"),
   contractId |-> e.contractId,
   adminAuthority |-> e.adminAuthority]

\* DeploymentManifestSchema: everything else has a default.
SchemaAccepts(m) == m.contractId # Unset

\* assertGovernanceValid does not throw.
validateManifestGovernance(m, expected) ==
  IF m.adminAuthority = Unset THEN m.network # "mainnet"
  ELSE expected = Unset \/ m.adminAuthority = expected

Unchanged(m) == onDisk # NoManifest /\ onDisk.commit = m.commit

\* Any other outcome exits without writing.
generateManifest ==
  /\ SchemaAccepts(Generated)
  /\ ~Unchanged(Generated)
  /\ validateManifestGovernance(Generated, hostEnv["build"].expectedAdmin)
  /\ onDisk' = Generated
  /\ UNCHANGED <<hostEnv, edits, headCommit, backend, webPage, driftReport>>

-----------------------------------------------------------------------------
(* Comparing it with an environment.                                         *)

validateManifestAgainstEnv(m, e) ==
  {f \in ComparedFields : m[f] # Unset /\ e[f] # Unset /\ m[f] # e[f]}
  \cup {f \in {"environment_guard"} : m.network = "mainnet" /\ OrElse(e.nodeEnv, "production") # "production"}

StoppedBackend == [up |-> FALSE, cache |-> NoManifest, env |-> FirstEnv]

PassphraseRefused(m, e) == e.networkPassphrase # Unset /\ e.networkPassphrase # m.passphrase

\* Without a manifest it runs unattested; with a mismatch it exits.
startServer ==
  /\ ~backend.up
  /\ onDisk # NoManifest =>
       /\ validateManifestAgainstEnv(onDisk, hostEnv["server"]) = {}
       /\ ~PassphraseRefused(onDisk, hostEnv["server"])
  /\ backend' = [up |-> TRUE, cache |-> onDisk, env |-> hostEnv["server"]]
  /\ UNCHANGED <<hostEnv, edits, headCommit, onDisk, webPage, driftReport>>

StopServer ==
  /\ backend.up /\ backend' = StoppedBackend
  /\ UNCHANGED <<hostEnv, edits, headCommit, onDisk, webPage, driftReport>>

ServerAttested == backend.up /\ backend.cache # NoManifest

\* The report is not rewritten when the manifest cannot be loaded.
runDriftCheck(h) ==
  /\ onDisk # NoManifest
  /\ driftReport' = [success |-> validateManifestAgainstEnv(onDisk, hostEnv[h]) = {}]
  /\ UNCHANGED <<hostEnv, edits, headCommit, onDisk, backend, webPage>>

-----------------------------------------------------------------------------
(* The web application.  Its environment is inlined when it is built.        *)

ClosedPage == [open |-> FALSE, env |-> FirstEnv, cache |-> NoManifest, loader |-> FALSE, verified |-> NoManifest]

parseFrontendEnv(e) == e.passphrase # Unset /\ e.rpcUrl # Unset /\ e.contractId # Unset

OpenPage ==
  /\ ~webPage.open
  /\ parseFrontendEnv(hostEnv["web"])
  /\ webPage' = [ClosedPage EXCEPT !.open = TRUE, !.env = hostEnv["web"]]
  /\ UNCHANGED <<hostEnv, edits, headCommit, onDisk, backend, driftReport>>

ClosePage ==
  /\ webPage.open /\ webPage' = ClosedPage
  /\ UNCHANGED <<hostEnv, edits, headCommit, onDisk, backend, driftReport>>

loadManifestAsync ==
  /\ webPage.open /\ webPage.cache = NoManifest /\ onDisk # NoManifest
  /\ webPage' = [webPage EXCEPT !.cache = onDisk]
  /\ UNCHANGED <<hostEnv, edits, headCommit, onDisk, backend, driftReport>>

clearManifestCache ==
  /\ webPage.open /\ webPage' = [webPage EXCEPT !.cache = NoManifest]
  /\ UNCHANGED <<hostEnv, edits, headCommit, onDisk, backend, driftReport>>

registerManifestLoader ==
  /\ webPage.open /\ webPage' = [webPage EXCEPT !.loader = TRUE]
  /\ UNCHANGED <<hostEnv, edits, headCommit, onDisk, backend, driftReport>>

\* _manifestAttestation is kept when no loader is registered or the load throws:
\* in the browser the synchronous load only returns what the cache holds.
attestManifest ==
  /\ webPage.open /\ webPage.loader /\ webPage.cache # NoManifest
  /\ webPage' = [webPage EXCEPT !.verified =
       IF validateManifestAgainstEnv(webPage.cache, webPage.env) = {} THEN webPage.cache ELSE NoManifest]
  /\ UNCHANGED <<hostEnv, edits, headCommit, onDisk, backend, driftReport>>

-----------------------------------------------------------------------------

\* Operators edit a host's environment; a commit is checked out.
EditEnv ==
  /\ edits < MaxEdits /\ edits' = edits + 1
  /\ \E h \in Hosts : \E k \in DOMAIN EnvValues[h] : \E v \in EnvValues[h][k] :
       hostEnv' = [hostEnv EXCEPT ![h][k] = v]
  /\ UNCHANGED <<headCommit, onDisk, backend, webPage, driftReport>>

CheckOut ==
  /\ headCommit < MaxCommit /\ headCommit' = headCommit + 1
  /\ UNCHANGED <<hostEnv, edits, onDisk, backend, webPage, driftReport>>

DeployInit ==
  /\ hostEnv = [h \in Hosts |-> FirstEnv]
  /\ edits = 0 /\ headCommit = 1
  /\ onDisk = NoManifest
  /\ backend = StoppedBackend
  /\ webPage = ClosedPage
  /\ driftReport = [success |-> TRUE]

DeployNext ==
  \/ generateManifest \/ startServer \/ StopServer
  \/ \E h \in Hosts : runDriftCheck(h)
  \/ OpenPage \/ ClosePage \/ loadManifestAsync \/ clearManifestCache \/ registerManifestLoader \/ attestManifest
  \/ EditEnv \/ CheckOut

DeploySpec == DeployInit /\ [][DeployNext]_deployVars

-----------------------------------------------------------------------------

\* A running backend that loaded a manifest has one network: its two passphrase
\* variables, each compared with the manifest alone, agree when both are set.
AttestedServerOnOneNetwork ==
  ServerAttested /\ backend.env.passphrase # Unset /\ backend.env.networkPassphrase # Unset =>
    backend.env.passphrase = backend.env.networkPassphrase

\* The backend and the page, attested against the same manifest at different
\* times and from different hosts, use the same network and the same contract.
AttestedPartsAgree ==
  ServerAttested /\ webPage.verified = backend.cache =>
    \A f \in ComparedFields : backend.env[f] # Unset => webPage.env[f] = backend.env[f]

\* An attested mainnet backend is a production process and its manifest names
\* who administers the contracts (governance is required for mainnet).
MainnetIsGoverned ==
  ServerAttested /\ backend.cache.network = "mainnet" =>
    /\ OrElse(backend.env.nodeEnv, "production") = "production"
    /\ backend.cache.adminAuthority # Unset

(***************************************************************************)
(* Checks on what is deployed: scripts/check-ttl.ts reads how long ledger  *)
(* entries stay alive, in two queries between which ledgers close and      *)
(* entries are extended; lib/deployment-provenance.ts compares a built     *)
(* wasm with its recorded provenance.                                      *)
(***************************************************************************)
CONSTANTS
  Depositors,     \* participants with a position in the pool
  TtlThreshold,   \* warning threshold in ledgers; critical below a tenth of it
  LastLedger,     \* bound on closed ledgers
  MaxLive,        \* bound on an entry's liveUntilLedgerSeq
  Digests,        \* wasm digests
  MaxRecords      \* bound on provenance entries

ASSUME ReleaseAssumption == TtlThreshold \in Nat /\ LastLedger \in Nat /\ MaxLive \in Nat

\* The pool's instance and code, and one position per depositor.
LedgerEntries == {"instance", "code"} \cup Depositors

VARIABLES
  ledgerSeq,
  liveUntil,    \* entry -> last ledger it is live in
  scan,         \* a check in progress: phase, what was read and the ledger it was read at
  ttlReport,    \* the last report: entry -> status, and the ledger it was made at
  provenance,   \* recorded entries of the contract, oldest first
  provenanceOk  \* the outcome of the last verification

releaseVars == <<ledgerSeq, liveUntil, scan, ttlReport, provenance, provenanceOk>>

IdleScan == [phase |-> "idle", latest |-> 0, entries |-> <<>>, json |-> FALSE]
NoReport == [at |-> 0, exit |-> 1, status |-> <<>>]

\* The RPC returns the entries that are live (external).
queryLedgerEntries(keys) == [k \in {k \in keys : liveUntil[k] >= ledgerSeq} |-> liveUntil[k]]

-----------------------------------------------------------------------------

\* The addresses of the database when it answers; test vectors, which have no
\* position in the pool, when it does not.
fetchAddressesFromDb == {Depositors, {}}

\* The first query: the instance and the positions.
beginScan ==
  /\ scan.phase = "idle"
  /\ \E addresses \in fetchAddressesFromDb, json \in BOOLEAN :
       LET found == queryLedgerEntries({"instance"} \cup addresses) IN
       scan' = [phase |-> IF "instance" \in DOMAIN found THEN "code" ELSE "report",
                latest |-> ledgerSeq, entries |-> found, json |-> json]
  /\ UNCHANGED <<ledgerSeq, liveUntil, ttlReport, provenance, provenanceOk>>

\* The wasm hash is in the instance: the second query reads the code entry.
processInstanceWasm ==
  /\ scan.phase = "code"
  /\ LET found == queryLedgerEntries({"code"}) IN
     scan' = [scan EXCEPT !.phase = "report", !.latest = ledgerSeq,
       !.entries = [k \in DOMAIN scan.entries \cup DOMAIN found |-> IF k \in DOMAIN found THEN found[k] ELSE scan.entries[k]]]
  /\ UNCHANGED <<ledgerSeq, liveUntil, ttlReport, provenance, provenanceOk>>

\* A query that throws ends the script.
QueryFails ==
  /\ scan.phase # "idle" /\ scan' = IdleScan
  /\ UNCHANGED <<ledgerSeq, liveUntil, ttlReport, provenance, provenanceOk>>

checkTTL(k) ==
  IF k \notin DOMAIN scan.entries THEN "NOT_FOUND"
  ELSE LET ttl == scan.entries[k] - scan.latest IN
       IF ttl <= 0 \/ 10 * ttl < TtlThreshold THEN "CRITICAL"
       ELSE IF ttl < TtlThreshold THEN "WARNING" ELSE "OK"

\* In JSON mode the script does not exit with an error.
ReportTTL ==
  /\ scan.phase = "report"
  /\ LET status == [k \in LedgerEntries |-> checkTTL(k)]
         critical == \E k \in LedgerEntries : status[k] = "CRITICAL" IN
     ttlReport' = [at |-> scan.latest, exit |-> IF critical /\ ~scan.json THEN 1 ELSE 0,
                   status |-> status, json |-> scan.json]
  /\ scan' = IdleScan
  /\ UNCHANGED <<ledgerSeq, liveUntil, provenance, provenanceOk>>

-----------------------------------------------------------------------------
(* Provenance.                                                               *)

RecordProvenance ==
  /\ Len(provenance) < MaxRecords
  /\ \E d \in Digests : provenance' = Append(provenance, d)
  /\ UNCHANGED <<ledgerSeq, liveUntil, scan, ttlReport, provenanceOk>>

\* The first entry of the contract's name.
findEntry == IF provenance = <<>> THEN {} ELSE {provenance[1]}

verifyProvenance(recorded, fresh) == fresh = recorded

verifyProvenanceForContract(fresh) == \E recorded \in findEntry : verifyProvenance(recorded, fresh)

VerifyRelease ==
  /\ \E fresh \in Digests :
       provenanceOk' = verifyProvenanceForContract(fresh)
  /\ UNCHANGED <<ledgerSeq, liveUntil, scan, ttlReport, provenance>>

-----------------------------------------------------------------------------
(* The network (external): ledgers close, entries are extended.              *)

CloseLedger ==
  /\ ledgerSeq < LastLedger /\ ledgerSeq' = ledgerSeq + 1
  /\ UNCHANGED <<liveUntil, scan, ttlReport, provenance, provenanceOk>>

ExtendTtl ==
  /\ \E k \in LedgerEntries :
       /\ liveUntil[k] >= ledgerSeq /\ liveUntil[k] < MaxLive
       /\ liveUntil' = [liveUntil EXCEPT ![k] = MaxLive]
  /\ UNCHANGED <<ledgerSeq, scan, ttlReport, provenance, provenanceOk>>

ReleaseInit ==
  /\ ledgerSeq = 1
  /\ liveUntil \in [LedgerEntries -> {2, 4}]
  /\ scan = IdleScan /\ ttlReport = NoReport
  /\ provenance = <<>> /\ provenanceOk = FALSE

ReleaseNext ==
  \/ beginScan \/ processInstanceWasm \/ QueryFails \/ ReportTTL
  \/ RecordProvenance \/ VerifyRelease
  \/ CloseLedger \/ ExtendTtl

ReleaseSpec == ReleaseInit /\ [][ReleaseNext]_releaseVars

-----------------------------------------------------------------------------

\* A report that exits 0 (not in JSON mode) gives warning in time: whatever it
\* found stays alive for a tenth of the threshold after the ledger of its last
\* query, however many ledgers closed between the two queries.
CleanReportIsAhead ==
  ttlReport # NoReport /\ ttlReport.exit = 0 /\ ~ttlReport.json =>
    \A k \in LedgerEntries :
      ttlReport.status[k] # "NOT_FOUND" => 10 * (liveUntil[k] - ttlReport.at) >= TtlThreshold
=============================================================================
