----------------------------- MODULE MCServices -----------------------------
(* The backend services, one at a time: scenario says which of them runs,  *)
(* the others keep their initial state.  Their elements that are alike (the *)
(* actions, callers, workers ... x1 and x2) are interchangeable; requests  *)
(* and deposits y1 and y2 come in this order.                              *)
EXTENDS
  ActionLedger, RepairProposals, EscrowSettlement, QuestGrants,
  WalletSessions, CronJobs, DrawProofs, LedgerViews, Deployment, BackendReads,
  Amounts, Backfill, TLC

CONSTANTS high, low, x1, x2, y1, y2, proposer

VARIABLE scenario

\* ActionLedger
\* Two rows compete for one transaction, or one row meets two of them.
HashesInPlay ==
  (delivered \cup {call[p].hash : p \in Processes} \cup UNION {carried[a] : a \in Actions}) \ {NoHash}
LedgerBound ==
  Cardinality({a \in Actions : row[a].status # "absent"}) + Cardinality(HashesInPlay) <= 3
\* Two calls are under way at once, the indexer's and the cron's included.
InFlightBound == Cardinality({p \in Processes : call[p] # Idle}) <= 2

\* The requests are alike: y1 is the first of them, y2 the second.
RequestsInOrder ==
  \A p \in Requests : call[p] = Idle /\ call'[p] # Idle => requests' = (IF p = y1 THEN 1 ELSE 2)

MCLedgerNext == LedgerNext /\ LedgerBound' /\ InFlightBound' /\ RequestsInOrder

\* RepairProposals
\* The operators are alike: one of them proposes, x1 and x2 may approve it.
MCRepairNext == RepairNext /\ (proposal' # proposal /\ proposal.status = "absent" => proposal'.proposer = proposer)

\* EscrowSettlement
\* Both final states, and calls with and without a payee to verify.
MCInputs ==
  {[type |-> "release", named |-> TRUE], [type |-> "refund", named |-> FALSE],
   [type |-> "distribute", named |-> TRUE]}

\* A vault that was paid twice shows nothing more.
MCEscrowNext == EscrowNext /\ landed' <= 2

\* CronJobs
\* A database of its own, on the same and on another host; production itself,
\* its port written out, under another user; and what is not written out.
MCScratch ==
  {[Production EXCEPT !.db = "scratch"], [Production EXCEPT !.host = "other"],
   [Production EXCEPT !.port = "5432", !.user = "drill"], [Production EXCEPT !.port = "5433"],
   [Production EXCEPT !.db = "omitted"]}

\* One drill's restore is looked at in a behaviour.
MCBackupNext == BackupNext /\ Cardinality(restored') <= 1

\* QuestGrants
MCTarget == [q1 |-> 1, q2 |-> 2]

\* Only the number of confirmed deposits counts: y1 is confirmed before y2.
MCQuestNext == QuestNext /\ confirmed' # {y2}

\* DrawProofs
\* The payload of the first round names its ledger, that of the second does not.
GoodSeeds == {[round |-> r, commitAt |-> 1, matches |-> TRUE] : r \in DrawRounds}
LateSeeds == {[round |-> 1, commitAt |-> 3, matches |-> TRUE], [round |-> 2, commitAt |-> 3, matches |-> FALSE]}
MCSeeds == {GoodSeeds, LateSeeds}

\* A row of the earlier version, if there is one, is of the first round.
MCProofsInit == ProofsInit /\ named = {1} /\ \A p \in proofs : p.proof.body.round = 1

\* No call reads what a card keeps: the card is opened after the calls.
MCProofsNext ==
  /\ ProofsNext
  /\ (card' = card /\ checks' = checks) \/ \A g \in Generators : gen[g] = NoCall
  /\ gen' = gen \/ card = NoCard

\* LedgerViews
MCViewKinds ==
  {[type |-> "deposit", token |-> "USDC", claimed |-> 2, event |-> 2],
   [type |-> "withdraw", token |-> "XLM", claimed |-> 1, event |-> 1],
   [type |-> "claim", token |-> "USDC", claimed |-> 2, event |-> 1]}

MCFilters == {NoFilter, [status |-> "submitted", type |-> "any"], [status |-> "confirmed", type |-> "deposit"]}

\* The rows and the registry share nothing, and pages do not read what a scrub
\* erases: one of each two moves in a behaviour.
MCViewNext ==
  /\ ViewNext
  /\ registry' = "absent" \/ viewRows' = <<>>
  /\ scrubbed' = 0 \/ walk' = NoWalk

\* Deployment
MCEnvValues ==
  [build |-> [passphrase |-> {"Test Network", Unset}, contractId |-> {Unset}, adminAuthority |-> {Unset},
              expectedAdmin |-> {"G2"}],
   server |-> [passphrase |-> {"Test Network"}, networkPassphrase |-> {"Test Network"}, contractId |-> {"C2", Unset},
               nodeEnv |-> {"development"}],
   web |-> [passphrase |-> {"Test Network", Unset}, contractId |-> {"C2"}, nodeEnv |-> {"development"}]]

MCFirstEnv ==
  [passphrase |-> "Public Network", networkPassphrase |-> Unset, rpcUrl |-> "testnet rpc", contractId |-> "C1",
   nodeEnv |-> Unset, adminAuthority |-> "G1", expectedAdmin |-> Unset]

\* ReleaseChecks
\* The provenance and the entries' lifetimes share nothing: one of them moves
\* in a behaviour.
MCReleaseNext ==
  /\ ReleaseNext
  /\ \/ provenance' = <<>>
     \/ ledgerSeq' = 1 /\ scan' = IdleScan /\ ttlReport' = NoReport

\* CriticalReads
HonestProviders == Providers \ Liars

\* The two balances are alike: the first ledger's is low.
MCCriticalInit == CriticalInit /\ chainBalance[1] = low

\* A liar answers anything, so it may as well answer last.  A sample may be of any
\* closed ledger, so the ledgers that close while samples are collected may as
\* well close before the first of them; so may the flips be reset.
MCCriticalNext ==
  /\ CriticalNext
  /\ \A p \in Liars : samples'[p].asked => \A h \in HonestProviders : samples'[h].asked
  /\ samples' = samples => \A p \in Providers : ~samples[p].asked

\* Amounts
MCDecimalTexts ==
  {[neg |-> n, whole |-> 0, fraction |-> f, places |-> 2] : n \in BOOLEAN, f \in {3, 20}}
  \cup {[neg |-> n, whole |-> 0, fraction |-> 1, places |-> 1] : n \in BOOLEAN}
  \cup {[neg |-> FALSE, whole |-> 0, fraction |-> 125, places |-> 3]}

MCPayloads ==
  {[kind |-> k, raw |-> 1, asset |-> "XLM"] : k \in {"missing", "object", "blank", "fraction"}}
  \cup {[kind |-> "integer", raw |-> r, asset |-> a] : r \in {-1, 7}, a \in {"XLM", "USDC", "blank"}}

\* Backfill
MCRangeEvents == [tx : {1, 2}, decodes : BOOLEAN]
MCRanges == UNION {[1 .. n -> MCRangeEvents] : n \in 0 .. 3}

Scenarios == {
  "ledger", "repair", "escrow", "quests", "sessions", "reminders", "backups",
  "proofs", "views", "deployment", "release", "critical reads", "amounts",
  "cache", "backfill"}

MCInit ==
  /\ scenario \in Scenarios
  /\ LedgerInit
  /\ RepairInit
  /\ EscrowInit
  /\ QuestInit
  /\ SessionInit
  /\ ReminderInit
  /\ BackupInit
  /\ scratch \in MCScratch \cup {Production}
  /\ scenario = "backups" \/ scratch = Production
  /\ MCProofsInit
  /\ scenario = "proofs" \/ (reveals = GoodSeeds /\ proofs = {})
  /\ ViewInit
  /\ DeployInit
  /\ ReleaseInit
  /\ scenario = "release" \/ liveUntil = [k \in LedgerEntries |-> 2]
  /\ MCCriticalInit
  /\ AmountInit
  /\ scenario = "amounts" \/ (purseAsset = "XLM" /\ stakes = [m \in Members |-> 0])
  /\ CacheInit
  /\ BackfillInit
  /\ scenario = "backfill" \/ range = <<>>

\* The variables of a component stay as they are unless it is the one running.
Keeps(s, v) == IF scenario = s THEN TRUE ELSE UNCHANGED v

Frame ==
  /\ UNCHANGED scenario
  /\ Keeps("ledger", ledgerVars)
  /\ Keeps("repair", repairVars)
  /\ Keeps("escrow", escrowVars)
  /\ Keeps("quests", questVars)
  /\ Keeps("sessions", sessionVars)
  /\ Keeps("reminders", reminderVars)
  /\ Keeps("backups", backupVars)
  /\ Keeps("proofs", proofVars)
  /\ Keeps("views", viewVars)
  /\ Keeps("deployment", deployVars)
  /\ Keeps("release", releaseVars)
  /\ Keeps("critical reads", criticalVars)
  /\ Keeps("amounts", amountVars)
  /\ Keeps("cache", cacheVars)
  /\ Keeps("backfill", backfillVars)

MCNext ==
  \/ scenario = "ledger" /\ MCLedgerNext /\ Frame
  \/ scenario = "repair" /\ MCRepairNext /\ Frame
  \/ scenario = "escrow" /\ MCEscrowNext /\ Frame
  \/ scenario = "quests" /\ MCQuestNext /\ Frame
  \/ scenario = "sessions" /\ SessionNext /\ Frame
  \/ scenario = "reminders" /\ ReminderNext /\ Frame
  \/ scenario = "backups" /\ MCBackupNext /\ Frame
  \/ scenario = "proofs" /\ MCProofsNext /\ Frame
  \/ scenario = "views" /\ MCViewNext /\ Frame
  \/ scenario = "deployment" /\ DeployNext /\ Frame
  \/ scenario = "release" /\ MCReleaseNext /\ Frame
  \/ scenario = "critical reads" /\ MCCriticalNext /\ Frame
  \/ scenario = "amounts" /\ AmountNext /\ Frame
  \/ scenario = "cache" /\ CacheNext /\ Frame
  \/ scenario = "backfill" /\ BackfillNext /\ Frame

mcVars == <<
  scenario, ledgerVars, repairVars, escrowVars, questVars, sessionVars,
  reminderVars, backupVars, proofVars, viewVars, deployVars, releaseVars,
  criticalVars, amountVars, cacheVars, backfillVars>>

MCSpec == MCInit /\ [][MCNext]_mcVars

Symmetry == Permutations({x1, x2})

-----------------------------------------------------------------------------
\* What the operators rely on: there is a dump to restore and production is
\* never restored into (backup scripts), parts that attest their deployment
\* agree on it (the manifest), a clean TTL report is ahead of every expiry
\* (check-ttl.ts), sweeps remind once (reminderService.ts), a half restore and a
\* gap of a back-fill have one of their known causes (drill, backfill.ts).
OperationsSafe ==
  /\ RestorableBackupKept
  /\ HalfRestoresAreExcused
  /\ ProductionNeverRestored
  /\ AttestedServerOnOneNetwork
  /\ AttestedPartsAgree
  /\ MainnetIsGoverned
  /\ CleanReportIsAhead
  /\ RemindedOnce
  /\ BackfillComplete

\* What is read is what was written: a quorum read was true at its ledger
\* (critical reads), pages leave no row out and nothing is claimable that
\* was not paid (ledger.ts), a list older than what the database holds is served
\* for one of the causes the cache knows (cacheService.ts), and amounts survive
\* display and division (safe-amount.ts).
ReadsAreTrue ==
  /\ AuthorizedWasTrue
  /\ PagesCoverTheWalk
  /\ ClaimableWasPaid
  /\ OldListsHaveACause
  /\ DisplayReadsBack
  /\ SharesFit

\* What a wallet's portfolio and the registry say stands: only an action older
\* than all that count turns the asset around, and a creation event delivered
\* again does not bring a deactivated pool back (ledger.ts).
StandsFirm ==
  [][/\ OnlyAnOlderActionInverts
     /\ DeactivatedStays]_mcVars
==============================================================================
